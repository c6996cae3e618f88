------------------------- MODULE AppDirectoryProofs -------------------------
(***************************************************************************)
(* Proofs about AppDirectory, for every vocabulary, every set of payloads  *)
(* and any number of runs.                                                 *)
(*                                                                         *)
(* TypeInv says where a run is in its plan and in write_flutter_source.    *)
(* UnsupportedInv, ImportsInv, and OwnInv with PurgedInv and ArchiveInv    *)
(* strengthen the four properties, each by what a file in the directory    *)
(* says of the others: whose it is, and what was written before it.        *)
(***************************************************************************)
EXTENDS AppDirectory, FiniteSetTheorems, SequenceTheorems,
        WellFoundedInduction, TLAPS

-----------------------------------------------------------------------------
(* Writes.                                                                 *)

\* A write over what is there, as it shows in files and dirs.
Put(r, w) ==
    /\ files' = Over(files, By(r, w))
    /\ dirs \cup {Root(f) : f \in DOMAIN w} \subseteq dirs'
    /\ dirs' \subseteq {"docs", "source", "backend"} \cup dirs

LEMMA RootIsDir ==
    ASSUME NEW f
    PROVE  Root(f) \in {"docs", "source", "backend"}
BY DEF Root

LEMMA WriteIsPut ==
    ASSUME NEW r, NEW w, Write(r, w)
    PROVE  Put(r, w)
BY RootIsDir DEF Write, Put

\* Nothing is lost by a write, and what is written is the run's.
LEMMA Written ==
    ASSUME NEW r, NEW w, Put(r, w)
    PROVE  /\ DOMAIN files' = DOMAIN files \cup DOMAIN w
           /\ \A f \in DOMAIN w : files'[f].by = r /\ files'[f].as = w[f]
           /\ \A f \in DOMAIN files \ DOMAIN w : files'[f] = files[f]
<1> DEFINE b == By(r, w)
<1>1. DOMAIN b = DOMAIN w
    BY DEF By
<1>2. \A f \in DOMAIN w : b[f].by = r /\ b[f].as = w[f]
    BY DEF By
<1> HIDE DEF b
<1>3. files' = [f \in DOMAIN files \cup DOMAIN b |->
                   IF f \in DOMAIN b THEN b[f] ELSE files[f]]
    BY DEF Put, Over, b
<1> QED  BY <1>1, <1>2, <1>3

LEMMA PlainWrite ==
    ASSUME NEW set
    PROVE  /\ DOMAIN Plainly(set) = set
           /\ \A f \in set : Plainly(set)[f] = f.name
BY DEF Plainly

LEMMA OneWrite ==
    ASSUME NEW f, NEW text
    PROVE  DOMAIN One(f, text) = {f} /\ One(f, text)[f] = text
BY DEF One

\* The intake's write, and the directories it makes.
LEMMA IntakePuts ==
    ASSUME NEW r, Intake(r)
    PROVE  Put(r, Plainly(WriteAppBrief))
<1>1. ASSUME NEW f \in DOMAIN Plainly(WriteAppBrief)
      PROVE  Root(f) = "docs"
    BY PlainWrite DEF WriteAppBrief, Docs, AllAt, At, Root
<1>2. /\ files' = Over(files, By(r, Plainly(WriteAppBrief)))
      /\ dirs' = dirs \cup {"docs", "source"}
    BY DEF Intake
<1> HIDE DEF WriteAppBrief
<1> QED  BY <1>1, <1>2 DEF Put

-----------------------------------------------------------------------------
(* Requests and plans.                                                     *)

Names == Seq(Words \cup Separators)

IsRequest(q) ==
    /\ q = [type |-> q.type, backend |-> q.backend, stack |-> q.stack,
            features |-> q.features]
    /\ q.stack = [c \in Categories |-> q.stack[c]]
    /\ q.features \in Seq(Names)

Normalized(q) == q.type # "" /\ q.stack # NoStack

\* Normalising makes a request of a payload, and leaves a normalised one alone.
LEMMA NormalizeTwice ==
    ASSUME NEW q, IsRequest(q)
    PROVE  /\ IsRequest(Normalize(q)) /\ Normalized(Normalize(q))
           /\ Normalized(q) => Normalize(q) = q
<1>1. LegacyStack(q.backend) =
         [c \in Categories |-> LegacyStack(q.backend)[c]]
    BY DEF LegacyStack, NoStack
<1>2. LegacyStack(q.backend) # NoStack
    <2>1. LegacyStack(q.backend)["mobile"] = "flutter"
        BY DEF LegacyStack, NoStack, Categories
    <2>2. NoStack["mobile"] = ""
        BY DEF NoStack, Categories
    <2> QED  BY <2>1, <2>2
<1> DEFINE type == IF q.type = "" THEN "mobile_app" ELSE q.type
           stack == IF q.stack = NoStack THEN LegacyStack(q.backend)
                    ELSE q.stack
           n == [type |-> type, backend |-> q.backend, stack |-> stack,
                 features |-> q.features]
<1>3. Normalize(q) = n
    <2>1. Normalize(q) = [q EXCEPT !.type = type, !.stack = stack]
        BY DEF Normalize
    <2> HIDE DEF type, stack
    <2>2. [q EXCEPT !.type = type, !.stack = stack] = n
        <3>1. q = [type |-> q.type, backend |-> q.backend, stack |-> q.stack,
                   features |-> q.features]
            BY DEF IsRequest
        <3> DEFINE m == [q EXCEPT !.type = type]
        <3>2. m = [type |-> type, backend |-> q.backend, stack |-> q.stack,
                   features |-> q.features]
            BY <3>1
        <3>3. [q EXCEPT !.type = type, !.stack = stack] =
                  [m EXCEPT !.stack = stack]
            OBVIOUS
        <3> HIDE DEF m
        <3>4. [m EXCEPT !.stack = stack] =
                  [type |-> type, backend |-> q.backend, stack |-> stack,
                   features |-> q.features]
            BY <3>2
        <3> QED  BY <3>3, <3>4
    <2> QED  BY <2>1, <2>2
<1>4. /\ type # "" /\ stack # NoStack
      /\ stack = [c \in Categories |-> stack[c]]
    BY <1>1, <1>2 DEF IsRequest
<1>5. Normalized(q) => type = q.type /\ stack = q.stack
    BY DEF Normalized
<1> HIDE DEF type, stack
<1>6. n.type = type /\ n.stack = stack /\ n.features = q.features
      /\ n.backend = q.backend
    OBVIOUS
<1>7. IsRequest(n)
    BY <1>4, <1>6 DEF IsRequest
<1>8. type = q.type /\ stack = q.stack => n = q
    BY DEF IsRequest
<1> HIDE DEF n
<1> QED  BY <1>3, <1>4, <1>5, <1>6, <1>7, <1>8 DEF Normalized

\* What create_generation_job makes of a payload.
LEMMA Requested ==
    ASSUME NEW p \in Payloads, NEW q,
           q = [Normalize(p) EXCEPT !.features =
                   IF @ = <<>> THEN DefaultFeatures ELSE @]
    PROVE  IsRequest(q) /\ Normalized(q)
<1>1. IsRequest(p)
    BY AppDirectoryAssumption DEF IsRequest, Names
<1> DEFINE n == Normalize(p)
           features == IF n.features = <<>> THEN DefaultFeatures
                       ELSE n.features
<1>2. IsRequest(n) /\ Normalized(n)
    BY <1>1, NormalizeTwice
<1>3. features \in Seq(Names)
    BY <1>2, AppDirectoryAssumption DEF Names, IsRequest
<1>4. q = [n EXCEPT !.features = features]
    OBVIOUS
<1> HIDE DEF n, features
<1>5. q = [type |-> n.type, backend |-> n.backend, stack |-> n.stack,
           features |-> features]
    BY <1>2, <1>4 DEF IsRequest
<1>6. q.type = n.type /\ q.backend = n.backend /\ q.stack = n.stack
      /\ q.features = features
    BY <1>5
<1>7. n.stack = [c \in Categories |-> n.stack[c]]
    BY <1>2 DEF IsRequest
<1>8. IsRequest(q)
    BY <1>3, <1>5, <1>6, <1>7 DEF IsRequest
<1> QED  BY <1>2, <1>6, <1>8 DEF Normalized

LEMMA WorkflowLengths ==
    ASSUME NEW type \in DOMAIN Workflows
    PROVE  /\ Len(Workflows[type]) \in Nat /\ Len(Workflows[type]) >= 1
           /\ DOMAIN Workflows[type] = 1..Len(Workflows[type])
<1>1. type \in {"mobile_app", "fullstack_saas"}
    BY DEF Workflows
<1>2. CASE type = "mobile_app"
    <2>1. Workflows[type] = MobileApp
        BY <1>2 DEF Workflows
    <2>2. Len(MobileApp) = 11 /\ DOMAIN MobileApp = 1..11
        BY DEF MobileApp
    <2> QED  BY <2>1, <2>2
<1>3. CASE type = "fullstack_saas"
    <2>1. Workflows[type] = FullstackSaas
        BY <1>3 DEF Workflows
    <2>2. Len(FullstackSaas) = 12 /\ DOMAIN FullstackSaas = 1..12
        BY DEF FullstackSaas
    <2> QED  BY <2>1, <2>2
<1> QED  BY <1>1, <1>2, <1>3

LEMMA Built ==
    ASSUME NEW q, Build(q) # NoPlan
    PROVE  /\ q.type \in DOMAIN Workflows /\ Build(q) = Selection(q)
           /\ Len(Build(q)) = Len(Workflows[q.type])
           /\ Len(Build(q)) \in Nat /\ Len(Build(q)) >= 1
           /\ \A i \in 1..Len(Build(q)) : Build(q)[i] # Unresolved
<1>1. /\ q.type \in DOMAIN Workflows /\ Build(q) = Selection(q)
      /\ \A i \in 1..Len(Workflows[q.type]) : Selection(q)[i] # Unresolved
    BY DEF Build
<1>2. Len(Selection(q)) = Len(Workflows[q.type])
    BY <1>1, WorkflowLengths DEF Selection
<1> QED  BY <1>1, <1>2, WorkflowLengths

LEMMA FullPlanLength == Len(FullPlan) = 11 /\ FullPlan # NoPlan
BY DEF FullPlan, NoPlan

\* A request without a module for a step has no plan.
LEMMA UnsupportedHasNoPlan ==
    ASSUME NEW q, Unsupported(q)
    PROVE  Build(q) = NoPlan
<1> SUFFICES ASSUME q.type \in DOMAIN Workflows
             PROVE  Build(q) = NoPlan
    BY DEF Build
<1>1. PICK s \in Selects, i \in 1..Len(Workflows[q.type]) :
          /\ Workflows[q.type][i] = s[1]
          /\ q.stack[s[2]] \notin DOMAIN StackModules[s[2]]
    BY DEF Unsupported
<1> DEFINE categories == {c \in Categories : <<s[1], c>> \in Selects}
<1>2. categories = {s[2]}
    BY DEF Selects, Categories
<1>3. (CHOOSE c \in categories : TRUE) = s[2]
    BY <1>2
<1>4. ResolveSelectedModule(s[1], q.stack) = Unresolved
    BY <1>1, <1>2, <1>3 DEF ResolveSelectedModule
<1>5. Selection(q)[i] = Unresolved
    BY <1>1, <1>4 DEF Selection
<1> QED  BY <1>5 DEF Build

-----------------------------------------------------------------------------
(* Types.                                                                  *)
\* A run comes to write_flutter_source with nothing of it written, and leaves
\* it with all written.
DevOK(r) ==
    /\ at[r] < 5 \/ as[r] = "modular" => app[r] = <<0, 0>>
    /\ as[r] = "full" /\ at[r] > 5 => Whole(r)

\* Where a run is in its plan.
RunOK(r) ==
    /\ pc[r] # "idle" => IsRequest(req[r]) /\ Normalized(req[r])
    /\ pc[r] \in {"idle", "queued", "plan"} => plan[r] = NoPlan /\ at[r] = 1
    /\ pc[r] \in {"step", "export", "succeeded"} =>
          /\ plan[r] # NoPlan
          /\ as[r] = "modular" => plan[r] = Build(req[r])
          /\ as[r] = "full" => plan[r] = FullPlan
    /\ pc[r] = "step" => at[r] <= Len(plan[r])
    /\ pc[r] \in {"export", "succeeded"} => at[r] = Len(plan[r]) + 1
    /\ DevOK(r)

\* Where it can be in write_flutter_source.
AppIn(features, place) ==
    \/ place \in {0} \X (0..Len(SharedOrder) - 1)
    \/ place \in (1..Len(Keys(features))) \X (0..Len(PartOrder) - 1)
    \/ place = <<Len(Keys(features)) + 1, 0>>

TypeInv ==
    /\ TypeOK
    /\ DOMAIN req = Runs /\ DOMAIN plan = Runs /\ DOMAIN at = Runs
    /\ DOMAIN app = Runs
    /\ archive = {} \/ \E a : archive = {a}
    /\ \A r \in Runs : RunOK(r)

LEMMA Lengths == Len(SharedOrder) = 18 /\ Len(PartOrder) = 12
BY DEF SharedOrder, PartOrder

LEMMA TypeInit == Init => TypeInv
<1> SUFFICES ASSUME Init PROVE TypeInv
    OBVIOUS
<1>1. Cardinality(archive) <= 1
    <2>1. archive = {} /\ Cardinality({}) = 0
        BY FS_EmptySet DEF Init
    <2> QED  BY <2>1
<1>2. Len(NoPlan) = 0
    BY DEF NoPlan
<1>3. \A r \in Runs : at[r] \in 1..Len(plan[r]) + 1
    <2>1. ASSUME NEW r \in Runs PROVE at[r] = 1 /\ plan[r] = NoPlan
        BY DEF Init
    <2> QED  BY <1>2, <2>1
<1>4. \A r \in Runs : app[r] \in {0} \X (0..Len(SharedOrder) - 1)
    <2>1. ASSUME NEW r \in Runs PROVE app[r] = <<0, 0>>
        BY DEF Init
    <2> QED  BY <2>1, Lengths
<1>5. TypeOK
    <2>1. faults \in 0..MaxFaults
        BY AppDirectoryAssumption DEF Init
    <2>2. \A f \in DOMAIN files : files[f].by \in Runs /\ Root(f) \in dirs
        BY DEF Init, NoFiles
    <2>3. /\ dirs \subseteq {"docs", "source", "backend"}
          /\ fit \subseteq Runs /\ shared \subseteq Runs
          /\ purged \subseteq Runs
          /\ pc \in [Runs -> {"idle", "queued"} \cup Working \cup Ends]
          /\ as \in [Runs -> Modes]
        BY DEF Init, Modes
    <2> QED  BY <1>1, <1>3, <1>4, <2>1, <2>2, <2>3 DEF TypeOK
<1>6. \A r \in Runs : DevOK(r)
    <2> SUFFICES ASSUME NEW r \in Runs PROVE DevOK(r)
        OBVIOUS
    <2>1. at[r] = 1 /\ app[r] = <<0, 0>>
        BY DEF Init
    <2>2. at[r] < 5 /\ ~(at[r] > 5)
        BY <2>1
    <2> QED  BY <2>1, <2>2 DEF DevOK
<1>7. \A r \in Runs : RunOK(r)
    BY <1>6 DEF Init, RunOK
<1> QED  BY <1>5, <1>7 DEF Init, TypeInv

\* A run keeps to its own place, request, mode and plan.
Others(r) ==
    \A t \in Runs \ {r} :
        /\ pc'[t] = pc[t] /\ req'[t] = req[t] /\ as'[t] = as[t]
        /\ plan'[t] = plan[t] /\ at'[t] = at[t] /\ app'[t] = app[t]

LEMMA OthersStay ==
    ASSUME TypeInv, NEW r \in Runs, RunStep(r)
    PROVE  /\ Others(r)
           /\ DOMAIN req' = Runs /\ DOMAIN plan' = Runs /\ DOMAIN at' = Runs
           /\ DOMAIN app' = Runs /\ as' \in [Runs -> Modes]
<1> USE DEF TypeInv, TypeOK, Goto, locals, Others
<1>1. CASE Submit(r)
    BY <1>1 DEF Submit
<1>2. CASE Intake(r)
    <2>1. /\ UNCHANGED <<req, plan, at, app>>
          /\ pc' = [pc EXCEPT ![r] = "plan"]
        BY <1>2 DEF Intake
    <2>2. PICK mode \in Modes : as' = [as EXCEPT ![r] = mode]
        BY <1>2 DEF Intake
    <2> QED  BY <2>1, <2>2
<1>3. CASE PlanModular(r)
    BY <1>3 DEF PlanModular
<1>4. CASE PlanFull(r)
    BY <1>4 DEF PlanFull
<1>5. CASE ModuleStep(r)
    BY <1>5 DEF ModuleStep, Advance
<1>6. CASE PhaseStep(r)
    BY <1>6 DEF PhaseStep, Advance
<1>7. CASE PhaseRaises(r)
    BY <1>7 DEF PhaseRaises
<1>8. CASE DevShared(r)
    BY <1>8 DEF DevShared
<1>9. CASE DevPart(r)
    BY <1>9 DEF DevPart
<1>10. CASE DevReport(r)
    BY <1>10 DEF DevReport, Advance
<1>11. CASE Ended(r)
    BY <1>11 DEF Ended
<1>12. CASE ExportModular(r)
    BY <1>12 DEF ExportModular
<1>13. CASE GateShut(r)
    BY <1>13 DEF GateShut
<1>14. CASE ExportFull(r)
    BY <1>14 DEF ExportFull
<1> QED
    BY <1>1, <1>2, <1>3, <1>4, <1>5, <1>6, <1>7, <1>8, <1>9, <1>10, <1>11,
       <1>12, <1>13, <1>14
    DEF RunStep

\* What a step does to the directory: nothing, or one write.
LEMMA RunWrites ==
    ASSUME NEW r \in Runs, RunStep(r)
    PROVE  UNCHANGED <<files, dirs>> \/ \E w : Put(r, w)
<1>1. CASE Intake(r)
    BY <1>1, IntakePuts
<1>2. CASE ~Intake(r)
    <2>1. UNCHANGED tree \/ \E w : Write(r, w)
        BY <1>2
        DEF RunStep, Submit, PlanModular, PlanFull, ModuleStep, PhaseStep,
            PhaseRaises, DevShared, DevPart, DevReport, Ended, ExportModular,
            GateShut, ExportFull
    <2> QED  BY <2>1, WriteIsPut DEF tree
<1> QED  BY <1>1, <1>2

\* The files a run has written are its own, whatever it writes, and below
\* directories that are there.
LEMMA FilesType ==
    ASSUME TypeInv, NEW r \in Runs, NEW w, Put(r, w)
    PROVE  /\ \A f \in DOMAIN files' :
                 files'[f].by \in Runs /\ Root(f) \in dirs'
           /\ dirs' \subseteq {"docs", "source", "backend"}
<1>1. dirs' \subseteq {"docs", "source", "backend"}
    BY DEF TypeInv, TypeOK, Put
<1>2. ASSUME NEW f \in DOMAIN files'
      PROVE  files'[f].by \in Runs /\ Root(f) \in dirs'
    <2>1. CASE f \in DOMAIN w
        <3>1. files'[f].by = r
            BY <2>1, Written
        <3>2. Root(f) \in dirs'
            BY <2>1 DEF Put
        <3> QED  BY <3>1, <3>2
    <2>2. CASE f \in DOMAIN files \ DOMAIN w
        <3>1. files'[f] = files[f]
            BY <2>2, Written
        <3>2. files[f].by \in Runs /\ Root(f) \in dirs
            BY <2>2 DEF TypeInv, TypeOK
        <3>3. dirs \subseteq dirs'
            BY DEF Put
        <3> QED  BY <3>1, <3>2, <3>3
    <2> QED  BY <2>1, <2>2, Written
<1> QED  BY <1>1, <1>2

LEMMA PlanLength ==
    ASSUME TypeInv, NEW r \in Runs, pc[r] = "step" \/ plan[r] = FullPlan
    PROVE  Len(plan[r]) \in Nat /\ Len(plan[r]) >= 1
<1>1. CASE plan[r] = FullPlan
    BY <1>1, FullPlanLength
<1>2. CASE pc[r] = "step" /\ plan[r] # FullPlan
    <2>1. Build(req[r]) # NoPlan /\ plan[r] = Build(req[r])
        BY <1>2 DEF TypeInv, TypeOK, RunOK, Modes
    <2> QED  BY <2>1, Built
<1> QED  BY <1>1, <1>2

LEMMA KeyCount ==
    ASSUME NEW features \in Seq(Names)
    PROVE  Len(Keys(features)) \in Nat /\ Len(Keys(features)) >= 1
<1>1. CASE features = <<>>
    <2>1. Keys(features) = <<Home>>
        BY <1>1 DEF Keys
    <2>2. Len(<<Home>>) = 1
        OBVIOUS
    <2> QED  BY <2>1, <2>2
<1>2. CASE features # <<>>
    <2>1. Len(features) \in Nat /\ Len(features) >= 1
        BY <1>2, EmptySeq
    <2>2. Keys(features) = [i \in 1..Len(features) |-> FeatureKey(features[i])]
        BY <1>2 DEF Keys
    <2>3. Len(Keys(features)) = Len(features)
        BY <2>1, <2>2
    <2> QED  BY <2>1, <2>3
<1> QED  BY <1>1, <1>2

LEMMA FullSteps ==
    /\ Len(FullPlan) = 11
    /\ FullPlan[1] = "02_business_analysis"
    /\ FullPlan[2] = "03_backend_design"
    /\ FullPlan[3] = "04_architecture_design"
    /\ FullPlan[4] = "05_uiux_design"
    /\ FullPlan[5] = "06_flutter_dev"
    /\ FullPlan[6] = "07_static_qa" /\ FullPlan[7] = "08_refactor_repair"
    /\ FullPlan[8] = "07_static_qa" /\ FullPlan[9] = "09_runtime_test"
    /\ FullPlan[10] = "10_security_audit"
    /\ FullPlan[11] = "11_release_review"
BY DEF FullPlan

\* A run at a step is within its plan, and in the mode "full" at 5 for the
\* phase 06 only.
LEMMA StepPlace ==
    ASSUME TypeInv, NEW r \in Runs, pc[r] = "step"
    PROVE  /\ Len(plan[r]) \in Nat /\ at[r] \in 1..Len(plan[r])
           /\ IsRequest(req[r]) /\ Normalized(req[r])
           /\ Len(Keys(req[r].features)) \in Nat
           /\ Len(Keys(req[r].features)) >= 1
           /\ plan[r] # NoPlan
           /\ as[r] = "modular" => plan[r] = Build(req[r])
           /\ as[r] = "full" =>
                 /\ plan[r] = FullPlan /\ at[r] \in 1..11
                 /\ Phase(r) = "06_flutter_dev" <=> at[r] = 5
<1>1. Len(plan[r]) \in Nat
    BY PlanLength
<1>2. RunOK(r) /\ at[r] \in 1..Len(plan[r]) + 1
    BY DEF TypeInv, TypeOK
<1>3. at[r] \in 1..Len(plan[r])
    BY <1>1, <1>2 DEF RunOK
<1>4. IsRequest(req[r]) /\ Normalized(req[r]) /\ plan[r] # NoPlan
      /\ (as[r] = "modular" => plan[r] = Build(req[r]))
      /\ (as[r] = "full" => plan[r] = FullPlan)
    BY <1>2 DEF RunOK
<1>5. /\ Len(Keys(req[r].features)) \in Nat
      /\ Len(Keys(req[r].features)) >= 1
    BY <1>4, KeyCount DEF IsRequest
<1>6. ASSUME as[r] = "full"
      PROVE  at[r] \in 1..11 /\ (Phase(r) = "06_flutter_dev" <=> at[r] = 5)
    <2>1. plan[r] = FullPlan /\ Len(FullPlan) = 11
        BY <1>4, <1>6, FullSteps
    <2>2. at[r] \in 1..11
        BY <1>3, <2>1
    <2>3. \/ at[r] = 1 \/ at[r] = 2 \/ at[r] = 3 \/ at[r] = 4 \/ at[r] = 5
          \/ at[r] = 6 \/ at[r] = 7 \/ at[r] = 8 \/ at[r] = 9 \/ at[r] = 10
          \/ at[r] = 11
        BY <2>2
    <2> QED  BY <2>1, <2>2, <2>3, FullSteps DEF Phase
<1> QED  BY <1>1, <1>3, <1>4, <1>5, <1>6

\* The steps that end with Advance.
LEMMA StepTypes ==
    ASSUME TypeInv, NEW r \in Runs,
           ModuleStep(r) \/ PhaseStep(r) \/ DevReport(r)
    PROVE  /\ RunOK(r)' /\ at'[r] \in 1..Len(plan'[r]) + 1
           /\ UNCHANGED <<req, app>>
<1>1. /\ pc[r] = "step" /\ UNCHANGED <<req, as, plan, app>> /\ Advance(r)
    BY DEF ModuleStep, PhaseStep, DevReport, InPhase, InDev
<1>2. Len(plan[r]) \in Nat /\ at[r] \in 1..Len(plan[r])
    BY <1>1, StepPlace
<1>3. /\ at'[r] = at[r] + 1
      /\ pc'[r] = IF at[r] = Len(plan[r]) THEN "export" ELSE "step"
    BY <1>1 DEF Advance, Goto, TypeInv, TypeOK
<1>4. RunOK(r)
    BY DEF TypeInv
<1>5. at'[r] \in 1..Len(plan'[r]) + 1
    BY <1>1, <1>2, <1>3
<1>6. /\ pc'[r] = "step" => at'[r] <= Len(plan'[r])
      /\ pc'[r] = "export" => at'[r] = Len(plan'[r]) + 1
      /\ pc'[r] \in {"step", "export"}
    BY <1>1, <1>2, <1>3
<1>7. (at'[r] < 5 \/ as'[r] = "modular") => app'[r] = <<0, 0>>
    <2>1. DevOK(r)
        BY <1>4 DEF RunOK
    <2>2. at[r] \in Nat
        BY <1>2
    <2>3. at'[r] < 5 => at[r] < 5
        BY <1>3, <2>2
    <2> QED  BY <1>1, <2>1, <2>3 DEF DevOK
<1>8. ASSUME as'[r] = "full", at'[r] > 5 PROVE Whole(r)'
    <2>1. as[r] = "full" /\ at[r] \in Nat /\ at[r] >= 5
        BY <1>1, <1>2, <1>3, <1>8
    <2>2. CASE at[r] = 5
        <3>1. Phase(r) = "06_flutter_dev"
            BY <1>1, <2>1, <2>2, StepPlace
        <3>2. DevReport(r)
            BY <2>1, <3>1 DEF ModuleStep, PhaseStep, InPhase, IsDev
        <3> QED  BY <1>1, <3>2 DEF DevReport, Whole
    <2>3. CASE at[r] > 5
        BY <1>1, <1>4, <2>1, <2>3 DEF RunOK, DevOK, Whole
    <2> QED  BY <2>1, <2>2, <2>3
<1>9. RunOK(r)'
    <2>1. DevOK(r)'
        BY <1>7, <1>8 DEF DevOK
    <2> QED  BY <1>1, <1>4, <1>6, <2>1 DEF RunOK
<1> QED  BY <1>1, <1>5, <1>9

\* The places of write_flutter_source.
LEMMA DevTypes ==
    ASSUME TypeInv, NEW r \in Runs, DevShared(r) \/ DevPart(r)
    PROVE  /\ RunOK(r)' /\ at'[r] \in 1..Len(plan'[r]) + 1
           /\ UNCHANGED req /\ AppIn(req[r].features, app'[r])
<1> DEFINE c == Len(Keys(req[r].features))
<1>1. /\ pc[r] = "step" /\ as[r] = "full" /\ UNCHANGED <<pc, req, as, plan, at>>
    BY DEF DevShared, DevPart, InDev, IsDev
<1>2. /\ c \in Nat /\ c >= 1 /\ at[r] = 5
    BY <1>1, StepPlace DEF DevShared, DevPart, InDev, IsDev
<1>3. AppIn(req[r].features, app[r])
    BY DEF TypeInv, TypeOK, AppIn
<1>10. ASSUME NEW x
       PROVE  AppIn(req[r].features, x) <=>
                  \/ x \in {0} \X (0..17)
                  \/ x \in (1..c) \X (0..11)
                  \/ x = <<c + 1, 0>>
    BY Lengths DEF AppIn
<1> HIDE DEF c
<1>4. ASSUME DevShared(r) PROVE AppIn(req[r].features, app'[r])
    <2> DEFINE n == app[r][2] + 1
    <2>1. app[r] \in {0} \X (0..17)
        <3>1. app[r][1] = 0
            BY <1>4 DEF DevShared
        <3>2. app[r] \notin (1..c) \X (0..11) /\ app[r] # <<c + 1, 0>>
            BY <1>2, <3>1
        <3> QED  BY <1>3, <1>10, <3>2
    <2>2. n \in 1..18
        BY <2>1
    <2>3. app'[r] = IF n = 18 THEN <<1, 0>> ELSE <<0, n>>
        BY <1>4, Lengths DEF DevShared, TypeInv
    <2> HIDE DEF n
    <2>4. CASE n = 18
        <3>1. app'[r] = <<1, 0>>
            BY <2>3, <2>4
        <3>2. <<1, 0>> \in (1..c) \X (0..11)
            BY <1>2
        <3> QED  BY <1>10, <3>1, <3>2
    <2>5. CASE n # 18
        <3>1. app'[r] = <<0, n>>
            BY <2>3, <2>5
        <3>2. <<0, n>> \in {0} \X (0..17)
            BY <2>2, <2>5
        <3> QED  BY <1>10, <3>1, <3>2
    <2> QED  BY <2>4, <2>5
<1>5. ASSUME DevPart(r) PROVE AppIn(req[r].features, app'[r])
    <2> DEFINE i == app[r][1]
               n == app[r][2] + 1
    <2>1. app[r] \in (1..c) \X (0..11)
        <3>1. app[r][1] \in 1..c
            BY <1>5 DEF DevPart, c
        <3>2. app[r] \notin {0} \X (0..17) /\ app[r] # <<c + 1, 0>>
            BY <1>2, <3>1
        <3> QED  BY <1>3, <1>10, <3>2
    <2>2. i \in 1..c /\ n \in 1..12
        BY <2>1
    <2>3. app'[r] = IF n = 12 THEN <<i + 1, 0>> ELSE <<i, n>>
        BY <1>5, Lengths DEF DevPart, TypeInv
    <2> HIDE DEF n, i
    <2>4. CASE n = 12 /\ i = c
        BY <1>10, <2>3, <2>4
    <2>5. CASE n = 12 /\ i # c
        <3>1. app'[r] = <<i + 1, 0>>
            BY <2>3, <2>5
        <3>2. <<i + 1, 0>> \in (1..c) \X (0..11)
            BY <1>2, <2>2, <2>5
        <3> QED  BY <1>10, <3>1, <3>2
    <2>6. CASE n # 12
        <3>1. app'[r] = <<i, n>>
            BY <2>3, <2>6
        <3>2. <<i, n>> \in (1..c) \X (0..11)
            BY <2>2, <2>6
        <3> QED  BY <1>10, <3>1, <3>2
    <2> QED  BY <2>4, <2>5, <2>6
<1>6. RunOK(r)'
    <2>1. RunOK(r)
        BY DEF TypeInv
    <2>2. ~(at'[r] < 5) /\ ~(at'[r] > 5)
        BY <1>1, <1>2
    <2>3. DevOK(r)'
        BY <1>1, <2>2 DEF DevOK, Modes
    <2> QED  BY <1>1, <2>1, <2>3 DEF RunOK
<1>7. at'[r] \in 1..Len(plan'[r]) + 1
    BY <1>1 DEF TypeInv, TypeOK
<1> QED  BY <1>1, <1>4, <1>5, <1>6, <1>7

LEMMA PlanTypes ==
    ASSUME TypeInv, NEW r \in Runs,
           Submit(r) \/ Intake(r) \/ PlanModular(r) \/ PlanFull(r)
    PROVE  /\ RunOK(r)' /\ at'[r] \in 1..Len(plan'[r]) + 1
           /\ app'[r] = <<0, 0>>
<1>0. app[r] = <<0, 0>> /\ UNCHANGED app
    <2>1. pc[r] \in {"idle", "queued", "plan"} /\ UNCHANGED app
        BY DEF Submit, Intake, PlanModular, PlanFull
    <2>2. RunOK(r)
        BY DEF TypeInv
    <2>3. at[r] = 1
        BY <2>1, <2>2 DEF RunOK
    <2>4. at[r] < 5
        BY <2>3
    <2> QED  BY <2>1, <2>2, <2>4 DEF RunOK, DevOK
<1>10. at[r] = 1 /\ (at'[r] = 1 => DevOK(r)')
    <2>1. at[r] = 1
        BY DEF Submit, Intake, PlanModular, PlanFull, TypeInv, RunOK
    <2>2. ASSUME at'[r] = 1 PROVE at'[r] < 5 /\ ~(at'[r] > 5)
        BY <2>2
    <2> QED  BY <1>0, <2>1, <2>2 DEF DevOK
<1>1. CASE Submit(r)
    <2>1. PICK p \in Payloads :
             req' = [req EXCEPT ![r] =
                        [Normalize(p) EXCEPT !.features =
                            IF @ = <<>> THEN DefaultFeatures ELSE @]]
        BY <1>1 DEF Submit
    <2>2. IsRequest(req'[r]) /\ Normalized(req'[r])
        BY <2>1, Requested DEF TypeInv
    <2>3. /\ pc[r] = "idle" /\ pc'[r] = "queued"
          /\ UNCHANGED <<as, plan, at>>
        BY <1>1 DEF Submit, Goto, TypeInv, TypeOK
    <2> QED  BY <1>0, <1>10, <2>2, <2>3 DEF RunOK, TypeInv, TypeOK
<1>2. CASE Intake(r)
    <2>1. /\ pc[r] = "queued" /\ pc'[r] = "plan"
          /\ UNCHANGED <<req, plan, at>>
        BY <1>2 DEF Intake, Goto, TypeInv, TypeOK
    <2> QED  BY <1>0, <1>10, <2>1 DEF RunOK, TypeInv, TypeOK
<1>3. CASE PlanModular(r)
    <2>1. /\ pc[r] = "plan" /\ as[r] = "modular" /\ UNCHANGED <<req, as, at>>
          /\ at[r] = 1 /\ Normalize(req[r]) = req[r]
        BY <1>3, NormalizeTwice DEF PlanModular, RunOK, TypeInv
    <2>2. CASE pc'[r] = "stopped" /\ UNCHANGED plan
        BY <1>0, <1>10, <2>1, <2>2 DEF RunOK, TypeInv, TypeOK
    <2>3. CASE /\ Build(req[r]) # NoPlan /\ plan'[r] = Build(req[r])
               /\ pc'[r] = "step"
        <3>1. Len(plan'[r]) \in Nat /\ Len(plan'[r]) >= 1
            BY <2>3, Built
        <3>2. at'[r] \in 1..Len(plan'[r]) + 1 /\ at'[r] <= Len(plan'[r])
            BY <2>1, <3>1
        <3>3. RunOK(r)
            BY DEF TypeInv
        <3> QED  BY <1>0, <1>10, <2>1, <2>3, <3>2, <3>3 DEF RunOK
    <2> QED
        BY <1>3, <2>1, <2>2, <2>3 DEF PlanModular, Goto, TypeInv, TypeOK
<1>4. CASE PlanFull(r)
    <2>1. /\ pc[r] = "plan" /\ as[r] = "full" /\ UNCHANGED <<req, as, at>>
          /\ at[r] = 1 /\ plan'[r] = FullPlan /\ pc'[r] = "step"
        BY <1>4 DEF PlanFull, Goto, RunOK, TypeInv, TypeOK
    <2>2. at'[r] \in 1..Len(plan'[r]) + 1 /\ at'[r] <= Len(plan'[r])
        BY <2>1, FullPlanLength
    <2>3. RunOK(r)
        BY DEF TypeInv
    <2> QED  
        BY <1>0, <1>10, <2>1, <2>2, <2>3, FullPlanLength DEF RunOK
<1> QED  BY <1>0, <1>1, <1>2, <1>3, <1>4

LEMMA EndTypes ==
    ASSUME TypeInv, NEW r \in Runs,
           \/ PhaseRaises(r) \/ Ended(r) \/ ExportModular(r) \/ GateShut(r)
           \/ ExportFull(r)
    PROVE  /\ RunOK(r)' /\ at'[r] \in 1..Len(plan'[r]) + 1
           /\ UNCHANGED <<req, app>>
<1>1. /\ UNCHANGED locals
      /\ \/ pc[r] # "idle" /\ pc'[r] = "stopped"
         \/ pc[r] = "export" /\ pc'[r] = "succeeded"
    BY DEF PhaseRaises, Ended, ExportModular, GateShut, ExportFull, Goto,
           InPhase, Working, TypeInv, TypeOK
<1>2. UNCHANGED <<req, as, plan, at, app>>
    BY <1>1 DEF locals
<1>3. RunOK(r) /\ at[r] \in 1..Len(plan[r]) + 1
    BY DEF TypeInv, TypeOK
<1>4. DevOK(r)' <=> DevOK(r)
    BY <1>2 DEF DevOK, Whole
<1> QED  BY <1>1, <1>2, <1>3, <1>4 DEF RunOK

\* There is one archive.
LEMMA ArchiveTypes ==
    ASSUME TypeInv, NEW r \in Runs, RunStep(r)
    PROVE  /\ archive' = {} \/ \E a : archive' = {a}
           /\ Cardinality(archive') <= 1
<1>1. archive' = {} \/ \E a : archive' = {a}
    BY DEF RunStep, Submit, Intake, PlanModular, PlanFull, ModuleStep,
           PhaseStep, PhaseRaises, DevShared, DevPart, DevReport, Ended,
           ExportModular, GateShut, ExportFull, TypeInv
<1>2. ASSUME NEW a PROVE Cardinality({a}) <= 1
    <2>1. Cardinality({a}) = 1
        BY FS_Singleton
    <2> QED  BY <2>1
<1>3. Cardinality({}) <= 1
    <2>1. Cardinality({}) = 0
        BY FS_EmptySet
    <2> QED  BY <2>1
<1>4. Cardinality(archive') <= 1
    <2>1. CASE archive' = {}
        BY <1>3, <2>1
    <2>2. CASE \E a : archive' = {a}
        BY <1>2, <2>2
    <2> QED  BY <1>1, <2>1, <2>2
<1> QED  BY <1>1, <1>4

LEMMA PlaceTypes ==
    ASSUME TypeInv, NEW r \in Runs, RunStep(r)
    PROVE  /\ fit' \subseteq Runs /\ shared' \subseteq Runs
           /\ purged' \subseteq Runs /\ faults' \in 0..MaxFaults
           /\ pc' \in [Runs -> {"idle", "queued"} \cup Working \cup Ends]
<1> USE DEF TypeInv, TypeOK, Goto, Working, Ends, locals, seen
<1>1. CASE Submit(r)
    BY <1>1 DEF Submit
<1>2. CASE Intake(r)
    BY <1>2 DEF Intake
<1>3. CASE PlanModular(r)
    <2>1. /\ UNCHANGED <<fit, shared, purged, faults>>
          /\ Goto(r, "stopped") \/ Goto(r, "step")
        BY <1>3 DEF PlanModular
    <2> QED  BY <2>1
<1>9. CASE PlanFull(r)
    BY <1>9 DEF PlanFull
<1>4. CASE ModuleStep(r) \/ DevReport(r)
    BY <1>4 DEF ModuleStep, DevReport, Advance
<1>5. CASE PhaseStep(r)
    <2>1. fit' \subseteq fit \cup {r}
        BY <1>5 DEF PhaseStep
    <2> QED  BY <1>5, <2>1 DEF PhaseStep, Advance
<1>6. CASE DevShared(r) \/ DevPart(r)
    BY <1>6 DEF DevShared, DevPart
<1>7. CASE Ended(r)
    <2>1. faults' \in 0..MaxFaults
        BY <1>7, AppDirectoryAssumption DEF Ended
    <2> QED  BY <1>7, <2>1 DEF Ended
<1>8. CASE PhaseRaises(r) \/ ExportModular(r) \/ GateShut(r) \/ ExportFull(r)
    BY <1>8 DEF PhaseRaises, ExportModular, GateShut, ExportFull
<1> QED
    BY <1>1, <1>2, <1>3, <1>4, <1>5, <1>6, <1>7, <1>8, <1>9 DEF RunStep

LEMMA TypeStep == TypeInv /\ [Next]_vars => TypeInv'
<1> SUFFICES ASSUME TypeInv, [Next]_vars PROVE TypeInv'
    OBVIOUS
<1>1. CASE UNCHANGED vars
    BY <1>1 DEF vars, TypeInv, TypeOK, RunOK, DevOK, Whole
<1>2. CASE \E r \in Runs : RunStep(r)
    <2> PICK r \in Runs : RunStep(r)
        BY <1>2
    <2>1. /\ RunOK(r)' /\ at'[r] \in 1..Len(plan'[r]) + 1
          /\ AppIn(req'[r].features, app'[r])
        <3>1. \/ ModuleStep(r) \/ PhaseStep(r) \/ DevReport(r)
              \/ DevShared(r) \/ DevPart(r)
              \/ Submit(r) \/ Intake(r) \/ PlanModular(r) \/ PlanFull(r)
              \/ PhaseRaises(r) \/ Ended(r) \/ ExportModular(r)
              \/ GateShut(r) \/ ExportFull(r)
            BY DEF RunStep
        <3>2. UNCHANGED <<req, app>> => AppIn(req'[r].features, app'[r])
            BY DEF AppIn, TypeInv, TypeOK
        <3>3. app'[r] = <<0, 0>> => AppIn(req'[r].features, app'[r])
            BY Lengths DEF AppIn
        <3> QED
            BY <3>1, <3>2, <3>3, StepTypes, DevTypes, PlanTypes, EndTypes
    <2>2. ASSUME NEW t \in Runs
          PROVE  /\ RunOK(t)' /\ at'[t] \in 1..Len(plan'[t]) + 1
                 /\ AppIn(req'[t].features, app'[t])
        <3>1. CASE t # r
            <4>1. /\ pc'[t] = pc[t] /\ req'[t] = req[t] /\ as'[t] = as[t]
                  /\ plan'[t] = plan[t] /\ at'[t] = at[t]
                  /\ app'[t] = app[t]
                BY <3>1, OthersStay DEF Others
            <4>2. /\ RunOK(t) /\ at[t] \in 1..Len(plan[t]) + 1
                  /\ AppIn(req[t].features, app[t])
                BY DEF TypeInv, TypeOK, AppIn
            <4>3. DevOK(t)' <=> DevOK(t)
                BY <4>1 DEF DevOK, Whole
            <4>4. RunOK(t)'
                BY <4>1, <4>2, <4>3 DEF RunOK
            <4> QED  BY <4>1, <4>2, <4>4
        <3> QED  BY <2>1, <3>1
    <2>3. /\ \A f \in DOMAIN files' :
                files'[f].by \in Runs /\ Root(f) \in dirs'
          /\ dirs' \subseteq {"docs", "source", "backend"}
        <3>1. CASE UNCHANGED <<files, dirs>>
            BY <3>1 DEF TypeInv, TypeOK
        <3>2. CASE \E w : Put(r, w)
            BY <3>2, FilesType
        <3> QED  BY <3>1, <3>2, RunWrites
    <2>4. TypeOK'
        BY <2>2, <2>3, OthersStay, PlaceTypes, ArchiveTypes DEF TypeOK, AppIn
    <2> QED  BY <2>2, <2>4, OthersStay, ArchiveTypes DEF TypeInv
<1>3. CASE Purge
    <2>1. /\ UNCHANGED <<pc, req, as, plan, at, app, fit, shared>>
          /\ archive' = {} /\ dirs' = {} /\ DOMAIN files' = {}
          /\ purged' \subseteq Runs
        BY <1>3 DEF Purge, locals, NoFiles, TypeInv, TypeOK
    <2>2. Cardinality(archive') <= 1
        <3>1. Cardinality({}) = 0
            BY FS_EmptySet
        <3> QED  BY <2>1, <3>1
    <2>3. faults' \in 0..MaxFaults
        <3>1. \/ faults' = faults
              \/ faults < MaxFaults /\ faults' = faults + 1
            BY <1>3 DEF Purge
        <3>2. faults \in 0..MaxFaults
            BY DEF TypeInv, TypeOK
        <3> QED  BY <3>1, <3>2, AppDirectoryAssumption
    <2>4. TypeOK'
        BY <2>1, <2>2, <2>3 DEF TypeInv, TypeOK
    <2> QED  BY <2>1, <2>4 DEF TypeInv, RunOK, DevOK, Whole
<1> QED  BY <1>1, <1>2, <1>3 DEF Next

LEMMA TypeAlways == Spec => []TypeInv
BY TypeInit, TypeStep, PTL DEF Spec

\* Every variable of the app directory stays in its range: no file without a
\* run that wrote it or without its directory, one archive at most, no run
\* beyond the end of its plan, none beyond the last feature it was asked for
\* (run_modular_pipeline, run_full_pipeline, write_flutter_source,
\* delete_single_job).
THEOREM TypeCorrect == Spec => []TypeOK
<1>1. TypeInv => TypeOK
    BY DEF TypeInv
<1> QED  BY <1>1, TypeAlways, PTL

-----------------------------------------------------------------------------
(* A request that a step has no module for.                                *)

FilesOf(r) == {f \in DOMAIN files : files[f].by = r}

UnsupportedInv ==
    \A r \in Runs :
        /\ pc[r] \in {"idle", "queued"} => FilesOf(r) = {}
        /\ as[r] = "modular" /\ Unsupported(req[r]) =>
              FilesOf(r) \subseteq WriteAppBrief

\* A write makes no file another run's.
LEMMA FilesOfOthers ==
    ASSUME NEW r \in Runs, RunStep(r), NEW t \in Runs \ {r}
    PROVE  FilesOf(t)' \subseteq FilesOf(t)
<1> SUFFICES ASSUME NEW f \in DOMAIN files', files'[f].by = t
             PROVE  f \in DOMAIN files /\ files[f].by = t
    BY DEF FilesOf
<1>1. CASE UNCHANGED files
    BY <1>1
<1>2. CASE \E w : Put(r, w)
    <2> PICK w : Put(r, w)
        BY <1>2
    <2>1. f \notin DOMAIN w
        BY Written
    <2> QED  BY <2>1, Written
<1> QED  BY <1>1, <1>2, RunWrites

\* Such a request is not taken beyond its plan.
LEMMA UnsupportedStops ==
    ASSUME TypeInv, NEW r \in Runs, as[r] = "modular", Unsupported(req[r])
    PROVE  pc[r] \notin {"step", "export", "succeeded"}
BY UnsupportedHasNoPlan DEF TypeInv, RunOK

LEMMA UnsupportedOfRun ==
    ASSUME TypeInv, UnsupportedInv, NEW r \in Runs, RunStep(r)
    PROVE  /\ pc'[r] \in {"idle", "queued"} => FilesOf(r)' = {}
           /\ as'[r] = "modular" /\ Unsupported(req'[r]) =>
                 FilesOf(r)' \subseteq WriteAppBrief
<1>1. CASE Submit(r)
    <2>1. pc[r] = "idle" /\ UNCHANGED files
        BY <1>1 DEF Submit, tree
    <2>2. FilesOf(r)' = {}
        BY <2>1 DEF FilesOf, UnsupportedInv
    <2> QED  BY <2>2
<1>2. CASE Intake(r)
    <2>1. /\ pc[r] = "queued" /\ pc'[r] = "plan"
          /\ Put(r, Plainly(WriteAppBrief))
        BY <1>2, IntakePuts DEF Intake, Goto, TypeInv, TypeOK
    <2>2. FilesOf(r) = {}
        BY <2>1 DEF UnsupportedInv
    <2>3. ASSUME NEW f \in DOMAIN files', f \notin WriteAppBrief
          PROVE  files'[f].by # r
        <3> DEFINE w == Plainly(WriteAppBrief)
        <3>1. f \notin DOMAIN w
            BY <2>3, PlainWrite
        <3> HIDE DEF w
        <3>2. f \in DOMAIN files /\ files'[f] = files[f]
            BY <2>1, <2>3, <3>1, Written, ZenonT(30) DEF w
        <3> QED  BY <2>2, <3>2 DEF FilesOf
    <2> QED  BY <2>1, <2>3 DEF FilesOf
<1>3. CASE PlanModular(r)
    <2>1. /\ pc[r] = "plan" /\ pc'[r] \in {"stopped", "step"}
          /\ UNCHANGED <<req, as>>
          /\ pc'[r] = "stopped" => UNCHANGED files
        BY <1>3 DEF PlanModular, Goto, tree, TypeInv, TypeOK
    <2>2. CASE pc'[r] = "stopped"
        BY <2>1, <2>2 DEF UnsupportedInv, FilesOf
    <2>3. CASE pc'[r] = "step"
        <3>1. Normalize(req[r]) = req[r]
            BY <2>1, NormalizeTwice DEF TypeInv, RunOK
        <3>2. Build(req[r]) # NoPlan
            BY <1>3, <2>1, <2>3, <3>1 DEF PlanModular, Goto, TypeInv, TypeOK
        <3> QED  BY <2>1, <2>3, <3>2, UnsupportedHasNoPlan
    <2> QED  BY <2>1, <2>2, <2>3
<1>4. CASE Ended(r)
    <2>1. UNCHANGED <<files, req, as>> /\ pc'[r] = "stopped"
        BY <1>4 DEF Ended, Goto, locals, tree, TypeInv, TypeOK
    <2> QED  BY <2>1 DEF UnsupportedInv, FilesOf
<1>5. CASE \/ PlanFull(r) \/ ModuleStep(r) \/ PhaseStep(r) \/ PhaseRaises(r)
           \/ DevShared(r) \/ DevPart(r) \/ DevReport(r)
           \/ ExportModular(r) \/ GateShut(r) \/ ExportFull(r)
    <2>1. /\ as[r] = "full" \/ pc[r] \in {"step", "export"}
          /\ UNCHANGED <<req, as>>
        BY <1>5
        DEF PlanFull, ModuleStep, PhaseStep, PhaseRaises, InPhase, DevShared,
            DevPart, DevReport, InDev, ExportModular, GateShut, ExportFull,
            locals
    <2>2. pc'[r] \notin {"idle", "queued"}
        BY <1>5
        DEF PlanFull, ModuleStep, PhaseStep, PhaseRaises, DevShared, DevPart,
            DevReport, InDev, ExportModular, GateShut, ExportFull, Goto,
            Advance, TypeInv, TypeOK
    <2>3. "full" # "modular"
        OBVIOUS
    <2> QED  BY <2>1, <2>2, <2>3, UnsupportedStops
<1> QED  BY <1>1, <1>2, <1>3, <1>4, <1>5 DEF RunStep

LEMMA UnsupportedStep ==
    TypeInv /\ UnsupportedInv /\ [Next]_vars => UnsupportedInv'
<1> SUFFICES ASSUME TypeInv, UnsupportedInv, [Next]_vars
             PROVE  UnsupportedInv'
    OBVIOUS
<1>1. CASE UNCHANGED vars
    BY <1>1 DEF vars, UnsupportedInv, FilesOf
<1>2. CASE \E r \in Runs : RunStep(r)
    <2> PICK r \in Runs : RunStep(r)
        BY <1>2
    <2>1. ASSUME NEW t \in Runs \ {r}
          PROVE  /\ pc'[t] \in {"idle", "queued"} => FilesOf(t)' = {}
                 /\ as'[t] = "modular" /\ Unsupported(req'[t]) =>
                       FilesOf(t)' \subseteq WriteAppBrief
        <3>1. pc'[t] = pc[t] /\ req'[t] = req[t] /\ as'[t] = as[t]
            BY OthersStay DEF Others
        <3>2. FilesOf(t)' \subseteq FilesOf(t)
            BY FilesOfOthers
        <3> QED  BY <3>1, <3>2 DEF UnsupportedInv
    <2> QED  BY <2>1, UnsupportedOfRun DEF UnsupportedInv
<1>3. CASE Purge
    <2>1. ASSUME NEW r \in Runs PROVE FilesOf(r)' = {}
        BY <1>3 DEF Purge, FilesOf, NoFiles
    <2> QED  BY <2>1 DEF UnsupportedInv
<1> QED  BY <1>1, <1>2, <1>3 DEF Next

LEMMA UnsupportedAlways == Spec => []UnsupportedInv
<1>1. Init => UnsupportedInv
    BY DEF Init, UnsupportedInv, FilesOf, NoFiles
<1> QED  BY <1>1, TypeAlways, UnsupportedStep, PTL DEF Spec

\* A request whose stack names no module for a step of its workflow, or that
\* has no workflow, fails in PipelineBuilder.build: it takes no step, and
\* touches none of the files of earlier jobs but the intake documents.
THEOREM UnsupportedHolds == Spec => []UnsupportedTouchesNothing
<1>1. TypeInv /\ UnsupportedInv => UnsupportedTouchesNothing
    BY UnsupportedStops DEF UnsupportedInv, UnsupportedTouchesNothing, FilesOf
<1> QED  BY <1>1, TypeAlways, UnsupportedAlways, PTL

-----------------------------------------------------------------------------
(* The imports of the app.                                                 *)

LEMMA PartNames ==
    /\ Len(PartOrder) = 12
    /\ PartOrder[1] = "item" /\ PartOrder[2] = "model"
    /\ PartOrder[3] = "dto" /\ PartOrder[4] = "remote_data_source"
    /\ PartOrder[5] = "local_data_source" /\ PartOrder[6] = "repository"
    /\ PartOrder[7] = "repository_impl" /\ PartOrder[8] = "usecase"
    /\ PartOrder[9] = "cubit" /\ PartOrder[10] = "screen"
    /\ PartOrder[11] = "logic_test" /\ PartOrder[12] = "data_test"
BY DEF PartOrder

PartKinds == {PartOrder[n] : n \in 1..12}

LEMMA KindsOfParts ==
    PartKinds = {"item", "model", "dto", "remote_data_source",
                 "local_data_source", "repository", "repository_impl",
                 "usecase", "cubit", "screen", "logic_test", "data_test"}
BY PartNames DEF PartKinds

LEMMA PartsDiffer ==
    ASSUME NEW m \in 1..12, NEW n \in 1..12, PartOrder[m] = PartOrder[n]
    PROVE  m = n
BY PartNames

CoreNames ==
    {".env.example", "pubspec.yaml", "analysis_options.yaml", "README.md",
     "main.dart", "index.html", "app.dart", "api_client.dart",
     "app_config.dart", "app_dependencies.dart", "app_theme.dart",
     "app_scaffold.dart", "feature_card.dart", "state_view.dart",
     "app_widget_test.dart", "api_client_test.dart"}

LEMMA InCoreSet ==
    ASSUME NEW names, NEW f
    PROVE  /\ f \in CoreSet(names) => /\ f.dir = "source" /\ f.of = <<>>
                                      /\ f.name \in names
           /\ f \in CoreSet(names) <=> \E n \in names : f = Core(n)
BY DEF CoreSet, AllAt, At, Core

LEMMA SharedNames ==
    SharedFiles = CoreSet(CoreNames)
                      \cup {Part("screen", Home), Part("screen", Settings)}
<1>1. Len(SharedOrder) = 18
    BY DEF SharedOrder
<1>2. /\ SharedOrder[1] = Core(".env.example")
      /\ SharedOrder[2] = Core("pubspec.yaml")
      /\ SharedOrder[3] = Core("analysis_options.yaml")
      /\ SharedOrder[4] = Core("README.md")
      /\ SharedOrder[5] = Core("main.dart")
      /\ SharedOrder[6] = Core("index.html")
      /\ SharedOrder[7] = Core("app.dart")
      /\ SharedOrder[8] = Core("api_client.dart")
      /\ SharedOrder[9] = Core("app_config.dart")
    BY DEF SharedOrder
<1>3. /\ SharedOrder[10] = Core("app_dependencies.dart")
      /\ SharedOrder[11] = Core("app_theme.dart")
      /\ SharedOrder[12] = Core("app_scaffold.dart")
      /\ SharedOrder[13] = Core("feature_card.dart")
      /\ SharedOrder[14] = Core("state_view.dart")
      /\ SharedOrder[15] = Part("screen", Home)
      /\ SharedOrder[16] = Part("screen", Settings)
      /\ SharedOrder[17] = Core("app_widget_test.dart")
      /\ SharedOrder[18] = Core("api_client_test.dart")
    BY DEF SharedOrder
<1>4. CoreSet(CoreNames) = {Core(n) : n \in CoreNames}
    BY DEF CoreSet, AllAt, Core
<1>5. ASSUME NEW x
      PROVE  x \in SharedFiles <=> \E i \in 1..18 : x = SharedOrder[i]
    BY <1>1 DEF SharedFiles
<1>6. ASSUME NEW i \in 1..18
      PROVE  \/ i = 1 \/ i = 2 \/ i = 3 \/ i = 4 \/ i = 5 \/ i = 6 \/ i = 7
             \/ i = 8 \/ i = 9 \/ i = 10 \/ i = 11 \/ i = 12 \/ i = 13
             \/ i = 14 \/ i = 15 \/ i = 16 \/ i = 17 \/ i = 18
    OBVIOUS
<1>7. \A i \in {1, 2, 3, 4, 5, 6, 7, 8, 9, 10, 11, 12, 13, 14, 15, 16, 17,
                18} : i \in 1..18
    OBVIOUS
<1> QED  BY <1>2, <1>3, <1>4, <1>5, <1>6, <1>7 DEF CoreNames

\* No text of the files every app has is the text of a part of a feature.
LEMMA SharedTexts ==
    ASSUME NEW f \in SharedFiles
    PROVE  SharedText(f) \notin PartKinds /\ f.dir = "source"
<1>1. CASE f.of = Home \/ f.of = Settings
    <2>1. <<>> # Home /\ <<>> # Settings
        BY DEF Home, Settings
    <2>2. f \notin CoreSet(CoreNames)
        BY <1>1, <2>1, InCoreSet
    <2>3. f \in {Part("screen", Home), Part("screen", Settings)}
        BY <2>2, SharedNames
    <2>4. SharedText(f) \in {"home screen", "settings screen"}
        BY <1>1 DEF SharedText
    <2>5. f.dir = "source"
        BY <2>3 DEF Part
    <2>6. SharedText(f) \notin PartKinds
        BY <2>4, KindsOfParts
    <2> QED  BY <2>5, <2>6
<1>2. CASE f.of # Home /\ f.of # Settings
    <2>1. f \notin {Part("screen", Home), Part("screen", Settings)}
        BY <1>2 DEF Part
    <2>2. SharedText(f) = f.name
        BY <1>2 DEF SharedText
    <2> QED  BY <2>1, <2>2, KindsOfParts, SharedNames, InCoreSet DEF CoreNames
<1> QED  BY <1>1, <1>2

-----------------------------------------------------------------------------
(* How far write_flutter_source has come.                                  *)

InSource(f) == f.dir = "source"

LEMMA PartFields ==
    ASSUME NEW x, NEW k
    PROVE  Part(x, k).of = k /\ Part(x, k).name = x /\ InSource(Part(x, k))
BY DEF Part, InSource

\* The files it has written, or would have but for a purge.
Behind(r, f) ==
    \/ \E m \in 1..18 :
          f = SharedOrder[m] /\ (app[r][1] # 0 \/ m <= app[r][2])
    \/ \E j \in 1..Len(Keys(req[r].features)), m \in 1..12 :
          /\ f = Part(PartOrder[m], Keys(req[r].features)[j])
          /\ j < app[r][1] \/ (j = app[r][1] /\ m <= app[r][2])

LEMMA BehindNothing ==
    ASSUME NEW r, app'[r] = <<0, 0>>, NEW f
    PROVE  ~Behind(r, f)'
<1>1. app'[r][1] = 0 /\ app'[r][2] = 0
    OBVIOUS
<1>2. \A m \in 1..18 : ~(m <= 0)
    OBVIOUS
<1>3. \A j \in 1..Len(Keys(req'[r].features)) : ~(j < 0) /\ j # 0
    OBVIOUS
<1> QED  BY <1>1, <1>2, <1>3 DEF Behind

LEMMA BehindSame ==
    ASSUME NEW r, req'[r] = req[r], app'[r] = app[r], NEW f
    PROVE  Behind(r, f)' <=> Behind(r, f)
BY DEF Behind

\* A run at its end has all of it behind it.
LEMMA BehindWhole ==
    ASSUME NEW r, Len(Keys(req[r].features)) \in Nat, Whole(r),
           AppIn(req[r].features, app[r])
    PROVE  /\ \A f \in SharedFiles : Behind(r, f)
           /\ \A k \in KeySet(req[r].features), m \in 1..12 :
                 Behind(r, Part(PartOrder[m], k))
<1> DEFINE keys == Keys(req[r].features)
           c == Len(keys)
<1>1. app[r] = <<c + 1, 0>>
    <2>1. app[r] \notin {0} \X (0..17) /\ app[r] \notin (1..c) \X (0..11)
        BY DEF Whole
    <2> QED  BY <2>1, Lengths DEF AppIn
<1>2. app[r][1] # 0
    BY <1>1
<1>3. ASSUME NEW f \in SharedFiles PROVE Behind(r, f)
    <2>1. PICK m \in 1..18 : f = SharedOrder[m]
        BY Lengths DEF SharedFiles
    <2> QED  BY <1>2, <2>1 DEF Behind
<1>4. ASSUME NEW k \in KeySet(req[r].features), NEW m \in 1..12
      PROVE  Behind(r, Part(PartOrder[m], k))
    <2>1. PICK j \in 1..c : k = keys[j]
        BY DEF KeySet
    <2>2. j < app[r][1]
        BY <1>1
    <2> QED  BY <2>1, <2>2 DEF Behind
<1> QED  BY <1>3, <1>4

\* Where a run is that writes a file every app has, and what is then behind.
LEMMA SharedPlace ==
    ASSUME TypeInv, NEW r \in Runs, DevShared(r)
    PROVE  \E n \in 1..18 :
              /\ app[r] = <<0, n - 1>>
              /\ app'[r] = IF n = 18 THEN <<1, 0>> ELSE <<0, n>>
              /\ Put(r, One(SharedOrder[n], SharedText(SharedOrder[n])))
              /\ UNCHANGED <<pc, req, as, plan, at, purged, shared>>
<1> DEFINE c == Len(Keys(req[r].features))
           n == app[r][2] + 1
<1>1. pc[r] = "step" /\ as[r] = "full" /\ app[r][1] = 0
    BY DEF DevShared, InDev, IsDev
<1>2. c \in Nat /\ AppIn(req[r].features, app[r])
    BY <1>1, StepPlace DEF TypeInv, TypeOK, AppIn
<1>3. app[r] \in {0} \X (0..17)
    <2>1. app[r] \notin (1..c) \X (0..11) /\ app[r] # <<c + 1, 0>>
        BY <1>1, <1>2
    <2> QED  BY <1>2, <2>1, Lengths DEF AppIn
<1>4. n \in 1..18 /\ app[r] = <<0, n - 1>>
    BY <1>3
<1>5. /\ app'[r] = IF n = 18 THEN <<1, 0>> ELSE <<0, n>>
      /\ Write(r, One(SharedOrder[n], SharedText(SharedOrder[n])))
      /\ UNCHANGED <<pc, req, as, plan, at, purged, shared>>
    BY Lengths DEF DevShared, TypeInv, seen
<1> HIDE DEF n
<1> QED  BY <1>4, <1>5, WriteIsPut

LEMMA PartPlace ==
    ASSUME TypeInv, NEW r \in Runs, DevPart(r)
    PROVE  \E i \in 1..Len(Keys(req[r].features)), n \in 1..12 :
              LET f == Part(PartOrder[n], Keys(req[r].features)[i])
              IN  /\ app[r] = <<i, n - 1>>
                  /\ app'[r] = IF n = 12 THEN <<i + 1, 0>> ELSE <<i, n>>
                  /\ Put(r, One(f, PartOrder[n]))
                  /\ UNCHANGED <<pc, req, as, plan, at, purged, shared>>
<1> DEFINE c == Len(Keys(req[r].features))
           i == app[r][1]
           n == app[r][2] + 1
           f == Part(PartOrder[n], Keys(req[r].features)[i])
<1>1. pc[r] = "step" /\ as[r] = "full" /\ i \in 1..c
    BY DEF DevPart, InDev, IsDev
<1>2. c \in Nat /\ AppIn(req[r].features, app[r])
    BY <1>1, StepPlace DEF TypeInv, TypeOK, AppIn
<1>3. app[r] \in (1..c) \X (0..11)
    <2>1. app[r] \notin {0} \X (0..17) /\ app[r] # <<c + 1, 0>>
        BY <1>1, <1>2
    <2> QED  BY <1>2, <2>1, Lengths DEF AppIn
<1>4. n \in 1..12 /\ app[r] = <<i, n - 1>>
    BY <1>3
<1>5. f.name = PartOrder[n]
    BY PartFields
<1>6. /\ app'[r] = IF n = 12 THEN <<i + 1, 0>> ELSE <<i, n>>
      /\ Write(r, One(f, f.name))
      /\ UNCHANGED <<pc, req, as, plan, at, purged, shared>>
    BY Lengths DEF DevPart, TypeInv, seen
<1>7. Put(r, One(f, PartOrder[n]))
    BY <1>5, <1>6, WriteIsPut
<1> HIDE DEF n, i, f
<1>8. /\ app'[r] = IF n = 12 THEN <<i + 1, 0>> ELSE <<i, n>>
      /\ UNCHANGED <<pc, req, as, plan, at, purged, shared>>
    BY <1>6
<1> QED  BY <1>1, <1>4, <1>7, <1>8 DEF f

\* One file more is behind after each of these steps.
LEMMA BehindStep ==
    ASSUME TypeInv, NEW r \in Runs, DevShared(r) \/ DevPart(r)
    PROVE  \E w : Put(r, w) /\ \A f : Behind(r, f)' => Behind(r, f)
                                                       \/ f \in DOMAIN w
<1> DEFINE keys == Keys(req[r].features)
           c == Len(keys)
<1>1. CASE DevShared(r)
    <2> PICK n \in 1..18 :
              /\ app[r] = <<0, n - 1>>
              /\ app'[r] = IF n = 18 THEN <<1, 0>> ELSE <<0, n>>
              /\ Put(r, One(SharedOrder[n], SharedText(SharedOrder[n])))
              /\ UNCHANGED <<pc, req, as, plan, at, purged, shared>>
        BY <1>1, SharedPlace
    <2> DEFINE w == One(SharedOrder[n], SharedText(SharedOrder[n]))
    <2>1. DOMAIN w = {SharedOrder[n]}
        BY OneWrite
    <2>2. app[r][1] = 0 /\ app[r][2] = n - 1
        OBVIOUS
    <2>3. \/ n = 18 /\ app'[r][1] = 1 /\ app'[r][2] = 0
          \/ n # 18 /\ app'[r][1] = 0 /\ app'[r][2] = n
        OBVIOUS
    <2>4. ASSUME NEW f, Behind(r, f)' PROVE Behind(r, f) \/ f \in DOMAIN w
        <3>1. CASE \E m \in 1..18 :
                      /\ f = SharedOrder[m]
                      /\ app'[r][1] # 0 \/ m <= app'[r][2]
            <4> PICK m \in 1..18 : /\ f = SharedOrder[m]
                                   /\ app'[r][1] # 0 \/ m <= app'[r][2]
                BY <3>1
            <4>1. m <= n
                BY <2>3
            <4>2. m = n \/ m <= n - 1
                BY <4>1
            <4> QED  BY <2>1, <2>2, <4>2 DEF Behind
        <3>2. CASE \E j \in 1..c, m \in 1..12 :
                      /\ f = Part(PartOrder[m], keys[j])
                      /\ j < app'[r][1] \/ (j = app'[r][1] /\ m <= app'[r][2])
            <4> PICK j \in 1..c, m \in 1..12 :
                      j < app'[r][1] \/ (j = app'[r][1] /\ m <= app'[r][2])
                BY <3>2
            <4> QED  BY <2>3
        <3> QED  BY <2>4, <3>1, <3>2 DEF Behind
    <2> QED  BY <2>4
<1>2. CASE DevPart(r)
    <2> PICK i \in 1..c, n \in 1..12 :
              LET f == Part(PartOrder[n], keys[i])
              IN  /\ app[r] = <<i, n - 1>>
                  /\ app'[r] = IF n = 12 THEN <<i + 1, 0>> ELSE <<i, n>>
                  /\ Put(r, One(f, PartOrder[n]))
                  /\ UNCHANGED <<pc, req, as, plan, at, purged, shared>>
        BY <1>2, PartPlace
    <2> DEFINE w == One(Part(PartOrder[n], keys[i]), PartOrder[n])
    <2>1. DOMAIN w = {Part(PartOrder[n], keys[i])} /\ Put(r, w)
          /\ req' = req
        BY OneWrite
    <2>2. app[r][1] = i /\ app[r][2] = n - 1
        OBVIOUS
    <2>3. \/ n = 12 /\ app'[r][1] = i + 1 /\ app'[r][2] = 0
          \/ n # 12 /\ app'[r][1] = i /\ app'[r][2] = n
        OBVIOUS
    <2> HIDE DEF w
    <2>4. ASSUME NEW f, Behind(r, f)' PROVE Behind(r, f) \/ f \in DOMAIN w
        <3>1. CASE \E m \in 1..18 : f = SharedOrder[m]
            <4>1. app[r][1] # 0
                BY <2>2
            <4> QED  BY <3>1, <4>1 DEF Behind
        <3>2. CASE \E j \in 1..c, m \in 1..12 :
                      /\ f = Part(PartOrder[m], keys[j])
                      /\ j < app'[r][1] \/ (j = app'[r][1] /\ m <= app'[r][2])
            <4> PICK j \in 1..c, m \in 1..12 :
                      /\ f = Part(PartOrder[m], keys[j])
                      /\ j < app'[r][1] \/ (j = app'[r][1] /\ m <= app'[r][2])
                BY <3>2
            <4>1. j < i \/ (j = i /\ m <= n)
                BY <2>3
            <4>2. j < i \/ (j = i /\ m <= n - 1) \/ (j = i /\ m = n)
                BY <4>1
            <4>3. CASE j = i /\ m = n
                BY <2>1, <4>3
            <4>4. CASE j < i \/ (j = i /\ m <= n - 1)
                BY <2>2, <4>4 DEF Behind
            <4> QED  BY <4>2, <4>3, <4>4
        <3> QED  BY <2>1, <2>4, <3>1, <3>2 DEF Behind
    <2> QED  BY <2>1, <2>4
<1> QED  BY <1>1, <1>2

-----------------------------------------------------------------------------
(* Which text imports what.                                                *)

LEMMA InParts ==
    ASSUME NEW names, NEW k, NEW f
    PROVE  f \in Parts(names, k) <=> \E n \in names : f = Part(n, k)
BY DEF Parts

\* A part imports parts of its feature that are written before it, and files
\* every app has.
LEMMA PartImports ==
    ASSUME NEW n \in 1..12, NEW k, NEW keys
    PROVE  ImportsOf(PartOrder[n], k, keys)
               \subseteq {Part(PartOrder[m], k) : m \in 1..n}
                             \cup CoreSet(CoreNames)
<1> DEFINE To(l) == {Part(PartOrder[m], k) : m \in 1..l}
                        \cup CoreSet(CoreNames)
           I(text) == ImportsOf(text, k, keys)
<1>1. ASSUME NEW l \in 1..12, NEW f
      PROVE  /\ (\E m \in 1..l : f = Part(PartOrder[m], k)) => f \in To(l)
             /\ (\E x \in CoreNames : f = Core(x)) => f \in To(l)
    BY InCoreSet
<1> HIDE DEF To
<1>2. I("item") \subseteq To(1)
    BY DEF ImportsOf, FeatureEntityImports
<1>3. I("model") \subseteq To(2)
    <2>1. I("model") = Parts({"item"}, k)
        BY DEF ImportsOf, FeatureModelImports
    <2> QED  BY <1>1, <2>1, InParts, PartNames
<1>4. I("dto") \subseteq To(3)
    <2>1. I("dto") = Parts({"model"}, k)
        BY DEF ImportsOf, FeatureDtoImports
    <2> QED  BY <1>1, <2>1, InParts, PartNames
<1>5. I("remote_data_source") \subseteq To(4)
    <2>1. I("remote_data_source") =
              Parts({"dto", "model"}, k)
                  \cup CoreSet({"api_client.dart", "app_config.dart"})
        BY DEF ImportsOf, FeatureRemoteDataSourceImports
    <2>2. Parts({"dto", "model"}, k) \subseteq To(4)
        BY <1>1, InParts, PartNames
    <2>3. CoreSet({"api_client.dart", "app_config.dart"}) \subseteq To(4)
        BY <1>1, InCoreSet DEF CoreNames
    <2> QED  BY <2>1, <2>2, <2>3
<1>6. I("local_data_source") \subseteq To(5)
    <2>1. I("local_data_source") = Parts({"model"}, k)
        BY DEF ImportsOf, FeatureLocalDataSourceImports
    <2> QED  BY <1>1, <2>1, InParts, PartNames
<1>7. I("repository") \subseteq To(6)
    <2>1. I("repository") = Parts({"item"}, k)
        BY DEF ImportsOf, FeatureRepositoryContractImports
    <2> QED  BY <1>1, <2>1, InParts, PartNames
<1>8. I("repository_impl") \subseteq To(7)
    <2>1. I("repository_impl") =
              Parts({"local_data_source", "remote_data_source", "item",
                     "repository"}, k)
        BY DEF ImportsOf, FeatureRepositoryImplImports
    <2> QED  BY <1>1, <2>1, InParts, PartNames
<1>9. I("usecase") \subseteq To(8)
    <2>1. I("usecase") = Parts({"item", "repository"}, k)
        BY DEF ImportsOf, FeatureUsecaseImports
    <2> QED  BY <1>1, <2>1, InParts, PartNames
<1>10. I("cubit") \subseteq To(9)
    <2>1. I("cubit") = Parts({"item", "usecase"}, k)
        BY DEF ImportsOf, FeatureCubitImports
    <2> QED  BY <1>1, <2>1, InParts, PartNames
<1>11. I("screen") \subseteq To(10)
    <2>1. I("screen") =
              Parts({"local_data_source", "remote_data_source",
                     "repository_impl", "item", "usecase", "cubit"}, k)
                  \cup CoreSet({"app_dependencies.dart", "app_scaffold.dart",
                                "state_view.dart"})
        BY DEF ImportsOf, FeatureScreenImports
    <2>2. Parts({"local_data_source", "remote_data_source",
                 "repository_impl", "item", "usecase", "cubit"}, k)
              \subseteq To(10)
        BY <1>1, InParts, PartNames
    <2>3. CoreSet({"app_dependencies.dart", "app_scaffold.dart",
                   "state_view.dart"}) \subseteq To(10)
        BY <1>1, InCoreSet DEF CoreNames
    <2> QED  BY <2>1, <2>2, <2>3
<1>12. I("logic_test") \subseteq To(11)
    <2>1. I("logic_test") =
              Parts({"item", "repository", "usecase", "cubit"}, k)
        BY DEF ImportsOf, FeatureLogicTestImports
    <2> QED  BY <1>1, <2>1, InParts, PartNames
<1>13. I("data_test") \subseteq To(12)
    <2>1. I("data_test") =
              Parts({"local_data_source", "remote_data_source", "dto",
                     "model", "repository_impl"}, k)
        BY DEF ImportsOf, FeatureDataTestImports
    <2> QED  BY <1>1, <2>1, InParts, PartNames
<1>14. \/ n = 1 \/ n = 2 \/ n = 3 \/ n = 4 \/ n = 5 \/ n = 6 \/ n = 7
       \/ n = 8 \/ n = 9 \/ n = 10 \/ n = 11 \/ n = 12
    OBVIOUS
<1>15. I(PartOrder[n]) \subseteq To(n)
    BY <1>2, <1>3, <1>4, <1>5, <1>6, <1>7, <1>8, <1>9, <1>10, <1>11, <1>12,
       <1>13, <1>14, PartNames
<1> QED  BY <1>15 DEF To

\* The files every app has import each other, and app.dart with its test the
\* screens.
LEMMA SharedImports ==
    ASSUME NEW f \in SharedFiles, NEW keys, NEW g,
           g \in ImportsOf(SharedText(f), f.of, keys)
    PROVE  \/ g \in SharedFiles
           \/ /\ SharedText(f) \in {"app.dart", "app_widget_test.dart"}
              /\ \E k \in keys : g = Part("screen", k)
<1> DEFINE I(text) == ImportsOf(text, f.of, keys)
           text == SharedText(f)
<1>1. \A names \in SUBSET CoreNames : CoreSet(names) \subseteq SharedFiles
    BY SharedNames, InCoreSet
<1>2. Part("screen", Home) \in SharedFiles
      /\ Part("screen", Settings) \in SharedFiles
    BY SharedNames
<1>3. text \in CoreNames \cup {"home screen", "settings screen"}
    <2>1. <<>> # Home /\ <<>> # Settings
        BY DEF Home, Settings
    <2>2. CASE f \in CoreSet(CoreNames)
        BY <2>1, <2>2, InCoreSet DEF SharedText
    <2>3. CASE f = Part("screen", Home) \/ f = Part("screen", Settings)
        <3>1. f.of = Home \/ f.of = Settings
            BY <2>3, PartFields
        <3> QED  BY <3>1 DEF SharedText
    <2> QED  BY <2>2, <2>3, SharedNames
<1>4. CASE text \in {".env.example", "pubspec.yaml", "analysis_options.yaml",
                     "README.md", "index.html", "app_config.dart",
                     "app_theme.dart", "app_scaffold.dart",
                     "feature_card.dart", "state_view.dart"}
    <2>1. I(text) = {}
        BY <1>4 DEF ImportsOf, AppConfigImports, SharedWidgetImports
    <2> QED  BY <2>1
<1>5. CASE text = "app.dart"
    <2>1. I(text) = CoreSet({"app_theme.dart"})
                        \cup {Part("screen", k) :
                                 k \in {Home, Settings} \cup keys}
        BY <1>5 DEF ImportsOf, AppImports
    <2>2. CoreSet({"app_theme.dart"}) \subseteq SharedFiles
        BY <1>1 DEF CoreNames
    <2> QED  BY <1>2, <1>5, <2>1, <2>2
<1>6. CASE text = "app_widget_test.dart"
    <2>1. I(text) = CoreSet({"app.dart"}) \cup {Part("screen", k) : k \in keys}
        BY <1>6 DEF ImportsOf, AppWidgetTestImports
    <2>2. CoreSet({"app.dart"}) \subseteq SharedFiles
        BY <1>1 DEF CoreNames
    <2> QED  BY <1>6, <2>1, <2>2
<1>7. CASE text \in {"main.dart", "api_client.dart", "app_dependencies.dart",
                     "api_client_test.dart", "home screen",
                     "settings screen"}
    <2>1. I(text) \in {CoreSet({"app.dart"}), CoreSet({"app_config.dart"}),
                       CoreSet({"api_client.dart"}),
                       CoreSet({"app_scaffold.dart", "feature_card.dart"}),
                       CoreSet({"app_scaffold.dart"})}
        BY <1>7 DEF ImportsOf, MainImports, ApiClientImports,
                    AppDependenciesImports, ApiClientTestImports,
                    HomeScreenImports, SettingsScreenImports
    <2>2. I(text) \subseteq SharedFiles
        BY <1>1, <2>1 DEF CoreNames
    <2> QED  BY <2>2
<1> QED  BY <1>3, <1>4, <1>5, <1>6, <1>7 DEF CoreNames

-----------------------------------------------------------------------------
(* The files of the app.                                                   *)

\* A file as write_flutter_source writes it, with what was there before it:
\* one that every app has, or part n of a feature.
AppFile(f) ==
    \/ f \in SharedFiles /\ files[f].as = SharedText(f)
    \/ \E n \in 1..12 :
          /\ files[f].as = PartOrder[n] /\ f.of # <<>>
          /\ \A m \in 1..n : Part(PartOrder[m], f.of) \in DOMAIN files
          /\ SharedFiles \subseteq DOMAIN files

ImportsInv ==
    /\ \A r \in Runs \ purged :
          pc[r] \in Working \/ FilesOf(r) # {} =>
              \A f : Behind(r, f) => f \in DOMAIN files
    /\ \A f \in DOMAIN files :
          InSource(f) /\ files[f].by \notin purged => AppFile(f)

\* What the files of the app are like is what makes every import lead to one.
LEMMA ImportsFollow == TypeInv /\ UnsupportedInv /\ ImportsInv => ImportsResolve
<1> SUFFICES ASSUME TypeInv, UnsupportedInv, ImportsInv,
                    NEW r \in Runs \ purged,
                    NEW f \in DOMAIN files, f.dir = "source",
                    files[f].by = r, Whole(r) \/ IsFeatureText(f)
             PROVE  Resolves(f)
    BY DEF ImportsResolve
<1> DEFINE keys == KeySet(req[r].features)
<1>1. AppFile(f)
    BY DEF ImportsInv, InSource
<1>2. CASE \E n \in 1..12 :
              /\ files[f].as = PartOrder[n]
              /\ \A m \in 1..n : Part(PartOrder[m], f.of) \in DOMAIN files
              /\ SharedFiles \subseteq DOMAIN files
    <2> PICK n \in 1..12 :
              /\ files[f].as = PartOrder[n]
              /\ \A m \in 1..n : Part(PartOrder[m], f.of) \in DOMAIN files
              /\ SharedFiles \subseteq DOMAIN files
        BY <1>2
    <2>1. ImportsOf(PartOrder[n], f.of, keys)
              \subseteq {Part(PartOrder[m], f.of) : m \in 1..n}
                            \cup CoreSet(CoreNames)
        BY PartImports
    <2>2. CoreSet(CoreNames) \subseteq DOMAIN files
        BY SharedNames
    <2>3. {Part(PartOrder[m], f.of) : m \in 1..n} \subseteq DOMAIN files
        OBVIOUS
    <2> QED  BY <2>1, <2>2, <2>3 DEF Resolves
<1>3. CASE f \in SharedFiles /\ files[f].as = SharedText(f)
    <2>1. ~IsFeatureText(f)
        <3>1. ASSUME NEW i \in 1..Len(PartOrder)
              PROVE  files[f].as # PartOrder[i]
            BY <1>3, SharedTexts, PartNames DEF PartKinds
        <3> QED  BY <3>1 DEF IsFeatureText
    <2>2. Whole(r)
        BY <2>1
    <2>3. FilesOf(r) # {}
        BY DEF FilesOf
    <2>4. \A g : Behind(r, g) => g \in DOMAIN files
        BY <2>3 DEF ImportsInv
    <2>5. Len(Keys(req[r].features)) \in Nat
        <3>1. pc[r] # "idle"
            BY <2>3 DEF UnsupportedInv
        <3> QED  BY <3>1, KeyCount DEF TypeInv, RunOK, IsRequest
    <2>6. /\ \A g \in SharedFiles : Behind(r, g)
          /\ \A k \in keys, m \in 1..12 : Behind(r, Part(PartOrder[m], k))
        <3>1. AppIn(req[r].features, app[r])
            BY DEF TypeInv, TypeOK, AppIn
        <3> QED  BY <2>2, <2>5, <3>1, BehindWhole
    <2>8. /\ SharedFiles \subseteq DOMAIN files
          /\ \A k \in keys : Part("screen", k) \in DOMAIN files
        <3>1. PartOrder[10] = "screen"
            BY PartNames
        <3> QED  BY <2>4, <2>6, <3>1
    <2>7. ASSUME NEW g \in ImportsOf(files[f].as, f.of, keys)
          PROVE  g \in DOMAIN files
        BY <1>3, <2>7, <2>8, SharedImports
    <2> QED  BY <2>7 DEF Resolves
<1> QED  BY <1>1, <1>2, <1>3 DEF AppFile

-----------------------------------------------------------------------------
(* The steps, and the app.                                                 *)

\* A write of no file of the app.
Elsewhere(w) == \A f \in DOMAIN w : ~InSource(f)

LEMMA PlainElsewhere ==
    ASSUME NEW set, \A f \in set : f.dir # "source"
    PROVE  Elsewhere(Plainly(set))
BY PlainWrite DEF Elsewhere, InSource

LEMMA DocsElsewhere ==
    ASSUME NEW names
    PROVE  \A f \in Docs(names) : f.dir = "docs"
BY DEF Docs, AllAt, At

ModuleNames ==
    {"common.brief", "common.business_analysis", "common.architecture",
     "common.uiux", "mobile.flutter", "frontend.react", "frontend.nextjs",
     "backend.fastapi", "database.supabase", "common.qa", "common.repair",
     "common.runtime", "common.security", "common.release_review",
     "common.export"}

Selectors == {"mobile.selected", "frontend.selected", "backend.selected",
              "database.selected"}
LEMMA WorkflowSteps ==
    ASSUME NEW type \in DOMAIN Workflows, NEW i \in 1..Len(Workflows[type])
    PROVE  Workflows[type][i] \in ModuleNames \cup Selectors
<1>1. type \in {"mobile_app", "fullstack_saas"}
    BY DEF Workflows
<1>2. CASE type = "mobile_app"
    <2>1. Workflows[type] = MobileApp
        BY <1>2 DEF Workflows
    <2>2. \A m \in {MobileApp[j] : j \in 1..Len(MobileApp)} :
             m \in ModuleNames \cup Selectors
        BY DEF MobileApp, ModuleNames, Selectors
    <2> QED  BY <2>1, <2>2
<1>3. CASE type = "fullstack_saas"
    <2>1. Workflows[type] = FullstackSaas
        BY <1>3 DEF Workflows
    <2>2. \A m \in {FullstackSaas[j] : j \in 1..Len(FullstackSaas)} :
             m \in ModuleNames \cup Selectors
        BY DEF FullstackSaas, ModuleNames, Selectors
    <2> QED  BY <2>1, <2>2
<1> QED  BY <1>1, <1>2, <1>3

\* Every step of a plan is a module the executor knows.
LEMMA PlanModules ==
    ASSUME NEW q, Build(q) # NoPlan, NEW i \in 1..Len(Build(q))
    PROVE  Build(q)[i] \in ModuleNames
<1> DEFINE step == Workflows[q.type][i]
           categories == {c \in Categories : <<step, c>> \in Selects}
           m == ResolveSelectedModule(step, q.stack)
<1>1. /\ i \in 1..Len(Workflows[q.type]) /\ Build(q)[i] = m
      /\ m # Unresolved /\ step \in ModuleNames \cup Selectors
    BY Built, WorkflowSteps DEF Selection
<1>2. CASE categories = {}
    <2>1. m = step
        BY <1>2 DEF ResolveSelectedModule
    <2>2. step \notin Selectors
        <3>1. \A s \in Selectors : \E c \in Categories : <<s, c>> \in Selects
            BY DEF Selectors, Categories, Selects
        <3> QED  BY <1>2, <3>1
    <2> QED  BY <1>1, <2>1, <2>2
<1>3. CASE categories # {}
    <2> DEFINE c == CHOOSE d \in categories : TRUE
    <2>1. c \in Categories
        BY <1>3
    <2>2. m = IF q.stack[c] \in DOMAIN StackModules[c]
              THEN StackModules[c][q.stack[c]] ELSE Unresolved
        BY <1>3 DEF ResolveSelectedModule
    <2> HIDE DEF c
    <2>3. ASSUME NEW s \in DOMAIN StackModules[c]
          PROVE  StackModules[c][s] \in ModuleNames
        <3>1. c \in {"mobile", "frontend", "backend", "database"}
            BY <2>1 DEF Categories
        <3>2. CASE c = "mobile"
            BY <2>3, <3>2 DEF StackModules, ModuleNames
        <3>3. CASE c = "frontend"
            BY <2>3, <3>3 DEF StackModules, ModuleNames
        <3>4. CASE c = "backend"
            BY <2>3, <3>4 DEF StackModules, ModuleNames
        <3>5. CASE c = "database"
            BY <2>3, <3>5 DEF StackModules, ModuleNames
        <3> QED  BY <3>1, <3>2, <3>3, <3>4, <3>5
    <2> QED  BY <1>1, <2>2, <2>3
<1> QED  BY <1>1, <1>2, <1>3

LEMMA AllAtDir ==
    ASSUME NEW dir, NEW names, NEW f \in AllAt(dir, names)
    PROVE  f.dir = dir /\ f.of = <<>> /\ f.name \in names
BY DEF AllAt, At

\* A module writes below the roots of the modular archive, and never where
\* write_flutter_source does.
LEMMA ModuleFiles ==
    ASSUME NEW m \in ModuleNames, NEW f \in ExecuteModuleStep(m)
    PROVE  f.dir \in ModularRoots \ {"source"}
<1>1. CASE m \in {"common.brief", "common.business_analysis",
                  "common.architecture", "common.uiux", "common.qa",
                  "common.repair", "common.runtime", "common.security",
                  "common.release_review", "common.export"}
    <2>1. f \in RunCommonBrief \cup RunCommonBusinessAnalysis
                \cup RunCommonArchitecture \cup RunCommonUiux \cup RunCommonQa
                \cup RunCommonRepair \cup RunCommonRuntime
                \cup RunCommonSecurity \cup RunCommonReleaseReview
                \cup RunCommonExportReport
        BY <1>1 DEF ExecuteModuleStep
    <2>2. f.dir = "docs"
        BY <2>1, DocsElsewhere
        DEF RunCommonBrief, RunCommonBusinessAnalysis, RunCommonArchitecture,
            RunCommonUiux, RunCommonQa, RunCommonRepair, RunCommonRuntime,
            RunCommonSecurity, RunCommonReleaseReview, RunCommonExportReport
    <2> QED  BY <2>2 DEF ModularRoots
<1>2. CASE m \in {"mobile.flutter", "frontend.react", "frontend.nextjs",
                  "backend.fastapi", "database.supabase"}
    <2>1. f \in RunFlutterModule \cup RunReactModule \cup RunNextjsModule
                \cup RunFastapiModule \cup RunSupabaseModule
        BY <1>2 DEF ExecuteModuleStep
    <2>2. f.dir \in {"docs", "source/mobile", "source/frontend",
                     "source/backend", "source/infra/supabase"}
        BY <2>1, AllAtDir
        DEF RunFlutterModule, RunReactModule, RunNextjsModule,
            RunFastapiModule, RunSupabaseModule, Docs
    <2> QED  BY <2>2 DEF ModularRoots
<1> QED  BY <1>1, <1>2 DEF ModuleNames

Phases == {"02_business_analysis", "03_backend_design",
           "04_architecture_design", "05_uiux_design", "07_static_qa",
           "08_refactor_repair", "09_runtime_test", "10_security_audit",
           "11_release_review"}

LEMMA FullPhases ==
    ASSUME NEW i \in 1..Len(FullPlan), FullPlan[i] # "06_flutter_dev"
    PROVE  FullPlan[i] \in Phases
<1>1. \A p \in {FullPlan[j] : j \in 1..Len(FullPlan)} :
         p # "06_flutter_dev" => p \in Phases
    BY DEF FullPlan, Phases
<1> QED  BY <1>1

LEMMA PhaseFiles ==
    ASSUME NEW p \in Phases, NEW b \in BOOLEAN, NEW f \in PhaseWrites(p, b)
    PROVE  f.dir \in {"docs", "backend"} /\ f.of = <<>>
<1>1. f \in WriteBaDocuments \cup WriteBackendSource
            \cup WriteArchitectDocuments \cup WriteUiuxDocuments
            \cup RunQaChecks \cup RunRepairLoop(b)
            \cup RunRuntimeVerification
            \cup WriteSecurityDocuments \cup WriteReviewDocuments
    BY DEF PhaseWrites, Phases
<1> QED
    BY <1>1, AllAtDir
    DEF WriteBaDocuments, BaContract, WriteBackendSource, BackendPackage,
        BackendContractTest, BackendDocuments, WriteArchitectDocuments,
        WriteUiuxDocuments, RunQaChecks, RunRepairLoop, RefactorReport,
        RunRuntimeVerification, WriteSecurityDocuments, WriteReviewDocuments,
        Docs

\* Whatever a run writes as a step of its plan, 06 aside, is elsewhere.
LEMMA StepElsewhere ==
    ASSUME TypeInv, NEW r \in Runs, pc[r] = "step"
    PROVE  /\ as[r] = "modular" =>
                 Elsewhere(Plainly(ExecuteModuleStep(plan[r][at[r]])))
           /\ as[r] = "full" /\ ~IsDev(r) =>
                 /\ Phase(r) \in Phases
                 /\ \A b \in BOOLEAN :
                       Elsewhere(Plainly(PhaseWrites(Phase(r), b)))
<1>1. CASE as[r] = "modular"
    <2>1. plan[r][at[r]] \in ModuleNames
        BY <1>1, StepPlace, PlanModules
    <2>2. \A f \in ExecuteModuleStep(plan[r][at[r]]) : f.dir # "source"
        BY <2>1, ModuleFiles
    <2> QED  BY <1>1, <2>2, PlainElsewhere
<1>2. CASE as[r] = "full" /\ ~IsDev(r)
    <2>1. plan[r] = FullPlan /\ at[r] \in 1..Len(FullPlan)
        BY <1>2, StepPlace
    <2>2. Phase(r) \in Phases
        BY <1>2, <2>1, FullPhases DEF IsDev, Phase
    <2>3. ASSUME NEW b \in BOOLEAN
          PROVE  Elsewhere(Plainly(PhaseWrites(Phase(r), b)))
        <3>1. \A f \in PhaseWrites(Phase(r), b) : f.dir # "source"
            BY <2>2, PhaseFiles
        <3> QED  BY <3>1, PlainElsewhere
    <2> QED  BY <1>2, <2>2, <2>3
<1> QED  BY <1>1, <1>2

\* What all steps but those of write_flutter_source do to the directory.
LEMMA OtherWrites ==
    ASSUME TypeInv, NEW r \in Runs, RunStep(r), ~DevShared(r), ~DevPart(r)
    PROVE  UNCHANGED files \/ \E w : Put(r, w) /\ Elsewhere(w)
<1>1. CASE Intake(r)
    <2>1. Elsewhere(Plainly(WriteAppBrief))
        BY PlainElsewhere, DocsElsewhere DEF WriteAppBrief
    <2> QED  BY <1>1, <2>1, IntakePuts
<1>2. CASE PlanModular(r)
    <2>1. Elsewhere(Plainly(WritePlan))
        BY PlainElsewhere, DocsElsewhere DEF WritePlan
    <2>2. UNCHANGED files \/ Write(r, Plainly(WritePlan))
        BY <1>2 DEF PlanModular, tree
    <2> QED  BY <2>1, <2>2, WriteIsPut
<1>3. CASE ModuleStep(r)
    <2>1. /\ pc[r] = "step" /\ as[r] = "modular"
          /\ Write(r, Plainly(ExecuteModuleStep(plan[r][at[r]])))
        BY <1>3 DEF ModuleStep
    <2> QED  BY <2>1, StepElsewhere, WriteIsPut
<1>4. CASE PhaseStep(r)
    <2>1. /\ pc[r] = "step" /\ as[r] = "full" /\ ~IsDev(r)
          /\ \E b \in BOOLEAN : Write(r, Plainly(PhaseWrites(Phase(r), b)))
        BY <1>4 DEF PhaseStep, InPhase
    <2> QED  BY <2>1, StepElsewhere, WriteIsPut
<1>5. CASE DevReport(r)
    <2>1. Elsewhere(Plainly(FrontendIntegrationReport))
        BY PlainElsewhere, DocsElsewhere DEF FrontendIntegrationReport
    <2> QED  BY <1>5, <2>1, WriteIsPut DEF DevReport
<1>6. CASE ExportFull(r)
    <2>1. Elsewhere(Plainly(Docs({"export_report.md"})))
        BY PlainElsewhere, DocsElsewhere
    <2>2. UNCHANGED files \/ Write(r, Plainly(Docs({"export_report.md"})))
        BY <1>6 DEF ExportFull, tree
    <2> QED  BY <2>1, <2>2, WriteIsPut
<1>7. CASE \/ Submit(r) \/ PlanFull(r) \/ PhaseRaises(r) \/ Ended(r)
           \/ ExportModular(r) \/ GateShut(r)
    BY <1>7 DEF Submit, PlanFull, PhaseRaises, Ended, ExportModular, GateShut,
                tree
<1> QED  BY <1>1, <1>2, <1>3, <1>4, <1>5, <1>6, <1>7 DEF RunStep

\* A write keeps what was there.
LEMMA AppFileKept ==
    ASSUME NEW f \in DOMAIN files, AppFile(f), files'[f] = files[f],
           DOMAIN files \subseteq DOMAIN files'
    PROVE  AppFile(f)'
<1>1. CASE f \in SharedFiles /\ files[f].as = SharedText(f)
    BY <1>1 DEF AppFile
<1>2. CASE \E n \in 1..12 :
              /\ files[f].as = PartOrder[n] /\ f.of # <<>>
              /\ \A m \in 1..n : Part(PartOrder[m], f.of) \in DOMAIN files
              /\ SharedFiles \subseteq DOMAIN files
    BY <1>2 DEF AppFile
<1> QED  BY <1>1, <1>2 DEF AppFile

\* Runs other than the one that takes a step keep what is behind them.
LEMMA BehindOthers ==
    ASSUME TypeInv, ImportsInv, NEW r \in Runs, RunStep(r),
           NEW t \in Runs \ {r}, t \notin purged,
           pc'[t] \in Working \/ FilesOf(t)' # {}
    PROVE  \A f : Behind(t, f)' => f \in DOMAIN files'
<1>1. req'[t] = req[t] /\ app'[t] = app[t] /\ pc'[t] = pc[t]
    BY OthersStay DEF Others
<1>2. pc[t] \in Working \/ FilesOf(t) # {}
    BY <1>1, FilesOfOthers
<1>3. \A f : Behind(t, f) => f \in DOMAIN files
    BY <1>2 DEF ImportsInv
<1>4. DOMAIN files \subseteq DOMAIN files'
    BY RunWrites, Written
<1> QED  BY <1>1, <1>3, <1>4, BehindSame

\* The mark of a purge is not a run's to set.
LEMMA PurgedStays ==
    ASSUME NEW r \in Runs, RunStep(r)
    PROVE  purged' = purged
BY DEF RunStep, Submit, Intake, PlanModular, PlanFull, ModuleStep, PhaseStep,
       PhaseRaises, DevShared, DevPart, DevReport, Ended, ExportModular,
       GateShut, ExportFull, seen

\* Only write_flutter_source moves on in the app, and a request is made once.
LEMMA AppStays ==
    ASSUME NEW r \in Runs, RunStep(r), ~DevShared(r), ~DevPart(r)
    PROVE  /\ pc[r] \in {"idle", "queued"} \cup Working
           /\ UNCHANGED app
           /\ pc[r] # "idle" => UNCHANGED req
<1>1. CASE Submit(r)
    BY <1>1 DEF Submit
<1>2. CASE Intake(r)
    BY <1>2 DEF Intake
<1>3. CASE PlanModular(r)
    BY <1>3 DEF PlanModular, Working
<1>4. CASE PlanFull(r)
    BY <1>4 DEF PlanFull, Working
<1>5. CASE ModuleStep(r)
    BY <1>5 DEF ModuleStep, Working
<1>6. CASE PhaseStep(r)
    BY <1>6 DEF PhaseStep, InPhase, Working
<1>7. CASE PhaseRaises(r)
    BY <1>7 DEF PhaseRaises, InPhase, Working, locals
<1>8. CASE DevReport(r)
    BY <1>8 DEF DevReport, InDev, Working
<1>9. CASE Ended(r)
    BY <1>9 DEF Ended, locals
<1>10. CASE ExportModular(r) \/ GateShut(r) \/ ExportFull(r)
    BY <1>10 DEF ExportModular, GateShut, ExportFull, Working, locals
<1> QED
    BY <1>1, <1>2, <1>3, <1>4, <1>5, <1>6, <1>7, <1>8, <1>9, <1>10
    DEF RunStep

LEMMA ImportsOfOthers ==
    ASSUME TypeInv, UnsupportedInv, ImportsInv, NEW r \in Runs, RunStep(r),
           ~DevShared(r), ~DevPart(r)
    PROVE  ImportsInv'
<1>1. UNCHANGED files \/ \E w : Put(r, w) /\ Elsewhere(w)
    BY OtherWrites
<1>2. DOMAIN files \subseteq DOMAIN files'
    BY <1>1, Written
<1>3. ASSUME r \notin purged, pc'[r] \in Working \/ FilesOf(r)' # {}
      PROVE  \A f : Behind(r, f)' => f \in DOMAIN files'
    <2>1. \/ app'[r] = <<0, 0>>
          \/ pc[r] \in Working /\ req'[r] = req[r] /\ app'[r] = app[r]
        <3>1. CASE pc[r] \in {"idle", "queued"}
            <4>1. DevOK(r) /\ at[r] = 1
                BY <3>1 DEF TypeInv, RunOK
            <4>2. at[r] < 5
                BY <4>1
            <4>3. app[r] = <<0, 0>>
                BY <4>1, <4>2 DEF DevOK
            <4>4. app' = app
                BY AppStays
            <4> QED  BY <4>3, <4>4
        <3>2. CASE pc[r] \notin {"idle", "queued"}
            BY <3>2, AppStays
        <3> QED  BY <3>1, <3>2
    <2>2. CASE app'[r] = <<0, 0>>
        <3>1. ASSUME NEW f PROVE ~Behind(r, f)'
            BY <2>2, BehindNothing
        <3> QED  BY <3>1
    <2>3. CASE pc[r] \in Working /\ req'[r] = req[r] /\ app'[r] = app[r]
        BY <1>2, <1>3, <2>3, BehindSame DEF ImportsInv
    <2> QED  BY <2>1, <2>2, <2>3
<1>4. ASSUME NEW f \in DOMAIN files', InSource(f), files'[f].by \notin purged
      PROVE  AppFile(f)'
    <2>1. f \in DOMAIN files /\ files'[f] = files[f]
        BY <1>1, <1>4, Written DEF Elsewhere
    <2>2. AppFile(f)
        BY <1>4, <2>1 DEF ImportsInv
    <2> QED  BY <1>2, <2>1, <2>2, AppFileKept
<1>5. purged' = purged
    BY PurgedStays
<1>6. ASSUME NEW t \in Runs \ purged', pc'[t] \in Working \/ FilesOf(t)' # {}
      PROVE  \A f : Behind(t, f)' => f \in DOMAIN files'
    <2>1. CASE t = r
        BY <1>3, <1>5, <1>6, <2>1
    <2>2. CASE t # r
        BY <1>5, <1>6, <2>2, BehindOthers
    <2> QED  BY <2>1, <2>2
<1> QED  BY <1>4, <1>5, <1>6 DEF ImportsInv

\* A step of write_flutter_source: its file is as it should be, and all it is
\* to be written after is there.
LEMMA SharedIsApp ==
    ASSUME TypeInv, NEW r \in Runs, DevShared(r), NEW f \in DOMAIN files',
           f \notin DOMAIN files \/ files'[f] # files[f]
    PROVE  AppFile(f)'
<1> PICK n \in 1..18 :
          /\ app[r] = <<0, n - 1>>
          /\ app'[r] = IF n = 18 THEN <<1, 0>> ELSE <<0, n>>
          /\ Put(r, One(SharedOrder[n], SharedText(SharedOrder[n])))
          /\ UNCHANGED <<pc, req, as, plan, at, purged, shared>>
    BY SharedPlace
<1> DEFINE g == SharedOrder[n]
           w == One(g, SharedText(g))
<1>1. DOMAIN w = {g} /\ w[g] = SharedText(g)
    BY OneWrite
<1>2. Put(r, w) /\ g \in SharedFiles
    BY Lengths DEF SharedFiles
<1> HIDE DEF w, g
<1>3. f = g /\ files'[f].as = SharedText(g)
    <2>1. /\ DOMAIN files' = DOMAIN files \cup DOMAIN w
          /\ \A h \in DOMAIN w : files'[h].by = r /\ files'[h].as = w[h]
          /\ \A h \in DOMAIN files \ DOMAIN w : files'[h] = files[h]
        BY <1>2, Written
    <2>2. f \in DOMAIN w
        BY <2>1
    <2> QED  BY <1>1, <2>1, <2>2
<1> QED  BY <1>2, <1>3 DEF AppFile

\* The keys are never empty.
LEMMA KeysNotEmpty ==
    ASSUME NEW features \in Seq(Names), NEW i \in 1..Len(Keys(features))
    PROVE  Keys(features)[i] # <<>>
<1>1. CASE features = <<>>
    <2>1. Keys(features) = <<Home>> /\ Home # <<>>
        BY <1>1 DEF Keys, Home
    <2>2. i = 1
        BY <2>1
    <2> QED  BY <2>1, <2>2
<1>2. CASE features # <<>>
    <2>1. Keys(features) = [j \in 1..Len(features) |-> FeatureKey(features[j])]
        BY <1>2 DEF Keys
    <2>2. \A name : FeatureKey(name) # <<>>
        BY DEF FeatureKey, Slug
    <2>3. i \in DOMAIN Keys(features)
        <3>1. features \in Seq(Names) => Len(Keys(features)) = Len(features)
            BY <2>1
        <3> QED  BY <2>1, <3>1
    <2> QED  BY <2>1, <2>2, <2>3
<1> QED  BY <1>1, <1>2

LEMMA PartIsApp ==
    ASSUME TypeInv, ImportsInv, NEW r \in Runs \ purged, DevPart(r),
           NEW f \in DOMAIN files',
           f \notin DOMAIN files \/ files'[f] # files[f]
    PROVE  AppFile(f)'
<1> DEFINE keys == Keys(req[r].features)
           c == Len(keys)
<1> PICK i \in 1..c, n \in 1..12 :
          LET g == Part(PartOrder[n], keys[i])
          IN  /\ app[r] = <<i, n - 1>>
              /\ app'[r] = IF n = 12 THEN <<i + 1, 0>> ELSE <<i, n>>
              /\ Put(r, One(g, PartOrder[n]))
              /\ UNCHANGED <<pc, req, as, plan, at, purged, shared>>
    BY PartPlace
<1> DEFINE k == keys[i]
           g == Part(PartOrder[n], k)
           w == One(g, PartOrder[n])
<1>1. DOMAIN w = {g} /\ w[g] = PartOrder[n] /\ g.of = k
    <2>1. g.of = k
        BY PartFields
    <2> HIDE DEF g
    <2>2. DOMAIN w = {g} /\ w[g] = PartOrder[n]
        BY OneWrite
    <2> QED  BY <2>1, <2>2
<1>2. Put(r, w)
    OBVIOUS
<1>3. pc[r] = "step" /\ pc[r] \in Working
    BY DEF DevPart, InDev, Working
<1>4. k # <<>>
    <2>1. req[r].features \in Seq(Names)
        BY <1>3, StepPlace DEF IsRequest
    <2> QED  BY <2>1, KeysNotEmpty
<1>5. \A h : Behind(r, h) => h \in DOMAIN files
    BY <1>3 DEF ImportsInv
<1>6. SharedFiles \subseteq DOMAIN files
    <2>1. app[r][1] # 0
        OBVIOUS
    <2>2. ASSUME NEW h \in SharedFiles PROVE Behind(r, h)
        <3>1. PICK m \in 1..18 : h = SharedOrder[m]
            BY Lengths DEF SharedFiles
        <3> QED  BY <2>1, <3>1 DEF Behind
    <2> QED  BY <1>5, <2>2
<1>7. ASSUME NEW m \in 1..12, m <= n - 1
      PROVE  Part(PartOrder[m], k) \in DOMAIN files
    <2>1. i = app[r][1] /\ m <= app[r][2]
        BY <1>7
    <2>2. Behind(r, Part(PartOrder[m], k))
        BY <2>1 DEF Behind
    <2> QED  BY <1>5, <2>2
<1> HIDE DEF w, g, k, keys
<1>8. f = g /\ files'[f].as = PartOrder[n] /\ f.of = k
      /\ DOMAIN files' = DOMAIN files \cup {g}
    <2>1. /\ DOMAIN files' = DOMAIN files \cup DOMAIN w
          /\ \A h \in DOMAIN w : files'[h].by = r /\ files'[h].as = w[h]
          /\ \A h \in DOMAIN files \ DOMAIN w : files'[h] = files[h]
        BY <1>2, Written
    <2>2. f \in DOMAIN w
        BY <2>1
    <2> QED  BY <1>1, <2>1, <2>2
<1>9. ASSUME NEW m \in 1..n PROVE Part(PartOrder[m], k) \in DOMAIN files'
    <2>1. CASE m = n
        BY <1>8, <2>1 DEF g
    <2>2. CASE m # n
        <3>1. m \in 1..12 /\ m <= n - 1
            BY <2>2
        <3> QED  BY <1>7, <1>8, <3>1
    <2> QED  BY <2>1, <2>2
<1>10. SharedFiles \subseteq DOMAIN files'
    BY <1>6, <1>8
<1> QED  BY <1>4, <1>8, <1>9, <1>10 DEF AppFile

LEMMA ImportsOfDev ==
    ASSUME TypeInv, ImportsInv, NEW r \in Runs, DevShared(r) \/ DevPart(r)
    PROVE  ImportsInv'
<1> PICK w : Put(r, w) /\ \A f : Behind(r, f)' => Behind(r, f)
                                                  \/ f \in DOMAIN w
    BY BehindStep
<1>1. DOMAIN files' = DOMAIN files \cup DOMAIN w
    BY Written
<1>2. RunStep(r) /\ pc[r] = "step" /\ pc[r] \in Working
    BY DEF RunStep, DevShared, DevPart, InDev, Working
<1>3. purged' = purged
    BY <1>2, PurgedStays
<1>4. ASSUME r \notin purged PROVE \A f : Behind(r, f)' => f \in DOMAIN files'
    <2>1. \A f : Behind(r, f) => f \in DOMAIN files
        BY <1>2, <1>4 DEF ImportsInv
    <2> QED  BY <1>1, <2>1
<1>5. ASSUME NEW f \in DOMAIN files', InSource(f), files'[f].by \notin purged
      PROVE  AppFile(f)'
    <2>1. CASE f \in DOMAIN files /\ files'[f] = files[f]
        <3>1. AppFile(f)
            BY <1>5, <2>1 DEF ImportsInv
        <3> QED  BY <1>1, <2>1, <3>1, AppFileKept
    <2>2. CASE f \notin DOMAIN files \/ files'[f] # files[f]
        <3>1. f \in DOMAIN w /\ files'[f].by = r
            BY <2>2, Written
        <3>2. r \notin purged
            BY <1>5, <3>1
        <3> QED  BY <2>2, <3>2, SharedIsApp, PartIsApp
    <2> QED  BY <2>1, <2>2
<1>6. ASSUME NEW t \in Runs \ purged', pc'[t] \in Working \/ FilesOf(t)' # {}
      PROVE  \A f : Behind(t, f)' => f \in DOMAIN files'
    <2>1. CASE t = r
        BY <1>3, <1>4, <1>6, <2>1
    <2>2. CASE t # r
        BY <1>2, <1>3, <1>6, <2>2, BehindOthers
    <2> QED  BY <2>1, <2>2
<1> QED  BY <1>3, <1>5, <1>6 DEF ImportsInv

LEMMA ImportsStep ==
    TypeInv /\ UnsupportedInv /\ ImportsInv /\ [Next]_vars => ImportsInv'
<1> SUFFICES ASSUME TypeInv, UnsupportedInv, ImportsInv, [Next]_vars
             PROVE  ImportsInv'
    OBVIOUS
<1>1. CASE UNCHANGED vars
    <2>1. UNCHANGED <<files, pc, req, app, purged>>
        BY <1>1 DEF vars
    <2>2. \A r, f : Behind(r, f)' <=> Behind(r, f)
        BY <2>1 DEF Behind
    <2>3. \A f : AppFile(f)' <=> AppFile(f)
        BY <2>1 DEF AppFile
    <2> QED  BY <2>1, <2>2, <2>3 DEF ImportsInv, FilesOf
<1>2. CASE \E r \in Runs : RunStep(r)
    BY <1>2, ImportsOfDev, ImportsOfOthers
<1>3. CASE Purge
    <2>1. /\ DOMAIN files' = {} /\ UNCHANGED pc
          /\ \A r \in Runs : pc[r] \in Working => r \in purged'
        BY <1>3 DEF Purge, NoFiles
    <2>2. ASSUME NEW r \in Runs PROVE FilesOf(r)' = {}
        BY <2>1 DEF FilesOf
    <2> QED  BY <2>1, <2>2 DEF ImportsInv
<1> QED  BY <1>1, <1>2, <1>3 DEF Next

LEMMA ImportsAlways == Spec => []ImportsInv
<1>1. Init => ImportsInv
    <2> SUFFICES ASSUME Init PROVE ImportsInv
        OBVIOUS
    <2>1. /\ DOMAIN files = {}
          /\ \A r \in Runs : pc[r] \notin Working /\ FilesOf(r) = {}
        BY DEF Init, NoFiles, FilesOf, Working
    <2> QED  BY <2>1 DEF ImportsInv
<1> QED
    BY <1>1, TypeAlways, UnsupportedAlways, ImportsStep, PTL DEF Spec

\* Every import of a file of the app leads to a file: the order in which
\* write_flutter_source writes sees to it, whichever runs write into the same
\* directory at once, wherever a run was stopped, and whatever earlier
\* requests left; but for the files of a run whose directory was purged away
\* under it.
THEOREM ImportsAlwaysResolve == Spec => []ImportsResolve
BY ImportsFollow, ImportsAlways, TypeAlways, UnsupportedAlways, PTL

-----------------------------------------------------------------------------
(* Feature keys.                                                           *)

\* A set of numbers that is not empty has a least one.
LEMMA LeastExists ==
    ASSUME NEW S \in SUBSET Nat, S # {}
    PROVE  \E n \in S : \A k \in S : n <= k
<1> DEFINE Less == {p \in Nat \X Nat : p[1] < p[2]}
<1>1. IsWellFoundedOn(Less, Nat)
    BY NatLessThanWellFounded DEF OpToRel
<1>2. PICK n \in S : \A k \in S : <<k, n>> \notin Less
    BY <1>1, WFMin
<1>3. ASSUME NEW k \in S PROVE n <= k
    <2>1. <<k, n>> \in Nat \X Nat /\ ~(<<k, n>>[1] < <<k, n>>[2])
        BY <1>2
    <2> QED  BY <2>1
<1> QED  BY <1>3

\* The dev agent and the two agents that look for its files spell a plain name
\* alike.
LEMMA PlainSlug ==
    ASSUME NEW name \in Names, Plain(name)
    PROVE  FeatureKey(name) = CheckedKey(name)
<1> DEFINE len == Len(name)
           w == [i \in 0..len |-> [j \in 1..i |-> Spelt(name[j])]]
           Fits(g) == g = [i \in 0..len |->
                              IF i = 0 THEN <<>>
                              ELSE IF Kept(name, i)
                              THEN Append(g[i - 1], Spelt(name[i]))
                              ELSE g[i - 1]]
           slug == SlugTo(name)
<1>1. len \in Nat /\ len >= 1 /\ \A i \in 1..len : Kept(name, i)
    <2>1. len \in Nat /\ len >= 1
        BY EmptySeq DEF Plain, Names
    <2>2. ASSUME NEW i \in 1..len PROVE Kept(name, i)
        <3>1. CASE IsWord(name[i])
            BY <3>1 DEF Kept
        <3>2. CASE i > 1 /\ i < len /\ IsWord(name[i - 1])
                   /\ IsWord(name[i + 1])
            <4>1. i + 1 \in i + 1..len
                BY <2>1, <3>2
            <4> QED  BY <3>2, <4>1 DEF Kept
        <3> QED  BY <3>1, <3>2 DEF Plain
    <2> QED  BY <2>1, <2>2
<1> HIDE DEF len
<1>2. ASSUME NEW i \in 1..len
      PROVE  w[i] = Append(w[i - 1], Spelt(name[i]))
    <2> DEFINE S == {Spelt(name[j]) : j \in 1..len}
               s == w[i - 1]
               e == Spelt(name[i])
    <2>1. i - 1 \in 0..len /\ i - 1 \in Nat /\ i \in 0..len
        BY <1>1
    <2>2. s = [j \in 1..i - 1 |-> Spelt(name[j])]
        BY <2>1
    <2>3. s \in Seq(S) /\ Len(s) = i - 1 /\ e \in S
        BY <1>1, <2>1, <2>2
    <2>4. w[i] = [j \in 1..i |-> Spelt(name[j])]
        BY <2>1
    <2>5. w[i] \in Seq(S) /\ Len(w[i]) = i
        BY <1>1, <2>1, <2>4
    <2> HIDE DEF S, s, e, w
    <2>6. /\ Append(s, e) \in Seq(S) /\ Len(Append(s, e)) = i
          /\ \A j \in 1..i - 1 : Append(s, e)[j] = s[j]
          /\ Append(s, e)[i] = e
        BY <2>1, <2>3, AppendProperties
    <2>7. ASSUME NEW j \in 1..i PROVE w[i][j] = Append(s, e)[j]
        <3>1. CASE j = i
            <4>1. w[i][i] = e
                BY <2>1, <2>4 DEF e
            <4> QED  BY <2>6, <3>1, <4>1
        <3>2. CASE j \in 1..i - 1
            <4>1. w[i][j] = Spelt(name[j])
                BY <2>4
            <4>2. s[j] = Spelt(name[j])
                BY <2>2, <3>2
            <4> QED  BY <2>6, <3>2, <4>1, <4>2
        <3>3. i \in Nat /\ (j = i \/ j \in 1..i - 1)
            BY <2>1
        <3> QED  BY <3>1, <3>2, <3>3
    <2>8. w[i] = Append(s, e)
        BY <2>5, <2>6, <2>7, SeqEqual
    <2> QED  BY <2>8 DEF s, e
<1>3. w[0] = <<>>
    BY <1>1
<1>4. Fits(w)
    <2>1. ASSUME NEW i \in 0..len
          PROVE  w[i] = IF i = 0 THEN <<>>
                        ELSE IF Kept(name, i)
                        THEN Append(w[i - 1], Spelt(name[i]))
                        ELSE w[i - 1]
        <3> HIDE DEF w
        <3>1. CASE i = 0
            BY <1>3, <3>1
        <3>2. CASE i \in 1..len
            <4>1. i # 0 /\ Kept(name, i)
                BY <1>1, <3>2
            <4>2. w[i] = Append(w[i - 1], Spelt(name[i]))
                BY <1>2, <3>2
            <4> QED  BY <4>1, <4>2
        <3> QED  BY <1>1, <3>1, <3>2
    <2>2. w = [i \in 0..len |-> w[i]]
        OBVIOUS
    <2> HIDE DEF w
    <2> QED  BY <2>1, <2>2
<1>5. slug = CHOOSE g : Fits(g)
    BY DEF SlugTo, len
<1>6. Fits(slug)
    <2> HIDE DEF w, slug
    <2> QED  BY <1>4, <1>5
<1> HIDE DEF w, slug
<1>7. /\ slug[0] = <<>>
      /\ \A i \in 1..len : slug[i] = Append(slug[i - 1], Spelt(name[i]))
    <2>1. \A i \in 0..len : slug[i] = IF i = 0 THEN <<>>
                                      ELSE IF Kept(name, i)
                                      THEN Append(slug[i - 1], Spelt(name[i]))
                                      ELSE slug[i - 1]
        BY <1>6
    <2>2. ASSUME NEW i \in 1..len
          PROVE  slug[i] = Append(slug[i - 1], Spelt(name[i]))
        <3>1. i \in 0..len /\ i # 0 /\ Kept(name, i)
            BY <1>1
        <3> QED  BY <2>1, <3>1
    <2>3. slug[0] = <<>>
        BY <1>1, <2>1
    <2> QED  BY <2>2, <2>3
<1> DEFINE Bad == {i \in 0..len : slug[i] # w[i]}
<1>8. Bad = {}
    <2> SUFFICES ASSUME Bad # {} PROVE FALSE
        OBVIOUS
    <2>1. PICK k \in Bad : \A i \in Bad : k <= i
        <3>1. Bad \in SUBSET Nat
            OBVIOUS
        <3> HIDE DEF Bad
        <3> QED  BY <3>1, LeastExists
    <2>2. k # 0
        BY <1>3, <1>7
    <2>3. k \in 1..len /\ k - 1 \in 0..len /\ ~(k <= k - 1)
        BY <1>1, <2>2
    <2>4. slug[k - 1] = w[k - 1]
        BY <2>1, <2>3
    <2> QED  BY <1>2, <1>7, <2>3, <2>4
<1>9. slug[len] = [j \in 1..len |-> Spelt(name[j])]
    <2>1. slug[len] = w[len]
        BY <1>1, <1>8
    <2> QED  BY <1>1, <2>1 DEF w
<1>10. slug[len] # <<>>
    <2>1. Len(slug[len]) = len
        BY <1>1, <1>9
    <2>2. Len(<<>>) = 0
        OBVIOUS
    <2> QED  BY <1>1, <2>1, <2>2
<1>11. FeatureKey(name) = slug[len]
    BY <1>10 DEF FeatureKey, Slug, slug, len
<1>12. ASSUME NEW j \in 1..len
       PROVE  Spelt(name[j]) =
                  IF name[j] = " " THEN "_" ELSE Lowered(name[j])
    <2>1. name[j] \in Words \cup Separators
        BY DEF Names, len
    <2>2. IsWord(name[j]) \/ name[j] # "-"
        BY DEF Plain, len
    <2> QED  BY <2>1, <2>2 DEF Spelt, Lowered, IsWord, Separators
<1> QED  BY <1>9, <1>11, <1>12 DEF CheckedKey, len

-----------------------------------------------------------------------------
(* What the steps of a plan leave behind.                                  *)

\* The files of a step, one of the repair loop without a further round.
FilesOfStep(how, step, features) ==
    IF how = "modular" THEN ExecuteModuleStep(step)
    ELSE IF step = "06_flutter_dev"
    THEN FlutterSource(features) \cup FrontendIntegrationReport
    ELSE PhaseWrites(step, FALSE)

LEMMA InDocs ==
    ASSUME NEW names, NEW f
    PROVE  f \in Docs(names) <=> \E n \in names : f = At("docs", n)
BY DEF Docs, AllAt

LEMMA FullFiles ==
    ASSUME NEW features
    PROVE  LET F(i) == FilesOfStep("full", FullPlan[i], features)
           IN  /\ F(1) = WriteBaDocuments
               /\ F(2) = WriteBackendSource
               /\ F(3) = WriteArchitectDocuments
               /\ F(4) = WriteUiuxDocuments
               /\ F(5) = FlutterSource(features)
                             \cup FrontendIntegrationReport
               /\ F(6) = RunQaChecks
               /\ F(7) = RunRepairLoop(FALSE)
               /\ F(8) = RunQaChecks
               /\ F(9) = RunRuntimeVerification
               /\ F(10) = WriteSecurityDocuments
               /\ F(11) = WriteReviewDocuments
BY FullSteps DEF FilesOfStep, PhaseWrites

\* The files of the app.
LEMMA AppSource ==
    ASSUME NEW features
    PROVE  /\ SharedFiles \subseteq FlutterSource(features)
           /\ \A k \in KeySet(features), m \in 1..12 :
                 Part(PartOrder[m], k) \in FlutterSource(features)
           /\ \A f \in FlutterSource(features) :
                 /\ f.dir = "source"
                 /\ f \in SharedFiles \/
                    \E k \in KeySet(features), m \in 1..12 :
                        f = Part(PartOrder[m], k)
<1>1. ASSUME NEW k, NEW f
      PROVE  f \in FeatureParts(k) <=> \E m \in 1..12 :
                                          f = Part(PartOrder[m], k)
    BY InParts, Lengths DEF FeatureParts
<1>2. \A f \in SharedFiles : f.dir = "source"
    BY SharedNames, InCoreSet, PartFields DEF InSource
<1>3. \A x, k : Part(x, k).dir = "source"
    BY PartFields DEF InSource
<1> QED  BY <1>1, <1>2, <1>3 DEF FlutterSource

\* The steps of run_full_pipeline write every document of the handoff, but
\* for the report of the refactorings.
LEMMA HandoffWritten ==
    ASSUME NEW features, NEW f \in HandoffDocuments \ RefactorReport
    PROVE  \/ f \in WriteAppBrief
           \/ \E i \in 1..11 : f \in FilesOfStep("full", FullPlan[i], features)
<1> DEFINE F(i) == FilesOfStep("full", FullPlan[i], features)
<1>1. PICK n : f = At("docs", n) /\
               n \in {"app_brief.md", "requirements.md", "product_spec.json",
                      "data_model.json", "user_flows.md",
                      "acceptance_tests.md",
                      "non_functional_requirements.md", "openapi.yaml",
                      "database_schema.sql", "backend_report.md",
                      "frontend_integration_report.md", "architecture.md",
                      "design.md", "test_report.md",
                      "production_qa_report.md",
                      "repair_history.md", "runtime_report.md",
                      "security_report.md", "deployment_plan.md",
                      "env_contract.md", "production_release_checklist.md",
                      "final_review.md", "release_checklist.md"}
    BY InDocs DEF HandoffDocuments, RefactorReport
<1>2. CASE n = "app_brief.md"
    BY <1>1, <1>2, InDocs DEF WriteAppBrief
<1>3. CASE n \in {"requirements.md", "product_spec.json", "data_model.json",
                  "user_flows.md", "acceptance_tests.md",
                  "non_functional_requirements.md"}
    <2>1. f \in F(1)
        BY <1>1, <1>3, FullFiles, InDocs DEF WriteBaDocuments, BaContract
    <2> QED  BY <2>1
<1>4. CASE n \in {"openapi.yaml", "database_schema.sql", "backend_report.md"}
    <2>1. f \in F(2)
        BY <1>1, <1>4, FullFiles, InDocs
        DEF WriteBackendSource, BackendDocuments
    <2> QED  BY <2>1
<1>5. CASE n \in {"architecture.md", "design.md"}
    <2>1. f \in F(3) \cup F(4)
        <3>1. F(3) = WriteArchitectDocuments /\ F(4) = WriteUiuxDocuments
            BY FullFiles
        <3> HIDE DEF F
        <3> QED
            BY <1>1, <1>5, <3>1, InDocs
            DEF WriteArchitectDocuments, WriteUiuxDocuments
    <2> QED  BY <2>1
<1>6. CASE n = "frontend_integration_report.md"
    <2>1. f \in F(5)
        BY <1>1, <1>6, FullFiles, InDocs DEF FrontendIntegrationReport
    <2> QED  BY <2>1
<1>7. CASE n \in {"test_report.md", "production_qa_report.md",
                  "repair_history.md"}
    <2>1. f \in F(7)
        BY <1>1, <1>7, FullFiles, InDocs DEF RunRepairLoop, RunQaChecks
    <2> QED  BY <2>1
<1>8. CASE n \in {"runtime_report.md", "security_report.md",
                  "deployment_plan.md", "env_contract.md",
                  "production_release_checklist.md", "final_review.md",
                  "release_checklist.md"}
    <2>1. f \in F(9) \cup F(10) \cup F(11)
        <3>1. /\ F(9) = RunRuntimeVerification
              /\ F(10) = WriteSecurityDocuments
              /\ F(11) = WriteReviewDocuments
            BY FullFiles
        <3> HIDE DEF F
        <3> QED
            BY <1>1, <1>8, <3>1, InDocs
            DEF RunRuntimeVerification, WriteSecurityDocuments,
                WriteReviewDocuments
    <2> QED  BY <2>1
<1> QED  BY <1>1, <1>2, <1>3, <1>4, <1>5, <1>6, <1>7, <1>8

\* The files _required_source_files asks for belong to the app.
LEMMA RequiredWritten ==
    ASSUME NEW features \in Seq(Names), NEW names,
           names = {name \in {features[i] : i \in 1..Len(features)} :
                       Plain(name)}
    PROVE  RequiredSourceFiles(names) \subseteq FlutterSource(features)
<1> DEFINE source == FlutterSource(features)
<1>1. /\ SharedFiles \subseteq source
      /\ \A k \in KeySet(features), m \in 1..12 :
            Part(PartOrder[m], k) \in source
    BY AppSource
<1>2. ASSUME NEW name \in names
      PROVE  Parts({"screen", "logic_test", "data_test"}, CheckedKey(name))
                 \subseteq source
    <2>1. PICK i \in 1..Len(features) : name = features[i]
        OBVIOUS
    <2>2. name \in Names /\ Plain(name)
        BY <2>1
    <2>3. features # <<>> /\ Len(features) \in Nat
        BY <2>1
    <2>4. Keys(features) = [j \in 1..Len(features) |-> FeatureKey(features[j])]
        BY <2>3 DEF Keys
    <2>5. FeatureKey(name) \in KeySet(features)
        <3>1. Len(Keys(features)) = Len(features)
            BY <2>3, <2>4
        <3>2. Keys(features)[i] = FeatureKey(name)
            BY <2>1, <2>4
        <3> QED  BY <3>1, <3>2 DEF KeySet
    <2>6. CheckedKey(name) \in KeySet(features)
        BY <2>2, <2>5, PlainSlug
    <2> QED  BY <1>1, <2>6, PartNames, InParts
<1>3. CoreSet({".env.example", "pubspec.yaml", "main.dart", "app.dart",
               "api_client.dart", "app_config.dart", "app_dependencies.dart",
               "app_theme.dart", "app_scaffold.dart", "feature_card.dart",
               "state_view.dart", "app_widget_test.dart",
               "api_client_test.dart"}) \subseteq source
    BY <1>1, SharedNames, InCoreSet DEF CoreNames
<1>4. Parts({"screen"}, Home) \cup Parts({"screen"}, Settings) \subseteq source
    BY <1>1, SharedNames, InParts
<1> HIDE DEF source
<1> QED  BY <1>2, <1>3, <1>4 DEF RequiredSourceFiles, source

\* What a phase reads by name, an earlier phase writes.
LEMMA ReadsWritten ==
    ASSUME NEW features \in Seq(Names), NEW names,
           names = {name \in {features[i] : i \in 1..Len(features)} :
                       Plain(name)},
           NEW i \in 1..11,
           NEW f \in PhaseReads(FullPlan[i], names) \ RefactorReport
    PROVE  \E j \in 1..i - 1 : f \in FilesOfStep("full", FullPlan[j], features)
<1> DEFINE F(j) == FilesOfStep("full", FullPlan[j], features)
<1>1. CASE i = 2
    <2>1. f \in F(1)
        BY <1>1, FullSteps, FullFiles DEF PhaseReads, WriteBaDocuments
    <2> QED  BY <1>1, <2>1
<1>2. CASE i = 5
    <2>1. f \in Docs({"theme_config.dart", "product_spec.json",
                      "openapi.yaml"})
        BY <1>2, FullSteps DEF PhaseReads
    <2>2. f \in F(1) \cup F(2) \cup F(4)
        <3>1. /\ F(1) = WriteBaDocuments /\ F(2) = WriteBackendSource
              /\ F(4) = WriteUiuxDocuments
            BY FullFiles
        <3> HIDE DEF F
        <3> QED
            BY <2>1, <3>1, InDocs
            DEF WriteBaDocuments, BaContract, WriteBackendSource,
                BackendDocuments, WriteUiuxDocuments
    <2> QED  BY <1>2, <2>2
<1>3. CASE i \in {6, 7, 8}
    <2>1. f \in Docs({"acceptance_tests.md"})
                    \cup RequiredSourceFiles(names)
        BY <1>3, FullSteps DEF PhaseReads
    <2>2. CASE f \in Docs({"acceptance_tests.md"})
        <3>1. f \in F(1)
            BY <2>2, FullFiles, InDocs DEF WriteBaDocuments
        <3> QED  BY <1>3, <3>1
    <2>3. CASE f \in RequiredSourceFiles(names)
        <3>1. f \in F(5)
            BY <2>3, RequiredWritten, FullFiles
        <3> QED  BY <1>3, <3>1
    <2> QED  BY <2>1, <2>2, <2>3
<1>4. CASE i = 10
    <2>1. f \in CoreSet({".env.example", "api_client.dart",
                         "app_config.dart", "pubspec.yaml"})
                    \cup AllAt("backend",
                               {".env.example", "app/main.py",
                                "app/schemas.py", "requirements.txt"})
        BY <1>4, FullSteps DEF PhaseReads
    <2>2. CASE f \in CoreSet({".env.example", "api_client.dart",
                              "app_config.dart", "pubspec.yaml"})
        <3>1. f \in SharedFiles
            BY <2>2, SharedNames, InCoreSet DEF CoreNames
        <3>2. f \in F(5)
            BY <3>1, AppSource, FullFiles
        <3> QED  BY <1>4, <3>2
    <2>3. CASE f \in AllAt("backend", {".env.example", "app/main.py",
                                       "app/schemas.py", "requirements.txt"})
        <3>1. f \in F(2)
            <4>1. F(2) = WriteBackendSource
                BY FullFiles
            <4> HIDE DEF F
            <4> QED
                BY <2>3, <4>1 DEF WriteBackendSource, BackendPackage, AllAt
        <3> QED  BY <1>4, <3>1
    <2> QED  BY <2>1, <2>2, <2>3
<1>5. CASE i = 11
    <2>1. PICK n : f = At("docs", n) /\
                   n \in {"test_report.md", "production_qa_report.md",
                          "bug_list.md", "runtime_report.md",
                          "security_report.md", "architecture.md",
                          "design.md"}
        BY <1>5, FullSteps, InDocs
        DEF PhaseReads, ReviewedDocuments, RefactorReport
    <2>2. f \in F(3) \cup F(4) \cup F(7) \cup F(9) \cup F(10)
        BY <2>1, FullFiles, InDocs
        DEF WriteArchitectDocuments, WriteUiuxDocuments, RunRepairLoop,
            RunQaChecks, RunRuntimeVerification, WriteSecurityDocuments
    <2> QED  BY <1>5, <2>2
<1>6. CASE i \in {1, 3, 4, 9}
    <2>1. PhaseReads(FullPlan[i], names) = {}
        BY <1>6, FullSteps DEF PhaseReads
    <2> QED  BY <2>1
<1>7. i \in {1, 2, 3, 4, 5, 6, 7, 8, 9, 10, 11}
    OBVIOUS
<1> QED  BY <1>1, <1>2, <1>3, <1>4, <1>5, <1>6, <1>7

-----------------------------------------------------------------------------
(* What a run that is alone owns.                                          *)

Owned(fs, r, set) == \A f \in set : f \in DOMAIN fs /\ fs[f].by = r

AcceptanceTests == At("docs", "acceptance_tests.md")

\* What it has written is there and its own; and so is, whoever wrote it, the
\* report of the refactorings once the repair loop is behind it.
OwnFiles(r) ==
    /\ Owned(files, r, WriteAppBrief)
    /\ pc[r] \in {"step", "export"} =>
          /\ as[r] = "modular" => Owned(files, r, WritePlan)
          /\ \A i \in 1..at[r] - 1 :
                Owned(files, r, FilesOfStep(as[r], plan[r][i],
                                            req[r].features))
    /\ \A f : Behind(r, f) => f \in DOMAIN files /\ files[f].by = r
    /\ as[r] = "full" /\ at[r] > 7 => RefactorReport \subseteq DOMAIN files

\* After a purge there is nothing but what it has written since; in the mode
\* "full" it stops at its first phase, or finds no acceptance tests.  If it
\* has passed the checks before, there is nothing for it to go on with.
LeftFiles(r) ==
    /\ \A f \in DOMAIN files : files[f].by = r
    /\ as[r] = "full" =>
          /\ at[r] = 1 => dirs = {}
          /\ AcceptanceTests \notin DOMAIN files
          /\ at[r] > 8 /\ r \in fit => dirs = {}

\* Runs at work side by side are known to be.
OwnInv ==
    /\ \A r, t \in Runs :
          r # t /\ pc[r] \in Working /\ pc[t] \in Working => r \in shared
    /\ \A r \in purged : pc[r] \notin {"idle", "queued"}
    /\ \A r \in Runs \ shared :
          pc[r] \in Working =>
              IF r \in purged THEN LeftFiles(r) ELSE OwnFiles(r)

LEMMA OwnedKept ==
    ASSUME NEW r, NEW w, Put(r, w), NEW set, Owned(files, r, set)
    PROVE  Owned(files', r, set)
<1> SUFFICES ASSUME NEW f \in set
             PROVE  f \in DOMAIN files' /\ files'[f].by = r
    BY DEF Owned
<1>1. f \in DOMAIN files /\ files[f].by = r
    BY DEF Owned
<1>2. CASE f \in DOMAIN w
    BY <1>2, Written
<1>3. CASE f \notin DOMAIN w
    BY <1>1, <1>3, Written
<1> QED  BY <1>2, <1>3

LEMMA OwnedWrite ==
    ASSUME NEW r, NEW w, Put(r, w), NEW set, set \subseteq DOMAIN w
    PROVE  Owned(files', r, set)
BY Written DEF Owned

\* The inputs of a phase are among what its run owns, and what it comes upon
\* besides is a file of the app.
LEMMA NamedFollow ==
    ASSUME TypeInv, OwnInv, NEW r \in Runs \ shared, pc[r] = "step",
           as[r] = "full", NEW f \in NamedInputs(r)
    PROVE  /\ r \notin purged => f \in DOMAIN files
           /\ f \in DOMAIN files => files[f].by = r
<1>1. CASE r \in purged
    BY <1>1 DEF OwnInv, LeftFiles, Working
<1>2. CASE r \notin purged
    <2> DEFINE features == req[r].features
               names == {name \in {features[i] : i \in 1..Len(features)} :
                            Plain(name)}
    <2>1. /\ plan[r] = FullPlan /\ at[r] \in 1..11
          /\ features \in Seq(Names)
        BY StepPlace DEF IsRequest
    <2>2. f \in PhaseReads(FullPlan[at[r]], names) \ RefactorReport
        BY <2>1 DEF NamedInputs, Phase
    <2>3. PICK j \in 1..at[r] - 1 :
                 f \in FilesOfStep("full", FullPlan[j], features)
        BY <2>1, <2>2, ReadsWritten
    <2>4. OwnFiles(r)
        BY <1>2 DEF OwnInv, Working
    <2>5. Owned(files, r, FilesOfStep("full", FullPlan[j], features))
        BY <2>1, <2>3, <2>4 DEF OwnFiles
    <2> QED  BY <2>3, <2>5 DEF Owned
<1> QED  BY <1>1, <1>2

LEMMA ScannedFollow ==
    ASSUME TypeInv, ImportsInv, ImportsResolve, OwnInv,
           NEW r \in Runs \ shared, pc[r] = "step", as[r] = "full",
           r \notin purged, NEW f \in PhaseScans(Phase(r), DOMAIN files),
           f.dir = "source", files[f].by \notin purged
    PROVE  Resolves(f)
<1> DEFINE features == req[r].features
<1>1. f \in DOMAIN files /\ AppFile(f) /\ files[f].by \in Runs \ purged
    <2>1. f \in DOMAIN files
        BY DEF PhaseScans
    <2> QED  BY <2>1 DEF ImportsInv, InSource, TypeInv, TypeOK
<1>2. CASE f \in SharedFiles
    <2>1. plan[r] = FullPlan /\ at[r] \in 1..11
        BY StepPlace
    <2>2. at[r] \notin {1, 2, 3, 4, 5}
        <3>1. at[r] \in {1, 2, 3, 4, 5} =>
                  PhaseScans(Phase(r), DOMAIN files) = {}
            BY <2>1, FullSteps DEF PhaseScans, Phase
        <3> QED  BY <3>1
    <2>3. at[r] > 5 /\ 5 \in 1..at[r] - 1
        BY <2>1, <2>2
    <2>4. OwnFiles(r)
        BY DEF OwnInv, Working
    <2>5. Owned(files, r, FilesOfStep("full", FullPlan[5], features))
        BY <2>1, <2>3, <2>4 DEF OwnFiles
    <2>6. SharedFiles \subseteq FilesOfStep("full", FullPlan[5], features)
        BY AppSource, FullFiles
    <2>7. files[f].by = r
        BY <1>2, <2>5, <2>6 DEF Owned
    <2>8. Whole(r)
        BY <2>3 DEF TypeInv, RunOK, DevOK
    <2> QED  BY <1>1, <2>7, <2>8 DEF ImportsResolve
<1>3. CASE \E n \in 1..12 : files[f].as = PartOrder[n] /\ f.of # <<>>
    <2>1. IsFeatureText(f)
        BY <1>3, Lengths DEF IsFeatureText
    <2> QED  BY <1>1, <2>1 DEF ImportsResolve
<1> QED  BY <1>1, <1>2, <1>3 DEF AppFile

LEMMA InputsFollow ==
    TypeInv /\ ImportsInv /\ ImportsResolve /\ OwnInv => InputsAreOwn
BY NamedFollow, ScannedFollow DEF InputsAreOwn

\* A step writes the files of the step, all of them.
LEMMA StepWrites ==
    ASSUME TypeInv, NEW r \in Runs, ModuleStep(r) \/ PhaseStep(r)
    PROVE  \E w : /\ Put(r, w)
                  /\ FilesOfStep(as[r], plan[r][at[r]], req[r].features)
                         \subseteq DOMAIN w
                  /\ as[r] = "full" /\ at[r] = 7 =>
                         RefactorReport \subseteq DOMAIN files'
<1>1. CASE ModuleStep(r)
    <2> DEFINE w == Plainly(ExecuteModuleStep(plan[r][at[r]]))
    <2>1. as[r] = "modular" /\ Put(r, w)
        BY <1>1, WriteIsPut DEF ModuleStep
    <2>2. DOMAIN w = FilesOfStep(as[r], plan[r][at[r]], req[r].features)
        BY <2>1, PlainWrite DEF FilesOfStep
    <2> HIDE DEF w
    <2> QED  BY <2>1, <2>2
<1>2. CASE PhaseStep(r)
    <2> PICK b \in BOOLEAN :
              /\ b \/ Has(RefactorReport)
              /\ Write(r, Plainly(PhaseWrites(Phase(r), b)))
        BY <1>2 DEF PhaseStep
    <2> DEFINE w == Plainly(PhaseWrites(Phase(r), b))
    <2>1. as[r] = "full" /\ pc[r] = "step" /\ ~IsDev(r) /\ Put(r, w)
        BY <1>2, WriteIsPut DEF PhaseStep, InPhase
    <2>2. DOMAIN w = PhaseWrites(Phase(r), b)
        BY PlainWrite
    <2>3. PhaseWrites(Phase(r), FALSE) \subseteq PhaseWrites(Phase(r), b)
        <3>1. Phase(r) \in Phases
            BY <2>1, StepElsewhere
        <3> QED  BY <3>1 DEF PhaseWrites, Phases, RunRepairLoop
    <2>4. FilesOfStep(as[r], plan[r][at[r]], req[r].features)
              = PhaseWrites(Phase(r), FALSE)
        BY <2>1 DEF FilesOfStep, IsDev, Phase
    <2>5. ASSUME at[r] = 7 PROVE RefactorReport \subseteq DOMAIN files'
        <3>1. DOMAIN files' = DOMAIN files \cup DOMAIN w
            BY <2>1, Written
        <3>2. CASE b
            <4>1. Phase(r) = "08_refactor_repair"
                BY <2>1, <2>5, StepPlace, FullSteps DEF Phase
            <4>2. RefactorReport \subseteq PhaseWrites(Phase(r), b)
                BY <3>2, <4>1 DEF PhaseWrites, RunRepairLoop
            <4> QED  BY <2>2, <3>1, <4>2
        <3>3. CASE ~b
            BY <3>1, <3>3 DEF Has
        <3> QED  BY <3>2, <3>3
    <2> HIDE DEF w
    <2> QED  BY <2>1, <2>2, <2>3, <2>4, <2>5
<1> QED  BY <1>1, <1>2

\* A run begins to work with its intake, and touches no file before.
LEMMA WorkBegins ==
    ASSUME TypeInv, NEW r \in Runs, RunStep(r)
    PROVE  /\ shared \subseteq shared'
           /\ pc[r] \notin Working => Intake(r) \/
                 (pc'[r] \notin Working /\ UNCHANGED <<files, dirs, fit>>)
           /\ Intake(r) => /\ pc[r] = "queued" /\ pc'[r] = "plan"
                           /\ \A t \in Runs \ {r} :
                                 pc[t] \in Working => {r, t} \subseteq shared'
<1>1. shared \subseteq shared'
    BY DEF RunStep, Submit, Intake, PlanModular, PlanFull, ModuleStep,
           PhaseStep, PhaseRaises, DevShared, DevPart, DevReport, Ended,
           ExportModular, GateShut, ExportFull, seen
<1>2. ASSUME pc[r] \notin Working, ~Intake(r)
      PROVE  pc'[r] \notin Working /\ UNCHANGED <<files, dirs, fit>>
    <2>1. Submit(r) \/ Ended(r)
        BY <1>2 DEF RunStep, Working, PlanModular, PlanFull, ModuleStep,
                    PhaseStep, PhaseRaises, InPhase, DevShared, DevPart,
                    DevReport, InDev, ExportModular, GateShut, ExportFull
    <2> QED
        BY <2>1
        DEF Submit, Ended, Goto, Working, tree, locals, TypeInv, TypeOK
<1>3. ASSUME Intake(r)
      PROVE  /\ pc[r] = "queued" /\ pc'[r] = "plan"
             /\ \A t \in Runs \ {r} :
                   pc[t] \in Working => {r, t} \subseteq shared'
    <2>1. pc[r] = "queued" /\ pc'[r] = "plan"
        BY <1>3 DEF Intake, Goto, TypeInv, TypeOK
    <2>2. ASSUME NEW t \in Runs \ {r}, pc[t] \in Working
          PROVE  {r, t} \subseteq shared'
        <3> DEFINE others == {u \in Runs \ {r} : pc[u] \in Working}
        <3>1. t \in others
            BY <2>2
        <3>2. shared' = shared \cup others
                        \cup (IF others = {} THEN {} ELSE {r})
            BY <1>3 DEF Intake
        <3> HIDE DEF others
        <3> QED  BY <3>1, <3>2
    <2> QED  BY <2>1, <2>2
<1> QED  BY <1>1, <1>2, <1>3

\* A run that stays at work has taken one of these steps.
LEMMA WorkSteps ==
    ASSUME TypeInv, NEW r \in Runs, RunStep(r), pc'[r] \in Working
    PROVE  \/ Intake(r)
           \/ /\ pc[r] = "plan" /\ pc'[r] = "step"
              /\ PlanModular(r) \/ PlanFull(r)
           \/ /\ pc[r] = "step" /\ pc'[r] \in {"step", "export"}
              /\ \/ ModuleStep(r) \/ PhaseStep(r) \/ DevReport(r)
                 \/ DevShared(r) \/ DevPart(r)
<1>1. ~Submit(r) /\ ~Ended(r) /\ ~PhaseRaises(r)
    BY DEF Submit, Ended, PhaseRaises, Goto, Working, TypeInv, TypeOK
<1>2. ~ExportModular(r) /\ ~GateShut(r) /\ ~ExportFull(r)
    BY DEF ExportModular, GateShut, ExportFull, Goto, Working, TypeInv, TypeOK
<1>3. PlanModular(r) \/ PlanFull(r) => pc[r] = "plan" /\ pc'[r] = "step"
    BY DEF PlanModular, PlanFull, Goto, Working, TypeInv, TypeOK
<1>4. ModuleStep(r) \/ PhaseStep(r) \/ DevReport(r) =>
          pc[r] = "step" /\ pc'[r] \in {"step", "export"}
    BY DEF ModuleStep, PhaseStep, InPhase, DevReport, InDev, Advance, Goto,
           TypeInv, TypeOK
<1>5. DevShared(r) \/ DevPart(r) => pc[r] = "step" /\ pc'[r] = "step"
    BY DEF DevShared, DevPart, InDev
<1> QED  BY <1>1, <1>2, <1>3, <1>4, <1>5 DEF RunStep

\* A write of the run's keeps what it owns.
LEMMA OwnKept ==
    ASSUME NEW r, NEW w, Put(r, w)
    PROVE  /\ \A set : Owned(files, r, set) => Owned(files', r, set)
           /\ \A f : f \in DOMAIN files /\ files[f].by = r =>
                         f \in DOMAIN files' /\ files'[f].by = r
           /\ DOMAIN files \subseteq DOMAIN files'
<1>1. \A set : Owned(files, r, set) => Owned(files', r, set)
    BY OwnedKept
<1>2. ASSUME NEW f \in DOMAIN files, files[f].by = r
      PROVE  f \in DOMAIN files' /\ files'[f].by = r
    <2>1. Owned(files, r, {f})
        BY <1>2 DEF Owned
    <2> QED  BY <1>1, <2>1 DEF Owned
<1>3. DOMAIN files \subseteq DOMAIN files'
    BY Written
<1> QED  BY <1>1, <1>2, <1>3

\* What a run that is alone owns, after a step of its own.
LEMMA OwnOfPlan ==
    ASSUME TypeInv, NEW r \in Runs, PlanModular(r) \/ PlanFull(r),
           pc[r] = "plan", pc'[r] = "step", OwnFiles(r)
    PROVE  OwnFiles(r)'
<1>1. /\ UNCHANGED <<as, at, req, app>> /\ at[r] = 1
      /\ \/ as[r] = "modular" /\ Put(r, Plainly(WritePlan))
         \/ as[r] = "full" /\ UNCHANGED files
    <2>1. at[r] = 1
        BY DEF TypeInv, RunOK
    <2>2. CASE PlanModular(r)
        <3>1. pc'[r] # "stopped"
            OBVIOUS
        <3>2. Write(r, Plainly(WritePlan))
            BY <2>2, <3>1 DEF PlanModular, Goto, TypeInv, TypeOK
        <3> QED  BY <2>1, <2>2, <3>2, WriteIsPut DEF PlanModular
    <2>3. CASE PlanFull(r)
        BY <2>1, <2>3 DEF PlanFull, tree
    <2> QED  BY <2>2, <2>3
<1>2. (\A i \in 1..at'[r] - 1 : FALSE) /\ ~(at'[r] > 7)
    BY <1>1
<1>3. \A f : Behind(r, f)' <=> Behind(r, f)
    BY <1>1, BehindSame
<1>4. CASE as[r] = "modular" /\ Put(r, Plainly(WritePlan))
    <2>1. Owned(files', r, WritePlan)
        BY <1>4, PlainWrite, OwnedWrite
    <2>2. Owned(files', r, WriteAppBrief)
        BY <1>4, OwnKept DEF OwnFiles
    <2>3. \A f : Behind(r, f)' => f \in DOMAIN files' /\ files'[f].by = r
        BY <1>3, <1>4, OwnKept DEF OwnFiles
    <2> QED  BY <1>2, <2>1, <2>2, <2>3 DEF OwnFiles
<1>5. CASE as[r] = "full" /\ UNCHANGED files
    <2>1. as'[r] # "modular"
        BY <1>1, <1>5
    <2>2. Owned(files', r, WriteAppBrief)
        BY <1>5 DEF OwnFiles
    <2>3. \A f : Behind(r, f)' => f \in DOMAIN files' /\ files'[f].by = r
        BY <1>3, <1>5 DEF OwnFiles
    <2> QED  BY <1>2, <2>1, <2>2, <2>3 DEF OwnFiles
<1> QED  BY <1>1, <1>4, <1>5

LEMMA OwnOfStep ==
    ASSUME TypeInv, NEW r \in Runs,
           ModuleStep(r) \/ PhaseStep(r) \/ DevReport(r),
           pc[r] = "step", OwnFiles(r)
    PROVE  OwnFiles(r)'
<1> DEFINE F(i) == FilesOfStep(as[r], plan[r][i], req[r].features)
<1>1. /\ UNCHANGED <<as, plan, req, app>> /\ at'[r] = at[r] + 1
    BY DEF ModuleStep, PhaseStep, DevReport, Advance, TypeInv
<1>2. at[r] \in Nat /\ at[r] >= 1
    <2>1. Len(plan[r]) \in Nat /\ at[r] \in 1..Len(plan[r])
        BY StepPlace
    <2> QED  BY <2>1
<1>3. \E w : /\ Put(r, w)
             /\ \A f \in F(at[r]) : f \in DOMAIN w \/
                    (f \in DOMAIN files /\ files[f].by = r)
             /\ as[r] = "full" /\ at[r] = 7 =>
                    RefactorReport \subseteq DOMAIN files'
    <2>1. CASE ModuleStep(r) \/ PhaseStep(r)
        BY <2>1, StepWrites
    <2>2. CASE DevReport(r)
        <3> DEFINE w == Plainly(FrontendIntegrationReport)
        <3>1. Put(r, w) /\ as[r] = "full" /\ Phase(r) = "06_flutter_dev"
              /\ Whole(r)
            BY <2>2, WriteIsPut DEF DevReport, InDev, IsDev, Whole
        <3>2. at[r] = 5
            BY <3>1, StepPlace
        <3>3. DOMAIN w = FrontendIntegrationReport
            BY PlainWrite
        <3>4. F(at[r]) = FlutterSource(req[r].features)
                             \cup FrontendIntegrationReport
            BY <3>1 DEF FilesOfStep, Phase
        <3>5. /\ \A f \in SharedFiles : Behind(r, f)
              /\ \A k \in KeySet(req[r].features), m \in 1..12 :
                    Behind(r, Part(PartOrder[m], k))
            <4>1. AppIn(req[r].features, app[r])
                BY DEF TypeInv, TypeOK, AppIn
            <4>2. Len(Keys(req[r].features)) \in Nat
                BY StepPlace
            <4> QED  BY <3>1, <4>1, <4>2, BehindWhole
        <3>6. \A f \in FlutterSource(req[r].features) : Behind(r, f)
            BY <3>5, AppSource
        <3> HIDE DEF w, F
        <3>7. \A f \in F(at[r]) : f \in DOMAIN w \/
                  (f \in DOMAIN files /\ files[f].by = r)
            BY <3>3, <3>4, <3>6 DEF OwnFiles
        <3> QED  BY <3>1, <3>2, <3>7
    <2> QED  BY <2>1, <2>2
<1> HIDE DEF F
<1> PICK w : /\ Put(r, w)
             /\ \A f \in F(at[r]) : f \in DOMAIN w \/
                    (f \in DOMAIN files /\ files[f].by = r)
             /\ as[r] = "full" /\ at[r] = 7 =>
                    RefactorReport \subseteq DOMAIN files'
    BY <1>3
<1>4. Owned(files', r, F(at[r]))
    <2>1. ASSUME NEW f \in F(at[r])
          PROVE  f \in DOMAIN files' /\ files'[f].by = r
        <3>1. CASE f \in DOMAIN w
            <4>1. Put(r, w)
                OBVIOUS
            <4>2. /\ DOMAIN files' = DOMAIN files \cup DOMAIN w
                  /\ \A g \in DOMAIN w :
                        files'[g].by = r /\ files'[g].as = w[g]
                  /\ \A g \in DOMAIN files \ DOMAIN w :
                        files'[g] = files[g]
                BY <4>1, Written, ZenonT(30)
            <4> QED  BY <3>1, <4>2
        <3>2. CASE f \in DOMAIN files /\ files[f].by = r
            BY <3>2, OwnKept
        <3> QED  BY <2>1, <3>1, <3>2
    <2> QED  BY <2>1 DEF Owned
<1>5. /\ as[r] = "modular" => Owned(files, r, WritePlan)
      /\ \A i \in 1..at[r] - 1 : Owned(files, r, F(i))
    BY DEF OwnFiles, F
<1>6. ASSUME NEW i \in 1..at'[r] - 1 PROVE Owned(files', r, F(i))
    <2>1. i = at[r] \/ i \in 1..at[r] - 1
        BY <1>1, <1>2
    <2> QED  BY <1>4, <1>5, <2>1, OwnKept
<1>7. as[r] = "modular" => Owned(files', r, WritePlan)
    BY <1>5, OwnKept
<1>8. Owned(files', r, WriteAppBrief)
    BY OwnKept DEF OwnFiles
<1>9. \A f : Behind(r, f)' => f \in DOMAIN files' /\ files'[f].by = r
    <2>1. \A f : Behind(r, f)' <=> Behind(r, f)
        BY <1>1, BehindSame
    <2> QED  BY <2>1, OwnKept DEF OwnFiles
<1>10. as[r] = "full" /\ at'[r] > 7 => RefactorReport \subseteq DOMAIN files'
    <2>1. at'[r] > 7 => at[r] = 7 \/ at[r] > 7
        BY <1>1, <1>2
    <2> QED  BY <2>1, OwnKept DEF OwnFiles
<1> QED  BY <1>1, <1>6, <1>7, <1>8, <1>9, <1>10 DEF OwnFiles, F

LEMMA OwnOfDev ==
    ASSUME TypeInv, NEW r \in Runs, DevShared(r) \/ DevPart(r),
           pc[r] = "step", OwnFiles(r)
    PROVE  OwnFiles(r)'
<1> PICK w : Put(r, w) /\ \A f : Behind(r, f)' => Behind(r, f)
                                                  \/ f \in DOMAIN w
    BY BehindStep
<1>1. UNCHANGED <<pc, as, plan, req, at>>
    BY DEF DevShared, DevPart
<1>2. ASSUME NEW f, Behind(r, f)'
      PROVE  f \in DOMAIN files' /\ files'[f].by = r
    <2>1. CASE f \in DOMAIN w
        BY <2>1, Written
    <2>2. CASE Behind(r, f)
        BY <2>2, OwnKept DEF OwnFiles
    <2> QED  BY <1>2, <2>1, <2>2
<1>3. Owned(files', r, WriteAppBrief)
    BY OwnKept DEF OwnFiles
<1>4. as[r] = "modular" => Owned(files', r, WritePlan)
    BY OwnKept DEF OwnFiles
<1>5. \A i \in 1..at[r] - 1 :
          Owned(files', r, FilesOfStep(as[r], plan[r][i], req[r].features))
    BY OwnKept DEF OwnFiles
<1>6. as[r] = "full" /\ at[r] > 7 => RefactorReport \subseteq DOMAIN files'
    BY OwnKept DEF OwnFiles
<1> QED  BY <1>1, <1>2, <1>3, <1>4, <1>5, <1>6 DEF OwnFiles

LEMMA OwnOfIntake ==
    ASSUME TypeInv, NEW r \in Runs, Intake(r), pc[r] = "queued",
           pc'[r] = "plan"
    PROVE  OwnFiles(r)'
<1>1. Put(r, Plainly(WriteAppBrief)) /\ UNCHANGED <<at, app>>
    BY IntakePuts DEF Intake
<1>2. Owned(files', r, WriteAppBrief)
    BY <1>1, PlainWrite, OwnedWrite
<1>3. at[r] = 1 /\ DevOK(r)
    BY DEF TypeInv, RunOK
<1>4. at[r] < 5 /\ ~(at'[r] > 7)
    BY <1>1, <1>3
<1>5. app'[r] = <<0, 0>>
    BY <1>1, <1>3, <1>4 DEF DevOK
<1>6. \A f : ~Behind(r, f)'
    BY <1>5, BehindNothing
<1> QED  BY <1>2, <1>4, <1>6 DEF OwnFiles

-----------------------------------------------------------------------------
(* After a purge.                                                          *)

LEMMA LeftWritten ==
    ASSUME NEW r, NEW w, Put(r, w), \A f \in DOMAIN files : files[f].by = r
    PROVE  \A f \in DOMAIN files' : files'[f].by = r
<1> SUFFICES ASSUME NEW f \in DOMAIN files' PROVE files'[f].by = r
    OBVIOUS
<1>0. /\ DOMAIN files' = DOMAIN files \cup DOMAIN w
      /\ \A g \in DOMAIN w : files'[g].by = r /\ files'[g].as = w[g]
      /\ \A g \in DOMAIN files \ DOMAIN w : files'[g] = files[g]
    BY Written, ZenonT(30)
<1>1. CASE f \in DOMAIN w
    BY <1>0, <1>1
<1>2. CASE f \notin DOMAIN w
    BY <1>0, <1>2
<1> QED  BY <1>1, <1>2

\* No phase after 02 writes the acceptance tests.
LEMMA TestsWritten ==
    ASSUME NEW i \in 2..11, NEW b \in BOOLEAN, i # 5
    PROVE  AcceptanceTests \notin PhaseWrites(FullPlan[i], b)
<1>1. \A names : AcceptanceTests \in Docs(names) =>
                    "acceptance_tests.md" \in names
    BY InDocs DEF AcceptanceTests, At
<1>2. \A names : AcceptanceTests \notin AllAt("backend", names)
    BY AllAtDir DEF AcceptanceTests, At
<1>3. AcceptanceTests \notin WriteBackendSource
    BY <1>1, <1>2
    DEF WriteBackendSource, BackendPackage, BackendContractTest,
        BackendDocuments
<1>4. AcceptanceTests \notin WriteArchitectDocuments \cup WriteUiuxDocuments
    BY <1>1 DEF WriteArchitectDocuments, WriteUiuxDocuments
<1>5. AcceptanceTests \notin RunQaChecks \cup RunRepairLoop(b)
    BY <1>1 DEF RunQaChecks, RunRepairLoop, RefactorReport
<1>6. AcceptanceTests \notin RunRuntimeVerification
                                 \cup WriteSecurityDocuments
                                 \cup WriteReviewDocuments
    BY <1>1
    DEF RunRuntimeVerification, WriteSecurityDocuments, WriteReviewDocuments
<1>7. PhaseWrites(FullPlan[i], b) \in
          {WriteBackendSource, WriteArchitectDocuments, WriteUiuxDocuments,
           RunQaChecks, RunRepairLoop(b), RunRuntimeVerification,
           WriteSecurityDocuments, WriteReviewDocuments}
    <2>1. i \in {2, 3, 4, 6, 7, 8, 9, 10, 11}
        OBVIOUS
    <2> QED  BY <2>1, FullSteps DEF PhaseWrites
<1> QED  BY <1>3, <1>4, <1>5, <1>6, <1>7

LEMMA LeftOfPhase ==
    ASSUME TypeInv, NEW r \in Runs, PhaseStep(r), pc[r] = "step", LeftFiles(r)
    PROVE  LeftFiles(r)'
<1> PICK b \in BOOLEAN : Write(r, Plainly(PhaseWrites(Phase(r), b)))
    BY DEF PhaseStep
<1> DEFINE w == Plainly(PhaseWrites(Phase(r), b))
<1>1. /\ as[r] = "full" /\ ~IsDev(r) /\ CanRun(r) /\ Put(r, w)
      /\ UNCHANGED as /\ at'[r] = at[r] + 1
    BY WriteIsPut DEF PhaseStep, InPhase, Advance, TypeInv
<1>2. /\ plan[r] = FullPlan /\ at[r] \in 1..11 /\ at[r] # 5
    BY <1>1, StepPlace DEF IsDev
<1>3. Phase(r) # "03_backend_design" => "docs" \in dirs
    <2>1. Phase(r) \in Phases
        BY <1>1, StepElsewhere
    <2> QED  BY <1>1, <2>1 DEF CanRun, PhaseNeeds, Phases
<1>4. at[r] # 2 => dirs # {}
    <2>1. at[r] # 2 => Phase(r) # "03_backend_design"
        <3>1. at[r] \in {1, 2, 3, 4, 6, 7, 8, 9, 10, 11}
            BY <1>2
        <3> QED  BY <1>2, <3>1, FullSteps DEF Phase
    <2> QED  BY <1>3, <2>1
<1>5. at[r] # 1 /\ ~(at[r] > 8 /\ r \in fit)
    BY <1>1, <1>2, <1>4 DEF LeftFiles
<1>6. \A f \in DOMAIN files' : files'[f].by = r
    BY <1>1, LeftWritten DEF LeftFiles
<1>7. AcceptanceTests \notin DOMAIN files'
    <2>1. AcceptanceTests \notin DOMAIN w
        <3>1. AcceptanceTests \notin PhaseWrites(Phase(r), b)
            BY <1>2, <1>5, TestsWritten DEF Phase
        <3> QED  BY <3>1, PlainWrite
    <2>2. AcceptanceTests \notin DOMAIN files
        BY <1>1 DEF LeftFiles
    <2> HIDE DEF w
    <2>3. DOMAIN files' = DOMAIN files \cup DOMAIN w
        BY <1>1, Written
    <2> QED  BY <2>1, <2>2, <2>3
<1>8. at'[r] > 8 => r \notin fit'
    <2> SUFFICES ASSUME at'[r] > 8 PROVE r \notin fit'
        OBVIOUS
    <2>1. at[r] = 8 \/ at[r] \in {9, 10, 11}
        BY <1>1, <1>2
    <2>2. CASE at[r] = 8
        <3>1. Phase(r) = "07_static_qa"
            BY <1>2, <2>2, FullSteps DEF Phase
        <3>2. ~CanPass(r)
            <4>1. AcceptanceTests \in PassNeeds(req[r].features)
                BY InDocs DEF PassNeeds, AcceptanceTests
            <4>2. AcceptanceTests \notin DOMAIN files
                BY <1>1 DEF LeftFiles
            <4> QED  BY <4>1, <4>2 DEF CanPass, Has
        <3> QED  BY <3>1, <3>2 DEF PhaseStep
    <2>3. CASE at[r] \in {9, 10, 11}
        <3>1. Phase(r) # "07_static_qa"
            BY <1>2, <2>3, FullSteps DEF Phase
        <3>4. fit' = fit
            <4> DEFINE p == Phase(r)
            <4>1. fit' = CASE p # "07_static_qa" -> fit
                           [] CanPass(r)          -> fit \cup {r}
                           [] OTHER               -> fit \ {r}
                BY DEF PhaseStep
            <4>2. p # "07_static_qa"
                BY <3>1
            <4>3. ~CanPass(r)
                <5>1. AcceptanceTests \in PassNeeds(req[r].features)
                    BY InDocs DEF PassNeeds, AcceptanceTests
                <5>2. AcceptanceTests \notin DOMAIN files
                    BY <1>1 DEF LeftFiles
                <5> QED  BY <5>1, <5>2 DEF CanPass, Has
            <4> HIDE DEF p
            <4> QED  BY <4>1, <4>2, <4>3
        <3>3. at[r] > 8
            BY <2>3
        <3> QED  BY <1>5, <3>3, <3>4
    <2> QED  BY <2>1, <2>2, <2>3
<1>9. at'[r] # 1
    BY <1>1, <1>2
<1> QED  BY <1>6, <1>7, <1>8, <1>9 DEF LeftFiles

LEMMA LeftOfDev ==
    ASSUME TypeInv, NEW r \in Runs, LeftFiles(r), pc[r] = "step",
           DevReport(r) \/ DevShared(r) \/ DevPart(r)
    PROVE  LeftFiles(r)'
<1>1. /\ as[r] = "full" /\ UNCHANGED <<as, fit>> /\ at[r] = 5
      /\ at'[r] \in {5, 6}
    <2>1. as[r] = "full" /\ Phase(r) = "06_flutter_dev"
        BY DEF DevReport, DevShared, DevPart, InDev, IsDev
    <2>2. at[r] = 5
        BY <2>1, StepPlace
    <2>3. CASE DevReport(r)
        <3>1. at'[r] = at[r] + 1
            BY <2>3 DEF DevReport, Advance, TypeInv
        <3> QED  BY <2>1, <2>2, <2>3, <3>1 DEF DevReport
    <2>4. CASE DevShared(r) \/ DevPart(r)
        BY <2>1, <2>2, <2>4 DEF DevShared, DevPart
    <2> QED  BY <2>3, <2>4
<1>2. at'[r] # 1 /\ ~(at'[r] > 8)
    BY <1>1
<1>3. PICK w : Put(r, w) /\ AcceptanceTests \notin DOMAIN w
    <2>1. CASE DevReport(r)
        <3>1. Put(r, Plainly(FrontendIntegrationReport))
            BY <2>1, WriteIsPut DEF DevReport
        <3>2. AcceptanceTests \notin FrontendIntegrationReport
            BY InDocs DEF FrontendIntegrationReport, AcceptanceTests, At
        <3> QED  BY <3>1, <3>2, PlainWrite
    <2>2. CASE DevShared(r)
        <3> PICK n \in 1..18 :
                  Put(r, One(SharedOrder[n], SharedText(SharedOrder[n])))
            BY <2>2, SharedPlace
        <3>1. SharedOrder[n].dir = "source"
            <4>1. SharedOrder[n] \in SharedFiles
                BY Lengths DEF SharedFiles
            <4> QED
                BY <4>1, SharedNames, InCoreSet, PartFields DEF InSource
        <3>2. AcceptanceTests.dir # "source"
            BY DEF AcceptanceTests, At
        <3>3. AcceptanceTests # SharedOrder[n]
            BY <3>1, <3>2
        <3> DEFINE w == One(SharedOrder[n], SharedText(SharedOrder[n]))
        <3>4. DOMAIN w = {SharedOrder[n]} /\ Put(r, w)
            BY OneWrite
        <3> HIDE DEF w
        <3> QED  BY <3>3, <3>4
    <2>3. CASE DevPart(r)
        <3> PICK i \in 1..Len(Keys(req[r].features)), n \in 1..12 :
                  Put(r, One(Part(PartOrder[n], Keys(req[r].features)[i]),
                             PartOrder[n]))
            BY <2>3, PartPlace
        <3>1. AcceptanceTests # Part(PartOrder[n], Keys(req[r].features)[i])
            BY DEF AcceptanceTests, At, Part
        <3> QED  BY <3>1, OneWrite
    <2> QED  BY <2>1, <2>2, <2>3
<1>4. \A f \in DOMAIN files' : files'[f].by = r
    BY <1>3, LeftWritten DEF LeftFiles
<1>5. AcceptanceTests \notin DOMAIN files'
    <2>1. DOMAIN files' = DOMAIN files \cup DOMAIN w
        BY <1>3, Written
    <2>2. AcceptanceTests \notin DOMAIN files
        BY <1>1 DEF LeftFiles
    <2> QED  BY <1>3, <2>1, <2>2
<1> QED  BY <1>2, <1>4, <1>5 DEF LeftFiles

LEMMA LeftOfModular ==
    ASSUME TypeInv, NEW r \in Runs, LeftFiles(r),
           PlanModular(r) \/ PlanFull(r) \/ ModuleStep(r)
    PROVE  LeftFiles(r)'
<1>1. CASE as[r] = "modular"
    <2>1. UNCHANGED as /\ as'[r] # "full"
        BY <1>1 DEF PlanModular, PlanFull, ModuleStep
    <2>2. UNCHANGED files \/ \E w : Put(r, w)
        BY RunWrites DEF RunStep
    <2>3. \A f \in DOMAIN files' : files'[f].by = r
        BY <2>2, LeftWritten DEF LeftFiles
    <2> QED  BY <2>1, <2>3 DEF LeftFiles
<1>2. CASE as[r] # "modular"
    <2>1. UNCHANGED <<files, dirs, as, at, fit>>
        BY <1>2 DEF PlanModular, PlanFull, ModuleStep, tree
    <2> QED  BY <2>1 DEF LeftFiles
<1> QED  BY <1>1, <1>2

-----------------------------------------------------------------------------

\* A run that has begun does not wait again.
LEMMA NeverBack ==
    ASSUME TypeInv, NEW r \in Runs, RunStep(r), pc'[r] \in {"idle", "queued"}
    PROVE  pc[r] \in {"idle", "queued"}
<1>1. CASE pc[r] \notin {"idle", "queued"}
    <2>2. CASE PlanModular(r) \/ PlanFull(r)
        BY <2>2 DEF PlanModular, PlanFull, Goto, TypeInv, TypeOK
    <2>3. CASE ModuleStep(r) \/ PhaseStep(r) \/ DevReport(r)
        BY <2>3 DEF ModuleStep, PhaseStep, DevReport, Advance, Goto, TypeInv,
                    TypeOK
    <2>4. CASE DevShared(r) \/ DevPart(r)
        BY <1>1, <2>4 DEF DevShared, DevPart
    <2>5. CASE \/ PhaseRaises(r) \/ Ended(r) \/ ExportModular(r)
               \/ GateShut(r) \/ ExportFull(r)
        BY <2>5 DEF PhaseRaises, Ended, ExportModular, GateShut, ExportFull,
                    Goto, TypeInv, TypeOK
    <2>6. ~Submit(r) /\ ~Intake(r)
        BY <1>1 DEF Submit, Intake
    <2> QED  BY <2>2, <2>3, <2>4, <2>5, <2>6 DEF RunStep
<1> QED  BY <1>1

LEMMA OwnStep == TypeInv /\ OwnInv /\ [Next]_vars => OwnInv'
<1> SUFFICES ASSUME TypeInv, OwnInv, [Next]_vars PROVE OwnInv'
    OBVIOUS
<1>1. CASE UNCHANGED vars
    <2>1. UNCHANGED <<files, dirs, pc, req, as, plan, at, app, fit, shared,
                      purged>>
        BY <1>1 DEF vars
    <2>3. \A r \in Runs : OwnFiles(r)' <=> OwnFiles(r)
        <3>1. \A r, f : Behind(r, f)' <=> Behind(r, f)
            BY <2>1 DEF Behind
        <3> QED  BY <2>1, <3>1 DEF OwnFiles
    <2>4. \A r \in Runs : LeftFiles(r)' <=> LeftFiles(r)
        BY <2>1 DEF LeftFiles
    <2> QED  BY <2>1, <2>3, <2>4 DEF OwnInv
<1>2. CASE \E r \in Runs : RunStep(r)
    <2> PICK r \in Runs : RunStep(r)
        BY <1>2
    <2>1. /\ shared \subseteq shared' /\ purged' = purged
          /\ \A t \in Runs \ {r} :
                /\ pc'[t] = pc[t] /\ req'[t] = req[t] /\ as'[t] = as[t]
                /\ plan'[t] = plan[t] /\ at'[t] = at[t] /\ app'[t] = app[t]
        BY WorkBegins, OthersStay, PurgedStays DEF Others
    <2>2. ASSUME NEW x \in Runs, NEW t \in Runs, x # t,
                 pc'[x] \in Working, pc'[t] \in Working
          PROVE  x \in shared'
        <3>1. CASE pc[x] \in Working /\ pc[t] \in Working
            BY <2>1, <2>2, <3>1 DEF OwnInv
        <3>2. CASE x = r /\ pc[r] \notin Working
            BY <2>1, <2>2, <3>2, WorkBegins
        <3>3. CASE t = r /\ pc[r] \notin Working
            BY <2>1, <2>2, <3>3, WorkBegins
        <3> QED  BY <2>1, <2>2, <3>1, <3>2, <3>3
    <2>3. ASSUME NEW t \in Runs \ {r}, t \notin shared', pc'[t] \in Working
          PROVE  /\ UNCHANGED <<files, dirs, fit>>
                 /\ t \notin shared /\ pc[t] \in Working
        <3>1. t \notin shared /\ pc[t] \in Working
            BY <2>1, <2>3
        <3>2. pc[r] \notin Working
            BY <3>1 DEF OwnInv
        <3> QED  BY <2>3, <3>1, <3>2, WorkBegins
    <2>4. ASSUME NEW t \in Runs \ {r}, t \notin shared', pc'[t] \in Working
          PROVE  IF t \in purged' THEN LeftFiles(t)' ELSE OwnFiles(t)'
        <3>1. /\ UNCHANGED <<files, dirs, fit>>
              /\ t \notin shared /\ pc[t] \in Working
            BY <2>3, <2>4
        <3>2. IF t \in purged THEN LeftFiles(t) ELSE OwnFiles(t)
            BY <3>1 DEF OwnInv
        <3>3. LeftFiles(t) => LeftFiles(t)'
            BY <2>1, <3>1 DEF LeftFiles
        <3>4. OwnFiles(t) => OwnFiles(t)'
            <4>1. \A f : Behind(t, f)' <=> Behind(t, f)
                BY <2>1, BehindSame
            <4> QED  BY <2>1, <3>1, <4>1 DEF OwnFiles
        <3> QED  BY <2>1, <3>2, <3>3, <3>4
    <2>5. ASSUME r \notin shared', pc'[r] \in Working
          PROVE  IF r \in purged' THEN LeftFiles(r)' ELSE OwnFiles(r)'
        <3>1. r \notin shared
            BY <2>1, <2>5
        <3>2. CASE Intake(r)
            <4>1. pc[r] = "queued" /\ pc'[r] = "plan"
                BY <3>2, WorkBegins
            <4>2. r \notin purged
                BY <4>1 DEF OwnInv
            <4> QED  BY <2>1, <3>2, <4>1, <4>2, OwnOfIntake
        <3>3. CASE ~Intake(r)
            <4>1. pc[r] \in Working
                BY <2>5, <3>3, WorkBegins
            <4>2. IF r \in purged THEN LeftFiles(r) ELSE OwnFiles(r)
                BY <3>1, <4>1 DEF OwnInv
            <4>3. OwnFiles(r) => OwnFiles(r)'
                BY <2>5, <3>3, WorkSteps, OwnOfPlan, OwnOfStep, OwnOfDev
            <4>4. LeftFiles(r) => LeftFiles(r)'
                BY <2>5, <3>3, WorkSteps, LeftOfPhase, LeftOfDev,
                   LeftOfModular
            <4> QED  BY <2>1, <4>2, <4>3, <4>4
        <3> QED  BY <3>2, <3>3
    <2>6. ASSUME NEW t \in purged' PROVE pc'[t] \notin {"idle", "queued"}
        <3>1. t \in Runs /\ pc[t] \notin {"idle", "queued"}
            BY <2>1, <2>6 DEF OwnInv, TypeInv, TypeOK
        <3> QED  BY <2>1, <3>1, NeverBack
    <2> QED  BY <2>2, <2>4, <2>5, <2>6 DEF OwnInv
<1>3. CASE Purge
    <2>1. /\ UNCHANGED <<pc, shared>> /\ DOMAIN files' = {} /\ dirs' = {}
          /\ \A r \in Runs : pc[r] \in Working => r \in purged'
        BY <1>3 DEF Purge, NoFiles
    <2>2. \A r \in Runs : LeftFiles(r)'
        BY <2>1 DEF LeftFiles
    <2>3. \A r \in purged' : pc[r] \notin {"idle", "queued"}
        BY <1>3 DEF Purge, OwnInv, Working
    <2> QED  BY <2>1, <2>2, <2>3 DEF OwnInv
<1> QED  BY <1>1, <1>2, <1>3 DEF Next

LEMMA OwnAlways == Spec => []OwnInv
<1>1. Init => OwnInv
    <2> SUFFICES ASSUME Init PROVE OwnInv
        OBVIOUS
    <2>1. purged = {} /\ \A r \in Runs : pc[r] \notin Working
        BY DEF Init, Working
    <2> QED  BY <2>1 DEF OwnInv
<1> QED  BY <1>1, TypeAlways, OwnStep, PTL DEF Spec

\* A run that was never at work beside another run of its slug reads by name
\* in each phase of run_full_pipeline only what it has written itself, source
\* files under keys that two agents derive on their own among them
\* (_feature_key, _required_source_files), and that is there unless the
\* directory was purged; the source files it comes upon (flutter analyze and
\* test, the scans of the security agent and the reviewer), left by whichever
\* earlier request, import only what is there.
THEOREM InputsAlwaysOwn == Spec => []InputsAreOwn
BY TypeAlways, UnsupportedAlways, ImportsAlways, ImportsFollow, OwnAlways,
   InputsFollow, PTL

-----------------------------------------------------------------------------
(* What an archive holds.                                                  *)

\* The one archive is that of a run that has come to its end.
ArchiveInv ==
    /\ \A a \in archive : a.by \in Runs /\ pc[a.by] \in Ends
    /\ ArchiveIsComplete

\* The modules write nothing that belongs to a feature.
LEMMA ModulePlain ==
    ASSUME NEW m \in ModuleNames, NEW f \in ExecuteModuleStep(m) \cup WritePlan
    PROVE  f.of = <<>>
<1>1. \/ \E names : f \in Docs(names)
      \/ \E dir, names : f \in AllAt(dir, names)
    <2>1. f \in RunCommonBrief \cup RunCommonBusinessAnalysis
                \cup RunCommonArchitecture \cup RunCommonUiux \cup RunCommonQa
                \cup RunCommonRepair \cup RunCommonRuntime
                \cup RunCommonSecurity \cup RunCommonReleaseReview
                \cup RunCommonExportReport \cup WritePlan
                \cup RunFlutterModule \cup RunReactModule \cup RunNextjsModule
                \cup RunFastapiModule \cup RunSupabaseModule
        BY DEF ExecuteModuleStep, ModuleNames
    <2>2. CASE f \in RunCommonBrief \cup RunCommonBusinessAnalysis
                     \cup RunCommonArchitecture \cup RunCommonUiux
                     \cup RunCommonQa
        BY <2>2 DEF RunCommonBrief, RunCommonBusinessAnalysis,
                    RunCommonArchitecture, RunCommonUiux, RunCommonQa
    <2>3. CASE f \in RunCommonRepair \cup RunCommonRuntime
                     \cup RunCommonSecurity \cup RunCommonReleaseReview
                     \cup RunCommonExportReport \cup WritePlan
        BY <2>3 DEF RunCommonRepair, RunCommonRuntime, RunCommonSecurity,
                    RunCommonReleaseReview, RunCommonExportReport, WritePlan
    <2>4. CASE f \in RunFlutterModule \cup RunReactModule \cup RunNextjsModule
        BY <2>4 DEF RunFlutterModule, RunReactModule, RunNextjsModule
    <2>5. CASE f \in RunFastapiModule \cup RunSupabaseModule
        BY <2>5 DEF RunFastapiModule, RunSupabaseModule
    <2> QED  BY <2>1, <2>2, <2>3, <2>4, <2>5
<1> QED  BY <1>1, AllAtDir DEF Docs

LEMMA PlainIncluded ==
    ASSUME NEW f, f.of = <<>>
    PROVE  ShouldIncludeExportFile(f)
BY DEF ShouldIncludeExportFile, ExcludedParts

\* What a job delivers is among what its run owns when it comes to the
\* archive, and among what the archive takes along.
LEMMA DeliveredModular ==
    ASSUME TypeInv, OwnInv, NEW r \in Runs \ shared, pc[r] = "export",
           r \notin purged, as[r] = "modular", NEW f \in Delivered(r)
    PROVE  /\ f \in ModularArchive(DOMAIN files)
           /\ files[f].by = r
<1>1. /\ plan[r] = Build(req[r]) /\ plan[r] # NoPlan
      /\ at[r] = Len(plan[r]) + 1
    BY DEF TypeInv, RunOK
<1>2. Len(plan[r]) \in Nat /\ Len(plan[r]) >= 1
    BY <1>1, Built
<1>3. OwnFiles(r)
    BY DEF OwnInv, Working
<1>4. /\ Owned(files, r, WritePlan)
      /\ \A i \in 1..at[r] - 1 :
            Owned(files, r, FilesOfStep(as[r], plan[r][i], req[r].features))
    BY <1>3 DEF OwnFiles
<1>5. f \in WritePlan \/ \E i \in 1..Len(plan[r]) :
                            f \in ExecuteModuleStep(plan[r][i])
    BY DEF Delivered
<1>6. \A i \in 1..Len(plan[r]) : plan[r][i] \in ModuleNames
    BY <1>1, PlanModules
<1>7. CASE f \in WritePlan
    <2>1. f.dir = "docs"
        BY <1>7, DocsElsewhere DEF WritePlan
    <2>2. f.of = <<>>
        BY <1>2, <1>6, <1>7, ModulePlain
    <2>3. f \in DOMAIN files /\ files[f].by = r
        BY <1>4, <1>7 DEF Owned
    <2> QED
        BY <2>1, <2>2, <2>3, PlainIncluded DEF ModularArchive, ModularRoots
<1>8. CASE \E i \in 1..Len(plan[r]) : f \in ExecuteModuleStep(plan[r][i])
    <2> PICK i \in 1..Len(plan[r]) : f \in ExecuteModuleStep(plan[r][i])
        BY <1>8
    <2>1. plan[r][i] \in ModuleNames
        BY <1>6
    <2>2. f.dir \in ModularRoots /\ f.of = <<>>
        BY <2>1, ModuleFiles, ModulePlain
    <2>3. i \in 1..at[r] - 1
        BY <1>1, <1>2
    <2>4. Owned(files, r, ExecuteModuleStep(plan[r][i]))
        BY <1>4, <2>3 DEF FilesOfStep
    <2>5. f \in DOMAIN files /\ files[f].by = r
        BY <2>4 DEF Owned
    <2> QED  BY <2>2, <2>5, PlainIncluded DEF ModularArchive
<1> QED  BY <1>5, <1>7, <1>8

LEMMA DeliveredFull ==
    ASSUME TypeInv, OwnInv, NEW r \in Runs \ shared, pc[r] = "export",
           r \notin purged, as[r] = "full"
    PROVE  /\ \A f \in Delivered(r) :
                 f \in SourceArchive(DOMAIN files) /\ files[f].by = r
           /\ RefactorReport \subseteq SourceArchive(DOMAIN files)
<1> DEFINE features == req[r].features
           F(i) == FilesOfStep("full", FullPlan[i], features)
<1>1. /\ plan[r] = FullPlan /\ at[r] = 12
    <2>1. plan[r] = FullPlan /\ at[r] = Len(plan[r]) + 1
        BY DEF TypeInv, RunOK
    <2>2. Len(FullPlan) = 11
        BY FullSteps
    <2> QED  BY <2>1, <2>2
<1>2. OwnFiles(r)
    BY DEF OwnInv, Working
<1>3. /\ Owned(files, r, WriteAppBrief)
      /\ \A i \in 1..11 : Owned(files, r, F(i))
    BY <1>1, <1>2 DEF OwnFiles
<1>4. RefactorReport \subseteq DOMAIN files
    <2>1. at[r] > 7
        BY <1>1
    <2> QED  BY <1>2, <2>1 DEF OwnFiles
<1>5. RefactorReport \subseteq HandoffDocuments
    BY InDocs DEF RefactorReport, HandoffDocuments
<1>6. RefactorReport \subseteq SourceArchive(DOMAIN files)
    BY <1>4, <1>5 DEF SourceArchive
<1>7. ASSUME NEW f \in Delivered(r)
      PROVE  f \in SourceArchive(DOMAIN files) /\ files[f].by = r
    <2>1. CASE f \in FlutterSource(features) /\ ShouldIncludeExportFile(f)
        <3>1. f.dir = "source" /\ Root(f) # "docs"
            BY <2>1, AppSource DEF Root
        <3>2. f \in F(5)
            BY <2>1, FullFiles
        <3>3. f \in DOMAIN files /\ files[f].by = r
            BY <1>3, <3>2 DEF Owned
        <3> QED  BY <2>1, <3>1, <3>3 DEF SourceArchive
    <2>2. CASE f \in HandoffDocuments \ RefactorReport
        <3>1. f \in WriteAppBrief \/ \E i \in 1..11 : f \in F(i)
            BY <2>2, HandoffWritten
        <3>2. f \in DOMAIN files /\ files[f].by = r
            BY <1>3, <3>1 DEF Owned
        <3> QED  BY <2>2, <3>2 DEF SourceArchive
    <2>3. CASE f \in WriteBackendSource /\ f.dir = "backend"
        <3>1. f \in F(2)
            BY <2>3, FullFiles
        <3>2. f \in DOMAIN files /\ files[f].by = r
            BY <1>3, <3>1 DEF Owned
        <3>3. f.of = <<>>
            BY <2>3, AllAtDir
            DEF WriteBackendSource, BackendPackage, BackendContractTest,
                BackendDocuments, Docs
        <3>4. Root(f) # "docs"
            BY <2>3 DEF Root
        <3> QED  BY <3>2, <3>3, <3>4, PlainIncluded DEF SourceArchive
    <2>4. \/ f \in FlutterSource(features) /\ ShouldIncludeExportFile(f)
          \/ f \in HandoffDocuments \ RefactorReport
          \/ f \in WriteBackendSource /\ f.dir = "backend"
        BY <1>7 DEF Delivered
    <2> QED  BY <2>1, <2>2, <2>3, <2>4
<1> QED  BY <1>6, <1>7

LEMMA DeliveredSame ==
    ASSUME NEW r, as'[r] = as[r], plan'[r] = plan[r], req'[r] = req[r]
    PROVE  Delivered(r)' = Delivered(r)
BY DEF Delivered

\* A run of the mode "full" that was purged makes no archive.
LEMMA PurgedStops ==
    ASSUME TypeInv, OwnInv, NEW r \in Runs \ shared, r \in purged,
           ExportFull(r)
    PROVE  archive' = archive
<1>1. pc[r] = "export" /\ as[r] = "full" /\ r \in fit
    BY DEF ExportFull
<1>2. at[r] > 8
    <2>1. plan[r] = FullPlan /\ at[r] = Len(plan[r]) + 1
        BY <1>1 DEF TypeInv, RunOK
    <2>2. Len(FullPlan) = 11
        BY FullSteps
    <2> QED  BY <2>1, <2>2
<1>3. LeftFiles(r)
    BY <1>1 DEF OwnInv, Working
<1>4. dirs = {}
    BY <1>1, <1>2, <1>3 DEF LeftFiles
<1> QED  BY <1>4 DEF ExportFull

\* The archive of a run that has just come to its end.
LEMMA ArchiveOfRun ==
    ASSUME TypeInv, OwnInv, NEW r \in Runs,
           ExportModular(r) \/ ExportFull(r), archive' # archive
    PROVE  ArchiveInv'
<1>1. /\ pc[r] = "export" /\ pc'[r] \in Ends
      /\ UNCHANGED <<locals, shared, purged>>
      /\ \E set : /\ archive' = {Archived(r, set)}
                  /\ as[r] = "modular" => set = ModularArchive(DOMAIN files)
                  /\ as[r] = "full" => set = SourceArchive(DOMAIN files)
    <2>1. CASE ExportModular(r)
        BY <2>1 DEF ExportModular, Goto, Ends, seen, TypeInv, TypeOK
    <2>2. CASE ExportFull(r)
        BY <2>2 DEF ExportFull, Goto, Ends, seen, TypeInv, TypeOK
    <2> QED  BY <2>1, <2>2
<1> PICK set : /\ archive' = {Archived(r, set)}
               /\ as[r] = "modular" => set = ModularArchive(DOMAIN files)
               /\ as[r] = "full" => set = SourceArchive(DOMAIN files)
    BY <1>1
<1> DEFINE a == Archived(r, set)
<1>2. /\ a.by = r /\ DOMAIN a.files = set
      /\ \A f \in set : a.files[f] = files[f].by
    BY DEF Archived
<1>3. Delivered(r)' = Delivered(r)
    BY <1>1, DeliveredSame DEF locals
<1>4. ASSUME r \notin shared, as[r] = "modular" => r \notin purged
      PROVE  /\ \A f \in Delivered(r) : f \in set /\ files[f].by = r
             /\ as[r] = "full" => RefactorReport \subseteq set
    <2>1. CASE as[r] = "modular"
        BY <1>1, <1>4, <2>1, DeliveredModular
    <2>2. CASE as[r] = "full"
        <3>1. ExportFull(r)
            BY <2>2 DEF ExportModular
        <3>2. r \notin purged
            BY <1>4, <3>1, PurgedStops
        <3> QED  BY <1>1, <1>4, <2>2, <3>2, DeliveredFull
    <2> QED  BY <2>1, <2>2 DEF TypeInv, TypeOK, Modes
<1> HIDE DEF a
<1>5. archive' = {a}
    BY DEF a
<1>6. ArchiveIsComplete'
    <2> SUFFICES ASSUME NEW b \in archive', b.by \notin shared',
                        as'[b.by] = "modular" => b.by \notin purged'
                 PROVE  /\ \A f \in Delivered(b.by)' :
                              f \in DOMAIN b.files /\ b.files[f] = b.by
                        /\ as'[b.by] = "full" =>
                              RefactorReport \subseteq DOMAIN b.files
        BY DEF ArchiveIsComplete
    <2>1. b = a /\ UNCHANGED <<as, shared, purged>>
        BY <1>1, <1>5 DEF locals
    <2>2. /\ \A f \in Delivered(r) : f \in set /\ files[f].by = r
          /\ as[r] = "full" => RefactorReport \subseteq set
        BY <1>2, <1>4, <2>1
    <2> QED  BY <1>2, <1>3, <2>1, <2>2
<1> QED  BY <1>1, <1>2, <1>5, <1>6 DEF ArchiveInv

LEMMA ArchiveStep ==
    TypeInv /\ OwnInv /\ ArchiveInv /\ [Next]_vars => ArchiveInv'
<1> SUFFICES ASSUME TypeInv, OwnInv, ArchiveInv, [Next]_vars
             PROVE  ArchiveInv'
    OBVIOUS
<1>1. ASSUME NEW r \in Runs, RunStep(r), archive' # archive
      PROVE  ArchiveInv'
    <2>1. ExportModular(r) \/ ExportFull(r)
        BY <1>1 DEF RunStep, Submit, Intake, PlanModular, PlanFull,
                    ModuleStep, PhaseStep, PhaseRaises, DevShared, DevPart,
                    DevReport, Ended, GateShut
    <2> QED  BY <1>1, <2>1, ArchiveOfRun
<1>2. ASSUME UNCHANGED archive, shared \subseteq shared',
             purged \subseteq purged',
             \A a \in archive :
                /\ pc'[a.by] = pc[a.by] /\ as'[a.by] = as[a.by]
                /\ plan'[a.by] = plan[a.by] /\ req'[a.by] = req[a.by]
      PROVE  ArchiveInv'
    <2>1. \A a \in archive : Delivered(a.by)' = Delivered(a.by)
        BY <1>2, DeliveredSame
    <2>2. ASSUME NEW a \in archive', a.by \notin shared',
                 as'[a.by] = "modular" => a.by \notin purged'
          PROVE  /\ \A f \in Delivered(a.by)' :
                       f \in DOMAIN a.files /\ a.files[f] = a.by
                 /\ as'[a.by] = "full" =>
                       RefactorReport \subseteq DOMAIN a.files
        <3>1. a \in archive /\ a.by \notin shared
              /\ (as[a.by] = "modular" => a.by \notin purged)
            BY <1>2, <2>2
        <3> QED  BY <1>2, <2>1, <3>1 DEF ArchiveInv, ArchiveIsComplete
    <2>3. ArchiveIsComplete'
        BY <2>2 DEF ArchiveIsComplete
    <2> QED  BY <1>2, <2>3 DEF ArchiveInv
<1>3. ASSUME NEW r \in Runs, RunStep(r), archive' = archive
      PROVE  ArchiveInv'
    <2>1. pc[r] \notin Ends
        <3>1. pc[r] \in {"idle", "queued"} \cup Working
            BY <1>3 DEF RunStep, Submit, Intake, PlanModular, PlanFull,
                        ModuleStep, PhaseStep, PhaseRaises, InPhase,
                        DevShared, DevPart, DevReport, InDev, Ended,
                        ExportModular, GateShut, ExportFull, Working
        <3> QED  BY <3>1 DEF Working, Ends
    <2>2. \A a \in archive : a.by \in Runs \ {r}
        BY <2>1 DEF ArchiveInv
    <2>3. purged' = purged /\ shared \subseteq shared' /\ Others(r)
        BY <1>3, PurgedStays, OthersStay, WorkBegins
    <2> QED  BY <1>2, <1>3, <2>2, <2>3 DEF Others
<1>4. CASE UNCHANGED vars
    BY <1>2, <1>4 DEF vars
<1>5. CASE Purge
    BY <1>5 DEF Purge, ArchiveInv, ArchiveIsComplete
<1> QED  BY <1>1, <1>3, <1>4, <1>5 DEF Next

\* The archive of a run that was never at work beside another holds everything
\* its steps were to make and an archive takes along, as they made it, in both
\* modes and whatever earlier jobs of the slug have left; a purge under the run
\* keeps the mode "full" from making an archive of what is left
\* (export_modular_project_archive, export_source_archive,
\* _should_include_export_file, delete_single_job).
THEOREM ArchivesComplete == Spec => []ArchiveIsComplete
<1>1. Init => ArchiveInv
    BY DEF Init, ArchiveInv, ArchiveIsComplete
<1>2. ArchiveInv => ArchiveIsComplete
    BY DEF ArchiveInv
<1> QED  BY <1>1, <1>2, TypeAlways, OwnAlways, ArchiveStep, PTL DEF Spec

=============================================================================
