---------------------------- MODULE AppDirectory ----------------------------
(***************************************************************************)
(* One app directory over the jobs of its slug, in either pipeline mode:   *)
(* what is in it, who wrote it, and what the archive of a job holds.       *)
(*                                                                         *)
(* FactoryPlan and FlutterFiles say what a step reads and writes; a run is *)
(* taken step by step over files that stay from run to run, and that a     *)
(* delete with purge may take away under it.  The rows of the jobs are     *)
(* JobLifecycle's, the verdicts of the checks and the gate are             *)
(* FlutterPipeline's: here a gate opens or not, unless the files alone     *)
(* keep it shut.  write_flutter_source writes a file at a time, each other *)
(* step all of its files at once.                                          *)
(***************************************************************************)
EXTENDS FactoryPlan, FlutterFiles, FiniteSets

CONSTANTS
    Runs,             \* the POST requests made for this slug, one run each
    Payloads,         \* what may be asked for
    DefaultFeatures,  \* the router's features for a payload without any
    MaxFaults         \* bound: stop requests, failures and purges that meet
                      \* a run, in a behaviour

ASSUME AppDirectoryAssumption ==
    /\ MaxFaults \in Nat
    /\ Payloads \subseteq [type : STRING, backend : STRING,
                           stack : [Categories -> STRING],
                           features : Seq(Seq(Words \cup Separators))]
    /\ DefaultFeatures \in Seq(Seq(Words \cup Separators)) \ {<<>>}

VARIABLES
    files,      \* file -> [by, as]: the run that wrote it, and its text
    dirs,       \* the directories docs, source and backend that are there
    pc,         \* where each run is
    req,        \* the request of a run, a member of Payloads once made
    as,         \* the mode a run was taken in
    plan,       \* its steps
    at,         \* index in plan of the next one
    app,        \* <<i, n>>: write_flutter_source has come to file n of the
                \* feature i, or of the files every app has if i = 0
    fit,        \* runs whose last check could be PASS
    archive,    \* exports/<slug>_source.zip: [by, files]
    shared,     \* observer: runs that were at work beside another run
    purged,     \* observer: runs at work when the directory was purged
    faults      \* number of stop requests, failures, and purges under a run

vars == <<files, dirs, pc, req, as, plan, at, app, fit, archive, shared,
          purged, faults>>
tree   == <<files, dirs>>
locals == <<req, as, plan, at, app, fit>>
seen   == <<shared, purged>>

\* The end of a run; a job that was stopped is failed or cancelled.
Ends    == {"succeeded", "stopped"}
Working == {"plan", "step", "export"}
Modes   == {"modular", "full"}

NoFiles == [f \in {} |-> f]

Init ==
    /\ files = NoFiles
    /\ dirs = {}
    /\ pc = [r \in Runs |-> "idle"]
    /\ req = [r \in Runs |-> CHOOSE p \in Payloads : TRUE]
    /\ as = [r \in Runs |-> "modular"]
    /\ plan = [r \in Runs |-> NoPlan]
    /\ at = [r \in Runs |-> 1]
    /\ app = [r \in Runs |-> <<0, 0>>]
    /\ fit = {}
    /\ archive = {}
    /\ shared = {}
    /\ purged = {}
    /\ faults = 0

Goto(r, place) == pc' = [pc EXCEPT ![r] = place]

Write(r, write) ==
    /\ files' = Over(files, By(r, write))
    /\ dirs' = dirs \cup {Root(f) : f \in DOMAIN write}

Has(set) == set \subseteq DOMAIN files

-----------------------------------------------------------------------------

\* create_generation_job: the request is normalised, the features default.
Submit(r) ==
    /\ pc[r] = "idle"
    /\ \E p \in Payloads :
          req' = [req EXCEPT ![r] =
                     [Normalize(p) EXCEPT !.features =
                         IF @ = <<>> THEN DefaultFeatures ELSE @]]
    /\ Goto(r, "queued")
    /\ UNCHANGED <<tree, as, plan, at, app, fit, archive, seen, faults>>

\* _run_flutter_job up to the pipeline: the directories are made, the intake
\* documents written.  The mode is that of the process that takes the job.
Intake(r) ==
    LET others == {t \in Runs \ {r} : pc[t] \in Working}
    IN  /\ pc[r] = "queued"
        /\ files' = Over(files, By(r, Plainly(WriteAppBrief)))
        /\ dirs' = dirs \cup {"docs", "source"}
        /\ \E mode \in Modes : as' = [as EXCEPT ![r] = mode]
        /\ Goto(r, "plan")
        /\ shared' = shared \cup others
                     \cup (IF others = {} THEN {} ELSE {r})
        /\ UNCHANGED <<req, plan, at, app, fit, archive, purged, faults>>

\* run_modular_pipeline up to the loop: the payload is normalised again; the
\* plan is kept in a document, or there is none and the job fails.
PlanModular(r) ==
    LET steps == Build(Normalize(req[r]))
    IN  /\ pc[r] = "plan" /\ as[r] = "modular"
        /\ \/ /\ steps = NoPlan
              /\ Goto(r, "stopped")
              /\ UNCHANGED <<tree, plan>>
           \/ /\ steps # NoPlan
              /\ plan' = [plan EXCEPT ![r] = steps]
              /\ Write(r, Plainly(WritePlan))
              /\ Goto(r, "step")
        /\ UNCHANGED <<req, as, at, app, fit, archive, seen, faults>>

\* run_full_pipeline has one plan.
PlanFull(r) ==
    /\ pc[r] = "plan" /\ as[r] = "full"
    /\ plan' = [plan EXCEPT ![r] = FullPlan]
    /\ Goto(r, "step")
    /\ UNCHANGED <<tree, req, as, at, app, fit, archive, seen, faults>>

\* On to the next step, or to the archive.
Advance(r) ==
    /\ at' = [at EXCEPT ![r] = @ + 1]
    /\ Goto(r, IF at[r] = Len(plan[r]) THEN "export" ELSE "step")

\* execute_module_step.
ModuleStep(r) ==
    /\ pc[r] = "step" /\ as[r] = "modular"
    /\ Write(r, Plainly(ExecuteModuleStep(plan[r][at[r]])))
    /\ Advance(r)
    /\ UNCHANGED <<req, as, plan, app, fit, archive, seen, faults>>

Phase(r) == plan[r][at[r]]

IsDev(r) == as[r] = "full" /\ Phase(r) = "06_flutter_dev"

\* A phase other than 06, in a directory that may have gone.
InPhase(r) == pc[r] = "step" /\ as[r] = "full" /\ ~IsDev(r)

CanRun(r) == PhaseNeeds(Phase(r)) \subseteq dirs /\ Has(PhaseMustRead(Phase(r)))

\* A check of the files that are there could be PASS.
CanPass(r) == Has(PassNeeds(req[r].features)) /\ "backend" \in dirs

\* A phase of run_full_pipeline other than 06.  A round of the repair loop
\* runs or not, as MAX_REPAIR_ATTEMPTS has it.
PhaseStep(r) ==
    /\ InPhase(r) /\ CanRun(r)
    /\ \E refactored \in BOOLEAN :
          /\ refactored \/ Has(RefactorReport)
          /\ Write(r, Plainly(PhaseWrites(Phase(r), refactored)))
    /\ fit' = CASE Phase(r) # "07_static_qa" -> fit
                [] CanPass(r)               -> fit \cup {r}
                [] OTHER                    -> fit \ {r}
    /\ Advance(r)
    /\ UNCHANGED <<req, as, plan, app, archive, seen, faults>>

\* The phase finds no directory to work in, or not its input.
PhaseRaises(r) ==
    /\ InPhase(r) /\ ~CanRun(r)
    /\ Goto(r, "stopped")
    /\ UNCHANGED <<tree, locals, archive, seen, faults>>

\* The phase 06: the files every app has, those of each feature, and the
\* report of the integration.
InDev(r) == pc[r] = "step" /\ IsDev(r)

DevShared(r) ==
    LET n == app[r][2] + 1
    IN  /\ InDev(r) /\ app[r][1] = 0
        /\ Write(r, One(SharedOrder[n], SharedText(SharedOrder[n])))
        /\ app' = [app EXCEPT ![r] =
                      IF n = Len(SharedOrder) THEN <<1, 0>> ELSE <<0, n>>]
        /\ UNCHANGED <<pc, req, as, plan, at, fit, archive, seen, faults>>

DevPart(r) ==
    LET i == app[r][1]
        n == app[r][2] + 1
        f == Part(PartOrder[n], Keys(req[r].features)[i])
    IN  /\ InDev(r) /\ i \in 1..Len(Keys(req[r].features))
        /\ Write(r, One(f, f.name))
        /\ app' = [app EXCEPT ![r] =
                      IF n = Len(PartOrder) THEN <<i + 1, 0>> ELSE <<i, n>>]
        /\ UNCHANGED <<pc, req, as, plan, at, fit, archive, seen, faults>>

DevReport(r) ==
    /\ InDev(r) /\ app[r][1] > Len(Keys(req[r].features))
    /\ Write(r, Plainly(FrontendIntegrationReport))
    /\ Advance(r)
    /\ UNCHANGED <<req, as, plan, app, fit, archive, seen, faults>>

\* A step raises, before or after it wrote, write_flutter_source after any
\* of its files; or a stop request is seen.
Ended(r) ==
    /\ faults < MaxFaults
    /\ pc[r] \in Working \cup {"queued"}
    /\ faults' = faults + 1
    /\ Goto(r, "stopped")
    /\ UNCHANGED <<tree, locals, archive, seen>>

\* An archive of these files, in the place of any other.
Archived(r, set) ==
    [by |-> r, files |-> [f \in set |-> files[f].by]]

\* Mutant of ExportModular: the archive of an earlier job is kept.
ExportModularBeside(r) ==
    /\ pc[r] = "export" /\ as[r] = "modular"
    /\ archive' = archive \cup {Archived(r, ModularArchive(DOMAIN files))}
    /\ Goto(r, "succeeded")
    /\ UNCHANGED <<tree, locals, seen, faults>>

\* export_modular_project_archive.
ExportModular(r) ==
    /\ pc[r] = "export" /\ as[r] = "modular"
    /\ archive' = {Archived(r, ModularArchive(DOMAIN files))}
    /\ Goto(r, "succeeded")
    /\ UNCHANGED <<tree, locals, seen, faults>>

\* The gate does not open.
GateShut(r) ==
    /\ pc[r] = "export" /\ as[r] = "full"
    /\ Goto(r, "stopped")
    /\ UNCHANGED <<tree, locals, archive, seen, faults>>

\* The gate opens: export_source_archive, which raises without source/, and
\* with the archive written when there is no docs/ for its report.
ExportFull(r) ==
    /\ pc[r] = "export" /\ as[r] = "full"
    /\ r \in fit
    /\ archive' = IF "source" \in dirs
                  THEN {Archived(r, SourceArchive(DOMAIN files))} ELSE archive
    /\ \/ /\ {"source", "docs"} \subseteq dirs
          /\ Write(r, Plainly(Docs({"export_report.md"})))
          /\ Goto(r, "succeeded")
       \/ /\ ~({"source", "docs"} \subseteq dirs)
          /\ Goto(r, "stopped")
          /\ UNCHANGED tree
    /\ UNCHANGED <<locals, seen, faults>>

\* delete_single_job with purge, which asks neither for the status of the
\* job nor whether a run is at work.
Purge ==
    LET met == {r \in Runs : pc[r] \in Working}
    IN  /\ dirs # {}
        /\ met # {} => faults < MaxFaults
        /\ files' = NoFiles
        /\ dirs' = {}
        /\ archive' = {}
        /\ purged' = purged \cup met
        /\ faults' = IF met = {} THEN faults ELSE faults + 1
        /\ UNCHANGED <<pc, locals, shared>>

RunStep(r) ==
    \/ Submit(r) \/ Intake(r) \/ PlanModular(r) \/ PlanFull(r)
    \/ ModuleStep(r) \/ PhaseStep(r) \/ PhaseRaises(r)
    \/ DevShared(r) \/ DevPart(r) \/ DevReport(r) \/ Ended(r)
    \/ ExportModular(r) \/ GateShut(r) \/ ExportFull(r)

Next == (\E r \in Runs : RunStep(r)) \/ Purge

Spec == Init /\ [][Next]_vars

-----------------------------------------------------------------------------
(* Correctness.                                                            *)

\* Every variable stays in its range.
TypeOK ==
    /\ \A f \in DOMAIN files : files[f].by \in Runs /\ Root(f) \in dirs
    /\ dirs \subseteq {"docs", "source", "backend"}
    /\ pc \in [Runs -> {"idle", "queued"} \cup Working \cup Ends]
    /\ as \in [Runs -> Modes]
    /\ \A r \in Runs : at[r] \in 1..Len(plan[r]) + 1
    /\ \A r \in Runs :
          \/ app[r] \in {0} \X (0..Len(SharedOrder) - 1)
          \/ app[r] \in (1..Len(Keys(req[r].features)))
                            \X (0..Len(PartOrder) - 1)
          \/ app[r] = <<Len(Keys(req[r].features)) + 1, 0>>
    /\ Cardinality(archive) <= 1
    /\ fit \subseteq Runs
    /\ shared \subseteq Runs
    /\ purged \subseteq Runs
    /\ faults \in 0..MaxFaults

Resolves(f) ==
    ImportsOf(files[f].as, f.of, KeySet(req[files[f].by].features))
        \subseteq DOMAIN files

IsFeatureText(f) ==
    f.of # <<>> /\ \E i \in 1..Len(PartOrder) : files[f].as = PartOrder[i]

\* write_flutter_source came to its end.
Whole(r) == app[r][1] > Len(Keys(req[r].features))

\* Every import of a file of the app leads to a file, whichever requests the
\* directory has served and whichever runs wrote into each other's files:
\* those of a run that has written its whole app, and the files of a feature
\* even of a run that is still at it or was stopped in the middle.  Only
\* files of a run whose directory was purged away under it may dangle.
ImportsResolve ==
    \A r \in Runs \ purged :
        LET whole == Whole(r)
        IN  \A f \in DOMAIN files :
                /\ f.dir = "source" /\ files[f].by = r
                /\ whole \/ IsFeatureText(f)
                => Resolves(f)

\* The files that the phase at hand reads by name, features among them whose
\* names two agents spell alike; refactor_report.md is left out, which stays
\* from an earlier job when no round of repairs is run.
NamedInputs(r) ==
    LET features == req[r].features
        names == {features[i] : i \in 1..Len(features)}
    IN  PhaseReads(Phase(r), {name \in names : Plain(name)})
            \ RefactorReport

\* A phase finds each input it reads by name, and as its own run wrote it,
\* also in a directory that was purged in between, where it is missing but
\* never another's.  What it comes upon by looking over source/ may be an
\* earlier request's, which then does not stop the analyser or the tests:
\* its imports lead to files.
InputsAreOwn ==
    \A r \in Runs \ shared :
        pc[r] = "step" /\ as[r] = "full" =>
            /\ \A f \in NamedInputs(r) :
                  /\ r \notin purged => f \in DOMAIN files
                  /\ f \in DOMAIN files => files[f].by = r
            /\ r \notin purged =>
                  \A f \in PhaseScans(Phase(r), DOMAIN files) :
                      f.dir = "source" /\ files[f].by \notin purged
                          => Resolves(f)

\* What a job that succeeded is for, as far as an archive takes it along.
Delivered(r) ==
    IF as[r] = "modular"
    THEN WritePlan \cup
         UNION {ExecuteModuleStep(plan[r][i]) : i \in 1..Len(plan[r])}
    ELSE {f \in FlutterSource(req[r].features) : ShouldIncludeExportFile(f)}
         \cup {f \in WriteBackendSource : f.dir = "backend"}
         \cup (HandoffDocuments \ RefactorReport)

\* The archive of a job that was alone holds everything its steps made, as
\* they made it, whatever is left of earlier jobs, and whenever a purge came
\* in between: in the mode "full" a run that lost its files does not succeed.
\* In the mode "modular" it does, with what it wrote after the purge; and a
\* feature whose key is a directory that archives leave out stays behind.
ArchiveIsComplete ==
    \A a \in archive :
        a.by \notin shared /\ (as[a.by] = "modular" => a.by \notin purged) =>
            /\ \A f \in Delivered(a.by) :
                  f \in DOMAIN a.files /\ a.files[f] = a.by
            /\ as[a.by] = "full" => RefactorReport \subseteq DOMAIN a.files

\* The request has no workflow, or its stack names no module for a step of it.
Unsupported(q) ==
    \/ q.type \notin DOMAIN Workflows
    \/ \E s \in Selects, i \in 1..Len(Workflows[q.type]) :
          /\ Workflows[q.type][i] = s[1]
          /\ q.stack[s[2]] \notin DOMAIN StackModules[s[2]]

\* A request that a step has no module for fails before any step is taken,
\* never half-way: besides the intake documents nothing that earlier jobs
\* left is touched.
UnsupportedTouchesNothing ==
    \A r \in Runs :
        as[r] = "modular" /\ Unsupported(req[r]) =>
            /\ pc[r] \notin {"step", "export", "succeeded"}
            /\ \A f \in DOMAIN files :
                  files[f].by = r => f \in WriteAppBrief

=============================================================================
