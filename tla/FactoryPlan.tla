---------------------------- MODULE FactoryPlan ----------------------------
(***************************************************************************)
(* FACTORY_PIPELINE_MODE "modular", the default: how a request becomes a   *)
(* sequence of modules (factory_core: request_adapter, stack_resolver,     *)
(* pipeline_builder, the workflow and module registries with workflows/    *)
(* and modules/), and which files the executor of each module writes.      *)
(*                                                                         *)
(* A stack gives each category the name of a stack, "" for none; a name    *)
(* that is given but empty is one of those no module goes by.              *)
(***************************************************************************)
EXTENDS AppFiles, Sequences, Naturals

Categories == {"mobile", "frontend", "backend", "database"}

NoStack == [c \in Categories |-> ""]

-----------------------------------------------------------------------------
(* normalize_factory_request.                                              *)

\* The backends that mean none, in any case of letters.
NoBackend == {"", "none", "None", "NONE"}

\* What an old payload means, which has no stack.
LegacyStack(backend) ==
    [NoStack EXCEPT !["mobile"] = "flutter",
                    !["backend"] = IF backend \in NoBackend THEN ""
                                   ELSE "fastapi"]

Normalize(p) ==
    [p EXCEPT !.type  = IF @ = "" THEN "mobile_app" ELSE @,
              !.stack = IF @ = NoStack THEN LegacyStack(p.backend) ELSE @]

-----------------------------------------------------------------------------
(* Registries.                                                             *)

\* workflows/mobile_app.yaml.
MobileApp ==
    <<"common.brief", "common.business_analysis", "common.architecture",
      "common.uiux", "mobile.selected", "common.qa", "common.repair",
      "common.runtime", "common.security", "common.release_review",
      "common.export">>

\* workflows/fullstack_saas.yaml.
FullstackSaas ==
    <<"common.brief", "common.business_analysis", "common.architecture",
      "database.selected", "backend.selected", "frontend.selected",
      "common.qa", "common.repair", "common.runtime", "common.security",
      "common.release_review", "common.export">>

\* WorkflowRegistry: the other seven project types have no workflow.
Workflows == [mobile_app |-> MobileApp, fullstack_saas |-> FullstackSaas]

\* supported_project_types of the manifests that do not name every type.
UiuxTypes     == {"mobile_app", "web_app", "fullstack_saas",
                  "admin_dashboard"}
FlutterTypes  == {"mobile_app", "fullstack_saas"}
ReactTypes    == {"web_app", "admin_dashboard", "fullstack_saas"}
NextjsTypes   == {"web_app", "admin_dashboard", "fullstack_saas"}
FastapiTypes  == {"backend_api", "fullstack_saas", "mobile_app"}
SupabaseTypes == {"fullstack_saas", "mobile_app", "web_app"}

\* request.project_type in module.supported_project_types.
Supports(m, type) ==
    CASE m = "common.uiux"       -> type \in UiuxTypes
      [] m = "mobile.flutter"    -> type \in FlutterTypes
      [] m = "frontend.react"    -> type \in ReactTypes
      [] m = "frontend.nextjs"   -> type \in NextjsTypes
      [] m = "backend.fastapi"   -> type \in FastapiTypes
      [] m = "database.supabase" -> type \in SupabaseTypes
      [] m \in {"common.qa", "common.repair", "common.runtime",
                "common.security"} -> type # "docs_only"
      [] OTHER -> TRUE

-----------------------------------------------------------------------------
(* resolve_selected_module and PipelineBuilder.build.                      *)

\* STACK_MODULE_MAP.
StackModules ==
    [mobile   |-> [flutter |-> "mobile.flutter"],
     frontend |-> [react |-> "frontend.react", nextjs |-> "frontend.nextjs"],
     backend  |-> [fastapi |-> "backend.fastapi"],
     database |-> [supabase |-> "database.supabase"]]

\* The selectors, <category>.selected.
Selects ==
    {<<"mobile.selected", "mobile">>, <<"frontend.selected", "frontend">>,
     <<"backend.selected", "backend">>, <<"database.selected", "database">>}

Unresolved == "unresolved"

ResolveSelectedModule(selector, stack) ==
    LET categories == {c \in Categories : <<selector, c>> \in Selects}
    IN  IF categories = {} THEN selector
        ELSE LET c == CHOOSE c \in categories : TRUE
             IN  IF stack[c] \in DOMAIN StackModules[c]
                 THEN StackModules[c][stack[c]] ELSE Unresolved

NoPlan == <<>>

Selection(q) ==
    [i \in 1..Len(Workflows[q.type]) |->
        ResolveSelectedModule(Workflows[q.type][i], q.stack)]

\* Mutant of Build: steps that cannot be resolved are left out.
BuildWhatResolves(q) ==
    IF q.type \notin DOMAIN Workflows THEN NoPlan
    ELSE SelectSeq(Selection(q), LAMBDA m : m # Unresolved)

\* NoPlan stands for an exception: the modules of a plan are all known and
\* all support the project type.
Build(q) ==
    IF /\ q.type \in DOMAIN Workflows
       /\ \A i \in 1..Len(Workflows[q.type]) :
             /\ Selection(q)[i] # Unresolved
             /\ Supports(Selection(q)[i], q.type)
    THEN Selection(q) ELSE NoPlan

-----------------------------------------------------------------------------
(* module_executor: the files of each module.  None reads a file.          *)

RunCommonBrief == Docs({"input.json", "app_brief.md", "project_context.md"})

RunCommonBusinessAnalysis ==
    Docs({"requirements.md", "user_stories.md", "acceptance_criteria.md",
          "product_spec.json"})

RunCommonArchitecture ==
    Docs({"architecture.md", "folder_structure.md", "dependency_plan.md"})

RunCommonUiux ==
    Docs({"design.md", "screen_list.md", "component_spec.md", "ui_states.md"})

RunFlutterModule ==
    AllAt("source/mobile", {"pubspec.yaml", "lib/main.dart"})
        \cup Docs({"mobile_flutter_report.md"})

RunReactModule ==
    AllAt("source/frontend", {"package.json", "src/main.tsx", "src/App.tsx"})
        \cup Docs({"frontend_react_report.md"})

RunNextjsModule ==
    AllAt("source/frontend", {"package.json", "app/page.tsx"})
        \cup Docs({"frontend_nextjs_report.md"})

RunFastapiModule ==
    AllAt("source/backend", {"requirements.txt", "main.py",
                             "tests/test_health.py"})
        \cup Docs({"backend_fastapi_report.md"})

RunSupabaseModule ==
    AllAt("source/infra/supabase", {"schema.sql", "seed.sql"})
        \cup Docs({"database_schema.sql", "env_contract.md"})

RunCommonQa == Docs({"test_report.md", "bug_list.md", "qa_summary.json"})

RunCommonRepair == Docs({"refactor_report.md", "repair_history.md"})

RunCommonRuntime == Docs({"runtime_report.md", "runtime_summary.json"})

RunCommonSecurity ==
    Docs({"security_report.md", "production_release_checklist.md"})

RunCommonReleaseReview ==
    Docs({"final_review.md", "release_checklist.md", "handoff_notes.md"})

RunCommonExportReport == Docs({"export_report.md"})

\* execute_module_step.
ExecuteModuleStep(m) ==
    CASE m = "common.brief"             -> RunCommonBrief
      [] m = "common.business_analysis" -> RunCommonBusinessAnalysis
      [] m = "common.architecture"      -> RunCommonArchitecture
      [] m = "common.uiux"              -> RunCommonUiux
      [] m = "mobile.flutter"           -> RunFlutterModule
      [] m = "frontend.react"           -> RunReactModule
      [] m = "frontend.nextjs"          -> RunNextjsModule
      [] m = "backend.fastapi"          -> RunFastapiModule
      [] m = "database.supabase"        -> RunSupabaseModule
      [] m = "common.qa"                -> RunCommonQa
      [] m = "common.repair"            -> RunCommonRepair
      [] m = "common.runtime"           -> RunCommonRuntime
      [] m = "common.security"          -> RunCommonSecurity
      [] m = "common.release_review"    -> RunCommonReleaseReview
      [] m = "common.export"            -> RunCommonExportReport

\* docs/pipeline_plan.json, before the first step.
WritePlan == Docs({"pipeline_plan.json"})

\* export_modular_project_archive takes what is under source/ and docs/.
ModularRoots == {"source", "source/mobile", "source/frontend",
                 "source/backend", "source/infra/supabase", "docs"}
ModularArchive(set) ==
    {f \in set : f.dir \in ModularRoots /\ ShouldIncludeExportFile(f)}

=============================================================================
