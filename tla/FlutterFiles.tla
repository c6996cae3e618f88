---------------------------- MODULE FlutterFiles ----------------------------
(***************************************************************************)
(* FACTORY_PIPELINE_MODE "full": which files the agents of agents/         *)
(* flutter_factory read and write, how a feature name becomes part of a    *)
(* path, and which files of the generated app import which.                *)
(*                                                                         *)
(* A feature name is a sequence of words and of the separators " ", "-"    *)
(* and "_"; a key, the form it has in a path, is such a sequence too.  A   *)
(* file of the app is known by the agent's name for it and the feature.    *)
(***************************************************************************)
EXTENDS AppFiles, Sequences, Naturals

CONSTANTS
    Words,        \* the alphanumeric parts of feature names
    Lower         \* str.lower of a word

Separators == {" ", "-", "_"}

ASSUME FlutterFilesAssumption ==
    /\ Lower \in [Words -> Words]
    /\ Words \cap Separators = {}

-----------------------------------------------------------------------------
(* Feature keys.                                                           *)

IsWord(t) == t \notin Separators
Lowered(t) == IF IsWord(t) THEN Lower[t] ELSE t

\* _slug: words in lower case, one "_" for every run of separators between
\* two words.
Spelt(t) == IF IsWord(t) THEN Lower[t] ELSE "_"

Kept(name, i) ==
    \/ IsWord(name[i])
    \/ /\ i > 1 /\ IsWord(name[i - 1])
       /\ \E j \in i + 1..Len(name) : IsWord(name[j])

\* What has come of the name up to each position.
SlugTo(name) ==
    LET slug[i \in 0..Len(name)] ==
            IF i = 0 THEN <<>>
            ELSE IF Kept(name, i) THEN Append(slug[i - 1], Spelt(name[i]))
            ELSE slug[i - 1]
    IN  slug

Slug(name, fallback) ==
    LET slug == SlugTo(name)[Len(name)]
    IN  IF slug = <<>> THEN fallback ELSE slug

\* _feature_key of the dev agent.
FeatureKey(name) == Slug(name, <<"flutter_app">>)

Home     == <<"home">>
Settings == <<"settings">>

\* The keys the dev agent works with.
Keys(features) ==
    IF features = <<>> THEN <<Home>>
    ELSE [i \in 1..Len(features) |-> FeatureKey(features[i])]

KeySet(features) ==
    {Keys(features)[i] : i \in 1..Len(Keys(features))}

\* _required_source_files, and the UI/UX agent: the name in lower case with
\* "_" for a space.
CheckedKey(name) ==
    [i \in 1..Len(name) |-> IF name[i] = " " THEN "_" ELSE Lowered(name[i])]

\* Names both agents spell alike: single spaces or "_" between words.
Plain(name) ==
    /\ name # <<>>
    /\ \A i \in 1..Len(name) :
          IsWord(name[i]) \/
              (/\ name[i] # "-" /\ i > 1 /\ i < Len(name)
               /\ IsWord(name[i - 1]) /\ IsWord(name[i + 1]))

-----------------------------------------------------------------------------
(* The source of the app.                                                  *)

Core(name) == At("source", name)
CoreSet(names) == AllAt("source", names)
Part(name, key) == [dir |-> "source", name |-> name, of |-> key]
Parts(names, key) == {Part(name, key) : name \in names}

\* The files of write_flutter_source that do not belong to a feature, with
\* the two screens every app has, in the order they are written.
SharedOrder ==
    <<Core(".env.example"), Core("pubspec.yaml"),
      Core("analysis_options.yaml"), Core("README.md"), Core("main.dart"),
      Core("index.html"), Core("app.dart"), Core("api_client.dart"),
      Core("app_config.dart"), Core("app_dependencies.dart"),
      Core("app_theme.dart"), Core("app_scaffold.dart"),
      Core("feature_card.dart"), Core("state_view.dart"),
      Part("screen", Home), Part("screen", Settings),
      Core("app_widget_test.dart"), Core("api_client_test.dart")>>

SharedFiles == {SharedOrder[i] : i \in 1..Len(SharedOrder)}

\* The two screens are written with a text of their own, which a feature of
\* the same key replaces.
SharedText(f) ==
    CASE f.of = Home     -> "home screen"
      [] f.of = Settings -> "settings screen"
      [] OTHER           -> f.name

\* Mutant of PartOrder: the screen before the cubit it shows.
PartOrderScreenFirst ==
    <<"item", "model", "dto", "remote_data_source", "local_data_source",
      "repository", "repository_impl", "usecase", "screen", "cubit",
      "logic_test", "data_test">>

\* The files of a feature, in the order they are written.
PartOrder ==
    <<"item", "model", "dto", "remote_data_source", "local_data_source",
      "repository", "repository_impl", "usecase", "cubit", "screen",
      "logic_test", "data_test">>

FeatureParts(key) == Parts({PartOrder[i] : i \in 1..Len(PartOrder)}, key)

\* All that write_flutter_source writes.
FlutterSource(features) ==
    SharedFiles \cup UNION {FeatureParts(k) : k \in KeySet(features)}

FrontendIntegrationReport == Docs({"frontend_integration_report.md"})

-----------------------------------------------------------------------------
(* Imports within the app.                                                 *)

MainImports == CoreSet({"app.dart"})

AppImports(keys) ==
    CoreSet({"app_theme.dart"})
        \cup {Part("screen", k) : k \in {Home, Settings} \cup keys}

ApiClientImports == CoreSet({"app_config.dart"})

\* The shared widgets import the framework only.
SharedWidgetImports == {}

AppConfigImports == {}

FeatureEntityImports == {}

AppDependenciesImports == CoreSet({"api_client.dart"})

HomeScreenImports == CoreSet({"app_scaffold.dart", "feature_card.dart"})

SettingsScreenImports == CoreSet({"app_scaffold.dart"})

FeatureScreenImports(k) ==
    Parts({"local_data_source", "remote_data_source", "repository_impl",
           "item", "usecase", "cubit"}, k)
        \cup CoreSet({"app_dependencies.dart", "app_scaffold.dart",
                      "state_view.dart"})

FeatureModelImports(k) == Parts({"item"}, k)

FeatureDtoImports(k) == Parts({"model"}, k)

FeatureRemoteDataSourceImports(k) ==
    Parts({"dto", "model"}, k)
        \cup CoreSet({"api_client.dart", "app_config.dart"})

FeatureLocalDataSourceImports(k) == Parts({"model"}, k)

FeatureRepositoryContractImports(k) == Parts({"item"}, k)

FeatureRepositoryImplImports(k) ==
    Parts({"local_data_source", "remote_data_source", "item", "repository"},
          k)

FeatureUsecaseImports(k) == Parts({"item", "repository"}, k)

FeatureCubitImports(k) == Parts({"item", "usecase"}, k)

AppWidgetTestImports(keys) ==
    CoreSet({"app.dart"}) \cup {Part("screen", k) : k \in keys}

ApiClientTestImports == CoreSet({"api_client.dart"})

FeatureLogicTestImports(k) ==
    Parts({"item", "repository", "usecase", "cubit"}, k)

FeatureDataTestImports(k) ==
    Parts({"local_data_source", "remote_data_source", "dto", "model",
           "repository_impl"}, k)

\* What a text imports; app.dart and the widget test import the screens of
\* the run that wrote them.
ImportsOf(text, k, keys) ==
    CASE text = "main.dart"            -> MainImports
      [] text = "app.dart"             -> AppImports(keys)
      [] text = "api_client.dart"      -> ApiClientImports
      [] text = "app_dependencies.dart" -> AppDependenciesImports
      [] text = "app_config.dart"      -> AppConfigImports
      [] text \in {"app_theme.dart", "app_scaffold.dart",
                   "feature_card.dart", "state_view.dart"} ->
             SharedWidgetImports
      [] text = "item"                 -> FeatureEntityImports
      [] text = "home screen"          -> HomeScreenImports
      [] text = "settings screen"      -> SettingsScreenImports
      [] text = "screen"               -> FeatureScreenImports(k)
      [] text = "model"                -> FeatureModelImports(k)
      [] text = "dto"                  -> FeatureDtoImports(k)
      [] text = "remote_data_source"   -> FeatureRemoteDataSourceImports(k)
      [] text = "local_data_source"    -> FeatureLocalDataSourceImports(k)
      [] text = "repository"           -> FeatureRepositoryContractImports(k)
      [] text = "repository_impl"      -> FeatureRepositoryImplImports(k)
      [] text = "usecase"              -> FeatureUsecaseImports(k)
      [] text = "cubit"                -> FeatureCubitImports(k)
      [] text = "logic_test"           -> FeatureLogicTestImports(k)
      [] text = "data_test"            -> FeatureDataTestImports(k)
      [] text = "app_widget_test.dart" -> AppWidgetTestImports(keys)
      [] text = "api_client_test.dart" -> ApiClientTestImports
      [] OTHER                         -> {}

-----------------------------------------------------------------------------
(* The other agents.                                                       *)

\* The two documents the backend is generated from.
BaContract == Docs({"product_spec.json", "data_model.json"})

\* write_ba_documents.
WriteBaDocuments ==
    BaContract
        \cup Docs({"requirements.md", "user_stories.md", "feature_list.md",
                   "acceptance_criteria.md", "user_flows.md",
                   "acceptance_tests.md", "non_functional_requirements.md"})

BackendPackage ==
    AllAt("backend", {"requirements.txt", "README.md", ".env.example",
                      "app/__init__.py", "app/schemas.py", "app/database.py",
                      "app/main.py", "tests/__init__.py"})

BackendContractTest == AllAt("backend", {"tests/test_contract.py"})

BackendDocuments == Docs({"openapi.yaml", "database_schema.sql"})

\* write_backend_source, with the report of the run of its tests.
WriteBackendSource ==
    BackendPackage \cup BackendContractTest \cup BackendDocuments
        \cup Docs({"backend_report.md"})

WriteArchitectDocuments ==
    Docs({"architecture.md", "folder_structure.md", "state_management.md",
          "api_strategy.md", "database_strategy.md"})

WriteUiuxDocuments ==
    Docs({"design.md", "screen_list.md", "theme_config.dart",
          "component_spec.md"})

\* _required_source_files, for a set of feature names.
RequiredSourceFiles(names) ==
    CoreSet({".env.example", "pubspec.yaml", "main.dart", "app.dart",
             "api_client.dart", "app_config.dart", "app_dependencies.dart",
             "app_theme.dart", "app_scaffold.dart", "feature_card.dart",
             "state_view.dart", "app_widget_test.dart",
             "api_client_test.dart"})
        \cup Parts({"screen"}, Home) \cup Parts({"screen"}, Settings)
        \cup UNION {Parts({"screen", "logic_test", "data_test"},
                          CheckedKey(name)) : name \in names}

RunQaChecks ==
    Docs({"test_report.md", "bug_list.md", "production_qa_report.md"})

\* run_refactor.
RefactorReport == Docs({"refactor_report.md"})

\* _run_repair_loop; run_refactor is called before another round, and at the
\* end if there is no report of it.
RunRepairLoop(refactored) ==
    RunQaChecks \cup Docs({"repair_history.md"})
        \cup (IF refactored THEN RefactorReport ELSE {})

RunRuntimeVerification == Docs({"runtime_report.md"})

WriteSecurityDocuments ==
    Docs({"security_report.md", "deployment_plan.md", "env_contract.md",
          "production_release_checklist.md"})

WriteReviewDocuments == Docs({"final_review.md", "release_checklist.md"})

\* What generate_review_documents reads.
ReviewedDocuments ==
    Docs({"test_report.md", "production_qa_report.md", "bug_list.md",
          "refactor_report.md", "runtime_report.md", "security_report.md",
          "architecture.md", "design.md"})

\* The documents export_source_archive takes along, if they are there.
HandoffDocuments ==
    Docs({"app_brief.md", "requirements.md", "product_spec.json",
          "data_model.json", "user_flows.md", "acceptance_tests.md",
          "non_functional_requirements.md", "openapi.yaml",
          "database_schema.sql", "backend_report.md",
          "frontend_integration_report.md", "architecture.md", "design.md",
          "test_report.md", "production_qa_report.md", "refactor_report.md",
          "repair_history.md", "runtime_report.md", "security_report.md",
          "deployment_plan.md", "env_contract.md",
          "production_release_checklist.md", "final_review.md",
          "release_checklist.md"})

\* Mutant of SourceArchive: the backend stays behind.
SourceArchiveApp(set) ==
    {f \in set : \/ f.dir = "source" /\ ShouldIncludeExportFile(f)
                 \/ f \in HandoffDocuments}

\* export_source_archive: what is under source/ and backend/, and those
\* documents.
SourceArchive(set) ==
    {f \in set : \/ Root(f) # "docs" /\ ShouldIncludeExportFile(f)
                 \/ f \in HandoffDocuments}

-----------------------------------------------------------------------------
(* run_full_pipeline: the files its phases read and write.                 *)

\* Mutant of FullPlan: the backend before the business analysis.
FullPlanBackendFirst ==
    <<"03_backend_design", "02_business_analysis", "04_architecture_design",
      "05_uiux_design", "06_flutter_dev", "07_static_qa",
      "08_refactor_repair", "07_static_qa", "09_runtime_test",
      "10_security_audit", "11_release_review">>

FullPlan ==
    <<"02_business_analysis", "03_backend_design", "04_architecture_design",
      "05_uiux_design", "06_flutter_dev", "07_static_qa",
      "08_refactor_repair", "07_static_qa", "09_runtime_test",
      "10_security_audit", "11_release_review">>

\* The phases other than 06; refactored matters to 08 only.
PhaseWrites(p, refactored) ==
    CASE p = "02_business_analysis"   -> WriteBaDocuments
      [] p = "03_backend_design"      -> WriteBackendSource
      [] p = "04_architecture_design" -> WriteArchitectDocuments
      [] p = "05_uiux_design"         -> WriteUiuxDocuments
      [] p = "07_static_qa"           -> RunQaChecks
      [] p = "08_refactor_repair"     -> RunRepairLoop(refactored)
      [] p = "09_runtime_test"        -> RunRuntimeVerification
      [] p = "10_security_audit"      -> WriteSecurityDocuments
      [] p = "11_release_review"      -> WriteReviewDocuments

\* The directories a phase raises without: run_qa_checks, run_refactor and
\* run_runtime_verification look for source/; the backend and the dev agent
\* make the directories they write into, the others do not.
PhaseNeeds(p) ==
    CASE p \in {"02_business_analysis", "04_architecture_design",
                "05_uiux_design", "10_security_audit",
                "11_release_review"}         -> {"docs"}
      [] p \in {"07_static_qa", "08_refactor_repair",
                "09_runtime_test"}           -> {"docs", "source"}
      [] OTHER                               -> {}

\* The documents a phase raises without.
PhaseMustRead(p) == IF p = "03_backend_design" THEN BaContract ELSE {}

\* The files a phase reads by name, those of the named features among them.
PhaseReads(p, names) ==
    CASE p = "03_backend_design"  -> BaContract
      [] p = "06_flutter_dev"     -> Docs({"theme_config.dart",
                                           "product_spec.json",
                                           "openapi.yaml"})
      [] p \in {"07_static_qa", "08_refactor_repair"} ->
             Docs({"acceptance_tests.md"}) \cup RequiredSourceFiles(names)
      [] p = "10_security_audit"  ->
             CoreSet({".env.example", "api_client.dart", "app_config.dart",
                      "pubspec.yaml"})
               \cup AllAt("backend", {".env.example", "app/main.py",
                                      "app/schemas.py", "requirements.txt"})
      [] p = "11_release_review"  -> ReviewedDocuments
      [] OTHER                    -> {}

\* The files a phase comes upon, whatever their names: flutter analyze, test
\* and build over source/, unittest discover over backend/, the scan for
\* secrets over both, the reviewer's list of Dart files (the other files
\* there import nothing).
PhaseScans(p, set) ==
    CASE p \in {"07_static_qa", "08_refactor_repair"} ->
             {f \in set : Root(f) # "docs"}
      [] p = "09_runtime_test"    -> {f \in set : Root(f) = "source"}
      [] p = "10_security_audit"  ->
             {f \in set : Root(f) # "docs" /\ f.of # <<"build">>}
      [] p = "11_release_review"  ->
             {f \in set : Root(f) = "source" /\ f.of # <<"build">>}
      [] OTHER                    -> {}

\* What production_qa_report cannot be PASS without: the required files, an
\* acceptance test, a backend to test.
PassNeeds(features) ==
    Docs({"acceptance_tests.md"})
        \cup RequiredSourceFiles({features[i] : i \in 1..Len(features)})

=============================================================================
