--------------------------- MODULE MCAppDirectory ---------------------------
(* Instances of AppDirectory for TLC.                                      *)
EXTENDS AppDirectory, TLC

CONSTANTS r1, r2

MCWords == {"todo", "TODO", "list", "home", "settings", "build"}

MCLower == [w \in MCWords |-> IF w = "TODO" THEN "todo" ELSE w]

\* The router's default is <<"todo", "dashboard", "settings">>: two features
\* are left out.
MCDefaultFeatures == <<<<"settings">>>>

\* A payload of the old form, and of the new one.
Legacy(backend, features) ==
    [type |-> "", backend |-> backend, stack |-> NoStack,
     features |-> features]

Modern(type, frontend, database, features) ==
    [type |-> type, backend |-> "none", features |-> features,
     stack |-> [NoStack EXCEPT !["frontend"] = frontend,
                               !["backend"] = "fastapi",
                               !["database"] = database]]

\* Names with capitals, a space, a dash, an underline; two that are a
\* fixed screen of the app; one whose key is a directory that archives leave
\* out.
MCPayloads ==
    {Legacy("", <<<<"TODO", " ", "list">>, <<"home">>>>),
     Modern("fullstack_saas", "react", "supabase", <<<<"build">>>>),
     Modern("fullstack_saas", "nextjs", "", <<<<"todo", "-", "list">>>>),
     Modern("web_app", "react", "", <<>>)}

AnyRun == Permutations({r1, r2})

\* Bound: of two runs at work side by side one waits, before its modular plan
\* or in write_flutter_source, before the files every app has or before those
\* of the first feature.
Waits(r) ==
    \/ pc[r] = "plan" /\ as[r] = "modular"
    \/ InDev(r) /\ app[r] \in {<<0, 0>>, <<1, 0>>}

OneWaits ==
    \A r, t \in Runs :
        r # t /\ pc[r] \in Working /\ pc[t] \in Working =>
            Waits(r) \/ Waits(t)

=============================================================================
