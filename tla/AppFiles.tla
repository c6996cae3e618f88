------------------------------ MODULE AppFiles ------------------------------
(***************************************************************************)
(* Files of an app directory, generated_apps/<slug>: where a file is, what *)
(* a write leaves in it, and what no archive takes along.                  *)
(***************************************************************************)

\* A file: its directory, its name, and the feature it belongs to (<<>> for
\* none).
At(dir, name) == [dir |-> dir, name |-> name, of |-> <<>>]
AllAt(dir, names) == {At(dir, name) : name \in names}
Docs(names) == AllAt("docs", names)

\* A write is a function from files to what is put into them; the name
\* serves where a file has one possible content.
Plainly(set) == [f \in set |-> f.name]

\* One file with a text of its own.
One(f, text) == [g \in {f} |-> text]

\* The directory below the app directory that a file makes be there.
Root(f) == IF f.dir \in {"docs", "backend"} THEN f.dir ELSE "source"

\* _should_include_export_file, in either pipeline: what has a directory of
\* one of these names above it stays behind.  Of the others (.git, .idea,
\* __pycache__, .env, *.log ...) no agent writes any.
ExcludedParts == {<<"build">>, <<"node", "_", "modules">>}
ShouldIncludeExportFile(f) == f.of \notin ExcludedParts

\* The second write over the first.
Over(old, new) ==
    [f \in DOMAIN old \cup DOMAIN new |->
        IF f \in DOMAIN new THEN new[f] ELSE old[f]]

\* A write seen as the work of a run.
By(r, write) == [f \in DOMAIN write |-> [by |-> r, as |-> write[f]]]

\* write_app_brief.
WriteAppBrief ==
    Docs({"app_brief.md", "input.json", "project_context.md",
          "initial_constraints.md"})

=============================================================================
