-------------------------- MODULE MCFlutterPipeline --------------------------
(* Instances of FlutterPipeline for TLC.                                   *)
EXTENDS FlutterPipeline

CONSTANTS r1, r2

\* The tools agree, or one of them does not.
AllGood == [name \in FactNames |-> TRUE]
MCFacts == {AllGood} \cup
           {[AllGood EXCEPT ![name] = FALSE] : name \in {"tests", "backend", "format", "secure"}}
OneFact == {AllGood}

\* Bound: phases other than 07 and 08 are not interrupted by another run.
Uninterrupted ==
    \A r \in Runs :
        /\ pc[r] \in Active \ {"upsert", "begin"}
        /\ PhaseOf(r) \notin {Qa, Repair}
        => pc'[r] # pc[r]

\* Bound: two runs work side by side up to the release build of phase 07;
\* beyond it one of them waits between a check and reading its reports.
SideBySide ==
    \A r, t \in Runs :
        r # t /\ pc[r] \in Active /\ pc[t] \in Active =>
            \/ at[r] <= Len(Design) + 4 /\ at[t] <= Len(Design) + 4
            \/ "qa_read" \in {pc[r], pc[t]}

NoDesign == <<>>
OneDesign == <<"03_backend_design">>

=============================================================================
