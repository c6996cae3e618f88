--------------------------- MODULE MCJobLifecycle ---------------------------
(***************************************************************************)
(* Small instances of JobLifecycle for TLC.                                *)
(***************************************************************************)
EXTENDS JobLifecycle, TLC

CONSTANTS s1, s2

\* One POST, or two for the same slug; the two are interchangeable.
TwoPosts == {s1, s2}
OnePost  == {s1}
Symmetry == Permutations(TwoPosts)

\* Two of the twelve registered phases, and one id of mobile_app.yaml that
\* the registry does not know.
MCBrief        == "01_create_brief"
MCRegistered   == {MCBrief, "02_business_analysis"}
MCUnregistered == {"05_mobile_generation"}

\* The steps of a plan: the brief again, as both workflow files ask for, a
\* registered phase, and a step without a row.
FullPlan  == <<MCBrief, "02_business_analysis", "05_mobile_generation">>
ShortPlan == <<MCBrief, "05_mobile_generation">>
OneStep   == <<"02_business_analysis">>

=============================================================================
