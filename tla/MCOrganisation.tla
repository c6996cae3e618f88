--------------------------- MODULE MCOrganisation ---------------------------
(* Instances of Organisation for TLC.                                      *)
EXTENDS Organisation

CONSTANTS d1, d2, lead0, main0

TwoTasks == <<d1, d2>>

=============================================================================
