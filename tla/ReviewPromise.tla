--------------------------- MODULE ReviewPromise ---------------------------
(***************************************************************************)
(* What a program that waits for a human may rely on when it polls an item *)
(* of the shared document: the item appears as pending, a verdict it shows *)
(* was given by a human, and that is all.  Whatever it shows may be undone *)
(* or vanish again.  TaskGraph waits for its checkpoints in this world.    *)
(***************************************************************************)
CONSTANT Items

VARIABLES
    shown,            \* what the document says of each item
    given             \* the verdicts humans gave on it

vars == <<shown, given>>

Verdicts == {"approved", "rejected"}

Init ==
    /\ shown = [i \in Items |-> "none"]
    /\ given = [i \in Items |-> {}]

\* The item is not there yet, and stays away or is submitted.
Opens(i) ==
    /\ shown[i] = "none"
    /\ shown'[i] \in {"none", "pending"}
    /\ given'[i] = given[i]

\* A human decides, whatever was decided before.
IsAnswered(i) ==
    /\ shown[i] # "none"
    /\ \E v \in Verdicts :
        /\ given'[i] = given[i] \cup {v}
        /\ shown'[i] = v

\* An old copy of the item is saved, or one from before it was there.
IsOverwritten(i) ==
    /\ shown[i] # "none"
    /\ shown'[i] \in {"pending", "lost"} \cup given[i]
    /\ given'[i] = given[i]

Next == \A i \in Items : Opens(i) \/ IsAnswered(i) \/ IsOverwritten(i)

Spec == Init /\ [][Next]_vars

=============================================================================
