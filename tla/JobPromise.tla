----------------------------- MODULE JobPromise -----------------------------
(***************************************************************************)
(* What the job service promises to somebody who only sees the job row and *)
(* knows which submissions the service has accepted.                       *)
(*                                                                         *)
(* A submission is owed a verdict from the moment POST /api/jobs writes    *)
(* the row until somebody records the verdict, or until the process that   *)
(* was responsible for it is lost.  The row only becomes live, and only    *)
(* ever receives a verdict, on behalf of a submission that is still owed.  *)
(* JobLifecycle and FlutterPipeline implement this module.                 *)
(***************************************************************************)

CONSTANT Submissions        \* the accepted POST requests for one job slug

VARIABLES shown,            \* the status the row shows, or "absent"
          owed,             \* submissions whose verdict is outstanding
          lost              \* submissions whose process is gone

promiseVars == <<shown, owed, lost>>

Live     == {"queued", "running", "cancel_requested"}
Terminal == {"succeeded", "failed", "cancelled"}

PromiseInit == shown = "absent" /\ owed = {} /\ lost = {}

-----------------------------------------------------------------------------

\* The service takes a submission, whatever the row showed before.
Accept(s) ==
    /\ s \notin owed
    /\ shown' = "queued"
    /\ owed' = owed \cup {s}
    /\ UNCHANGED lost

\* Work on an owed submission begins.
Begin(s) ==
    /\ s \in owed
    /\ shown' = "running"
    /\ UNCHANGED <<owed, lost>>

\* A user asks for a live job to stop.
RequestStop ==
    /\ shown \in Live
    /\ shown' = "cancel_requested"
    /\ UNCHANGED <<owed, lost>>

\* A verdict for s is recorded; it settles s.
Settle(s) ==
    /\ s \in owed
    /\ shown' \in Terminal
    /\ owed' = owed \ {s}
    /\ UNCHANGED lost

\* A verdict for s is recorded while a second party still owes one: a queue
\* that accepted the work but reported an error.
SettleAgain(s) ==
    /\ s \in owed
    /\ shown' \in Terminal
    /\ UNCHANGED <<owed, lost>>

\* The row is removed.
Discard ==
    /\ shown # "absent"
    /\ shown' = "absent"
    /\ UNCHANGED <<owed, lost>>

\* Processes die.  What they owed is lost, and the row keeps what it showed.
Lose(S) ==
    /\ lost' = lost \cup S
    /\ owed' \subseteq owed
    /\ owed \ owed' \subseteq S
    /\ UNCHANGED shown

PromiseNext ==
    \/ \E s \in Submissions :
          Accept(s) \/ Begin(s) \/ Settle(s) \/ SettleAgain(s)
    \/ RequestStop
    \/ Discard
    \/ \E S \in SUBSET Submissions : Lose(S)

PromiseSafety == PromiseInit /\ [][PromiseNext]_promiseVars

\* Nothing accepted is left open for ever by a process that keeps running.
PromiseSpec ==
    PromiseSafety /\ \A s \in Submissions : WF_promiseVars(Settle(s))

-----------------------------------------------------------------------------

\* A row that shows a live status has somebody who still owes it a verdict,
\* or a process was lost: a reader of a live job never waits for nobody.
LiveIsOwed == shown \in Live => owed # {} \/ lost # {}

=============================================================================
