---------------------------- MODULE MCTaskGraph ----------------------------
(***************************************************************************)
(* TaskGraph with the default max_attempts and recursion limit, and what   *)
(* the documentation says of it that the code does not do.                 *)
(***************************************************************************)
EXTENDS TaskGraph

\* system/learning/checkpoint_store.py:117, of reject: "pipeline sẽ dừng task
\* với lỗi".  The edge from the checkpoint node to dev is unconditional, so a
\* task whose last answer was a rejection is still written, committed and
\* reported as done.
RejectionStops == decision = "rejected" => outcome # "done" /\ commit = 0

=============================================================================
