---------------------------- MODULE MCHitlStore ----------------------------
(***************************************************************************)
(* HitlStore for a team with two tasks and a team with one, and what the   *)
(* storage module says of itself that its operations do not do.            *)
(***************************************************************************)
EXTENDS HitlStore, TLC

CONSTANTS t1, t2, a, b, r

TwoTeams == (t1 :> a) @@ (t2 :> b)
OneTeam == (t1 :> a) @@ (t2 :> a)
SomeLessons == (t1 :> {"s1"}) @@ (t2 :> {"s1", "s2"})

\* memory/storage.py:35, of the lock that load takes: "Cross-process safe on
\* Unix", and :5 "Thread-safe via file locking".  The lock is gone before the
\* save, so a decision that was saved and answered is overwritten by any
\* operation that loaded the document before it.
DecisionStands ==
    \A i \in Items : given[i] # {} => Shown(i) \in given[i]

=============================================================================
