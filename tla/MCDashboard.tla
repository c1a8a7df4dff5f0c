---------------------------- MODULE MCDashboard ----------------------------
(* Instances of Dashboard for TLC. *)
EXTENDS Dashboard

CONSTANTS b1, t1, a1
MCOwner == [t \in {t1} |-> a1]
MCOldFiles == {{<<"processing", t1>>}}

\* A budget each for the files with adoptions and events, and for the discussion.
Budget(m, a, n, e, f) == [moves |-> m, adopts |-> a, entries |-> n, events |-> e, faults |-> f]
MCBudgets == {Budget(1, 1, 0, 1, 1), Budget(2, 0, 0, 0, 1), Budget(0, 0, 2, 1, 1)}
=============================================================================
