----------------------------- MODULE MCTaskTable -----------------------------
(* TaskTable for TLC: a public poller, which may read the tasks of one caller, *)
(* and an internal one, which may read every task.                             *)
EXTENDS TaskTable, TLC

CONSTANTS p1, p2, c1

TwoPollers == [g \in {p1, p2} |-> IF g = p1 THEN c1 ELSE Internal]

Interchangeable == {f @@ g : f \in Permutations(Submits), g \in Permutations(Bodies)}
=============================================================================
