----------------------------- MODULE MCJobQueue -----------------------------
(* Instances of JobQueue for model checking. *)
EXTENDS JobQueue

CONSTANTS r1, r2, reaper, sweep, task

One == {r1}
Two == {r1, r2}
AllFaults == {"crash", "complete", "clone", "list"}
None == {}
ReaperFirst == <<reaper, sweep>>
OnlyReaper == <<reaper>>
OnlyTask == {task}
OnlySweep == {sweep}

\* One process of one runner, and one of two, the default of the code.
Single == [r \in One |-> r1]
Pooled == [r \in Two |-> r1]
=============================================================================
