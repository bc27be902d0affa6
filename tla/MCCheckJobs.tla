----------------------------- MODULE MCCheckJobs -----------------------------
(* Small fleets for TLC: the constants of CheckJobsQueue the .cfg files name.    *)
EXTENDS CheckJobsQueue

CONSTANTS j1, j2, w1, w2, r1, r2, r3

OneJobPhase == [j \in {j1} |-> 1]

\* w1 runs r1 in its pool and r2 as its express goroutine; w2 is an agent.
MixedFleet == [r \in {r1, r2, r3} |-> IF r = r3 THEN w2 ELSE w1]
\* One runner for each of two workers.
SingleRunners == [r \in {r1, r3} |-> IF r = r3 THEN w2 ELSE w1]
=============================================================================
