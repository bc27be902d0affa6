--------------------------- MODULE CheckJobsQueue ----------------------------
(***************************************************************************)
(* CheckJobs implements RunQueue: one watched job, seen through its row.   *)
(***************************************************************************)
EXTENDS CheckJobs

CONSTANT Watched

ASSUME WatchedAssumption == Watched \in Job

QueueStatus ==
    IF Watched \notin exists THEN "gone"
    ELSE IF LeasedAt(job[Watched], now) THEN "held"
    ELSE IF Due(job[Watched], now) THEN "due"
    ELSE "waiting"

\* A waiting request is parked in the row, or is the reason why the row is due.
QueueOwed ==
    IF Watched \notin exists \/ asked[Watched] \in {"no", "turnedAway"} THEN "no"
    ELSE IF asked[Watched] = "carried" THEN "carried"
    ELSE IF job[Watched].runRequested # NULL THEN "parked"
    ELSE "asked"

Queue == INSTANCE RunQueue
             WITH status <- QueueStatus, owed <- QueueOwed, sliced <- job[Watched].stepRun

\* The queue of rows keeps every promise of RunQueue: a due job leaves only by
\* being leased, a job that is owed a run never goes back to waiting, and a
\* request ends only by the start of the run that took it or by TurnAway.
ImplementsRunQueue == Queue!Spec
=============================================================================
