------------------------------ MODULE JobQueue ------------------------------
(***************************************************************************)
(* The background job queue: the jobs table, the processes that run jobs   *)
(* from it, the two kinds of job that keep themselves going by creating    *)
(* their own next row, the reaper that recovers the rows of dead           *)
(* processes, and the requests that add and cancel work.                   *)
(*                                                                         *)
(* Every SQL statement is a step of its own: creating a job is a SELECT    *)
(* and then an UPDATE or an INSERT, retrying one is an UPDATE and then an  *)
(* INSERT, and other processes, a cancellation or a crash fall in between. *)
(*                                                                         *)
(* Time is reduced to what the statements compare: whether a row is due,   *)
(* which rows were due before it (rows become due in the order of          *)
(* scheduled_at) and whether a running row is stale.  A row that is final  *)
(* or canceled, and that no process refers to, can be matched by no        *)
(* statement any more and leaves the table of the model at once.           *)
(***************************************************************************)
EXTENDS Integers, Sequences, FiniteSets, RowOrder

CONSTANTS
    Runner,         \* the job runners of all processes: poolSize of each
    Main,           \* of each runner, the one its process runs the startup job as
    Reaper,         \* the type and config of the stuck-job reaper
    Sweep,          \* the type and config of a periodic sweep
    Task,           \* the type and config of a one-shot job
    Seeds,          \* the global jobs that a starting process ensures, in order
    MaxRetryCount,  \* retries a row may have behind it
    MaxRows,        \* bound: rows in the table at once
    MaxSubmits,     \* bound: one-shot jobs submitted
    MaxFaults,      \* bound: crashes and failed statements
    Faults,         \* the faults that happen: "crash" and kinds of statement
    Failing,        \* the jobs whose runs may end in a retryable error
    SlowRuns,       \* TRUE: a run may outlast the stuck timeout
    NULL

Key == {Reaper, Sweep, Task}
Row == 1 .. MaxRows

ASSUME JobQueueAssumption ==
    /\ IsFiniteSet(Runner) /\ Runner # {}
    /\ Main \in [Runner -> Runner]
    /\ \A r \in Runner : Main[Main[r]] = Main[r]
    /\ Cardinality(Key) = 3
    /\ Seeds \in Seq({Reaper, Sweep}) /\ Seeds # <<>>
    /\ MaxRetryCount \in Nat
    /\ MaxRows \in Nat \ {0}
    /\ MaxSubmits \in Nat
    /\ MaxFaults \in Nat
    /\ Faults \subseteq {"crash", "complete", "clone", "list"}
    /\ Failing \subseteq Key
    /\ SlowRuns \in BOOLEAN
    /\ NULL \notin Row

VARIABLES
    rows,       \* the jobs table
    due,        \* the pending rows that are due, in the order of scheduled_at
    runner,     \* the job runners
    submits,    \* how many one-shot jobs were submitted
    faults      \* how many crashes and failed statements there were

vars == <<rows, due, runner, submits, faults>>

Final == {"success", "retried", "failed"}

\* cloned: some row has this one as its previous_job_uid.
JobRow == [key : Key, status : {"pending", "running"} \cup Final, stale : BOOLEAN,
           deleted : BOOLEAN, retry : 0 .. MaxRetryCount, cloned : BOOLEAN]

\* What a runner holds.  seeds: the jobs a starting process has still to ensure;
\* found: what the SELECT of a creation saw; stuck: what the SELECT of the
\* reaper saw; victim: the row the reaper has flipped and not cloned yet.
Process == [pc : {"find", "store", "loop", "run", "reap", "done", "clone"},
            seeds : Seq({Reaper, Sweep}), job : Row \cup {NULL},
            outcome : {"success", "retry", "failed", NULL},
            found : Row \cup {NULL}, stuck : SUBSET Row, victim : Row \cup {NULL}]

TypeOK ==
    /\ DOMAIN rows \subseteq Row
    /\ rows \in [DOMAIN rows -> JobRow]
    /\ IsOrder(due)
    /\ \A i \in DOMAIN due : /\ i \in DOMAIN rows
                              /\ rows[i].status = "pending" /\ ~rows[i].deleted
    /\ runner \in [Runner -> Process]
    /\ submits \in 0 .. MaxSubmits
    /\ faults \in 0 .. MaxFaults

\* A process starts with the startup job, which ensures the global sweeps;
\* its runners start when that is over.
Starting == [pc |-> "find", seeds |-> Seeds, job |-> NULL, outcome |-> NULL,
             found |-> NULL, stuck |-> {}, victim |-> NULL]

Idle == [Starting EXCEPT !.pc = "loop", !.seeds = <<>>]

AtStart(r) == IF Main[r] = r THEN Starting ELSE Idle

Init ==
    /\ rows = << >>
    /\ due = Nothing
    /\ runner = [r \in Runner |-> AtStart(r)]
    /\ submits = 0
    /\ faults = 0

-----------------------------------------------------------------------------
(* The table.                                                              *)

References(p) == ({p.job, p.found, p.victim} \ {NULL}) \cup p.stuck

\* Whatever no statement can match and no process refers to is left out.
Kept(t, procs) ==
    LET kept == {i \in DOMAIN t : \/ t[i].status \notin Final /\ ~t[i].deleted
                                  \/ \E r \in Runner : i \in References(procs[r])}
    IN  [i \in kept |-> t[i]]

Step(r, p, t) ==
    /\ runner' = [runner EXCEPT ![r] = p]
    /\ rows' = Kept(t, runner')

Free == Row \ DOMAIN rows
NewId == CHOOSE i \in Free : \A j \in Free : i <= j

NewJob(key) == [key |-> key, status |-> "pending", stale |-> FALSE, deleted |-> FALSE,
                retry |-> 0, cloned |-> FALSE]

RetryClone(i) == [NewJob(rows[i].key) EXCEPT !.retry = rows[i].retry + 1]

\* The table t with one more row.
With(t, row) == [i \in DOMAIN t \cup {NewId} |-> IF i = NewId THEN row ELSE t[i]]

\* Mutant: the deduplication finds nothing.
PendingNone(key) == {}

\* What the deduplication of a new job finds: a pending row of the same job.
Pending(key) == {i \in DOMAIN rows : /\ rows[i].key = key
                                     /\ rows[i].status = "pending"
                                     /\ ~rows[i].deleted}

\* Mutant: only the rows that can be retried are selected.
StuckRetryable == {i \in DOMAIN rows : /\ rows[i].status = "running" /\ rows[i].stale
                                       /\ ~rows[i].deleted
                                       /\ rows[i].retry < MaxRetryCount}

\* The stuck-job condition, as the SELECT of the reaper states it ...
Stuck == {i \in DOMAIN rows : /\ rows[i].status = "running"
                              /\ rows[i].stale
                              /\ ~rows[i].deleted}

\* Mutants: an update that matches by uid alone.
ReaperMayFlipAnyRow(i) == TRUE
RunnerMayFlipAnyRow(i) == TRUE

\* ... and the guards of the two final writes.
ReaperMayFlip(i) == rows[i].status = "running" /\ rows[i].stale
RunnerMayFlip(i) == rows[i].status = "running"

\* Every update of a row sets updated_at.
WithStatus(i, status) == [rows EXCEPT ![i].status = status, ![i].stale = FALSE]

-----------------------------------------------------------------------------
(* Creating a job that deduplicates: a starting process ensures its sweeps  *)
(* now, a run creates its own successor one interval out.                   *)

Seeding(r) == runner[r].seeds # <<>>
Wanted(r) == IF Seeding(r) THEN Head(runner[r].seeds) ELSE rows[runner[r].job].key

Find(r) ==
    /\ runner[r].pc = "find"
    /\ \E i \in IF Pending(Wanted(r)) = {} THEN {NULL} ELSE Pending(Wanted(r)) :
           Step(r, [runner[r] EXCEPT !.pc = "store", !.found = i], rows)
    /\ UNCHANGED <<due, submits, faults>>

\* Where a process goes once a creation is over.
AfterCreate(r) ==
    LET p == [runner[r] EXCEPT !.found = NULL]
    IN  IF ~Seeding(r) THEN [p EXCEPT !.pc = "done"]
        ELSE [p EXCEPT !.seeds = Tail(@),
                       !.pc = IF Len(runner[r].seeds) = 1 THEN "loop" ELSE "find"]

\* The UPDATE matches by uid alone: it moves the row whatever became of it.
Move(r) ==
    LET i == runner[r].found
    IN  /\ i # NULL
        /\ due' = IF Seeding(r) /\ i \in Pending(Wanted(r))
                  THEN Enqueued(Dequeued(due, {i}), i) ELSE Dequeued(due, {i})
        /\ Step(r, AfterCreate(r), [rows EXCEPT ![i].stale = FALSE])

Insert(r) ==
    /\ runner[r].found = NULL
    /\ Free # {}
    /\ due' = IF Seeding(r) THEN Enqueued(due, NewId) ELSE due
    /\ Step(r, AfterCreate(r), With(rows, NewJob(Wanted(r))))

Store(r) ==
    /\ runner[r].pc = "store"
    /\ Move(r) \/ Insert(r)
    /\ UNCHANGED <<submits, faults>>

-----------------------------------------------------------------------------
(* A runner: claim, run, write the outcome, clone for a retry.              *)

Claim(r) ==
    /\ runner[r].pc = "loop"
    /\ ~Seeding(Main[r])
    /\ \E i \in First(due) :
           /\ due' = Dequeued(due, {i})
           /\ Step(r, [runner[r] EXCEPT !.pc = "run", !.job = i], WithStatus(i, "running"))
    /\ UNCHANGED <<submits, faults>>

\* A row this binary has no runner for, or whose config it cannot read, is
\* failed in place of its run.  This write matches by uid alone, whatever
\* became of the row since the claim.
Reject(r) ==
    /\ runner[r].pc = "run"
    /\ rows[runner[r].job].key = Task
    /\ Step(r, Idle, WithStatus(runner[r].job, "failed"))
    /\ UNCHANGED <<due, submits, faults>>

Outcomes(key) == {"success"} \cup (IF key \in Failing THEN {"retry"} ELSE {})

RunTask(r) ==
    /\ rows[runner[r].job].key = Task
    /\ \E o \in Outcomes(Task) \cup {"failed"} :
           Step(r, [runner[r] EXCEPT !.pc = "done", !.outcome = o], rows)

\* Mutant: it creates its successor when it succeeded, as the reaper does.
SweepThenRearmOnSuccess(r, o) ==
    [runner[r] EXCEPT !.pc = IF o = "success" THEN "find" ELSE "done", !.outcome = o]

\* A sweep creates its successor whatever its outcome, before it reports it.
SweepThenRearm(r, o) == [runner[r] EXCEPT !.pc = "find", !.outcome = o]

RunSweep(r) ==
    /\ rows[runner[r].job].key = Sweep
    /\ \E o \in Outcomes(Sweep) : Step(r, SweepThenRearm(r, o), rows)

\* The reaper lists its victims; a failure to do so is all it reports.
RunReaper(r) ==
    /\ rows[runner[r].job].key = Reaper
    /\ Step(r, [runner[r] EXCEPT !.pc = "reap", !.stuck = Stuck], rows)

Run(r) ==
    /\ runner[r].pc = "run"
    /\ RunTask(r) \/ RunSweep(r) \/ RunReaper(r)
    /\ UNCHANGED <<due, submits, faults>>

\* The watcher sees that the row of the run is deleted: no status is written.
NoticeCancel(r) ==
    /\ runner[r].pc = "run"
    /\ rows[runner[r].job].deleted
    /\ Step(r, Idle, rows)
    /\ UNCHANGED <<due, submits, faults>>

\* Mutant: off by one.
RetriesOnceMore(i, outcome) == outcome = "retry" /\ rows[i].retry <= MaxRetryCount

Retries(i, outcome) == outcome = "retry" /\ rows[i].retry < MaxRetryCount

\* The guarded final write; a row that is not running any more was recovered by
\* the reaper and the result is discarded.
Complete(r) ==
    LET i == runner[r].job
        o == runner[r].outcome
    IN  /\ runner[r].pc = "done"
        /\ IF ~RunnerMayFlip(i) THEN Step(r, Idle, rows)
           ELSE IF Retries(i, o)
                THEN Step(r, [runner[r] EXCEPT !.pc = "clone"], WithStatus(i, "retried"))
                ELSE Step(r, Idle, WithStatus(i, IF o = "success" THEN o ELSE "failed"))
        /\ UNCHANGED <<due, submits, faults>>

\* The INSERT of a clone, by the runner or by the reaper, and what follows it.
AfterClone(r) ==
    IF runner[r].victim = NULL THEN Idle
    ELSE [runner[r] EXCEPT !.pc = "reap", !.victim = NULL]

Original(r) == IF runner[r].victim = NULL THEN runner[r].job ELSE runner[r].victim

Clone(r) ==
    /\ runner[r].pc = "clone"
    /\ Free # {}
    /\ Step(r, AfterClone(r), With([rows EXCEPT ![Original(r)].cloned = TRUE],
                                  RetryClone(Original(r))))
    /\ UNCHANGED <<due, submits, faults>>

-----------------------------------------------------------------------------
(* The body of the reaper, one victim after the other.                      *)

ReapOne(r) ==
    /\ runner[r].pc = "reap"
    /\ \E i \in runner[r].stuck :
           LET next == [runner[r] EXCEPT !.stuck = @ \ {i}]
           IN  IF ~ReaperMayFlip(i) THEN Step(r, next, rows)
               ELSE IF rows[i].retry < MaxRetryCount
                    THEN Step(r, [next EXCEPT !.pc = "clone", !.victim = i],
                              WithStatus(i, "retried"))
                    ELSE Step(r, next, WithStatus(i, "failed"))
    /\ UNCHANGED <<due, submits, faults>>

ReapEnds(r) ==
    /\ runner[r].pc = "reap"
    /\ runner[r].stuck = {}
    /\ Step(r, [runner[r] EXCEPT !.pc = "find", !.outcome = "success"], rows)
    /\ UNCHANGED <<due, submits, faults>>

-----------------------------------------------------------------------------
(* Faults: what a process makes of a statement that fails, and of a crash.  *)

FailedStatement(r) ==
    \/ /\ "complete" \in Faults
       /\ runner[r].pc = "done"
       /\ Step(r, Idle, rows)
    \/ /\ "clone" \in Faults
       /\ runner[r].pc = "clone"
       /\ Step(r, AfterClone(r), rows)
    \/ /\ "list" \in Faults
       /\ runner[r].pc = "run"
       /\ rows[runner[r].job].key = Reaper
       /\ Step(r, [runner[r] EXCEPT !.pc = "done", !.outcome = "retry"], rows)

\* The process of r dies, with all its runners, and starts again.
Crash(r) ==
    /\ "crash" \in Faults
    /\ Main[r] = r
    /\ runner' = [s \in Runner |-> IF Main[s] = r THEN AtStart(s) ELSE runner[s]]
    /\ rows' = Kept(rows, runner')

Fault(r) ==
    /\ faults < MaxFaults
    /\ faults' = faults + 1
    /\ FailedStatement(r) \/ Crash(r)
    /\ UNCHANGED <<due, submits>>

-----------------------------------------------------------------------------
(* The clock and the users.                                                 *)

BecomeDue(i) ==
    /\ i \in DOMAIN rows
    /\ rows[i].status = "pending" /\ ~rows[i].deleted
    /\ i \notin DOMAIN due
    /\ due' = Enqueued(due, i)
    /\ UNCHANGED <<rows, runner, submits, faults>>

GrowStale(i) ==
    /\ i \in DOMAIN rows
    /\ rows[i].status = "running" /\ ~rows[i].stale
    /\ SlowRuns \/ \A r \in Runner : runner[r].job # i
    /\ rows' = [rows EXCEPT ![i].stale = TRUE]
    /\ UNCHANGED <<due, runner, submits, faults>>

\* A one-shot job due now, inserted by the transaction that admits it.
Submit ==
    /\ submits < MaxSubmits
    /\ Free # {}
    /\ submits' = submits + 1
    /\ due' = Enqueued(due, NewId)
    /\ rows' = With(rows, NewJob(Task))
    /\ UNCHANGED <<runner, faults>>

\* One statement soft-deletes the live rows of a canceled scan.
Cancel ==
    LET live == {i \in DOMAIN rows : /\ rows[i].key = Task
                                     /\ rows[i].status \in {"pending", "running"}
                                     /\ ~rows[i].deleted}
    IN  /\ live # {}
        /\ rows' = Kept([i \in DOMAIN rows |->
                            IF i \in live THEN [rows[i] EXCEPT !.deleted = TRUE, !.stale = FALSE]
                            ELSE rows[i]], runner)
        /\ due' = Dequeued(due, live)
        /\ UNCHANGED <<runner, submits, faults>>

-----------------------------------------------------------------------------
RunnerStep(r) ==
    \/ Find(r) \/ Store(r)
    \/ Claim(r) \/ Reject(r) \/ Run(r) \/ NoticeCancel(r) \/ Complete(r) \/ Clone(r)
    \/ ReapOne(r) \/ ReapEnds(r)

Next ==
    \/ \E r \in Runner : RunnerStep(r) \/ Fault(r)
    \/ \E i \in Row : BecomeDue(i) \/ GrowStale(i)
    \/ Submit
    \/ Cancel

Spec == Init /\ [][Next]_vars

\* A process that is up takes its next step, GetJobWait wakes when the earliest
\* row is due, and time passes for every row.
FairSpec ==
    /\ Spec
    /\ \A r \in Runner : WF_vars(RunnerStep(r))
    /\ \A i \in Row : WF_vars(BecomeDue(i)) /\ WF_vars(GrowStale(i))

-----------------------------------------------------------------------------
(* Properties.                                                              *)

\* A row is retried at most once: the reaper and the runner it took the row
\* from, or two reapers that listed it together, never both insert a clone
\* (reapOneStuckJob, handleRetry).
RetriedOnce == [][\A r \in Runner : Clone(r) => ~rows[Original(r)].cloned]_vars

\* An outcome is never overwritten by another one, however late its writer is
\* (CompleteRunningJob, claimStuckJob), with one exception: the unguarded write
\* of a runner that rejects its row can come after the reaper took that row from
\* it, and then turns "retried" into "failed" beside the retry (UpdateJobStatus
\* in processNext).  Success is never overwritten.
OutcomeStays ==
    [][\A i \in DOMAIN rows \cap DOMAIN rows' :
           rows[i].status \in Final =>
               \/ rows'[i].status = rows[i].status
               \/ /\ rows[i].status = "retried" /\ rows'[i].status = "failed"
                  /\ \E r \in Runner : runner[r].job = i /\ Reject(r)]_vars

\* The deduplication of a creation is a SELECT and then an INSERT, so runners of
\* one process or of several may each add a row of the same sweep.  That is all
\* the harm: however often runs fail, are retried, recovered or cut short, the
\* regular rows that wait never outnumber the runners (CreateJob,
\* createRetryClone, StartupJobRun.Run).
SweepsNotStacked ==
    \A key \in {Reaper, Sweep} :
        Cardinality({i \in DOMAIN rows : /\ rows[i].key = key
                                         /\ rows[i].status = "pending"
                                         /\ rows[i].retry = 0}) <= Cardinality(Runner)

\* A sweep whose runs keep failing, on processes that crash, runs again and
\* again (periodicSweep.execute).
SweepNeverStops == []<>(\E r \in Runner : /\ runner[r].pc = "run"
                                          /\ rows[runner[r].job].key = Sweep)

\* The row of a dead process does not stay running (ReapStuckJobs).
StuckJobsEnd ==
    \A i \in Row :
        (i \in DOMAIN rows /\ rows[i].status = "running")
            ~> ~(i \in DOMAIN rows /\ rows[i].status = "running" /\ ~rows[i].deleted)
=============================================================================
