# SolidPing, specified

SolidPing is a monitoring server written in Go. It probes targets (HTTP, TCP,
DNS and about a hundred other protocols) from several regions, opens incidents
when a target fails, and pages people. This directory holds TLA+ specifications
of its core, the TLC configurations that model-check them, and proofs that
TLAPS checks. All paths below are relative to `src/server/internal/` unless they
start with `src/`.

- [1. The system](#1-the-system)
- [2. The modules](#2-the-modules)
- [3. The runs](#3-the-runs)
- [4. Fairness](#4-fairness)
- [5. Proofs](#5-proofs)
- [6. Where code and comments disagree](#6-where-code-and-comments-disagree)
- [7. What is not modelled](#7-what-is-not-modelled)
- [8. Plan](#8-plan)

To check everything again: `tlc -config <run>.cfg <module>` for each row of the
tables of section 3, and `tlapm` on each of the eight modules named
`...Proofs.tla`.

## 1. The system

### 1.1 Components

| Component | State | Operations | Modelled |
|---|---|---|---|
| Check-job queue (`checkworker/checkjobsvc`, `db/checkrunrequest.go`, `db/checkcapture.go`) | the rows of `check_jobs`: due time, ordering key, lease owner and end, capture and run requests | claim (pool, express, agent), release with reschedule, deferral, request of a run or a capture | CheckJobRow, CheckJobs |
| Check worker pool (`checkworker/worker.go`) | `availableRunners`, `busySlow`, the job, completion and hint channels | fetch, hand over, execute, signal, express run, shutdown | CheckPool |
| Scheduling arithmetic (`checkworker/scheduling`) | none (pure) | phase, next tick, claim-ahead, lane budget, cost average, lane hysteresis, timeout | the tick and the claim-ahead in CheckJobRow, the budget in CheckPool; the rest planned |
| Worker backends (`checkworker/backend`, `handlers/workers`, `handlers/agentws`) | calls in flight on one WebSocket | claim, submit, release and renew over the wire | effects on the queue in CheckJobs; the connection planned |
| Check editing and run now (`handlers/checks`, `handlers/checkrunnow`) | the check and its job rows | edit, delete, run now, capture now | effects on the queue in CheckJobs |
| Passive evaluation (`checkworker/passive_evaluator.go`, `handlers/heartbeat`) | last beat, status | beat, evaluate | planned |
| Background job queue (`jobs/jobsvc`, `jobs/jobworker`, the sweeps of `jobs/jobtypes`) | the rows of `jobs`: status, retry count, due time, soft deletion | create with deduplication, claim, run, complete, retry, reap, cancel | JobQueue |
| Incidents (`handlers/incidents`, `handlers/freshness`, `db/models/incident.go`) | the status and the two clocks of each check; one row per incident | derive, confirm, open, reopen, resolve, roll up, release, sweep, maintenance, delete; acknowledge, resolve by hand | Incidents |
| Region quorum, outage, sweep (`regionquorum`, `regionoutage`, `regionsweep`) | the last result of each region | vote, suppress, expire | RegionQuorum: the vote, and results of several regions at once; the outage of a region and the sweep are not |
| Escalation, reminders, on-call (`jobs/jobtypes/job_escalation_step.go` and neighbours, `handlers/incidents/unack_notice.go`) | the step and reminder jobs of an incident, its acknowledgment, snooze and reminder count | schedule, fire, repeat, cancel, resume, remind | Escalation; whom a step pages is not |
| Worker tasks (`workertasks`, `crawltask`, `discoverytask`) | a second leased queue, progress, slices | claim, heartbeat, progress, cancel | planned |
| Event notifier, realtime hub (`notifier`, `realtime`) | buffered channels, coalescing timers | publish, drop, coalesce | the dropped hint is in CheckPool; the hub planned |
| Aggregation and uptime (`jobs/jobtypes/job_aggregation.go`) | hourly, daily and monthly results | roll up, purge | planned |
| Degraded detection, SLO burn (`degraded`, `slo`) | windows of results | enter, leave | planned |
| Platform watchdog (`watchdog`) | alerts and cooldowns | raise, clear | planned (the freshness sweep is in Incidents) |
| Rate limits, entitlements (`entitlements`) | token windows | reserve, defer | the deferral is in CheckJobs; the windows planned |
| Database, checkers, notifications, status pages, auth, secrets, configuration, discovery, MCP, plugins, TLS edge, web, telemetry | see PROJECT.json | | no (section 7) |

### 1.2 How they interact

```
   handlers/checks, checkrunnow ----UPDATE----> check_jobs <---claim/release--- worker pool (in process)
        |            \--event check.created--> notifier --hint--> fetcher, express goroutine
        |                                           ^                 |
        v                                        (drops)              v
      checks <----status---- handlers/workers (SubmitResult) <--wire-- agent slots
                                   |
                                   v
                               incidents ---creates/cancels---> jobs <--claim/complete/retry-- job runners
                                                                 ^---reaper, sweeps, startup
```

A worker never talks to another one: workers, agents and the API meet only in
single SQL statements on `check_jobs`. A claim gives the worker a lease; the
lease is the only mutual exclusion there is. Inside one worker the goroutines
meet in two atomic counters and three kinds of channel. The API wakes workers by
events that may be dropped, so a flat poll of one minute stands behind them.
Results feed incidents, and incidents create and cancel rows of `jobs`, the
second queue; it has no lease: a row in status `running` whose `updated_at` is
old is taken for dead by a job of the same queue, the stuck-job reaper.

### 1.3 What is hard, and what makes each part correct

*Check-job queue.* A run can outlast its lease (it sleeps up to its tick, then
probes); requests and edits arrive while it runs; an agent's result crosses a
network and reads the row a second time. Correct means: one live run per row; a
lease ends only by its own run or by its own expiry; a request is never lost to
a release that computes a later tick, and what the rate limit makes of it is told
apart from that; a capture request comes back from a deferral; a result is stored only from the holder; and no release of a run that
predates an edit leaves the old schedule behind.

*Worker pool.* The slow budget is computed from two counters that move while the
claim is on its way to the database, and the lane of a row may change while it
runs. Correct means: the reserved slots stay free of slow jobs; the counter
agrees with what is in flight; no claimable row waits for the flat poll; neither
lane starves the other; a lost run is run again; a shutdown ends every
goroutine in whatever hand-over it finds them.

*Background job queue.* Creation is a SELECT then an INSERT or UPDATE, a retry
is an UPDATE then an INSERT, the reaper recovers rows that may well still be
running, and every process runs several runners (two by default). Correct means:
one retry per row; an outcome is not overwritten, but by the one write that does
not look; a sweep that only lives by the row it creates for its successor goes on
for ever, without piling up rows beyond a bound; a row left running is recovered.

*Incidents and rollup.* The row of a check and its open incident are read, decided
upon and written in separate statements, while the freshness sweep clears the
same columns, users acknowledge, resolve or delete, maintenance windows open, and
the incident of a parent opens or closes. The clocks that decide are columns of
the check, and live longer than one incident. Correct means: one open incident
per check at most; a check that reads down has one; an incident opens after a
confirmation period of failures that were seen, and then at once; it resolves
after a recovery period of successes, and then at once; nothing stays muted under
an incident that is over; a failing child pages.

*Escalation and reminders.* The rungs of a policy are rows of `jobs` that one
operation cancels and another re-creates from their history, while a runner may
be anywhere between its claim and the rows of the next cycle. Correct means: no
rung pages twice; none that was canceled is dropped; the rungs keep the spacing
of the policy; an acknowledgment stops the paging; reminders keep their interval
however many chains of them there are.

PROJECT.json lists every hazard met so far at its line, with the properties that
would catch it, or the reason no property does yet.

## 2. The modules

### 2.1 CheckJobRow: the row and its UPDATEs

One operator per SQL statement, from the row it reads to the row it leaves.
`Leased` is `updateSingleJobLease`, `Released` the two release statements,
`Deferred` the rate-limit deferral, `MadeDue` and `Parked` the two statements of
`RequestCheckRunOn`, `CaptureAsked` the capture request, `Resynced` the edit.
The `COALESCE`s are `PendingRequestOr`. `NextAligned`, `NextUnaligned` and
`ClampAhead` are the arithmetic of the next tick. `Idling` and `ReleaseComing` are
the guards of the two statements of a request. Time is counted in ticks; the
30 s of the lease margin and of the claim-ahead ceiling are the constants
`LeaseExtra` and `AheadFloor`. Columns that are only displayed, and the payload
of a check, are left out.

`stepRun` says whether `step_run_uid` is set: the row carries a multi-step run in
progress, of which every claim runs one slice. Nothing in the repository but a
test and the migration that adds it (026) writes that column; `db/checkrunrequest.go:38,57`
and `checkjobsvc/service.go:1042,1074` read it. Such a row is one that a version
which ran crawls in slices left behind, so `stepRun` is fixed by Init, for the
jobs in `Sliced`. It matters in three places: `Idling` fails, so a request never
makes such a row due; `ReleaseComing` holds without a lease, so the request is
parked between two slices; and `Leased` keeps the parked request, because the
slice belongs to a run that started before it. The release of the slice makes the
row due at the request, and the claim after it is taken for the answer.

### 2.2 CheckJobs: the queue under concurrency

State: the clock, which rows exist, the rows, what each runner holds in memory
(`run`: the claimed copy of the row, and how far its run is), the API call
in progress on each row between its two statements, and two history variables
(`asked`, `wanted`) that only properties read.

`asked` is what became of the newest run request of a job: `waiting` in the row,
due or parked; `carried` by the claim that took it, until that run starts (or
an error result takes its place); `turnedAway`, when the rate limit deferred that
very run, until some run of the job starts; `no`. A claim is not an answer:
between the claim and the start, which is a sleep of up to the claim-ahead
window, the run can be lost, or be deferred with nothing run.

| Action | Code |
|---|---|
| `Claim(w)` | `ClaimJobs`, `ClaimJobsForAgent`: one transaction selects by ordering key with a LIMIT, filters by the window of each job, leases |
| `ClaimExpress(r, j)` | `ClaimJobsForCheck`, for the express goroutine |
| `Start`, `Undispatchable`, `Conclude` | the sleep up to the tick and the probe of `executeJob`; a job that cannot be dispatched; the end of the run, where the next tick is computed |
| `ReadRow`, `SaveResult` | the agent path reads the row again before it stores (`workers.SubmitResult`); the in-process path stores from memory |
| `ReleaseLease` | both releases, guarded by `lease_worker_uid` |
| `DeferRateLimited` | `DeferLeaseRateLimited`, for the jobs in `Metered` (organizations with a cap): it gives the capture back to the row, not the run request |
| `Lose(r)` | crash, shutdown in the sleep, broken socket, failed save: the run is gone, its lease stays |
| `RequestRun`, `MakeDue`, `Park` | `RequestCheckRunOn`: its time is fixed first, then its two guarded updates, tried again up to `MaxTries` times |
| `EditPeriod`, `RerunInFlight` | `syncExistingJob`, then `rerunInFlight` |
| `RequestCapture`, `DeleteJob`, `Tick` | capture now, deletion, time |

The constant `Punctual` decides whether the clock may pass the end of a lease
while its run is still going. The code makes overruns rare (the lease lasts a
period and 30 s past the tick, and a probe is abandoned some seconds after its
timeout, 15 s by default) and does not make them impossible: bursts extend the
budget, the save and the release have no deadline while the process is up, and
a process can be suspended. Both cases are therefore checked and proved apart.

### 2.3 RunQueue and CheckJobsQueue: what the queue promises

RunQueue is one job without clocks, rows or workers: it waits, becomes due, is
held, is handed back; and it may be *owed* a run that somebody asked for. A due
job leaves the queue only by being held. A hold does not settle what is owed: it
carries it (`Hold`), and a hold that ends otherwise than by starting the run
(`Serve`) leaves the job due with the run still owed (`Lapse`). The one other end
is an action of its own, `TurnAway`: the rate limit refuses the run, and the
request is gone with it. A job with a multi-step run (`sliced`) keeps the request
parked while a slice holds it. CheckJobsQueue maps one watched row to it: held is
a lease in force, due and waiting compare `scheduled_at` with the clock, owed is
`asked`, told into asked and parked by `run_requested_at`. `ImplementsRunQueue` is
`Queue!Spec`, checked as a property of CheckJobs.

### 2.4 CheckPool: the goroutines of one worker

What CheckJobs takes for one step, "the free runners of a worker claim", is here
the read of two counters (`Load`), the claim (`Claim`), and one rendezvous per
job (`HandOver`), with the runners moving in between. A runner goes `loop` →
`waiting` (`Announce`) → `handed` → `running` (`MarkBusy`) → `ran` (`Finish`,
`FinishUnreleased`) → `signal` (`FreeLane`) → `loop` (`Signal`), in the order of
`runnerLoop`, where the completion is signalled before the runner counts itself
available again. The fetcher sleeps on the completion signal, a hint, the alarm
of the claim, or the flat poll (`WakeOn...`). The express goroutine serves
created checks and run requests on its own.

The table is reduced to the order of the claimable rows. `ready` is that order,
kept as RowOrder keeps one: for each row, the set of the rows ahead of it. A row
that becomes claimable takes any place behind those of `overdue`, because the key
is a due time with bounded offsets: once a row is overdue by more than any
offset, newcomers sort behind it (`Age`). A lease that nobody holds runs out
(`LeaseExpires`). What a claim returns is handed out in that order too
(`fetcher.jobs`).

`Prompt` is a timing assumption, used by one run: a probe, which goes over the
network, outlasts the in-memory steps other goroutines take between two waits.
Without it a completion can be consumed at the one instant no runner is counted
as available (section 6), over and over, and nothing is live. With it that
interleaving is excluded, and liveness is the question of lanes and order it
should be.

### 2.5 JobQueue: the background jobs

State: the rows, the due pending rows in the order of `scheduled_at` (`due`, a
RowOrder), and the runners. `Runner` is the runners of all processes; a process
has a pool of them (`poolSize`, 2 by default: `jobs/jobworker/worker.go:106-109,133`),
and `Main` maps each of them to the one that stands for its process: a process
that starts runs the startup job first, and its pool after it; a crash takes all
of its runners at once (`Crash`). Every statement is a step of its own: `Find` and `Store` (`Move`,
`Insert`) are the deduplicating creation, `Complete` and `Clone` a completion
with retry, `ReapOne` and `Clone` the reaper. `RunSweep` creates its own
successor before it reports its outcome, as `selfRescheduling` does. A process
that starts, or starts again after a crash, ensures the global sweeps first
(`Seeds`, the startup job). `Cancel` soft-deletes the rows of a scan, and
`NoticeCancel` is the watcher of the running process.

`Reject` is the second statement of a runner that cannot run its row at all (no
runner for its type, a config that does not parse). The claim is the first; in
between, the runner may stall for as long as `SlowRuns` allows, and the reaper may
flip the row to `retried` and clone it. The write matches on the uid alone
(`UpdateJobStatus`), and so does the action: it looks at nothing but its own
memory. Left out is that this write may fail: its error is ignored, the row stays
`running`, and the reaper takes it from there, as after a crash.

A row that is final or deleted, and that no process still refers to, can be
matched by no statement and leaves the model at once (`Kept`), which keeps the
table finite. `cloned` is history: some row names this one as its
`previous_job_uid`. A row is stale once `updated_at` is older than the stuck
timeout; `SlowRuns` says whether that can happen to a row whose run is alive.

### 2.6 Incidents: checks, their clocks, their incidents

State: the clock; per check the columns `status`, `first_failure_at` (`ff`),
`first_success_since_failure_at` (`fs`) and `last_result_at` (`seen`), whether it
is deleted or in a maintenance window; the table of incidents; per check the
processing of its current result (`work`: what was read, and which statement
comes next); and `hist`, which properties alone read.

| Action | Code |
|---|---|
| `Read`, `ReadInWindow` | the touch of `last_result_at`, the re-read of the row and the lookup of the open incident (`processCheckResult`); in a window a result does no more than end "stale" (`leaveStaleInMaintenance`) |
| `Write` | `deriveIncidentClocks`, `deriveCheckStatus` and the one UPDATE of both, then the routing of `handleFailure` and `handleSuccess`, the confirmation hold included |
| `Open`, `Store`, `Adopt` | `createOrReopenIncident`: all that is read before the insert (the deletion, the incident to reopen, the rollup root); the insert or update; `rollUpExistingChildren` |
| `Resolve`, `Release`, `ReleaseChild` | `resolveIncident`, then the list of the rolled-up children and one `reEvaluateChild` after the other |
| `Sweep` | the compare-and-set of the freshness sweep |
| `Acknowledge`, `Unacknowledge`, `ManualResolve`, `DeleteCheck`, `ToggleWindow` | what users do |

A result is reduced to the signal that `deriveSignal` makes of it (five of them),
so a quorum of regions is an input: any sequence of signals. The results of one
check are processed one at a time, which the lease on the row of a single-region
check gives (several regions at once: RegionQuorum); those of several checks
interleave statement by statement. `MaxLag`
bounds how long the processing of one result takes, and the assumption
`MaxLag <= StaleAfter` says that it is less than the freshness threshold (at
least five minutes in the code). `acked` stands for `acknowledged_by`, which the
reopening looks at; an acknowledgment that names nobody is left out.

### 2.7 Escalation: who is paged, and when

One incident, its rungs (a step of the policy in a cycle of its repetition), and
its reminders. `steps` reduces all generations of the rows of one rung to what
the statements tell apart: the due time of the pending one, the latest due time
of a canceled one, whether any ever left `pending`, and its notification job.

| Action | Code |
|---|---|
| `ClaimStep`, `CheckIncident`, `FanOut`, `ScheduleStep` | one run of an escalation step: the claim, the read of the incident, the notification jobs, the rows of the next cycle one by one |
| `SendNotification` | the delivery, which does not look at the incident again |
| `ClaimReminderJob`, `CheckReminder`, `ClaimIncidentReminder`, `ScheduleNextReminder` | one run of a reminder: the claim, the read, the compare-and-set on `reminder_count`, the next job |
| `Acknowledge`, `Unacknowledge`, `Snooze`, `Unsnooze`, `Resolve`; `SweepUnsnooze`; `Recover`, `Relapse` | the read each operation of a user, of the snooze sweep and of the pipeline starts with |
| `Write`, `CancelPending`, `CancelReminders`, `ListSteps`, `CreateStep`, `ReadReminder`, `StoreReminder` | its statements, in the order of the operation: the update, the cancel sweep, the history of the rungs, the rows that are created again, the reminder |

The creation of a job is one step here (JobQueue takes its deduplication apart),
all that a step pages goes out as one notification, runs neither fail nor die,
the incident is not rolled up, and runs and requests take no time of the clock.
A loop over rows keeps what it has left to do: a process the due time of each rung
it still creates (`todo`), a run the next step of the cycle it schedules (`step`).

### 2.8 RegionQuorum: several regions, one check

A check that runs in several regions has a row, and a lease, in each; so their
results are processed at once, and meet in the readings of the regions, the two
clocks of the check and its open incidents. Each region processes one result at a
time (`work`), and each statement of it is an action.

| Action | Code |
|---|---|
| `Read` | the touch, and the row read back (`refreshLiveState`): regions, quorum and clocks |
| `Record`, `LoseReading` | `recordRegionState`, whose failure is only logged |
| `Derive` | `deriveSignal` (`Quorum`, `UsesQuorum`, `Failing`, `Signal`), and the lookup of the open incident, any one if there are several |
| `Write` | `deriveIncidentClocks`, the one UPDATE, and the routing of `handleFailure` and `handleSuccess`, from the clocks that were read |
| `Open`, `Resolve` | the statement of `createIncident`, of `resolveIncident`; neither looks at what happened since the lookup |
| `Abort` | a statement fails, or the worker dies: the rest of the result is dropped |
| `Edit`, `Expire`, `Confirm`, `Recover` | the placement or the quorum is changed; a reading is older than the staleness threshold; a period runs out |

Time is not counted. A clock is armed, and later its period has run out
(`elapsed`); the records keep the order that the code reads off the times, that
is, which incidents began after a clock was armed (`before`), an incident
beginning when the result that opens it did (`during`). A period is taken to be
longer than the processing of one result. An unknown reading counts as little as
a passing one, so `failing` is the set of the others. Reopening, what is shown,
dependencies, windows, users and the freshness sweep are in Incidents.

### 2.9 RowOrder: an ORDER BY

What CheckPool and JobQueue share: an order of rows as a function from each row
to the set of the rows ahead of it (`IsOrder`), with the row that `LIMIT 1` takes
(`First`), the places a newcomer can take, and what is left when rows leave. A
sequence would say the same; the set ahead of a row is what the proofs reason
about, without an induction over positions.

### 2.10 MC modules

MCCheckJobs, MCCheckPool, MCJobQueue, MCIncidents, MCEscalation and
MCRegionQuorum only define
the constants of the configurations (fleets, phases, seeds, dependency graphs,
policies).

## 3. The runs

### 3.1 Runs that pass

| Run | Configuration | Instance | Checked |
|---|---|---|---|
| `queue_punctual` | `CheckJobsPunctual.cfg` | one row; a pool runner and an express runner of one worker, one agent slot; period 2, clock to 5; no overruns; the row may carry a multi-step run and may be deferred; 3.1 M states | `TypeOK`, `MutualExclusion`, `RequestKept`, `ParkedHasRelease`, `CaptureKept`, `ResultFromHolder`, `ImplementsRunQueue` |
| `queue_edits` | `CheckJobsEdits.cfg` | one row whose period moves between 1 and 3 while a runner or an agent executes it; overruns allowed; 3.3 M states | `StaleRunReruns`, `ReleaseOwnLease`, `LeaseNotStolen` |
| `pool_lanes` | `CheckPoolLanes.cfg` | two runners, one reserved slot, three rows of which one changes lanes; 45 K states | `TypeOK`, `FastSlotsKept`, `SlowCounted`, `HintCovers`, `EveryReadyJobRuns` |
| `pool_lost` | `CheckPoolLost.cfg` | two runners and the express goroutine, one row created later; every failure, and a shutdown; 61 K states | `LostRunsRetried`, `ShutdownEnds` |
| `jobs_retries` | `JobQueueRetries.cfg` | one process with a pool of two runners, the reaper and one submitted job that is rejected, fails, or is canceled; runs may outlast the stuck timeout; 4.9 M states | `TypeOK`, `SweepsNotStacked`, `RetriedOnce`, `OutcomeStays` |
| `jobs_live` | `JobQueueLive.cfg` | one process of one runner with one fault, the reaper and a sweep that may fail on every run; 101 K states | `SweepNeverStops`, `StuckJobsEnd` |
| `incidents_clocks` | `IncidentsClocks.cfg` | one check, results of every signal, one operation of a user; clock to 7; 0.83 M states | `OneActiveIncident`, `DownHasIncident`, `ConfirmationObserved`, `RecoveryObserved`, `ResolvesWhenRecovered` |
| `incidents_rollup` | `IncidentsRollup.cfg` | a check and its hard parent, one incident each that may be reopened; clock to 3; 2.4 M states | `TypeOK`, `MutingEnds`, `OpensWhenConfirmed` |
| `escalation_handled` | `EscalationHandled.cfg` | a policy of two steps and one repetition, reminders, one user at a time, the sweep, the pipeline, one runner; two operations and what undoes them | `TypeOK`, `PagedOnce`, `RungsResumed`, `SpacingKept`, `AckStopsPaging`, `RemindersPaced` |
| `region_quorum` | `RegionQuorum.cfg` | a check in three regions, which may lose one of them; two results in processing at once, one edit or fault; 1.0 M states | `TypeOK`, `OutageOpens`, `RecoveryCloses` |

What each shows:

- `queue_punctual`: as long as no run outlives its lease, and under every
  interleaving of a pool claim, an express claim and an agent, of requests split
  into their two statements, of slices, captures, deferrals, losses and a
  deletion: one live run per row; a request stays in its row or with its claim
  until its run starts, and nothing but the rate limit ends it otherwise
  (`RequestKept`); a parked request has a release to come; a capture survives;
  and the queue implements RunQueue. That an exception is needed at all is a
  disagreement with `db/service.go:471-472` (section 6).
- `queue_edits`: the re-run parked by an edit reaches every run that still
  carries the old period; and, although runs may outlive their lease, the lease
  excludes and the owner guard stops a late release, as every worker has one
  runner.
- `pool_lanes`: the reserved slot, the slow count and the hint of a claim hold up
  while runners finish and rows change lanes between the reads of the fetcher
  and its claim; and a claimable row runs, however many newcomers are sorted
  around it and however busy the other lane keeps the pool.
- `pool_lost`: a run lost with its claim answer, its save or its hand-over is
  executed again, and a shutdown ends every goroutine.
- `jobs_retries`: the reaper and the runner it took a row from, or two reapers
  that listed it together, never both retry it; a late rejection turns `retried`
  into `failed`, beside the retry, and no other outcome is overwritten; and the
  regular rows of the reaper's job that wait (those that are no retry) are never
  more than there are runners. One row, which is what the deduplication is meant
  to give, would be violated here: two runners of one process each find no
  pending row and each insert one.
- `jobs_live`: a sweep goes on through failures of every run and through a crash
  or a failed statement; rows left running are recovered, the reaper's own
  included.
- `incidents_clocks`: what a check shows and when its incident opens and closes
  follows from the results that were seen and from nothing left over: not from a
  clock of an earlier incident, a gap in the data, a warning, a window, nor from a
  row that a user changed between the read and the write.
- `incidents_rollup`: a parent that resolves releases what was muted under it,
  whatever fails, recovers or relapses in between, and nothing but an ancestor
  that is confirming an outage itself delays an incident that is due.
- `escalation_handled`: with one user at a time, an acknowledgment, a snooze or a
  resolution, and their withdrawal, leave a policy that pages every rung once and
  in its spacing, against a runner, the sweep and the pipeline at any point.
- `region_quorum`: however the results of the regions interleave, and whatever one
  that is lost leaves behind, an outage that a quorum keeps seeing has an incident
  in the end, and keeps one; and all of them end, two that were opened at once
  included, when what still fails is no quorum any more.

### 3.2 Why the bounds are enough

The lease protocol acts on each row separately; rows meet only in the LIMIT and
the order of a claim, for which the theorems of section 5 stand, which hold for
any number of rows. In
one row, a counterexample needs a run, the run that follows it and one that
started before both: three runners, and a clock that passes two periods and a
lease (5 ticks with period 2 and a margin of 1). `CallTimes` bounds the instants
at which the API is called to those inside that window; `MaxTries` 2 makes the
loop of `RequestCheckRunOn` both repeat and give up.

Two runners and one reserved slot make a budget of one slow job: the smallest
pool in which the budget is neither zero nor the whole pool. Three rows fill the
pool and leave one over, which is what starvation needs. Hint buffers of 1
overflow at once (the code has 16). With `New` empty the express goroutine is
idle in `pool_lanes`; `pool_lost` has it.

`MaxRetryCount` 1 (the code has 3) gives a first run, a retry and a failure for
good. In `jobs_live` the bound of six rows is never reached, so it excludes no
behaviour; in `jobs_retries` four rows hold one submitted job, its retry, the
reaper and its successor, or the second row that a race inserts. Two runners are
the default pool and the fewest that race; whether they share a process matters
for crashes only, of which `jobs_retries` has none. `jobs_live` has one runner
because its properties are about liveness: with a pool of two the graph is past
14 M states, too large for that check. Safety with more runners, more processes
and faults is what section 5.4 proves.

In `incidents_clocks` confirmation takes 1 tick, recovery 2 and staleness 3, with
a lag of 1, so each can end before, at and after any other; a clock to 7 has an
incident open, resolve, and the next one, or its relapse, run its whole course
after a gap. Rollup needs two checks and one incident of each, and the reopening
of both; the theorems, which have no bounds, cover the rest.

In `escalation_handled` two steps are the fewest that have a spacing, one
repetition the least that is scheduled while a sweep may come; `MaxOps` 2 gives
an operation, its withdrawal (which is not counted), and another; reminders go
out every tick, as often as the clock allows.

In `region_quorum` three regions are the fewest with a quorum (two of three), and
the edit to two regions the step to the rule without one. Two results at once are
what each hazard takes: two lookups that find nothing, a success beside a failure.
Two incidents are enough: in every reachable state in which one is about to open,
one of the two is free. One fault is an edit, a lost reading or a result that dies halfway;
more of them only come before the point from which the properties speak. The two
properties are about {r1, r2}; the regions are interchangeable, but for the
placement that leaves r3 out.

`CHECK_DEADLOCK FALSE` is set where the model really stops: CheckJobs at the
last tick with every row deleted, JobQueue when the submissions are used up
and no row is left, Incidents when the clock and the incidents are used up,
Escalation when nothing is left to page and the operations are used up.
CheckPool keeps the check; its end is `Stopped`.

### 3.3 Runs that find a violation

`lost_request` and `child_pages`: section 6.

## 4. Fairness

CheckJobs, Incidents and Escalation state none: every property of them is a
safety property; that something is due now, and not later, is said of a step
(`OpensWhenConfirmed`, `ResolvesWhenRecovered`). What they wait for, the next
result of a check, the next job, is the business of CheckPool and JobQueue. Its runs
without deadlines say what may never happen; that a run eventually ends is the
execution timeout's business.

`CheckPool!FairSpec`:

- weak fairness of the fetcher's and the express goroutine's steps, of the
  hand-over and of the flat poll: the Go scheduler runs a goroutine that can run,
  and a timer fires;
- strong fairness of `Claim`, because a claim that fails is enabled again after
  the back-off only: the database answers again and again, whatever fails in
  between. Strong fairness of a claim that finds something: an agent does not
  lose the answer of every claim it makes;
- strong fairness of every runner's steps: `Prompt` disables them for moments,
  and a probe ends (execution timeout and watchdog);
- weak fairness of `Age` and `LeaseExpires`: time passes. Nothing forces a row
  to become claimable, a check to be created or run by hand, a failure, or a
  shutdown.

`JobQueue!FairSpec`: weak fairness of each process's steps (`GetJobWait` arms a
timer for the earliest row), and of `BecomeDue` and `GrowStale` (time passes).
Crashes, failed statements, submissions and cancellations are never forced, and
faults are bounded by `MaxFaults`: no property of a recovery holds if the
process crashes for ever.

`RegionQuorum!Spec`: weak fairness of the processing of each region's result (its
statements end, or time out into `Abort`), and of the two periods, which run out
because time passes. Nothing forces a result to be read; that regions go on
reporting is a premise of the properties (`Settled`), since a check that is not
run has no incidents to speak of.

## 5. Proofs

Each theorem holds for every value of the constants that its module assumes, and
without the bounds of the runs: `MaxTime`, `MaxOps`, `MaxFaults` and the like are
numbers of any size. Where a theorem needs more than that, the table says what,
and the text why.

The leaves of the proofs are kept small: `tlapm --cleanfp --stretch 0.2` proves
every module too, with a fifth of the time the provers have by default. A change
that makes a leaf fail at that limit should split the leaf.

### 5.1 CheckJobsProofs, CheckJobRequestsProofs, CheckJobsQueueProofs: the queue

For all sets of jobs, workers and runners, all periods,
phases and margins, and without the bounds of the runs:

| Theorem | Says | Under |
|---|---|---|
| `TypeCorrect` | `Spec => []TypeOK`: among others, no release leaves a row without a due time | the constants' assumptions |
| `LeaseCorrect` | `Spec => []LeaseInv` | `Trustworthy` |
| `Exclusion` | `Spec => []MutualExclusion` | `Trustworthy` |
| `NotStolen` | `Spec => LeaseNotStolen` | the constants' assumptions |
| `OwnReleases` | `Spec => ReleaseOwnLease` | `Trustworthy` |
| `NeverStranded` | `Spec => []ParkedHasRelease` | the constants' assumptions |
| `ResultsFromHolders` | `Spec => ResultFromHolder` | `Punctual` |
| `RequestsKept` | `Spec => []RequestKept` | `Punctual` |
| `StaleRunsRerun` | `Spec => []StaleRunReruns` | `Trustworthy` |
| `CapturesKept` | `Spec => []CaptureKept` | `Trustworthy` |
| `Implements` | `Spec => ImplementsRunQueue`: CheckJobs implements RunQueue | `Punctual`, `Watched \notin Editable` |

`Trustworthy` is `Punctual \/ OneRunnerPerWorker`. It is the exact price of the
owner guard: `lease_worker_uid` names a worker and not a run, so a late release
is told from the release of the next run only if there is no late release, or
if the next run belongs to another worker. Without it
`ReleaseOwnLease` fails (section 6, the late release of a sibling runner).

*The argument.* `TypeInv` strengthens `TypeOK` by the fact that a busy runner has
a row of the table and one of the allowed periods, without which its next tick
is undefined. Exclusion is not inductive: it says nothing of the row. `LeaseInv`
ties both sides together: a row has an owner exactly when it has an expiry
(`LeaseWhole`); under `Punctual` no busy runner is past its lease
(`RunsArePunctual`); a live run's lease *is* the row's lease, owner and expiry
(`LiveIsHeld`); and a run whose release would match the guard holds the row
(`OwnedIsHeld`). The claim is the step that could break it: an unleased row has
no live run (by `LiveIsHeld` its expiry would be the row's), and under
`Trustworthy` none of its own worker's late runs either (`NoRunOnUnleased`). A
release keeps it because a matching guard means the runner holds the row, and
then nobody else does. All other steps leave every lease alone (`LeaseFrame`).
`ParkedInv` needs only `LeaseWhole` beside `ParkedHasRelease`: the second statement
of a request matches only a row with a lease or with a multi-step run, every step
that clears a lease clears the request, and no step ends a multi-step run
(`StepRunStays`). `NotStolen` needs types only: each claim is guarded by the
expiry itself.

*Requests and results* (CheckJobRequestsProofs). `HonoredInv` adds to `LeaseInv` and
`ParkedInv` where a request is: one that waits is parked in its row, or the job is
due and free; one that a claim took has that lease, or the job is due
(`OwedInRow`). It takes three more facts. All that was requested was requested
before now (`RequestsInPast`), so the `COALESCE` of a release yields a due time. A
job whose lease runs out is due (`DueBeforeLapse`), so a run that is lost leaves
its request owed. And a run that is past its start carries no request
(`CarriedNotBegun`), so a release, which computes a later tick, never meets one;
the deferral, which comes before the start, does, and is the exception that
`RequestKept` and `TurnAway` name. `Punctual` cannot be dropped: `lost_request` is
the run in which a late release takes a request away (section 6). An edited row
starts afresh, which is why the property, and the refinement, are about jobs
outside `Editable`. The capture is carried by whoever holds the row (`CaptureCarried`) or
stands in its columns, and of two the newer one is pending (`CapturePending`).
`StaleRunReruns` is inductive beside `LeaseInv`. All of them look at one row, so one
lemma (`RowMoves`, `CaptureMoves`) says which of a few moves each action makes with
a row, and each invariant is proved move by move.

*The refinement* (CheckJobsQueueProofs) is step simulation: `InitMaps` and
`StepMaps` show that under `HonoredInv` every step of CheckJobs is, seen through the
watched row, a step of RunQueue or a stutter. It is there that `OwedInRow` and
`CarriedNotBegun` are needed: a release of a job that is owed a run must not map
to a return to "waiting", which RunQueue has no step for, and of the steps that
end a lease only the deferral may map to `TurnAway`.

### 5.2 IncidentsProofs: the pipeline

For all finite sets of checks, all dependency graphs, periods and windows, and
without the bounds of the runs:

| Theorem | Says |
|---|---|
| `TypesCorrect` | `Spec => []TypeOK`: an incident is open exactly as long as it has no resolution time, and a muted one names what mutes it |
| `OneIncident` | `Spec => []OneActiveIncident` |
| `DownShows` | `Spec => []DownHasIncident` |
| `Confirmed` | `Spec => ConfirmationObserved` |
| `Recovered` | `Spec => RecoveryObserved` |
| `Resolves` | `Spec => ResolvesWhenRecovered` |
| `Opens` | `Spec => OpensWhenConfirmed` |
| `MutingsEnd` | `Spec => []MutingEnds` |

They rest on `IncidentsAssumption` alone. Its one clause of substance is
`MaxLag <= StaleAfter`: a check cannot go stale between the read and the write of
one result. It is what makes the row that was read current (`SnapCurrent`): of
all who write the clocks of a check, only the sweep could come in between.

*The argument.* None of the first six is inductive. `OneActiveIncident` needs to know
that a result which is about to store an incident still has none beside it, so
`AtHand` follows the incident from the lookup to the last statement, through
users who close it meanwhile; it also carries `DownHasIncident`, whose truth in
between is only that the incident is on its way. The properties about periods
compare the columns of the check with what was really observed, so `Confirming`
and `Recovering` say that the two agree: `ff` is the start of the failures seen,
unless the check relapses; `fs`, under an open incident, that of the successes,
and never from before its onset. `Past` keeps every instant behind the clock,
and bounds the lag. All of it is a statement about one check (`CheckInv`), so each
action has one lemma for the check it works on (`ReadOwn`, `WriteOwn`, ...) and
the frame lemmas (`SameActive`, `Untouched`, `OthersUntouched`, `UntouchedKept`)
carry the others: adoption and release write the incidents of other checks, but
neither their activity nor their onset. TLC checked `IncidentsInv` on both
instances before it was proved.

*The end of a muting* relates the incidents of several checks, so it has an
invariant of its own beside this one. A muted incident is `Attended`: what mutes
it is open, or was closed by a person or with its check, or its release has yet
to come to it, because the children have not been looked up, or because this one
is still on the list. `MutingInv` adds that an adoption never begins under an
incident that ended on its own (`Ongoing`). The step that needs `AtHand` again is
the insert: it rewrites `late` of the check, so no other incident of that check
may be open. Steps that mute and release nothing share one lemma (`MutingKept`).
The proof was what showed that the incident of a deleted check has to be
excepted: `incidents_rollup` has no user operations, and TLC found the state on
an instance with a single deletion (section 6).

### 5.3 CheckPoolProofs: the goroutines of a worker

For any number of rows and runners, any slots reserved and any rows that change
lanes:

| Theorem | Says | Under |
|---|---|---|
| `PoolTypes` | `Spec => []TypeOK`: among others, the counter of available runners stays within the pool | the constants' assumptions |
| `SlowJobsCounted` | `Spec => []SlowCounted` | the constants' assumptions |
| `ReservedSlotsKept` | `Spec => []FastSlotsKept` | the constants' assumptions |
| `NothingLeftToPoll` | `Spec => []HintCovers` | `~ExpressOn`, `~Failures` |

*The argument.* The budget is read before the claim and spent after it. `CountInv`
therefore says that the two counters are what they count (`AvailableCounted`: the
runners that announced themselves and have not yet marked themselves busy;
`SlowCounted`), and that the budget still fits when the claim comes
(`BudgetFits`): between the read and the claim, runners only finish slow jobs,
because nobody else hands one out. The cardinalities move by one with the
steps of one runner, and by the size of the batch with a claim, whose slow part
the budget bounds. `HintCovers` needs to know why the fetcher sleeps: `QuietWait`
says that in a pool without a job on its way nothing is claimable but what the
alarm was set for, `QuietClaim` that a budget of nothing was read while slow jobs
ran, whose end will be signalled. The two hypotheses are the ones of the run that
checks it: the express goroutine releases a row without a completion signal, so
its next tick is left to the poll (section 6), and so is a lease that was lost and
runs out unannounced.

### 5.4 JobQueueProofs: the background jobs

For any number of processes, of runners in each, of rows and retries, any seeds,
and any faults, from the assumptions on the constants alone:

| Theorem | Says |
|---|---|
| `TypesKept` | `Spec => []TypeOK`: a due row is a pending one that nobody deleted, and the due rows are ordered |
| `RetriedAtMostOnce` | `Spec => RetriedOnce` |
| `OutcomesStay` | `Spec => OutcomeStays` |
| `NotStacked` | `Spec => []SweepsNotStacked` |

*The argument.* That a row is retried once is not visible in the row: the flip to
`retried` and the insertion of the clone are two statements, a reaper may list
the row in between, and a late rejection may write `failed` over the flip.
`JobInv` says of a runner at the second statement that it made the flip itself,
that nobody has cloned the row (`OwesClone`), and that no two runners are about to
clone the same one. What makes it inductive is that both flips are compare-and-set
on `running`, which no step makes of a final row. Every step of a runner replaces
its record and the table, so `TableKept` and `StepKeeps` prove once what all of
them leave alone, and each action has one lemma about what it makes of the table.

*Outcomes.* All writes but one are guarded by `running`. The unguarded one is
`Reject`, and `HolderInv` says what it can hit: a row that was claimed has one
runner, and is neither pending nor a success while that runner refers to it,
because success is what its own runner writes last. So a late rejection finds
`running`, `failed`, or the `retried` of a reaper, and the last case is the
exception that `OutcomeStays` states.

*Sweeps that do not stack up.* The deduplication is a SELECT and an INSERT without
a unique index. `StackInv` counts, for each sweep, the rows that wait and are no
retry, and the runners between a SELECT that found none and their INSERT; together
they are never more than the runners (`Few`). A SELECT that finds none has no row
to count, so all that is counted then is runners; an INSERT turns a counted runner
into a counted row; no other step adds to either, because clones are retries and
no sweep is ever deleted. The bound is reached: with two runners, of one process
or of two, there can be two rows. TLC checked `StackInv` on the instance of
`jobs_retries` before it was proved.

### 5.5 EscalationProofs: who is paged

For any policy, reminder interval, users and runners:

| Theorem | Says | Under |
|---|---|---|
| `TypesKept` | `Spec => []TypeOK` | the constants' assumptions |
| `AckSettles` | `Spec => []AckStopsPaging` | the constants' assumptions |
| `RemindersKeepInterval` | `Spec => RemindersPaced` | the constants' assumptions |
| `RungsPageOnce` | `Spec => []PagedOnce` | `OneUser` |
| `RungsComeBack` | `Spec => []RungsResumed` | `OneUser` |
| `CyclesKeepSpacing` | `Spec => []SpacingKept` | `OneUser` |

`OneUser` says that requests of users are served one after the other. The snooze
sweep, the pipeline and any number of runners interleave with them. The code does
not enforce it, and the first two properties fail without it: two withdrawals of
one acknowledgment page a rung twice, and an acknowledgment overtaken by a
withdrawal loses rungs (section 6). It is the case of the runs, and the exact limit
of what the code promises.

`AckStopsPaging` begins when the sweep of an operation that handled the incident
finds no step past its check. A step that was past it pages once more, and may
schedule the next cycle; that operation settles nothing, and the property says
nothing of what follows it.

*The argument.* `AckInv` adds that an incident that is settled is acknowledged, which is what
a run that has yet to read it will find. `ReminderInv` finds the interval in every place a reminder can
be on its way, in a job, in a run or in a request, but only where its number is the
incident's own: the compare-and-set lets no other one through. `LifeInv` follows a
rung through its life, fresh, pending, dead or run: what has not run has neither
paged nor a run (`NotRun`), one run holds it (`OneRun`), it comes into being when
the loop of the cycle before gets to it (`Reached`), and a request creates rows of
fresh rungs, or of dead ones only (`Plans`). `ResumeInv` adds that a dead rung of an
incident that needs paging is being brought back (`Reviving`). For the spacing the
due time of a rung is that of its pending row, or else what a request plans for it,
or else that of its last canceled row (`DueAt`), and `Spaced` says that the delays
of the policy lie between these. `SpaceInv` adds what keeps it so: a fresh rung of
a cycle that has rows is still to be created by the loop that creates the others
(`CycleWhole`), with the due time the others were counted from (`OpeningSpaced`,
`CyclesSpaced`); and nothing is pending in a cycle whose dead rungs are being read
(`ListedWhole`), so that all of it is shifted as one block. The last part is what a
sweep into the middle of a loop tears, which `hist.torn` records.

### 5.6 RegionQuorumProofs: the vote of the regions

For any regions, readings and settings of the quorum:

| Theorem | Says |
|---|---|
| `QuorumTypes` | `Spec => []TypeOK`: a result about to open an incident has found none, one about to resolve has |
| `OutageSeen` | a quorum of regions that fail is seen by every result, whoever reports |
| `RecoverySeen` | when those that may still fail are no quorum, no result is a failure |

The last two are the safety half of `OutageOpens` and `RecoveryCloses`: from a
state on in which they apply, every result arms or clears the clocks in one
direction only. That the clocks then run out, and an incident follows, is
liveness.

### 5.7 Only model-checked

Of the properties that runs pass, liveness under fairness alone, which TLAPS has no
proof rules for here: `EveryReadyJobRuns`, `LostRunsRetried`, `ShutdownEnds`,
`SweepNeverStops`, `StuckJobsEnd`, `OutageOpens`, `RecoveryCloses`. Every safety
property they check is proved above, some under the assumptions that the tables name.

## 6. Where code and comments disagree

Two runs check a sentence of the source or of its documentation, and find it
violated:

- `lost_request` (`RunRequestHonored`). `db/service.go:471-472` says of a run
  request "Either way the request is honored." A request made in the first tick after the lease of a late
  run lapsed takes that run for gone and writes a due time; the late release,
  guarded by the worker only, then rewrites `scheduled_at` to a later tick, and
  nothing parked brings the request back. The sentence fails in a second way, for
  which no lease need be overrun: the claim that takes a request clears it
  (`checkjobsvc/service.go:1042-1044`), and when the rate limit then turns that
  run away (`worker.go:1293`), the deferral moves the row to a later tick and
  restores the capture, not the request (`checkjobsvc/service.go:1139-1163`). The
  configuration of the run has no metered organization (`Metered` is empty), so
  that what it shows is the first way; `RunRequestHonored` fails by the second
  on the instance of `queue_punctual`.
- `child_pages`. `src/web/docs/docs/features/check-dependencies.md:55-56` says "a
  child that is **still failing** has a problem of its own: its incident starts
  paging normally." The release of a recovered parent detaches in silence every
  child that does not read down at that instant (`handlers/incidents/rollup.go`,
  `reEvaluateChild`). A child between two failures, whose incident is open because
  its recovery period has not passed, fails again into that open incident, and
  nothing pages for it any more. The run also meets the child that is stored
  under a parent whose release is already over.

Met while modelling, not checked by a run. The queue and the pool:

- `checkjobsvc/service.go:1115` says "Safety: only release if we own the lease".
  The guard compares the worker: a run of a pool that outlived its lease frees
  the row under a sibling runner of the same worker.
- `handlers/checks/service.go:3649-3651` says an edit during a run makes the
  release run the job at once. The edit is two statements; a release between them
  reschedules from the old period, and the second one finds no lease to park on.
- `worker.go:756-758` says of a fetch that found no free runner that "a completion
  wakes the fetcher in that case". A runner signals before it announces itself; a
  fetcher woken in between reads 0, skips, and has used up the signal. Claimable
  rows wait for the one-minute poll with a runner free.
- A canceled scan can be revived: the final write of a chunk matches on the
  status alone, so a chunk that fails after its cancellation and before the
  watcher polls is set to `retried` and cloned, and the clone is not deleted.
- `jobs/jobtypes/job_startup.go:179-180` says that each creation deduplicates, "so a
  restart never stacks duplicates". The deduplication is a SELECT and an INSERT
  without a unique index: two runners, of one process or of two, can both find
  nothing and both insert. `SweepsNotStacked` has the bound that does hold.
- A runner that rejects its row writes `failed` by the uid alone
  (`jobs/jobworker/worker.go:316`, `jobs/jobsvc/service.go:888-897`); after a stall
  it overwrites the `retried` of the reaper, whose retry goes on all the same.
- A process that dies between the flip to `retried` and the INSERT of the clone
  leaves a final row and no retry: a one-shot job is lost. A sweep survives,
  because its successor was created before (`jobs_live` has this fault).
- The LIMIT of a claim is applied before the window of each job, so a row that is
  not claimable yet can take the place of one that is.
- The agent path stores the result, and lets it drive incidents, before it looks
  at the lease (`handlers/workers/service.go:136`). `ResultFromHolder` holds
  under `Punctual` only.
- The doc of `ClaimJobs` speaks of the fast lane first, the code claims slow
  first, within a budget.
- The next tick computed for an agent (`NextUnaligned`) is not aligned to the
  phase, the one of an in-process run is.
- The express goroutine runs slow rows beside the slow budget, and its release
  sends no completion signal; a fetcher that claimed while it held the row
  learns of the row's next tick only from the flat poll.

Incidents:

- `handlers/incidents/service.go:4024-4025` says manual resolutions are never
  reopened. What the reopening looks at is `acknowledged_by`, which a manual
  resolve leaves alone: a failure within the cooldown reopens an incident that a
  person closed without acknowledging it. The model has it.
- A manual resolve, the disabling of a check and its deletion do not re-evaluate
  the children that are rolled up: they stay muted. `MutingEnds` excepts it.
- A deletion of the check between `checkWasDeleted` and the insert leaves an open
  incident of a deleted check. If it is muted, the release of its parent skips it
  and it stays so; `MutingEnds` excepts it.
- The two directions of the rollup can miss each other: a parent that is stored
  after the child looked for one, and that looks for children before the child
  is stored, leaves both paging.
- Between the UPDATE that says down and the insert of the incident, the check is
  down with none behind it (`handleFailure` runs second); `DownHasIncident` is
  therefore about checks with no result in processing.
- The automatic and a manual resolution of one incident are not guarded against
  each other: both announce it.

Several regions:

- Two regions that both find no active incident open one each: no unique index
  covers incidents of checks. `RecoveryCloses` shows that both end.
- `handlers/incidents/service.go:820-823` says that a check "can never render
  `down` with no incident behind it"; another region may resolve the incident
  between the lookup and the write.
- `resolveIncident` has no guard: two regions that find the clock run out both
  announce the end of one incident.
- `src/web/docs/docs/features/region-placement.md:105-111` and the comment at
  `regionquorum/regionquorum.go:172-177` take a quorum of every region (one or two
  regions, or "all") for the rule by which each result is read on its own. By that
  rule one failing region opens an incident alone when no success of another one
  lands in the confirmation period: none does if the period is 0, or if the other
  region is silent. `RecoveryCloses` therefore speaks of all the regions in that
  case.

Escalation:

- `handlers/incidents/unack_notice.go:149-153` calls "an already-fired rung is
  never replayed" an invariant. Two withdrawals of one acknowledgment both list the
  history before either writes; a rung that the first one creates, and a runner
  fires, is created again by the second. `PagedOnce` fails in Escalation with two
  users.
- A rung that was claimed before an acknowledgment, and read the incident after
  it, paged nobody, but has left `pending`: the withdrawal takes it for one that
  has fired, and does not bring it back.
- Notifications that were queued when the acknowledgment came are canceled with
  the rest, and the withdrawal does not queue them again.
- The cancel sweep of an acknowledgment that is overtaken by a whole withdrawal
  cancels the rungs the latter has just created. It takes two requests at once.
- A sweep that falls between the rows of a cycle cancels some of them; those that
  follow are scheduled as planned, and the spacing is torn. `SpacingKept` excepts
  it, and `RungsResumed` shows that no rung is lost.
- A recovery cancels no step, and a relapse resumes none: the steps that came due
  meanwhile are gone.
- Two acknowledgments that both pass the early return of
  `handlers/incidents/service.go:3033` send two rounds of notices, although
  the comment at 3076-3078 says a double-click cannot. Notices are not modelled.

## 7. What is not modelled

Left out of the modelled components: the region and plugin filters of a claim
(they narrow the rows a worker sees), the parameters attached to a claimed job,
checkers that extend their own lease, the heartbeat of a worker, its
self-statistics and its worker tasks; in the job queue, a creation whose
statement fails (its sweep is gone until a restart), the wake-ups of
`GetJobWait`, and what each job type does besides creating rows; in Incidents,
the counters of failures and relapses and the escalation threshold, the backoff
of flapping checks, what is only shown or announced (details, events,
screenshots, comments, notices), incidents of SLO burns and of degraded checks; in
RegionQuorum, the regions an incident names and the outage of a whole region; in
Escalation, whom a step
pages, the severities and channels, policies that are edited meanwhile, muted
incidents, and runs that fail or die.

Not modelled at all: the checkers, notifications and integrations (network I/O:
a probe or a delivery is one step), status pages, badges and the read-only API
(views), authentication and enrolment (handlers on single rows), secrets and
cryptography (functions on bytes), configuration and wiring, discovery and AI
checks (they act through the paths that are modelled), plugins, the TLS edge,
the web front-ends and the command line, telemetry. The database is not a module:
each transaction is one step where it is used, which is what both backends
(PostgreSQL, and SQLite with one writer) give for single statements; the claim
is a single transaction with row locks.

## 8. Plan

Modules in the order they are worth writing; what is done is marked.

1. **CheckJobRow, CheckJobs, RunQueue, CheckJobsQueue** (done, all proved).
2. **CheckPool** (done; all but liveness proved).
3. **JobQueue** (done; all but liveness proved).
4. **Scheduling**: the next tick against a reference definition, the cost average,
   the lane hysteresis, the execution timeout, the ordering key with its
   credits, over bounded inputs; lemmas for every input.
5. **Incidents**, **RegionQuorum** (done, all but liveness proved): left to
   model, an abstract specification of what one check and its incident promise,
   which both would implement, and the outage of a whole region.
6. **Escalation** (done, all proved): left to compose with Incidents, for
   incidents that are muted and released.
7. **AgentLink**: calls in flight on one connection, keepalive, reconnection; feeds
   the losses that CheckJobs takes for granted.
8. **WorkerTasks**, **PassiveEvaluation**, **RealtimeHub**, **Aggregation**, and the
   smaller sweeps.
