------------------------------ MODULE CheckJobs ------------------------------
(***************************************************************************)
(* The check-job queue: the rows of check_jobs under everything that reads *)
(* and writes them concurrently.                                           *)
(*                                                                         *)
(*   - runners (the goroutines of an in-process check worker, its express  *)
(*     goroutine, the slots of a deported agent) claim due rows, sleep     *)
(*     until the tick, probe, save the result and release the lease;       *)
(*   - the API asks for a run, asks for a screenshot, edits the period or  *)
(*     deletes the check, whatever a runner is doing;                      *)
(*   - a run can be lost at any point (crash, shutdown, broken socket), and*)
(*     its lease then runs out.                                            *)
(*                                                                         *)
(* One action is one transaction, or one step of a process that holds      *)
(* state between two transactions.                                         *)
(***************************************************************************)
EXTENDS CheckJobRow, FiniteSets

CONSTANTS
    Runner,      \* what executes one claimed job at a time
    WorkerOf,    \* the worker a runner belongs to: the owner its leases name
    Agents,      \* the workers that are deported agents (result over the wire)
    Express,     \* the runners that only serve check.created events
    EffOffsets,  \* what the post-exec accounting may add to the ordering key
    Editable,    \* the jobs whose period is edited while they run
    Sliced,      \* the jobs that may carry a multi-step run
    Metered,     \* the jobs of a capped organization: its rate limit may defer them
    Punctual,    \* TRUE: no run is still going when its lease runs out
    MaxTries,    \* requestCheckRunAttempts
    CallTimes,   \* bound: when the API may be called, for model checking
    MaxTime      \* bound on the clock, for model checking

ASSUME FleetAssumption ==
    /\ WorkerOf \in [Runner -> Worker]
    /\ Agents \subseteq Worker
    /\ Express \subseteq Runner
    /\ EffOffsets \subseteq Int
    /\ Editable \subseteq Job
    /\ Sliced \subseteq Job
    /\ Metered \subseteq Job
    /\ Punctual \in BOOLEAN
    /\ MaxTries \in Nat \ {0}
    /\ CallTimes \subseteq Nat
    /\ MaxTime \in Nat

VARIABLES
    now,      \* the clock of the database and of every process
    exists,   \* the rows that are not deleted
    job,      \* the rows
    run,      \* what every runner holds in memory
    api,      \* the API call in progress on each job, between two updates
    asked,    \* history: what became of the newest "Run now" of each job
    wanted    \* history: the newest "Capture now" not answered yet

vars == <<now, exists, job, run, api, asked, wanted>>

-----------------------------------------------------------------------------
Phases == {"idle", "claimed", "probing", "done", "read", "saved"}

\* The claimed CheckJob as a runner keeps it, and the tick its release will
\* write.  "read" is the agent path only: the server looked the row up again.
Runs == [phase    : Phases,
         job      : Job \cup {NULL},
         due      : Time,
         period   : Nat,
         leaseEnd : Time,
         capture  : TimeOrNull,
         next     : Time,
         probed   : BOOLEAN]

Idle == [phase |-> "idle", job |-> NULL, due |-> 0, period |-> 0,
         leaseEnd |-> 0, capture |-> NULL, next |-> 0, probed |-> FALSE]

\* No run is asked for; a claim still has to take the request; a claim took it
\* and its run has not started; the rate limit turned that run away.
Fates == {"no", "waiting", "carried", "turnedAway"}

Steps == {"none", "makeDue", "park", "rerun"}
Calls == [step : Steps, at : Time, tries : 0 .. MaxTries]
NoCall == [step |-> "none", at |-> 0, tries |-> 0]

TypeOK ==
    /\ now \in Time
    /\ exists \subseteq Job
    /\ job \in [Job -> Row]
    /\ run \in [Runner -> Runs]
    /\ api \in [Job -> Calls]
    /\ asked \in [Job -> Fates]
    /\ wanted \in [Job -> TimeOrNull]

Busy(r) == run[r].phase # "idle"
Owner(r) == WorkerOf[r]
IsAgent(r) == WorkerOf[r] \in Agents

\* newCheckJobFor: a row is created at its first aligned tick.  One that an
\* earlier version of the server left may carry a multi-step run.
NewRow(j, period, sliced) ==
    [scheduledAt |-> NextAligned(j, period, 0), effectiveAt |-> NextAligned(j, period, 0),
     leaseWorker |-> NULL, leaseExpiresAt |-> NULL, captureRequested |-> NULL,
     captureClaimed |-> NULL, runRequested |-> NULL, stepRun |-> sliced,
     period |-> period]

Init ==
    /\ now = 0
    /\ exists = Job
    /\ \E p \in [Job -> Periods], S \in SUBSET Sliced :
           job = [j \in Job |-> NewRow(j, p[j], j \in S)]
    /\ run = [r \in Runner |-> Idle]
    /\ api = [j \in Job |-> NoCall]
    /\ asked = [j \in Job |-> "no"]
    /\ wanted = [j \in Job |-> NULL]

-----------------------------------------------------------------------------
(* Claims.                                                                 *)

Candidates == {j \in exists : Selectable(job[j], now)}

\* ORDER BY effective_scheduled_at LIMIT n.
Selections(n) ==
    {T \in SUBSET Candidates :
        /\ Cardinality(T) = Lesser(n, Cardinality(Candidates))
        /\ \A i \in T, k \in Candidates \ T : job[i].effectiveAt <= job[k].effectiveAt}

Claimable(T) == {j \in T : WithinWindow(job[j], now)}

\* The claimed job as ClaimJobs returns it.
Taken(j) ==
    [phase |-> "claimed", job |-> j, due |-> job[j].scheduledAt,
     period |-> job[j].period, leaseEnd |-> LeaseEnd(job[j], now),
     capture |-> job[j].captureRequested, next |-> 0, probed |-> FALSE]

\* A claim takes the rows of S for worker w.  Its run is to answer the request
\* the row was made due for, unless the row keeps that request parked; a capture
\* left claimed by a lease nobody released is lost.
TakeRows(S, w) ==
    /\ job' = [j \in Job |-> IF j \in S THEN Leased(job[j], w, now) ELSE job[j]]
    /\ asked' = [j \in Job |-> IF /\ j \in S /\ asked[j] = "waiting"
                                  /\ job'[j].runRequested = NULL
                               THEN "carried" ELSE asked[j]]
    /\ wanted' = [j \in Job |-> IF j \in S /\ job[j].captureRequested = NULL
                                THEN NULL ELSE wanted[j]]
    /\ UNCHANGED <<now, exists, api>>

FreeRunners(w) == {r \in Runner \ Express : Owner(r) = w /\ ~Busy(r)}

\* ClaimJobs and ClaimJobsForAgent: one transaction claims for the free
\* runners of w, and each of them gets one job.
Claim(w) ==
    \E T \in Selections(Cardinality(FreeRunners(w))) :
    \E G \in SUBSET FreeRunners(w) :
    \E h \in [G -> Claimable(T)] :
        /\ Claimable(T) # {}
        /\ \A r1, r2 \in G : h[r1] = h[r2] => r1 = r2
        /\ \A j \in Claimable(T) : \E r \in G : h[r] = j
        /\ TakeRows(Claimable(T), w)
        /\ run' = [r \in Runner |-> IF r \in G THEN Taken(h[r]) ELSE run[r]]

\* ClaimJobsForCheck: one check, only when due.
ClaimExpress(r, j) ==
    /\ r \in Express
    /\ ~Busy(r)
    /\ j \in exists
    /\ Due(job[j], now)
    /\ Unleased(job[j], now)
    /\ TakeRows({j}, Owner(r))
    /\ run' = [run EXCEPT ![r] = Taken(j)]

-----------------------------------------------------------------------------
(* One run.                                                                *)

\* A run starts, or an error result takes its place: no request its claim took,
\* nor one turned away before it, is open any more.
Begun(r) == [asked EXCEPT ![run[r].job] = IF @ = "waiting" THEN @ ELSE "no"]

\* The runner slept until the tick and starts the probe.
Start(r) ==
    /\ run[r].phase = "claimed"
    /\ now >= run[r].due
    /\ run' = [run EXCEPT ![r].phase = "probing"]
    /\ asked' = Begun(r)
    /\ UNCHANGED <<now, exists, job, api, wanted>>

\* The job cannot be handed out at all (its secrets do not open, its tunnel
\* cannot be built): an error result replaces the run, right at the claim.
Undispatchable(r) ==
    /\ run[r].phase = "claimed"
    /\ run' = [run EXCEPT ![r].phase = "done",
                          ![r].next = IF IsAgent(r) THEN 0
                                      ELSE NextUnaligned(run[r].due, run[r].period, now)]
    /\ asked' = Begun(r)
    /\ UNCHANGED <<now, exists, job, api, wanted>>

\* The probe ended, or the watchdog gave it up; or at the tick the config did
\* not parse and an error result replaces the probe.  What an agent sends is
\* taken for a probe result either way.
Conclude(r) ==
    /\ \/ run[r].phase = "probing"
       \/ run[r].phase = "claimed" /\ now >= run[r].due
    /\ run' = [run EXCEPT ![r].phase = "done",
                          ![r].probed = (run[r].phase = "probing" \/ IsAgent(r)),
                          ![r].next = IF IsAgent(r) THEN 0
                                      ELSE NextAligned(run[r].job, run[r].period, now)]
    /\ asked' = IF run[r].phase = "claimed" THEN Begun(r) ELSE asked
    /\ UNCHANGED <<now, exists, job, api, wanted>>

\* workers.SubmitResult, step 1: the server reads the row of the reported job.
\* What it stores and reschedules from is the row as it is now.
ReadRow(r) ==
    /\ run[r].phase = "done"
    /\ IsAgent(r)
    /\ IF run[r].job \in exists
       THEN LET row == job[run[r].job] IN
            run' = [run EXCEPT ![r].phase = "read",
                               ![r].due = row.scheduledAt,
                               ![r].period = row.period,
                               ![r].capture = row.captureClaimed]
       ELSE run' = [run EXCEPT ![r] = Idle]
    /\ UNCHANGED <<now, exists, job, api, asked, wanted>>

\* The result is stored and incidents are processed.  The capture the run
\* carried is answered: the screenshot, or why there is none.
SaveResult(r) ==
    /\ run[r].phase = IF IsAgent(r) THEN "read" ELSE "done"
    /\ run' = [run EXCEPT ![r].phase = "saved",
                          ![r].next = IF IsAgent(r)
                                      THEN NextUnaligned(run[r].due, run[r].period, now)
                                      ELSE @]
    /\ wanted' = [wanted EXCEPT ![run[r].job] =
                      IF @ = run[r].capture THEN NULL ELSE @]
    /\ UNCHANGED <<now, exists, job, api, asked>>

\* Mutant: WHERE uid = ?, the owner of the lease is not compared.
OwnsAnyLease(r) == run[r].job \in exists

\* WHERE uid = ? AND lease_worker_uid = ?
Owns(r) == run[r].job \in exists /\ job[run[r].job].leaseWorker = Owner(r)

\* The release that ends a run.  No row matched: the job was deleted, or
\* another worker claimed it (ErrJobGone, ErrJobClaimedByAnother).
ReleaseLease(r) ==
    /\ run[r].phase = "saved"
    /\ \E e \in (IF run[r].probed THEN EffOffsets ELSE {0}) :
        job' = IF Owns(r)
               THEN [job EXCEPT ![run[r].job] =
                         Released(@, run[r].next, run[r].next + e)]
               ELSE job
    /\ run' = [run EXCEPT ![r] = Idle]
    /\ UNCHANGED <<now, exists, api, asked, wanted>>

\* The organization's token bucket turned the job away: at the tick for an
\* in-process runner, right after the claim for an agent.  A capture the claim
\* took goes back to the row; a run request it took does not.
DeferRateLimited(r) ==
    /\ run[r].phase = "claimed"
    /\ run[r].job \in Metered
    /\ now >= run[r].due \/ IsAgent(r)
    /\ LET next == IF IsAgent(r) THEN now + run[r].period
                   ELSE NextAligned(run[r].job, run[r].period, now)
       IN job' = IF Owns(r)
                 THEN [job EXCEPT ![run[r].job] = Deferred(@, next)]
                 ELSE job
    /\ asked' = IF Owns(r)
                THEN [asked EXCEPT ![run[r].job] = IF @ = "carried" THEN "turnedAway" ELSE @]
                ELSE asked
    /\ run' = [run EXCEPT ![r] = Idle]
    /\ UNCHANGED <<now, exists, api, wanted>>

\* A crash, a shutdown during the sleep, a broken socket, a failed save on
\* the agent path: the run is gone, its lease is not.
Lose(r) ==
    /\ Busy(r)
    /\ run' = [run EXCEPT ![r] = Idle]
    /\ UNCHANGED <<now, exists, job, api, asked, wanted>>

-----------------------------------------------------------------------------
(* The API.                                                                *)

\* "Run now": RequestCheckRunOn begins; its time is fixed here.
RequestRun(j) ==
    /\ now \in CallTimes
    /\ j \in exists
    /\ api[j] = NoCall
    /\ api' = [api EXCEPT ![j] = [step |-> "makeDue", at |-> now, tries |-> 0]]
    /\ UNCHANGED <<now, exists, job, run, asked, wanted>>

\* Its first update: a job that was idle when asked is made due.
MakeDue(j) ==
    /\ api[j].step = "makeDue"
    /\ IF j \in exists /\ Idling(job[j], api[j].at)
       THEN /\ job' = [job EXCEPT ![j] = MadeDue(@, api[j].at)]
            /\ api' = [api EXCEPT ![j] = NoCall]
            /\ asked' = [asked EXCEPT ![j] = "waiting"]
       ELSE /\ api' = [api EXCEPT ![j].step = "park"]
            /\ UNCHANGED <<job, asked>>
    /\ UNCHANGED <<now, exists, run, wanted>>

\* The loop of RequestCheckRunOn goes round.
Retried(call) == [call EXCEPT !.step = "makeDue", !.tries = call.tries + 1]

\* Its second update: the request is parked for the release to come.  Neither
\* matched: the job is gone, or its lease ended in between and the loop goes
\* round.
Park(j) ==
    /\ api[j].step = "park"
    /\ IF j \in exists /\ ReleaseComing(job[j], api[j].at)
       THEN /\ job' = [job EXCEPT ![j] = Parked(@, api[j].at)]
            /\ api' = [api EXCEPT ![j] = NoCall]
            /\ asked' = [asked EXCEPT ![j] = "waiting"]
       ELSE /\ api' = [api EXCEPT ![j] =
                  IF j \in exists /\ api[j].tries + 1 < MaxTries
                  THEN Retried(api[j])
                  ELSE NoCall]
            /\ UNCHANGED <<job, asked>>
    /\ UNCHANGED <<now, exists, run, wanted>>

\* Mutant: the edit does not look for a run in flight.
EditPeriodOnly(j, period) ==
    /\ now \in CallTimes
    /\ j \in exists \cap Editable
    /\ api[j] = NoCall
    /\ job[j].period # period
    /\ job' = [job EXCEPT ![j] = Resynced(@, period, NextAligned(j, period, now))]
    /\ asked' = [asked EXCEPT ![j] = "no"]
    /\ UNCHANGED <<now, exists, run, api, wanted>>

\* syncExistingJob: the row takes the new period and its schedule, which
\* supersedes a run request that was only a due time.
EditPeriod(j, period) ==
    /\ now \in CallTimes
    /\ j \in exists \cap Editable
    /\ api[j] = NoCall
    /\ job[j].period # period
    /\ job' = [job EXCEPT ![j] = Resynced(@, period, NextAligned(j, period, now))]
    /\ api' = [api EXCEPT ![j] = [step |-> "rerun", at |-> now, tries |-> 0]]
    /\ asked' = [asked EXCEPT ![j] = "no"]
    /\ UNCHANGED <<now, exists, run, wanted>>

\* rerunInFlight, the second update of the edit: a job held right now runs
\* again on its release.
RerunInFlight(j) ==
    /\ api[j].step = "rerun"
    /\ job' = IF j \in exists /\ LeasedAt(job[j], now)
              THEN [job EXCEPT ![j] = Parked(@, now)]
              ELSE job
    /\ api' = [api EXCEPT ![j] = NoCall]
    /\ UNCHANGED <<now, exists, run, asked, wanted>>

\* "Capture now": RequestCheckCapture.
RequestCapture(j) ==
    /\ now \in CallTimes
    /\ j \in exists
    /\ job' = [job EXCEPT ![j] = CaptureAsked(@, now)]
    /\ wanted' = [wanted EXCEPT ![j] = now]
    /\ UNCHANGED <<now, exists, run, api, asked>>

\* The check is deleted, or the region removed from it.
DeleteJob(j) ==
    /\ j \in exists
    /\ exists' = exists \ {j}
    /\ UNCHANGED <<now, job, run, api, asked, wanted>>

Tick ==
    /\ now < MaxTime
    /\ Punctual => \A r \in Runner : Busy(r) => now < run[r].leaseEnd
    /\ now' = now + 1
    /\ UNCHANGED <<exists, job, run, api, asked, wanted>>

-----------------------------------------------------------------------------
RunnerStep(r) ==
    \/ \E j \in Job : ClaimExpress(r, j)
    \/ Start(r)
    \/ Undispatchable(r)
    \/ Conclude(r)
    \/ ReadRow(r)
    \/ SaveResult(r)
    \/ ReleaseLease(r)
    \/ DeferRateLimited(r)
    \/ Lose(r)

ApiStep(j) ==
    \/ RequestRun(j)
    \/ MakeDue(j)
    \/ Park(j)
    \/ \E period \in Periods : EditPeriod(j, period)
    \/ RerunInFlight(j)
    \/ RequestCapture(j)
    \/ DeleteJob(j)

Next ==
    \/ \E w \in Worker : Claim(w)
    \/ \E r \in Runner : RunnerStep(r)
    \/ \E j \in Job : ApiStep(j)
    \/ Tick

Spec == Init /\ [][Next]_vars

-----------------------------------------------------------------------------
(* Safety.                                                                 *)

\* The lease a runner was given has not run out.
Live(r) == Busy(r) /\ now <= run[r].leaseEnd

\* No two runners hold a live lease on the same row: the lease is what keeps
\* the fetcher, the express path and every other worker from running one job
\* twice at a time.
MutualExclusion ==
    \A r1, r2 \in Runner :
        Live(r1) /\ Live(r2) /\ run[r1].job = run[r2].job => r1 = r2

\* What RequestCheckRun promises without exception ("Either way the request is
\* honored"): a run that was asked for and has not started is never left for a
\* later tick.  The job is due, or its lease or the request parked in it says
\* that it will be.
RunRequestHonored ==
    \A j \in exists \ Editable :
        asked[j] # "no" => \/ Due(job[j], now)
                           \/ LeasedAt(job[j], now) /\ asked[j] = "carried"
                           \/ ReleaseComing(job[j], now) /\ job[j].runRequested # NULL

\* What the queue keeps of it.  A request no claim has taken is in the row: the
\* row is free and due, or a release that will see it is coming.  A request a
\* claim took is with that claim until its run starts: a run that is lost with
\* its lease leaves the row due, and a release cannot put it off.  Only the
\* rate limit ends it otherwise, by turning that very run away (turnedAway).
RequestKept ==
    \A j \in exists \ Editable :
        /\ asked[j] = "waiting" =>
              \/ Due(job[j], now) /\ Unleased(job[j], now)
              \/ ReleaseComing(job[j], now) /\ job[j].runRequested # NULL
        /\ asked[j] = "carried" => Due(job[j], now) \/ LeasedAt(job[j], now)

\* A request is never parked on a job that has no release coming: it has a
\* lease, or a multi-step run whose next slice ends in a release.
ParkedHasRelease ==
    \A j \in exists :
        job[j].runRequested # NULL => job[j].leaseWorker # NULL \/ job[j].stepRun

\* An unanswered "Capture now" is pending in the row or carried by its lease,
\* whatever was deferred, requested again or released in between.
CaptureKept ==
    \A j \in exists :
        wanted[j] # NULL => wanted[j] \in {job[j].captureRequested, job[j].captureClaimed}

\* Once an edit is over, a run that still carries the old period has a run
\* request parked behind it: its release starts the edited check at once.
StaleRunReruns ==
    \A r \in Runner :
        LET j == run[r].job IN
        Live(r) /\ j \in exists /\ api[j].step # "rerun" /\ run[r].period # job[j].period
            => job[j].runRequested # NULL

-----------------------------------------------------------------------------
(* The invariant behind them, inductive under one of two assumptions.      *)

OneRunnerPerWorker == \A r1, r2 \in Runner : Owner(r1) = Owner(r2) => r1 = r2

\* A lease names its worker, not its run.  Two runs of one worker are told
\* apart only if no run outlives its lease, or if the worker has one runner.
Trustworthy == Punctual \/ OneRunnerPerWorker

HeldBy(r, j) ==
    /\ Busy(r)
    /\ run[r].job = j
    /\ job[j].leaseWorker = Owner(r)
    /\ job[j].leaseExpiresAt = run[r].leaseEnd

RunHasJob ==
    \A r \in Runner : Busy(r) => run[r].job \in Job /\ run[r].period \in Periods

\* The inductive form of TypeOK.
TypeInv == TypeOK /\ RunHasJob

LeaseWhole ==
    \A j \in Job : job[j].leaseWorker = NULL <=> job[j].leaseExpiresAt = NULL

RunsArePunctual == Punctual => \A r \in Runner : Busy(r) => now <= run[r].leaseEnd

\* A live run holds its row; and a run whose release would go through holds it.
LiveIsHeld ==
    \A r \in Runner : Live(r) /\ run[r].job \in exists => HeldBy(r, run[r].job)

OwnedIsHeld ==
    \A r \in Runner : Busy(r) /\ Owns(r) => HeldBy(r, run[r].job)

LeaseInv ==
    /\ TypeInv
    /\ LeaseWhole
    /\ RunsArePunctual
    /\ LiveIsHeld
    /\ OwnedIsHeld
    /\ MutualExclusion

-----------------------------------------------------------------------------
(* What a step may never do.                                               *)

\* Only the run a lease was given to ends it: a run that outlived its lease
\* cannot free the row under the run that took over.
ReleaseOwnLeaseStep ==
    \A j \in exists' :
        job[j].leaseWorker # NULL /\ job'[j].leaseWorker = NULL
            => \E r \in Runner : HeldBy(r, j) /\ ~Busy(r)'

ReleaseOwnLease == [][ReleaseOwnLeaseStep]_vars

\* A lease in force is never taken over: a claim changes the owner of a row,
\* or renews it, only once the lease before it has run out.
LeaseNotStolenStep ==
    \A j \in exists :
        LeasedAt(job[j], now) /\ job'[j].leaseWorker # NULL
            => /\ job'[j].leaseWorker = job[j].leaseWorker
               /\ job'[j].leaseExpiresAt = job[j].leaseExpiresAt

LeaseNotStolen == [][LeaseNotStolenStep]_vars

\* A result is stored, and drives incidents, only from the run that holds the
\* lease of the row (a deleted row has none).
ResultFromHolderStep ==
    \A r \in Runner :
        run[r].phase # "saved" /\ run'[r].phase = "saved" /\ run[r].job \in exists
            => HeldBy(r, run[r].job)

ResultFromHolder == [][ResultFromHolderStep]_vars
=============================================================================
