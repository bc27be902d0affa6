----------------------------- MODULE CheckJobRow -----------------------------
(***************************************************************************)
(* One row of the check_jobs table and the statements that write it.       *)
(*                                                                         *)
(* A row is the schedule of one check in one region, and its lease.  Every *)
(* writer of the table (the claim, the releases, the requests of the API)  *)
(* is a single UPDATE; each UPDATE is one operator here, from the row it   *)
(* reads to the row it leaves.  The modules that say who runs which        *)
(* statement when extend this one (CheckJobs).                             *)
(*                                                                         *)
(* Time is counted in ticks of one unit; the durations of the code (the    *)
(* 30 s lease margin, the 30 s claim-ahead ceiling) are constants.         *)
(***************************************************************************)
EXTENDS Integers

CONSTANTS
    NULL,         \* the SQL NULL of a nullable column
    Job,          \* the rows of check_jobs: one check in one region each
    Worker,       \* the rows of workers: the owners a lease can name
    Periods,      \* the periods an edit can give a check
    Phase,        \* the deterministic phase of every job (scheduling.JitterFor)
    LeaseExtra,   \* what a lease lasts beyond its period: 30 s
    AheadFloor,   \* maxClaimAheadFloor: 30 s
    MaxAhead      \* FetchMaxAhead, the claim-ahead the caller asks for

ASSUME NullAssumption == NULL \notin Int /\ NULL \notin Worker

ASSUME TimingAssumption ==
    /\ Periods \subseteq Nat \ {0}
    /\ Phase \in [Job -> Nat]
    /\ LeaseExtra \in Nat
    /\ AheadFloor \in Nat
    /\ MaxAhead \in Nat

Time == Nat
TimeOrNull == Nat \cup {NULL}

(***************************************************************************)
(* The columns the lease protocol reads and writes.  leaseStarts is only   *)
(* displayed, and the dispatch payload (config, type, secrets) is data:    *)
(* both are left out.  stepRun says whether step_run_uid is set: the row   *)
(* carries a multi-step run in progress.  No code writes that column any   *)
(* more (only the guards below read it), so a row keeps what it has.       *)
(***************************************************************************)
Row == [scheduledAt      : Time,
        effectiveAt      : Int,
        leaseWorker      : Worker \cup {NULL},
        leaseExpiresAt   : TimeOrNull,
        captureRequested : TimeOrNull,
        captureClaimed   : TimeOrNull,
        runRequested     : TimeOrNull,
        stepRun          : BOOLEAN,
        period           : Periods]

\* SQL COALESCE of two and of three values.
Coalesce(a, b) == IF a # NULL THEN a ELSE b
Coalesce3(a, b, c) == Coalesce(a, Coalesce(b, c))

Lesser(a, b) == IF a <= b THEN a ELSE b
Later(a, b) == IF a <= b THEN b ELSE a

-----------------------------------------------------------------------------
(* Scheduling: the next tick, and how early a job may be claimed.          *)

\* scheduling.NextAligned: the first t > now congruent to the job's phase
\* modulo its period.
NextAligned(j, period, now) ==
    LET delta == (Phase[j] % period) - (now % period)
    IN now + (IF delta <= 0 THEN delta + period ELSE delta)

\* The rescheduling of a result that came over the agent transport, and of a
\* job that was never dispatched: from the due time of the run, or from now
\* when that tick has passed.
NextUnaligned(scheduledAt, period, now) ==
    IF scheduledAt + period > now THEN scheduledAt + period ELSE now + period

\* clampAhead: the claim-ahead window of one job.
ClampAhead(period) == Lesser(Lesser(MaxAhead, AheadFloor), period \div 2)

\* The bound of the SELECT itself, the same for every row.
CoarseAhead == Lesser(MaxAhead, AheadFloor)

-----------------------------------------------------------------------------
(* The claim.                                                              *)

\* Mutant: the lease is up for grabs in the very tick it ends.
UnleasedAtExpiry(row, now) == row.leaseExpiresAt # NULL => row.leaseExpiresAt <= now

\* No live lease: never taken, or lapsed.
Unleased(row, now) == row.leaseExpiresAt # NULL => row.leaseExpiresAt < now

Due(row, now) == row.scheduledAt <= now

\* What the SELECT of selectAvailableJobs returns, before its LIMIT ...
Selectable(row, now) ==
    row.scheduledAt <= now + CoarseAhead /\ Unleased(row, now)

\* ... and what its post-filter keeps.
WithinWindow(row, now) == row.scheduledAt <= now + ClampAhead(row.period)

LeaseEnd(row, now) == Later(row.scheduledAt, now) + row.period + LeaseExtra

\* updateSingleJobLease: a pending "Capture now" moves to the lease.  A fresh
\* run answers a run request left parked by a lease that never ended; a slice
\* of a multi-step run started before the request, and leaves it parked.
Leased(row, worker, now) ==
    [row EXCEPT !.leaseWorker      = worker,
                !.leaseExpiresAt   = LeaseEnd(row, now),
                !.captureClaimed   = row.captureRequested,
                !.captureRequested = NULL,
                !.runRequested     = IF row.stepRun THEN @ ELSE NULL]

-----------------------------------------------------------------------------
(* The releases.                                                           *)

\* Mutant: the COALESCE lost its fallback.
PendingRequestOnly(row, next) == Coalesce(row.captureRequested, row.runRequested)

\* pendingRequestOr: a pending request keeps the job due at the request.
PendingRequestOr(row, next) ==
    Coalesce3(row.captureRequested, row.runRequested, next)

\* Mutant: the release clears a parked run request without honouring it.
ReleasedDroppingRequest(row, next, effective) ==
    [row EXCEPT !.leaseWorker    = NULL,
                !.leaseExpiresAt = NULL,
                !.scheduledAt    = Coalesce(row.captureRequested, next),
                !.effectiveAt    = Coalesce(row.captureRequested, effective),
                !.captureClaimed = NULL,
                !.runRequested   = NULL]

\* ReleaseLease (effective = next) and ReleaseLeaseWithSchedulingState.
Released(row, next, effective) ==
    [row EXCEPT !.leaseWorker    = NULL,
                !.leaseExpiresAt = NULL,
                !.scheduledAt    = PendingRequestOr(row, next),
                !.effectiveAt    = PendingRequestOr(row, effective),
                !.captureClaimed = NULL,
                !.runRequested   = NULL]

\* Mutant: the deferral drops the capture the claim carried.
DeferredDroppingCapture(row, next) ==
    [row EXCEPT !.leaseWorker    = NULL,
                !.leaseExpiresAt = NULL,
                !.scheduledAt    = Coalesce(row.runRequested, next),
                !.captureClaimed = NULL,
                !.runRequested   = NULL]

\* DeferLeaseRateLimited: the ordering key stays, the capture goes back.
Deferred(row, next) ==
    [row EXCEPT !.leaseWorker      = NULL,
                !.leaseExpiresAt   = NULL,
                !.scheduledAt      = Coalesce(row.runRequested, next),
                !.captureRequested = Coalesce(row.captureRequested, row.captureClaimed),
                !.captureClaimed   = NULL,
                !.runRequested     = NULL]

-----------------------------------------------------------------------------
(* The requests of the API.                                                *)

\* The two updates of RequestCheckRunOn are guarded by the lease as it was
\* when the request came, and by the multi-step run.
LeasedAt(row, at) == row.leaseExpiresAt # NULL /\ row.leaseExpiresAt >= at

\* Mutant: the guard of the first update forgets the lease.
IdleOrHeld(row, at) == ~row.stepRun

\* The first: an idle job takes a due time ...
Idling(row, at) == ~row.stepRun /\ Unleased(row, at)

\* Mutant: the second update parks the request on any row.
AnyRow(row, at) == TRUE

\* ... the second: a release is coming, of the lease or of the next slice.
ReleaseComing(row, at) == row.stepRun \/ LeasedAt(row, at)

\* RequestCheckRunOn, first update: an idle job is made due.
MadeDue(row, at) == [row EXCEPT !.scheduledAt = at, !.effectiveAt = at]

\* RequestCheckRunOn, second update, and rerunInFlight: a leased job parks it.
Parked(row, at) == [row EXCEPT !.runRequested = Coalesce(row.runRequested, at)]

\* RequestCheckCapture: whatever the lease.
CaptureAsked(row, at) ==
    [row EXCEPT !.captureRequested = at, !.scheduledAt = at, !.effectiveAt = at]

\* syncExistingJob with a new period: the row moves to the new schedule.
Resynced(row, period, next) ==
    [row EXCEPT !.period = period, !.scheduledAt = next, !.effectiveAt = next]
=============================================================================
