--------------------------- MODULE CheckJobsProofs ---------------------------
(***************************************************************************)
(* Proofs about CheckJobs, for every fleet of runners, workers and jobs    *)
(* and every choice of the timing constants.                               *)
(***************************************************************************)
EXTENDS CheckJobs, TLAPS

USE NullAssumption, TimingAssumption, FleetAssumption

-----------------------------------------------------------------------------
(* The row operators keep a row a row.                                     *)

\* scheduling.NextAligned returns a tick strictly after now, at most one
\* period away.
LEMMA NextAlignedAhead ==
    ASSUME NEW j \in Job, NEW period \in Nat \ {0}, NEW t \in Nat
    PROVE  /\ NextAligned(j, period, t) \in Nat
           /\ NextAligned(j, period, t) > t
           /\ NextAligned(j, period, t) <= t + period
<1>1. Phase[j] \in Nat
  OBVIOUS
<1>2. \A n \in Nat : n % period \in 0 .. period - 1
  OBVIOUS
<1>3. /\ Phase[j] % period \in 0 .. period - 1
      /\ t % period \in 0 .. period - 1
  BY <1>1, <1>2
<1>. QED
  BY <1>3 DEF NextAligned

\* The lease end is a time no earlier than now.
LEMMA LeaseEndAhead ==
    ASSUME NEW row \in Row, NEW t \in Nat
    PROVE  LeaseEnd(row, t) \in Nat /\ LeaseEnd(row, t) >= t
<1>. row.scheduledAt \in Nat /\ row.period \in Nat
  BY DEF Row, Time
<1>. QED
  BY DEF LeaseEnd, Later

\* A claim leaves a row.
LEMMA LeasedRow ==
    ASSUME NEW row \in Row, NEW w \in Worker, NEW t \in Nat
    PROVE  Leased(row, w, t) \in Row
<1>1. LeaseEnd(row, t) \in Nat
  BY LeaseEndAhead
<1>2. (IF row.stepRun THEN row.runRequested ELSE NULL) \in TimeOrNull
  BY DEF Row, TimeOrNull
<1>. QED
  BY <1>1, <1>2 DEF Leased, Row, Time, TimeOrNull

\* A release leaves a row.
LEMMA ReleasedRow ==
    ASSUME NEW row \in Row, NEW next \in Nat, NEW effective \in Int
    PROVE  Released(row, next, effective) \in Row
<1>1. /\ row.captureRequested \in Nat \cup {NULL}
      /\ row.runRequested \in Nat \cup {NULL}
  BY DEF Row, TimeOrNull, Time
<1>2. PendingRequestOr(row, next) \in Nat
  BY <1>1 DEF PendingRequestOr, Coalesce3, Coalesce
<1>3. PendingRequestOr(row, effective) \in Int
  BY <1>1 DEF PendingRequestOr, Coalesce3, Coalesce
<1>. QED
  BY <1>2, <1>3 DEF Released, Row, Time, TimeOrNull

\* A deferral leaves a row.
LEMMA DeferredRow ==
    ASSUME NEW row \in Row, NEW next \in Nat
    PROVE  Deferred(row, next) \in Row
<1>1. /\ row.captureRequested \in TimeOrNull
      /\ row.captureClaimed \in TimeOrNull
      /\ row.runRequested \in TimeOrNull
  BY DEF Row
<1>2. Coalesce(row.runRequested, next) \in Time
  BY <1>1 DEF Coalesce, TimeOrNull, Time
<1>3. Coalesce(row.captureRequested, row.captureClaimed) \in TimeOrNull
  BY <1>1 DEF Coalesce
<1>. QED
  BY <1>2, <1>3 DEF Deferred, Row, TimeOrNull

\* Every request of the API leaves a row.
LEMMA RequestedRow ==
    ASSUME NEW row \in Row, NEW t \in Nat
    PROVE  /\ MadeDue(row, t) \in Row
           /\ Parked(row, t) \in Row
           /\ CaptureAsked(row, t) \in Row
<1>1. row.runRequested \in TimeOrNull
  BY DEF Row
<1>2. Coalesce(row.runRequested, t) \in TimeOrNull
  BY <1>1 DEF Coalesce, TimeOrNull, Time
<1>t. t \in Int
  OBVIOUS
<1>3. MadeDue(row, t) \in Row
  BY <1>t DEF MadeDue, Row, Time
<1>4. Parked(row, t) \in Row
  BY <1>2 DEF Parked, Row
<1>5. CaptureAsked(row, t) \in Row
  BY <1>t DEF CaptureAsked, Row, TimeOrNull, Time
<1>. QED
  BY <1>3, <1>4, <1>5

\* So does an edit of the period.
LEMMA ResyncedRow ==
    ASSUME NEW row \in Row, NEW period \in Periods, NEW next \in Nat
    PROVE  Resynced(row, period, next) \in Row
<1>1. next \in Int
  OBVIOUS
<1>. QED
  BY <1>1 DEF Resynced, Row, TimeOrNull, Time

-----------------------------------------------------------------------------
(* Type correctness.                                                       *)

\* A fresh row is a row.
LEMMA NewRowRow ==
    ASSUME NEW j \in Job, NEW period \in Periods, NEW S
    PROVE  NewRow(j, period, j \in S) \in Row
<1>1. NextAligned(j, period, 0) \in Nat
  BY NextAlignedAhead
<1>2. NextAligned(j, period, 0) \in Int
  BY <1>1
<1>. QED
  BY <1>1, <1>2 DEF NewRow, Row, TimeOrNull, Time

\* What a claim hands to a runner.
LEMMA TakenRun ==
    ASSUME TypeInv, NEW j \in Job
    PROVE  /\ Taken(j) \in Runs
           /\ Taken(j).phase = "claimed"
           /\ Taken(j).job = j
           /\ Taken(j).period \in Periods
           /\ Taken(j).leaseEnd = LeaseEnd(job[j], now)
<1>1. job[j] \in Row /\ now \in Nat
  BY DEF TypeInv, TypeOK, Time
<1>2. LeaseEnd(job[j], now) \in Nat
  BY <1>1, LeaseEndAhead
<1>3. /\ job[j].scheduledAt \in Time
      /\ job[j].period \in Periods
      /\ job[j].captureRequested \in TimeOrNull
  BY <1>1 DEF Row
<1>. QED
  BY <1>2, <1>3 DEF Taken, Runs, Phases, Time

\* What a claim writes.
LEMMA TakeRowsTypes ==
    ASSUME TypeInv, NEW S \in SUBSET Job, NEW w \in Worker, TakeRows(S, w)
    PROVE  /\ job' \in [Job -> Row]
           /\ asked' \in [Job -> Fates]
           /\ wanted' \in [Job -> TimeOrNull]
           /\ now' \in Time
           /\ exists' \subseteq Job
           /\ api' \in [Job -> Calls]
<1>1. ASSUME NEW j \in Job
      PROVE  Leased(job[j], w, now) \in Row /\ job[j] \in Row
  BY LeasedRow DEF TypeInv, TypeOK, Time
<1>2. job' \in [Job -> Row]
  BY <1>1 DEF TakeRows
<1>3. asked' \in [Job -> Fates]
  BY DEF TakeRows, TypeInv, TypeOK, Fates
<1>4. wanted' \in [Job -> TimeOrNull]
  BY DEF TakeRows, TypeInv, TypeOK, TimeOrNull
<1>. QED
  BY <1>2, <1>3, <1>4 DEF TakeRows, TypeInv, TypeOK

\* A claim keeps the types.
LEMMA ClaimTypes ==
    ASSUME TypeInv, NEW w \in Worker, Claim(w)
    PROVE  TypeInv'
<1>0. PICK T \in Selections(Cardinality(FreeRunners(w))) :
        \E G \in SUBSET FreeRunners(w) : \E h \in [G -> Claimable(T)] :
            /\ TakeRows(Claimable(T), w)
            /\ run' = [r \in Runner |-> IF r \in G THEN Taken(h[r]) ELSE run[r]]
  BY DEF Claim
<1>g. PICK G \in SUBSET FreeRunners(w) : \E h \in [G -> Claimable(T)] :
            /\ TakeRows(Claimable(T), w)
            /\ run' = [r \in Runner |-> IF r \in G THEN Taken(h[r]) ELSE run[r]]
  BY <1>0
<1>1. PICK h \in [G -> Claimable(T)] :
            /\ TakeRows(Claimable(T), w)
            /\ run' = [r \in Runner |-> IF r \in G THEN Taken(h[r]) ELSE run[r]]
  BY <1>g
<1>2. Claimable(T) \in SUBSET Job
  BY DEF Claimable, Selections, Candidates, TypeInv, TypeOK
<1>3. ASSUME NEW r \in Runner
      PROVE  /\ run'[r] \in Runs
             /\ run'[r].phase # "idle" => run'[r].job \in Job /\ run'[r].period \in Periods
  <2>1. CASE r \in G
    BY <1>1, <1>2, <2>1, TakenRun
  <2>2. CASE r \notin G
    BY <1>1, <2>2 DEF TypeInv, TypeOK, RunHasJob, Busy
  <2>. QED
    BY <2>1, <2>2
<1>4. run' \in [Runner -> Runs]
  BY <1>1, <1>3
<1>5. RunHasJob'
  BY <1>3 DEF RunHasJob, Busy
<1>. QED
  BY <1>1, <1>2, <1>4, <1>5, TakeRowsTypes DEF TypeInv, TypeOK

\* What the start of a run, and its deferral, make of the requests.
LEMMA AskedFates ==
    ASSUME TypeInv, NEW r \in Runner
    PROVE  /\ Begun(r) \in [Job -> Fates]
           /\ [asked EXCEPT ![run[r].job] = IF @ = "carried" THEN "turnedAway" ELSE @]
                  \in [Job -> Fates]
<1>. asked \in [Job -> Fates]
  BY DEF TypeInv, TypeOK
<1>. QED
  BY DEF Begun, Fates

\* The steps of one run keep the types.
LEMMA RunTypes ==
    ASSUME TypeInv, NEW r \in Runner, RunnerStep(r)
    PROVE  TypeInv'
<1>. USE DEF TypeInv, TypeOK, RunHasJob, Busy
<1>run. run[r] \in Runs /\ now \in Nat
  BY DEF Time
<1>idle. Idle \in Runs
  BY DEF Idle, Runs, Phases, Time, TimeOrNull
<1>next. run[r].phase # "idle" => /\ NextAligned(run[r].job, run[r].period, now) \in Nat
                                  /\ NextUnaligned(run[r].due, run[r].period, now) \in Nat
  <2>1. ASSUME run[r].phase # "idle"
        PROVE  NextAligned(run[r].job, run[r].period, now) \in Nat
    <3>1. run[r].job \in Job /\ run[r].period \in Nat \ {0}
      BY <2>1
    <3>. QED
      BY <3>1, <1>run, NextAlignedAhead
  <2>2. NextUnaligned(run[r].due, run[r].period, now) \in Nat
    <3>1. run[r].due \in Nat /\ run[r].period \in Nat
      BY <1>run DEF Runs, Time
    <3>. QED
      BY <3>1, <1>run DEF NextUnaligned
  <2>. QED
    BY <2>1, <2>2
<1>1. ASSUME NEW j \in Job, ClaimExpress(r, j)
      PROVE  TypeInv'
  <2>1. run' \in [Runner -> Runs] /\ RunHasJob'
    BY <1>1, TakenRun DEF ClaimExpress
  <2>2. {j} \in SUBSET Job /\ WorkerOf[r] \in Worker
    OBVIOUS
  <2>. QED
    BY <1>1, <2>1, <2>2, TakeRowsTypes DEF ClaimExpress, Owner
<1>2. CASE Start(r)
  <2>1. asked' \in [Job -> Fates]
    BY <1>2, AskedFates DEF Start
  <2>2. run' \in [Runner -> Runs] /\ RunHasJob'
    BY <1>2, <1>run DEF Start, Runs, Phases
  <2>. QED
    BY <1>2, <2>1, <2>2 DEF Start
<1>3. CASE Undispatchable(r)
  <2>1. run'[r] \in Runs
    BY <1>3, <1>run, <1>next DEF Undispatchable, Runs, Phases, Time
  <2>2. asked' \in [Job -> Fates]
    BY <1>3, AskedFates DEF Undispatchable
  <2>. QED
    BY <1>3, <2>1, <2>2 DEF Undispatchable
<1>4. CASE Conclude(r)
  <2>1. run'[r] \in Runs
    BY <1>4, <1>run, <1>next DEF Conclude, Runs, Phases, Time, IsAgent
  <2>2. asked' \in [Job -> Fates]
    BY <1>4, AskedFates DEF Conclude
  <2>. QED
    BY <1>4, <2>1, <2>2 DEF Conclude
<1>5. CASE ReadRow(r)
  <2>1. ASSUME run[r].job \in exists
        PROVE  run'[r] \in Runs /\ run'[r].job \in Job /\ run'[r].period \in Periods
    <3>1. job[run[r].job] \in Row
      BY <2>1
    <3>. QED
      BY <1>5, <2>1, <3>1, <1>run DEF ReadRow, Runs, Row, Phases
  <2>2. ASSUME run[r].job \notin exists
        PROVE  run'[r] = Idle
    BY <1>5, <2>2 DEF ReadRow
  <2>. QED
    BY <1>5, <2>1, <2>2, <1>idle DEF ReadRow, Idle
<1>6. CASE SaveResult(r)
  <2>1. run'[r] \in Runs
    BY <1>6, <1>run, <1>next DEF SaveResult, Runs, Phases, Time, IsAgent
  <2>2. wanted' \in [Job -> TimeOrNull]
    BY <1>6 DEF SaveResult, TimeOrNull
  <2>. QED
    BY <1>6, <2>1, <2>2 DEF SaveResult
<1>7. CASE ReleaseLease(r)
  <2>1. PICK e \in Int :
          job' = IF Owns(r)
                 THEN [job EXCEPT ![run[r].job] =
                          Released(@, run[r].next, run[r].next + e)]
                 ELSE job
    <3>1. (IF run[r].probed THEN EffOffsets ELSE {0}) \subseteq Int
      OBVIOUS
    <3>. QED
      BY <1>7, <3>1 DEF ReleaseLease
  <2>2. run[r].next \in Nat /\ run[r].next + e \in Int
    BY <1>run DEF Runs, Time
  <2>3. Owns(r) => Released(job[run[r].job], run[r].next, run[r].next + e) \in Row
    BY <2>2, ReleasedRow DEF Owns
  <2>4. job' \in [Job -> Row]
    BY <2>1, <2>3 DEF Owns
  <2>. QED
    BY <1>7, <2>4, <1>idle DEF ReleaseLease, Idle
<1>8. CASE DeferRateLimited(r)
  <2>1. PICK next \in Nat :
          job' = IF Owns(r) THEN [job EXCEPT ![run[r].job] = Deferred(@, next)] ELSE job
    <3>1. run[r].period \in Nat
      BY <1>run DEF Runs
    <3>2. now + run[r].period \in Nat
      BY <1>run, <3>1
    <3>. QED
      BY <1>8, <3>2, <1>next DEF DeferRateLimited
  <2>2. Owns(r) => Deferred(job[run[r].job], next) \in Row
    BY DeferredRow DEF Owns
  <2>3. job' \in [Job -> Row]
    BY <2>1, <2>2 DEF Owns
  <2>4. asked' \in [Job -> Fates]
    BY <1>8, AskedFates DEF DeferRateLimited
  <2>. QED
    BY <1>8, <2>3, <2>4, <1>idle DEF DeferRateLimited, Idle
<1>9. CASE Lose(r)
  BY <1>9, <1>idle DEF Lose, Idle
<1>. QED
  BY <1>1, <1>2, <1>3, <1>4, <1>5, <1>6, <1>7, <1>8, <1>9 DEF RunnerStep

\* The calls of the API keep the types.
LEMMA ApiTypes ==
    ASSUME TypeInv, NEW j \in Job, ApiStep(j)
    PROVE  TypeInv'
<1>. USE DEF TypeInv, TypeOK, RunHasJob, Busy
<1>j. job[j] \in Row /\ api[j] \in Calls /\ now \in Nat
  BY DEF Time
<1>at. api[j].at \in Nat
  BY <1>j DEF Calls, Time
<1>no. NoCall \in Calls
  BY DEF NoCall, Calls, Steps, Time
<1>1. CASE RequestRun(j)
  BY <1>1, <1>j DEF RequestRun, Calls, Steps, Time
<1>2. CASE MakeDue(j)
  <2>1. MadeDue(job[j], api[j].at) \in Row
    BY <1>j, <1>at, RequestedRow
  <2>2. api' \in [Job -> Calls]
    <3>1. [api[j] EXCEPT !.step = "park"] \in Calls
      BY <1>j DEF Calls, Steps
    <3>2. \/ api' = [api EXCEPT ![j] = NoCall]
          \/ api' = [api EXCEPT ![j] = [api[j] EXCEPT !.step = "park"]]
      BY <1>2 DEF MakeDue
    <3>. QED
      BY <3>1, <3>2, <1>no
  <2>3. job' \in [Job -> Row]
    BY <1>2, <2>1 DEF MakeDue
  <2>4. asked' \in [Job -> Fates]
    BY <1>2 DEF MakeDue, Fates
  <2>5. now' = now /\ exists' = exists /\ run' = run /\ wanted' = wanted
    BY <1>2 DEF MakeDue
  <2>. QED
    BY <2>2, <2>3, <2>4, <2>5
<1>3. CASE Park(j)
  <2>1. Parked(job[j], api[j].at) \in Row
    BY <1>j, <1>at, RequestedRow
  <2>2. api' \in [Job -> Calls]
    <3>1. api[j].tries + 1 < MaxTries => api[j].tries + 1 \in 0 .. MaxTries
      BY <1>j DEF Calls
    <3>2. api[j].tries + 1 < MaxTries => Retried(api[j]) \in Calls
      BY <3>1, <1>j DEF Calls, Steps, Retried
    <3>. QED
      BY <1>3, <3>2, <1>no DEF Park
  <2>3. job' \in [Job -> Row]
    BY <1>3, <2>1 DEF Park
  <2>4. asked' \in [Job -> Fates]
    BY <1>3 DEF Park, Fates
  <2>5. now' = now /\ exists' = exists /\ run' = run /\ wanted' = wanted
    BY <1>3 DEF Park
  <2>. QED
    BY <2>2, <2>3, <2>4, <2>5
<1>4. ASSUME NEW period \in Periods, EditPeriod(j, period)
      PROVE  TypeInv'
  <2>1. NextAligned(j, period, now) \in Nat
    BY <1>j, NextAlignedAhead
  <2>2. Resynced(job[j], period, NextAligned(j, period, now)) \in Row
    BY <1>j, <2>1, ResyncedRow
  <2>3. [step |-> "rerun", at |-> now, tries |-> 0] \in Calls
    BY <1>j DEF Calls, Steps, Time
  <2>4. asked' \in [Job -> Fates]
    BY <1>4 DEF EditPeriod, Fates
  <2>. QED
    BY <1>4, <2>2, <2>3, <2>4 DEF EditPeriod
<1>5. CASE RerunInFlight(j)
  <2>1. Parked(job[j], now) \in Row
    BY <1>j, RequestedRow
  <2>. QED
    BY <1>5, <2>1, <1>no DEF RerunInFlight
<1>6. CASE RequestCapture(j)
  <2>1. CaptureAsked(job[j], now) \in Row
    BY <1>j, RequestedRow
  <2>. QED
    BY <1>6, <2>1 DEF RequestCapture, TimeOrNull
<1>7. CASE DeleteJob(j)
  BY <1>7 DEF DeleteJob
<1>. QED
  BY <1>1, <1>2, <1>3, <1>4, <1>5, <1>6, <1>7 DEF ApiStep

\* TypeInv is inductive.
LEMMA TypeStep == TypeInv /\ [Next]_vars => TypeInv'
<1>. SUFFICES ASSUME TypeInv, [Next]_vars
              PROVE  TypeInv'
  OBVIOUS
<1>1. CASE \E w \in Worker : Claim(w)
  BY <1>1, ClaimTypes
<1>2. CASE \E r \in Runner : RunnerStep(r)
  BY <1>2, RunTypes
<1>3. CASE \E j \in Job : ApiStep(j)
  BY <1>3, ApiTypes
<1>4. CASE Tick
  BY <1>4 DEF Tick, TypeInv, TypeOK, RunHasJob, Busy, Time
<1>5. CASE UNCHANGED vars
  BY <1>5 DEF vars, TypeInv, TypeOK, RunHasJob, Busy
<1>. QED
  BY <1>1, <1>2, <1>3, <1>4, <1>5 DEF Next

\* The initial states have the types.
LEMMA TypeInit == Init => TypeInv
<1>. SUFFICES ASSUME Init
              PROVE  TypeInv
  OBVIOUS
<1>1. job \in [Job -> Row]
  <2>1. PICK p \in [Job -> Periods], S \in SUBSET Sliced :
            job = [j \in Job |-> NewRow(j, p[j], j \in S)]
    BY DEF Init
  <2>2. ASSUME NEW j \in Job
        PROVE  NewRow(j, p[j], j \in S) \in Row
    BY NewRowRow
  <2>. QED
    BY <2>1, <2>2
<1>2. run \in [Runner -> Runs] /\ RunHasJob
  BY DEF Init, Idle, Runs, Phases, Time, TimeOrNull, RunHasJob, Busy
<1>3. api \in [Job -> Calls]
  BY DEF Init, NoCall, Calls, Steps, Time
<1>. QED
  BY <1>1, <1>2, <1>3 DEF Init, TypeInv, TypeOK, Time, TimeOrNull, Fates

\* Every state of every behaviour is well typed: in particular no release,
\* whatever request is pending in the row, leaves a job without a due time.
THEOREM TypeCorrect == Spec => []TypeOK
<1>1. TypeInv => TypeOK
  BY DEF TypeInv
<1>. QED
  BY <1>1, TypeInit, TypeStep, PTL DEF Spec

-----------------------------------------------------------------------------
(* The lease.                                                              *)

\* A step that leaves every lease alone, and starts no run, keeps LeaseInv.
LEMMA LeaseFrame ==
    ASSUME LeaseInv, TypeInv', now' = now, exists' \subseteq exists,
           \A j \in Job : /\ job'[j].leaseWorker = job[j].leaseWorker
                          /\ job'[j].leaseExpiresAt = job[j].leaseExpiresAt,
           \A r \in Runner : run'[r].phase # "idle" =>
                             /\ run[r].phase # "idle"
                             /\ run'[r].job = run[r].job
                             /\ run'[r].leaseEnd = run[r].leaseEnd
    PROVE  LeaseInv'
<1>. USE DEF Busy, Live
<1>1. RunHasJob /\ exists \subseteq Job
  BY DEF LeaseInv, TypeInv, TypeOK
<1>2. LeaseWhole'
  BY DEF LeaseInv, LeaseWhole
<1>3. RunsArePunctual'
  BY DEF LeaseInv, RunsArePunctual
<1>4. LiveIsHeld'
  BY <1>1 DEF LeaseInv, LiveIsHeld, HeldBy, RunHasJob
<1>5. OwnedIsHeld'
  BY <1>1 DEF LeaseInv, OwnedIsHeld, Owns, HeldBy, RunHasJob
<1>6. MutualExclusion'
  BY DEF LeaseInv, MutualExclusion
<1>. QED
  BY <1>2, <1>3, <1>4, <1>5, <1>6 DEF LeaseInv

\* A run that is live, or whose release would go through, stands in the way
\* of a claim of its row by its own worker; a live one in the way of any.
LEMMA NoRunOnUnleased ==
    ASSUME LeaseInv, NEW r \in Runner, Busy(r), run[r].job \in exists,
           Unleased(job[run[r].job], now)
    PROVE  ~ Live(r) /\ ~ Punctual
<1>1. now \in Nat /\ run[r].leaseEnd \in Nat
  BY DEF LeaseInv, TypeInv, TypeOK, Runs, Time
<1>2. ~ Live(r)
  <2>. SUFFICES ASSUME Live(r)
                PROVE  FALSE
    OBVIOUS
  <2>1. job[run[r].job].leaseExpiresAt = run[r].leaseEnd
    BY DEF LeaseInv, LiveIsHeld, HeldBy
  <2>. QED
    BY <1>1, <2>1 DEF Unleased, Live
<1>3. Punctual => Live(r)
  BY DEF LeaseInv, RunsArePunctual, Live
<1>. QED
  BY <1>2, <1>3

\* A claim keeps LeaseInv: S is claimed for w, and the free runners G of w
\* get one job each.
LEMMA ClaimLease ==
    ASSUME Trustworthy, LeaseInv, TypeInv',
           NEW w \in Worker, NEW S \in SUBSET exists,
           NEW G \in SUBSET Runner, NEW h \in [G -> S],
           \A r \in G : Owner(r) = w /\ ~ Busy(r),
           \A r1, r2 \in G : h[r1] = h[r2] => r1 = r2,
           \A j \in S : \E r \in G : h[r] = j,
           \A j \in S : Unleased(job[j], now),
           TakeRows(S, w),
           run' = [r \in Runner |-> IF r \in G THEN Taken(h[r]) ELSE run[r]]
    PROVE  LeaseInv'
<1>0. TypeInv /\ exists \subseteq Job /\ RunHasJob /\ now \in Nat
  BY DEF LeaseInv, TypeInv, TypeOK, Time
<1>1. now' = now /\ exists' = exists
  BY DEF TakeRows
<1>2. ASSUME NEW r \in G
      PROVE  /\ h[r] \in S /\ h[r] \in Job
             /\ Busy(r)' /\ run'[r].job = h[r]
             /\ run'[r].leaseEnd = LeaseEnd(job[h[r]], now)
             /\ now <= run'[r].leaseEnd
             /\ HeldBy(r, h[r])'
  <2>1. h[r] \in S /\ h[r] \in Job
    BY <1>0
  <2>2. run'[r] = Taken(h[r])
    OBVIOUS
  <2>3. LeaseEnd(job[h[r]], now) >= now
    BY <1>0, <2>1, LeaseEndAhead DEF TypeInv, TypeOK
  <2>4. LeaseEnd(job[h[r]], now) \in Nat
    BY <1>0, <2>1, LeaseEndAhead DEF TypeInv, TypeOK
  <2>5. job'[h[r]] = Leased(job[h[r]], w, now)
    BY <2>1 DEF TakeRows
  <2>6. job[h[r]] \in Row
    BY <1>0, <2>1 DEF TypeInv, TypeOK
  <2>7. job'[h[r]].leaseWorker = w /\ job'[h[r]].leaseExpiresAt = LeaseEnd(job[h[r]], now)
    BY <2>5, <2>6 DEF Leased, Row
  <2>8. run'[r].phase = "claimed" /\ run'[r].job = h[r] /\ run'[r].leaseEnd = LeaseEnd(job[h[r]], now)
    BY <2>2 DEF Taken
  <2>. QED
    BY <1>0, <2>1, <2>3, <2>4, <2>7, <2>8 DEF Busy, HeldBy, Owner
<1>3. ASSUME NEW r \in Runner \ G, Busy(r)'
      PROVE  /\ run'[r] = run[r]
             /\ Busy(r)
             /\ run[r].job \in S => ~ Live(r) /\ Owner(r) # w
  <2>1. run'[r] = run[r] /\ Busy(r)
    BY <1>3 DEF Busy
  <2>2. ASSUME run[r].job \in S
        PROVE  ~ Live(r) /\ Owner(r) # w
    <3>1. ~ Live(r) /\ ~ Punctual
      BY <2>1, <2>2, NoRunOnUnleased
    <3>2. PICK s \in G : h[s] = run[r].job
      BY <2>2
    <3>3. Owner(r) # w
      BY <3>1, <3>2 DEF Trustworthy, OneRunnerPerWorker
    <3>. QED
      BY <3>1, <3>3
  <2>. QED
    BY <2>1, <2>2
<1>4. ASSUME NEW j \in Job \ S
      PROVE  job'[j] = job[j]
  BY DEF TakeRows
<1>5. LeaseWhole'
  <2>. SUFFICES ASSUME NEW j \in Job
                PROVE  (job[j].leaseWorker = NULL <=> job[j].leaseExpiresAt = NULL)'
    BY DEF LeaseWhole
  <2>1. CASE j \in S
    <3>1. PICK r \in G : h[r] = j
      BY <2>1
    <3>2. job'[j].leaseWorker = w /\ job'[j].leaseExpiresAt = LeaseEnd(job[j], now)
      <4>1. HeldBy(r, h[r])' /\ run'[r].leaseEnd = LeaseEnd(job[h[r]], now) /\ Owner(r) = w
        BY <1>2
      <4>. QED
        BY <3>1, <4>1 DEF HeldBy, Owner
    <3>3. LeaseEnd(job[j], now) \in Nat
      BY <1>0, LeaseEndAhead DEF TypeInv, TypeOK
    <3>4. w # NULL /\ LeaseEnd(job[j], now) # NULL
      BY <3>3
    <3>. QED
      BY <3>2, <3>4
  <2>2. CASE j \notin S
    BY <1>4, <2>2 DEF LeaseInv, LeaseWhole
  <2>. QED
    BY <2>1, <2>2
<1>6. RunsArePunctual'
  BY <1>1, <1>2, <1>3 DEF LeaseInv, RunsArePunctual
<1>7. LiveIsHeld'
  <2>. SUFFICES ASSUME NEW r \in Runner, Live(r)', run'[r].job \in exists'
                PROVE  HeldBy(r, run[r].job)'
    BY DEF LiveIsHeld
  <2>1. CASE r \in G
    BY <1>2, <2>1
  <2>2. CASE r \notin G
    <3>1. run'[r] = run[r] /\ Live(r) /\ run[r].job \in exists
      BY <1>1, <1>3, <2>2 DEF Live
    <3>2. run[r].job \notin S /\ run[r].job \in Job
      BY <1>0, <1>3, <2>2, <3>1 DEF Live
    <3>. QED
      BY <3>1, <3>2, <1>4 DEF LeaseInv, LiveIsHeld, HeldBy, Busy
  <2>. QED
    BY <2>1, <2>2
<1>8. OwnedIsHeld'
  <2>. SUFFICES ASSUME NEW r \in Runner, Busy(r)', Owns(r)'
                PROVE  HeldBy(r, run[r].job)'
    BY DEF OwnedIsHeld
  <2>1. CASE r \in G
    BY <1>2, <2>1
  <2>2. CASE r \notin G
    <3>1. run'[r] = run[r] /\ Busy(r) /\ run[r].job \in exists
      BY <1>1, <1>3, <2>2 DEF Owns
    <3>2. run[r].job \notin S
      <4>. SUFFICES ASSUME run[r].job \in S
                    PROVE  FALSE
        OBVIOUS
      <4>1. PICK s \in G : h[s] = run[r].job
        OBVIOUS
      <4>2. job'[run[r].job].leaseWorker = w
        BY <4>1, <1>2 DEF HeldBy, Owner
      <4>. QED
        BY <4>2, <3>1, <1>3, <2>2 DEF Owns
    <3>3. run[r].job \in Job
      BY <1>0, <3>1
    <3>4. Owns(r)
      BY <3>1, <3>2, <3>3, <1>4 DEF Owns
    <3>. QED
      BY <3>1, <3>2, <3>3, <3>4, <1>4 DEF LeaseInv, OwnedIsHeld, HeldBy, Busy
  <2>. QED
    BY <2>1, <2>2
<1>9. MutualExclusion'
  <2>. SUFFICES ASSUME NEW r1 \in Runner, NEW r2 \in Runner, Live(r1)', Live(r2)',
                       run'[r1].job = run'[r2].job
                PROVE  r1 = r2
    BY DEF MutualExclusion
  <2>1. CASE r1 \in G /\ r2 \in G
    BY <1>2, <2>1
  <2>2. ASSUME NEW r \in G, NEW q \in Runner \ G, Live(q)', run'[r].job = run'[q].job
        PROVE  FALSE
    <3>0. Busy(q)' /\ run'[q] = run[q]
      BY <2>2, <1>3 DEF Live
    <3>1. run[q].job \in S
      BY <1>2, <2>2, <3>0
    <3>2. ~ Live(q) /\ run'[q] = run[q]
      BY <1>3, <3>0, <3>1
    <3>3. run[q].phase # "idle" /\ now <= run[q].leaseEnd
      BY <3>2, <2>2, <1>1 DEF Live, Busy
    <3>. QED
      BY <3>2, <3>3 DEF Live, Busy
  <2>3. CASE r1 \notin G /\ r2 \notin G
    <3>1. /\ run'[r1] = run[r1] /\ Live(r1)
          /\ run'[r2] = run[r2] /\ Live(r2)
      BY <1>1, <1>3, <2>3 DEF Live
    <3>. QED
      BY <3>1 DEF LeaseInv, MutualExclusion
  <2>4. r1 \in G <=> r2 \in G
    BY <2>2
  <2>. QED
    BY <2>1, <2>3, <2>4
<1>. QED
  BY <1>5, <1>6, <1>7, <1>8, <1>9 DEF LeaseInv

\* A release keeps LeaseInv: the only live run of the row is the one released.
LEMMA ReleaseKeepsLease ==
    ASSUME LeaseInv, TypeInv', NEW r \in Runner, Busy(r),
           now' = now, exists' = exists, run' = [run EXCEPT ![r] = Idle],
           NEW new, new.leaseWorker = NULL, new.leaseExpiresAt = NULL,
           job' = IF Owns(r) THEN [job EXCEPT ![run[r].job] = new] ELSE job
    PROVE  LeaseInv'
<1>0. TypeInv /\ exists \subseteq Job /\ RunHasJob
  BY DEF LeaseInv, TypeInv, TypeOK
<1>1. CASE ~ Owns(r)
  <2>1. \A s \in Runner : run'[s].phase # "idle" => run'[s] = run[s]
    BY <1>0 DEF Idle, TypeInv, TypeOK
  <2>. QED
    BY <1>1, <2>1, LeaseFrame
<1>2. CASE Owns(r)
  <2>. DEFINE k == run[r].job
  <2>1. k \in Job /\ HeldBy(r, k)
    BY <1>0, <1>2 DEF Owns, LeaseInv, OwnedIsHeld
  <2>2. /\ job'[k] = new
        /\ \A j \in Job \ {k} : job'[j] = job[j]
    BY <1>2, <2>1, <1>0 DEF TypeInv, TypeOK
  <2>3. ASSUME NEW s \in Runner, Busy(s)'
        PROVE  s # r /\ run'[s] = run[s] /\ Busy(s)
    BY <2>3, <1>0 DEF Busy, Idle, TypeInv, TypeOK
  <2>4. ASSUME NEW s \in Runner, Live(s), run[s].job = k
        PROVE  s = r
    <3>1. HeldBy(s, k)
      BY <2>4, <1>2 DEF LeaseInv, LiveIsHeld, Owns
    <3>2. run[r].leaseEnd = run[s].leaseEnd
      BY <2>1, <3>1 DEF HeldBy
    <3>3. Live(r)
      BY <2>4, <3>2 DEF Live
    <3>. QED
      BY <2>4, <3>3 DEF LeaseInv, MutualExclusion
  <2>5. LeaseWhole'
    BY <2>2 DEF LeaseInv, LeaseWhole
  <2>6. RunsArePunctual'
    BY <2>3 DEF LeaseInv, RunsArePunctual
  <2>7. LiveIsHeld'
    <3>. SUFFICES ASSUME NEW s \in Runner, Live(s)', run'[s].job \in exists'
                  PROVE  HeldBy(s, run[s].job)'
      BY DEF LiveIsHeld
    <3>1. s # r /\ run'[s] = run[s] /\ Live(s) /\ run[s].job \in Job
      BY <2>3, <1>0 DEF Live
    <3>2. run[s].job # k
      BY <3>1, <2>4
    <3>3. HeldBy(s, run[s].job)
      BY <3>1 DEF LeaseInv, LiveIsHeld
    <3>. QED
      BY <3>1, <3>2, <3>3, <2>2 DEF HeldBy, Busy
  <2>8. OwnedIsHeld'
    <3>. SUFFICES ASSUME NEW s \in Runner, Busy(s)', Owns(s)'
                  PROVE  HeldBy(s, run[s].job)'
      BY DEF OwnedIsHeld
    <3>1. s # r /\ run'[s] = run[s] /\ Busy(s) /\ run[s].job \in Job
      BY <2>3, <1>0 DEF Owns
    <3>2. run[s].job # k
      BY <3>1, <2>2 DEF Owns, Owner
    <3>3. Owns(s)
      BY <3>1, <3>2, <2>2 DEF Owns
    <3>. QED
      BY <3>1, <3>2, <3>3, <2>2 DEF LeaseInv, OwnedIsHeld, HeldBy, Busy
  <2>9. MutualExclusion'
    <3>1. \A s \in Runner : Live(s)' => Live(s) /\ run'[s].job = run[s].job
      BY <2>3 DEF Live
    <3>. QED
      BY <3>1 DEF LeaseInv, MutualExclusion
  <2>. QED
    BY <2>5, <2>6, <2>7, <2>8, <2>9 DEF LeaseInv
<1>. QED
  BY <1>1, <1>2

\* A release clears the two lease columns.
LEMMA ReleasedColumns ==
    ASSUME NEW row \in Row, NEW t, NEW u
    PROVE  /\ Released(row, t, u).leaseWorker = NULL
           /\ Released(row, t, u).leaseExpiresAt = NULL
  BY DEF Released, Row

\* What the other operators do to them.
LEMMA LeaseColumns ==
    ASSUME NEW row \in Row, NEW t, NEW period
    PROVE  /\ Deferred(row, t).leaseWorker = NULL
           /\ Deferred(row, t).leaseExpiresAt = NULL
           /\ MadeDue(row, t).leaseWorker = row.leaseWorker
           /\ MadeDue(row, t).leaseExpiresAt = row.leaseExpiresAt
           /\ Parked(row, t).leaseWorker = row.leaseWorker
           /\ Parked(row, t).leaseExpiresAt = row.leaseExpiresAt
           /\ CaptureAsked(row, t).leaseWorker = row.leaseWorker
           /\ CaptureAsked(row, t).leaseExpiresAt = row.leaseExpiresAt
           /\ Resynced(row, period, t).leaseWorker = row.leaseWorker
           /\ Resynced(row, period, t).leaseExpiresAt = row.leaseExpiresAt
  BY DEF Deferred, MadeDue, Parked, CaptureAsked, Resynced, Row

\* The calls of the API leave every lease alone.
LEMMA ApiKeepsColumns ==
    ASSUME TypeInv, NEW j \in Job, ApiStep(j)
    PROVE  /\ now' = now /\ run' = run /\ exists' \subseteq exists
           /\ \A i \in Job : /\ job'[i].leaseWorker = job[i].leaseWorker
                             /\ job'[i].leaseExpiresAt = job[i].leaseExpiresAt
<1>0. job[j] \in Row /\ job \in [Job -> Row]
  BY DEF TypeInv, TypeOK
<1>1. CASE RequestRun(j)
  BY <1>1 DEF RequestRun
<1>2. CASE MakeDue(j)
  BY <1>2, <1>0, LeaseColumns DEF MakeDue
<1>3. CASE Park(j)
  BY <1>3, <1>0, LeaseColumns DEF Park
<1>4. ASSUME NEW period \in Periods, EditPeriod(j, period)
      PROVE  /\ now' = now /\ run' = run /\ exists' \subseteq exists
             /\ \A i \in Job : /\ job'[i].leaseWorker = job[i].leaseWorker
                               /\ job'[i].leaseExpiresAt = job[i].leaseExpiresAt
  BY <1>4, <1>0, LeaseColumns DEF EditPeriod
<1>5. CASE RerunInFlight(j)
  BY <1>5, <1>0, LeaseColumns DEF RerunInFlight
<1>6. CASE RequestCapture(j)
  BY <1>6, <1>0, LeaseColumns DEF RequestCapture
<1>7. CASE DeleteJob(j)
  BY <1>7 DEF DeleteJob
<1>. QED
  BY <1>1, <1>2, <1>3, <1>4, <1>5, <1>6, <1>7 DEF ApiStep

\* Every step keeps LeaseInv.
LEMMA LeaseStep ==
    ASSUME Trustworthy
    PROVE  LeaseInv /\ [Next]_vars => LeaseInv'
<1>. SUFFICES ASSUME LeaseInv, [Next]_vars
              PROVE  LeaseInv'
  OBVIOUS
<1>0. TypeInv /\ TypeInv' /\ exists \subseteq Job
  BY TypeStep DEF LeaseInv, TypeInv, TypeOK
<1>1. ASSUME NEW w \in Worker, Claim(w)
      PROVE  LeaseInv'
  <2>1. PICK T \in Selections(Cardinality(FreeRunners(w))) :
        \E G \in SUBSET FreeRunners(w) : \E h \in [G -> Claimable(T)] :
            /\ \A r1, r2 \in G : h[r1] = h[r2] => r1 = r2
            /\ \A j \in Claimable(T) : \E r \in G : h[r] = j
            /\ TakeRows(Claimable(T), w)
            /\ run' = [r \in Runner |-> IF r \in G THEN Taken(h[r]) ELSE run[r]]
    BY <1>1 DEF Claim
  <2>2. PICK G \in SUBSET FreeRunners(w) : \E h \in [G -> Claimable(T)] :
            /\ \A r1, r2 \in G : h[r1] = h[r2] => r1 = r2
            /\ \A j \in Claimable(T) : \E r \in G : h[r] = j
            /\ TakeRows(Claimable(T), w)
            /\ run' = [r \in Runner |-> IF r \in G THEN Taken(h[r]) ELSE run[r]]
    BY <2>1
  <2>3. PICK h \in [G -> Claimable(T)] :
            /\ \A r1, r2 \in G : h[r1] = h[r2] => r1 = r2
            /\ \A j \in Claimable(T) : \E r \in G : h[r] = j
            /\ TakeRows(Claimable(T), w)
            /\ run' = [r \in Runner |-> IF r \in G THEN Taken(h[r]) ELSE run[r]]
    BY <2>2
  <2>4. Claimable(T) \in SUBSET exists /\ \A j \in Claimable(T) : Unleased(job[j], now)
    BY DEF Claimable, Selections, Candidates, Selectable
  <2>5. G \in SUBSET Runner /\ \A r \in G : Owner(r) = w /\ ~ Busy(r)
    BY DEF FreeRunners
  <2>. HIDE DEF Claimable
  <2>. QED
    BY <1>0, <2>3, <2>4, <2>5, ClaimLease
<1>2. ASSUME NEW r \in Runner, NEW j \in Job, ClaimExpress(r, j)
      PROVE  LeaseInv'
  <2>0. PICK h \in [{r} -> {j}] : h = [x \in {r} |-> j]
    OBVIOUS
  <2>1. /\ {r} \in SUBSET Runner /\ {j} \in SUBSET exists
        /\ Owner(r) \in Worker
        /\ \A x \in {r} : Owner(x) = Owner(r) /\ ~ Busy(x)
        /\ \A i \in {j} : Unleased(job[i], now)
        /\ TakeRows({j}, Owner(r))
    BY <1>2 DEF ClaimExpress, Owner
  <2>2. /\ \A x, y \in {r} : h[x] = h[y] => x = y
        /\ \A i \in {j} : \E x \in {r} : h[x] = i
    BY <2>0
  <2>3. run' = [s \in Runner |-> IF s \in {r} THEN Taken(h[s]) ELSE run[s]]
    BY <1>2, <1>0, <2>0 DEF ClaimExpress, TypeInv, TypeOK
  <2>. QED
    BY <1>0, <2>1, <2>2, <2>3, ClaimLease
<1>3. ASSUME NEW r \in Runner,
             Start(r) \/ Undispatchable(r) \/ Conclude(r) \/ ReadRow(r)
                \/ SaveResult(r) \/ Lose(r)
      PROVE  LeaseInv'
  <2>1. now' = now /\ exists' = exists /\ job' = job
    BY <1>3 DEF Start, Undispatchable, Conclude, ReadRow, SaveResult, Lose
  <2>2. \A s \in Runner : run'[s].phase # "idle" =>
                             /\ run[s].phase # "idle"
                             /\ run'[s].job = run[s].job
                             /\ run'[s].leaseEnd = run[s].leaseEnd
    BY <1>3, <1>0 DEF Start, Undispatchable, Conclude, ReadRow, SaveResult, Lose,
                      Idle, Busy, TypeInv, TypeOK, Runs
  <2>. QED
    BY <1>0, <2>1, <2>2, LeaseFrame
<1>4. ASSUME NEW r \in Runner, ReleaseLease(r) \/ DeferRateLimited(r)
      PROVE  LeaseInv'
  <2>1. /\ Busy(r)
        /\ now' = now /\ exists' = exists /\ run' = [run EXCEPT ![r] = Idle]
    BY <1>4 DEF ReleaseLease, DeferRateLimited, Busy
  <2>2. \E new : /\ new.leaseWorker = NULL /\ new.leaseExpiresAt = NULL
                 /\ job' = IF Owns(r) THEN [job EXCEPT ![run[r].job] = new] ELSE job
    <3>1. CASE Owns(r)
      <4>1. job[run[r].job] \in Row
        BY <1>0, <3>1 DEF Owns, TypeInv, TypeOK
      <4>2. CASE ReleaseLease(r)
        <5>1. PICK e : job' = [job EXCEPT ![run[r].job] =
                                   Released(@, run[r].next, run[r].next + e)]
          BY <4>2, <3>1 DEF ReleaseLease
        <5>. DEFINE new == Released(job[run[r].job], run[r].next, run[r].next + e)
        <5>2. /\ new.leaseWorker = NULL /\ new.leaseExpiresAt = NULL
          BY <4>1, ReleasedColumns
        <5>3. job' = IF Owns(r) THEN [job EXCEPT ![run[r].job] = new] ELSE job
          BY <5>1, <3>1
        <5>. QED
          BY <5>2, <5>3
      <4>3. CASE DeferRateLimited(r)
        <5>1. PICK next : job' = [job EXCEPT ![run[r].job] = Deferred(@, next)]
          BY <4>3, <3>1 DEF DeferRateLimited
        <5>. DEFINE new == Deferred(job[run[r].job], next)
        <5>2. /\ new.leaseWorker = NULL /\ new.leaseExpiresAt = NULL
          BY <4>1, LeaseColumns
        <5>3. job' = IF Owns(r) THEN [job EXCEPT ![run[r].job] = new] ELSE job
          BY <5>1, <3>1
        <5>. QED
          BY <5>2, <5>3
      <4>. QED
        BY <1>4, <4>2, <4>3
    <3>2. CASE ~ Owns(r)
      <4>1. job' = job
        BY <1>4, <3>2 DEF ReleaseLease, DeferRateLimited
      <4>. DEFINE new == [leaseWorker |-> NULL, leaseExpiresAt |-> NULL]
      <4>2. /\ new.leaseWorker = NULL /\ new.leaseExpiresAt = NULL
            /\ job' = IF Owns(r) THEN [job EXCEPT ![run[r].job] = new] ELSE job
        BY <3>2, <4>1
      <4>. QED
        BY <4>2
    <3>. QED
      BY <3>1, <3>2
  <2>. QED
    BY <1>0, <2>1, <2>2, ReleaseKeepsLease
<1>5. ASSUME NEW j \in Job, ApiStep(j)
      PROVE  LeaseInv'
  BY <1>0, <1>5, ApiKeepsColumns, LeaseFrame
<1>6. CASE Tick
  <2>1. /\ now' = now + 1 /\ exists' = exists /\ job' = job /\ run' = run
        /\ Punctual => \A r \in Runner : Busy(r) => now < run[r].leaseEnd
    BY <1>6 DEF Tick
  <2>2. now \in Nat /\ \A r \in Runner : run[r].leaseEnd \in Nat
    BY <1>0 DEF TypeInv, TypeOK, Runs, Time
  <2>3. RunsArePunctual'
    BY <2>1, <2>2 DEF RunsArePunctual, Busy
  <2>4. \A r \in Runner : Live(r)' => Live(r)
    BY <2>1, <2>2 DEF Live, Busy
  <2>5. LiveIsHeld' /\ OwnedIsHeld' /\ MutualExclusion' /\ LeaseWhole'
    BY <2>1, <2>4 DEF LeaseInv, LiveIsHeld, OwnedIsHeld, MutualExclusion,
                      LeaseWhole, HeldBy, Owns, Busy
  <2>. QED
    BY <1>0, <2>3, <2>5 DEF LeaseInv
<1>7. CASE UNCHANGED vars
  BY <1>0, <1>7, LeaseFrame DEF vars
<1>. QED
  BY <1>1, <1>2, <1>3, <1>4, <1>5, <1>6, <1>7 DEF Next, RunnerStep

\* No run has a lease yet in an initial state.
LEMMA LeaseInit == Init => LeaseInv
<1>. SUFFICES ASSUME Init
              PROVE  LeaseInv
  OBVIOUS
<1>1. \A r \in Runner : ~ Busy(r)
  BY DEF Init, Idle, Busy
<1>2. LeaseWhole
  BY DEF Init, NewRow, LeaseWhole
<1>. QED
  BY <1>1, <1>2, TypeInit DEF LeaseInv, RunsArePunctual, LiveIsHeld, OwnedIsHeld,
                              MutualExclusion, Live

\* The invariant behind the lease holds for every fleet in which either no run
\* outlives its lease or no worker has two runners.
THEOREM LeaseCorrect ==
    ASSUME Trustworthy
    PROVE  Spec => []LeaseInv
  BY LeaseInit, LeaseStep, PTL DEF Spec

\* The lease excludes: no two runners hold a live lease on one job.
THEOREM Exclusion ==
    ASSUME Trustworthy
    PROVE  Spec => []MutualExclusion
<1>1. LeaseInv => MutualExclusion
  BY DEF LeaseInv
<1>. QED
  BY <1>1, LeaseCorrect, PTL

-----------------------------------------------------------------------------
(* What a step does to one row.                                            *)

RowTaken(j) ==
    Unleased(job[j], now) /\ \E w \in Worker : job'[j] = Leased(job[j], w, now)

RowFreed(j) ==
    \E r \in Runner :
        /\ Busy(r) /\ run[r].job = j /\ Owns(r) /\ ~ Busy(r)'
        /\ \E t, u : job'[j] \in {Released(job[j], t, u), Deferred(job[j], t)}

RowRequested(j) ==
    \E t, p : job'[j] \in {MadeDue(job[j], t), CaptureAsked(job[j], t), Resynced(job[j], p, t)}

RowParked(j) == \E t : ReleaseComing(job[j], t) /\ job'[j] = Parked(job[j], t)

RowStep(j) ==
    job'[j] = job[j] \/ RowTaken(j) \/ RowFreed(j) \/ RowRequested(j) \/ RowParked(j)

\* Every step does one of these things to every row.
LEMMA RowSteps ==
    ASSUME TypeInv, [Next]_vars, NEW j \in Job
    PROVE  RowStep(j)
<1>. USE DEF RowStep
<1>0. /\ exists \subseteq Job /\ job \in [Job -> Row] /\ run \in [Runner -> Runs]
  BY DEF TypeInv, TypeOK
<1>1. ASSUME NEW w \in Worker, NEW S \in SUBSET Job, TakeRows(S, w),
             \A i \in S : Unleased(job[i], now)
      PROVE  RowStep(j)
  BY <1>1 DEF TakeRows, RowTaken
<1>2. ASSUME NEW w \in Worker, Claim(w)
      PROVE  RowStep(j)
  <2>1. PICK T \in Selections(Cardinality(FreeRunners(w))) : TakeRows(Claimable(T), w)
    BY <1>2 DEF Claim
  <2>2. /\ Claimable(T) \in SUBSET Job
        /\ \A i \in Claimable(T) : Unleased(job[i], now)
    BY <1>0 DEF Claimable, Selections, Candidates, Selectable
  <2>. QED
    BY <1>1, <2>1, <2>2
<1>3. ASSUME NEW r \in Runner, NEW i \in Job, ClaimExpress(r, i)
      PROVE  RowStep(j)
  <2>1. Owner(r) \in Worker /\ TakeRows({i}, Owner(r)) /\ Unleased(job[i], now)
    BY <1>3 DEF ClaimExpress, Owner
  <2>. QED
    BY <1>1, <2>1
<1>4. ASSUME NEW r \in Runner, ReleaseLease(r) \/ DeferRateLimited(r)
      PROVE  RowStep(j)
  <2>1. Busy(r) /\ ~ Busy(r)'
    BY <1>0, <1>4 DEF ReleaseLease, DeferRateLimited, Busy, Idle
  <2>2. CASE Owns(r) /\ run[r].job = j
    <3>1. CASE ReleaseLease(r)
      <4>1. PICK e : job' = [job EXCEPT ![j] = Released(job[j], run[r].next, run[r].next + e)]
        BY <3>1, <2>2 DEF ReleaseLease
      <4>2. job'[j] = Released(job[j], run[r].next, run[r].next + e)
        BY <4>1, <1>0
      <4>. QED
        BY <4>2, <2>1, <2>2 DEF RowFreed
    <3>2. CASE DeferRateLimited(r)
      <4>1. PICK next : job' = [job EXCEPT ![j] = Deferred(job[j], next)]
        BY <3>2, <2>2 DEF DeferRateLimited
      <4>2. job'[j] = Deferred(job[j], next)
        BY <4>1, <1>0
      <4>. QED
        BY <4>2, <2>1, <2>2 DEF RowFreed
    <3>. QED
      BY <1>4, <3>1, <3>2
  <2>3. CASE ~ (Owns(r) /\ run[r].job = j)
    <3>1. job'[j] = job[j]
      BY <1>0, <1>4, <2>3 DEF ReleaseLease, DeferRateLimited
    <3>. QED
      BY <3>1
  <2>. QED
    BY <2>2, <2>3
<1>5. ASSUME NEW i \in Job, ApiStep(i)
      PROVE  RowStep(j)
  <2>1. CASE i # j
    <3>1. job'[j] = job[j]
      BY <1>0, <1>5, <2>1 DEF ApiStep, RequestRun, MakeDue, Park, EditPeriod,
                              RerunInFlight, RequestCapture, DeleteJob
    <3>. QED
      BY <3>1
  <2>2. CASE i = j
    <3>1. CASE RequestRun(j) \/ DeleteJob(j)
      BY <3>1 DEF RequestRun, DeleteJob
    <3>2. CASE MakeDue(j)
      BY <1>0, <3>2 DEF MakeDue, RowRequested
    <3>3. CASE Park(j)
      BY <1>0, <3>3 DEF Park, RowParked
    <3>4. ASSUME NEW period \in Periods, EditPeriod(j, period)
          PROVE  RowStep(j)
      BY <1>0, <3>4 DEF EditPeriod, RowRequested
    <3>5. CASE RerunInFlight(j)
      BY <1>0, <3>5 DEF RerunInFlight, RowParked, ReleaseComing
    <3>6. CASE RequestCapture(j)
      BY <1>0, <3>6 DEF RequestCapture, RowRequested
    <3>. QED
      BY <1>5, <2>2, <3>1, <3>2, <3>3, <3>4, <3>5, <3>6 DEF ApiStep
  <2>. QED
    BY <2>1, <2>2
<1>6. ASSUME UNCHANGED job
      PROVE  RowStep(j)
  BY <1>6
<1>. QED
  BY <1>2, <1>3, <1>4, <1>5, <1>6
     DEF Next, RunnerStep, Start, Undispatchable, Conclude, ReadRow, SaveResult, Lose, Tick, vars

\* What a step on one row does to its lease columns: nothing, a claim of an
\* unleased row, or the release of the run that owns it.
LEMMA LeaseMoves ==
    ASSUME TypeInv, [Next]_vars, NEW j \in Job
    PROVE  \/ /\ job'[j].leaseWorker = job[j].leaseWorker
              /\ job'[j].leaseExpiresAt = job[j].leaseExpiresAt
           \/ /\ Unleased(job[j], now)
              /\ job'[j].leaseWorker \in Worker
              /\ job'[j].leaseExpiresAt \in Nat
           \/ /\ \E r \in Runner : Busy(r) /\ run[r].job = j /\ Owns(r) /\ ~ Busy(r)'
              /\ job'[j].leaseWorker = NULL
              /\ job'[j].leaseExpiresAt = NULL
<1>0. job[j] \in Row /\ now \in Nat
  BY DEF TypeInv, TypeOK, Time
<1>1. CASE RowTaken(j)
  <2>1. PICK w \in Worker : job'[j] = Leased(job[j], w, now)
    BY <1>1 DEF RowTaken
  <2>2. job'[j].leaseWorker = w /\ job'[j].leaseExpiresAt = LeaseEnd(job[j], now)
    BY <1>0, <2>1 DEF Leased, Row
  <2>. QED
    BY <1>0, <1>1, <2>2, LeaseEndAhead DEF RowTaken
<1>2. CASE RowFreed(j)
  <2>1. PICK r \in Runner :
          /\ Busy(r) /\ run[r].job = j /\ Owns(r) /\ ~ Busy(r)'
          /\ \E t, u : job'[j] \in {Released(job[j], t, u), Deferred(job[j], t)}
    BY <1>2 DEF RowFreed
  <2>2. PICK t, u : job'[j] \in {Released(job[j], t, u), Deferred(job[j], t)}
    BY <2>1
  <2>3. job'[j].leaseWorker = NULL /\ job'[j].leaseExpiresAt = NULL
    BY <1>0, <2>2, ReleasedColumns, LeaseColumns
  <2>. QED
    BY <2>1, <2>3
<1>3. CASE RowRequested(j)
  BY <1>0, <1>3, LeaseColumns DEF RowRequested
<1>4. CASE RowParked(j)
  BY <1>0, <1>4, LeaseColumns DEF RowParked
<1>. QED
  BY <1>1, <1>2, <1>3, <1>4, RowSteps DEF RowStep

\* A lease in force is never taken over, whatever the fleet: even a run that
\* outlives its lease cannot make a claim cut another lease short.
THEOREM NotStolen == Spec => LeaseNotStolen
<1>1. TypeInv /\ [Next]_vars => [LeaseNotStolenStep]_vars
  <2>. SUFFICES ASSUME TypeInv, [Next]_vars, NEW j \in exists, LeasedAt(job[j], now),
                       job'[j].leaseWorker # NULL
                PROVE  /\ job'[j].leaseWorker = job[j].leaseWorker
                       /\ job'[j].leaseExpiresAt = job[j].leaseExpiresAt
    BY DEF LeaseNotStolenStep
  <2>1. j \in Job /\ job[j].leaseExpiresAt \in Nat /\ now \in Nat
    BY DEF TypeInv, TypeOK, Row, TimeOrNull, Time, LeasedAt
  <2>2. ~ Unleased(job[j], now)
    BY <2>1 DEF LeasedAt, Unleased
  <2>. QED
    BY <2>1, <2>2, LeaseMoves
<1>. QED
  BY <1>1, TypeInit, TypeStep, PTL DEF Spec, LeaseNotStolen

\* Only the run a lease was given to ends it, when the lease tells runs apart.
THEOREM OwnReleases ==
    ASSUME Trustworthy
    PROVE  Spec => ReleaseOwnLease
<1>1. LeaseInv /\ [Next]_vars => [ReleaseOwnLeaseStep]_vars
  <2>. SUFFICES ASSUME LeaseInv, [Next]_vars, NEW j \in exists',
                       job[j].leaseWorker # NULL, job'[j].leaseWorker = NULL
                PROVE  \E r \in Runner : HeldBy(r, j) /\ ~ Busy(r)'
    BY DEF ReleaseOwnLeaseStep
  <2>1. TypeInv /\ j \in Job
    BY TypeStep DEF LeaseInv, TypeInv, TypeOK
  <2>2. PICK r \in Runner : Busy(r) /\ run[r].job = j /\ Owns(r) /\ ~ Busy(r)'
    BY <2>1, LeaseMoves
  <2>3. HeldBy(r, j)
    BY <2>2 DEF LeaseInv, OwnedIsHeld
  <2>. QED
    BY <2>2, <2>3
<1>. QED
  BY <1>1, LeaseCorrect, PTL DEF Spec, ReleaseOwnLease

-----------------------------------------------------------------------------
(* Requests parked for a release.                                          *)

\* ParkedHasRelease is inductive together with the two lease columns going
\* NULL together, which is what lets the guard of the parking update, a test
\* of lease_expires_at, stand for a test of the owner.
ParkedInv ==
    /\ TypeInv
    /\ LeaseWhole
    /\ \A j \in Job :
           job[j].runRequested # NULL => job[j].leaseWorker # NULL \/ job[j].stepRun

\* No statement writes step_run_uid.
LEMMA StepRunStays ==
    ASSUME TypeInv, [Next]_vars, NEW j \in Job
    PROVE  job'[j].stepRun = job[j].stepRun
<1>0. job[j] \in Row
  BY DEF TypeInv, TypeOK
<1>1. CASE RowTaken(j)
  BY <1>0, <1>1 DEF RowTaken, Leased, Row
<1>2. CASE RowFreed(j)
  BY <1>0, <1>2 DEF RowFreed, Released, Deferred, Row
<1>3. CASE RowRequested(j)
  BY <1>0, <1>3 DEF RowRequested, MadeDue, CaptureAsked, Resynced, Row
<1>4. CASE RowParked(j)
  BY <1>0, <1>4 DEF RowParked, Parked, Row
<1>. QED
  BY <1>1, <1>2, <1>3, <1>4, RowSteps DEF RowStep

LEMMA ParkedStep == ParkedInv /\ [Next]_vars => ParkedInv'
<1>. SUFFICES ASSUME ParkedInv, [Next]_vars
              PROVE  ParkedInv'
  OBVIOUS
<1>0. TypeInv /\ TypeInv'
  BY TypeStep DEF ParkedInv
<1>1. ASSUME NEW j \in Job
      PROVE  /\ job'[j].leaseWorker = NULL <=> job'[j].leaseExpiresAt = NULL
             /\ job'[j].runRequested # NULL => job'[j].leaseWorker # NULL \/ job'[j].stepRun
  <2>0. /\ job[j] \in Row /\ now \in Nat
        /\ job[j].leaseWorker = NULL <=> job[j].leaseExpiresAt = NULL
        /\ job[j].runRequested # NULL => job[j].leaseWorker # NULL \/ job[j].stepRun
        /\ job'[j].stepRun = job[j].stepRun
    BY <1>0, StepRunStays DEF ParkedInv, LeaseWhole, TypeInv, TypeOK, Time
  <2>1. CASE job'[j] = job[j]
    BY <2>0, <2>1
  <2>2. CASE RowTaken(j)
    <3>1. PICK w \in Worker : job'[j] = Leased(job[j], w, now)
      BY <2>2 DEF RowTaken
    <3>2. job'[j].leaseWorker = w /\ job'[j].leaseExpiresAt = LeaseEnd(job[j], now)
      BY <2>0, <3>1 DEF Leased, Row
    <3>3. LeaseEnd(job[j], now) \in Nat
      BY <2>0, LeaseEndAhead
    <3>4. w # NULL /\ LeaseEnd(job[j], now) # NULL
      BY <3>3
    <3>. QED
      BY <3>2, <3>4
  <2>3. CASE RowFreed(j)
    <3>1. PICK t, u : job'[j] \in {Released(job[j], t, u), Deferred(job[j], t)}
      BY <2>3 DEF RowFreed
    <3>2. job'[j].leaseWorker = NULL /\ job'[j].leaseExpiresAt = NULL
      BY <2>0, <3>1, ReleasedColumns, LeaseColumns
    <3>3. job'[j].runRequested = NULL
      BY <2>0, <3>1 DEF Released, Deferred, Row
    <3>. QED
      BY <3>2, <3>3
  <2>4. CASE RowRequested(j)
    <3>1. PICK t, p : job'[j] \in {MadeDue(job[j], t), CaptureAsked(job[j], t),
                                   Resynced(job[j], p, t)}
      BY <2>4 DEF RowRequested
    <3>2. job'[j].runRequested = job[j].runRequested
      BY <2>0, <3>1 DEF MadeDue, CaptureAsked, Resynced, Row
    <3>. QED
      BY <2>0, <3>1, <3>2, LeaseColumns
  <2>5. CASE RowParked(j)
    <3>1. PICK t : ReleaseComing(job[j], t) /\ job'[j] = Parked(job[j], t)
      BY <2>5 DEF RowParked
    <3>2. job[j].leaseWorker # NULL \/ job[j].stepRun
      BY <2>0, <3>1 DEF ReleaseComing, LeasedAt
    <3>. QED
      BY <2>0, <3>1, <3>2, LeaseColumns
  <2>. QED
    BY <1>0, <2>1, <2>2, <2>3, <2>4, <2>5, RowSteps DEF RowStep
<1>. QED
  BY <1>0, <1>1 DEF ParkedInv, LeaseWhole

\* A request is never parked on a job that no release is coming for, however
\* the two updates of the request interleave with claims and releases: the
\* job has a lease, or a multi-step run whose next slice is released.
THEOREM NeverStranded == Spec => []ParkedHasRelease
<1>1. Init => ParkedInv
  <2>. SUFFICES ASSUME Init PROVE ParkedInv
    OBVIOUS
  <2>1. PICK p \in [Job -> Periods], S \in SUBSET Sliced :
            job = [j \in Job |-> NewRow(j, p[j], j \in S)]
    BY DEF Init
  <2>2. \A j \in Job : /\ job[j].leaseWorker = NULL
                       /\ job[j].leaseExpiresAt = NULL
                       /\ job[j].runRequested = NULL
    BY <2>1 DEF NewRow
  <2>. QED
    BY <2>2, TypeInit DEF ParkedInv, LeaseWhole
<1>2. ParkedInv => ParkedHasRelease
  BY DEF ParkedInv, ParkedHasRelease, TypeInv, TypeOK
<1>. QED
  BY <1>1, <1>2, ParkedStep, PTL DEF Spec
=============================================================================
