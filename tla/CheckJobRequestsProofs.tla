----------------------- MODULE CheckJobRequestsProofs -----------------------
(***************************************************************************)
(* Proofs about the requests of CheckJobs: a run that was asked for, a     *)
(* screenshot that was asked for, an edit of a check that is running, and  *)
(* the result that a run stores.  They rest on the lease (CheckJobsProofs).*)
(***************************************************************************)
EXTENDS CheckJobsProofs

USE NullAssumption, TimingAssumption, FleetAssumption

-----------------------------------------------------------------------------
(* The result of a run.                                                    *)

\* Only SaveResult makes a run one whose result is stored.
LEMMA OnlySaveSaves ==
    ASSUME TypeInv, [Next]_vars, NEW r \in Runner,
           run[r].phase # "saved", run'[r].phase = "saved"
    PROVE  SaveResult(r)
<1>0. run \in [Runner -> Runs]
  BY DEF TypeInv, TypeOK
<1>1. ASSUME NEW w \in Worker, Claim(w)
      PROVE  FALSE
  <2>1. PICK T \in Selections(Cardinality(FreeRunners(w))) :
        \E G \in SUBSET FreeRunners(w) : \E h \in [G -> Claimable(T)] :
            run' = [s \in Runner |-> IF s \in G THEN Taken(h[s]) ELSE run[s]]
    BY <1>1 DEF Claim
  <2>2. PICK G \in SUBSET FreeRunners(w) : \E h \in [G -> Claimable(T)] :
            run' = [s \in Runner |-> IF s \in G THEN Taken(h[s]) ELSE run[s]]
    BY <2>1
  <2>3. PICK h \in [G -> Claimable(T)] :
            run' = [s \in Runner |-> IF s \in G THEN Taken(h[s]) ELSE run[s]]
    BY <2>2
  <2>. QED
    BY <2>3 DEF Taken
<1>2. ASSUME NEW s \in Runner, RunnerStep(s)
      PROVE  SaveResult(r)
  <2>1. CASE s # r
    <3>1. run'[r] = run[r]
      BY <1>0, <1>2, <2>1 DEF RunnerStep, ClaimExpress, Start, Undispatchable, Conclude,
                              ReadRow, SaveResult, ReleaseLease, DeferRateLimited, Lose
    <3>. QED
      BY <3>1
  <2>2. CASE s = r
    <3>1. ASSUME NEW j \in Job, ClaimExpress(r, j)
          PROVE  run'[r].phase = "claimed"
      BY <1>0, <3>1 DEF ClaimExpress, Taken
    <3>2. Start(r) => run'[r].phase = "probing"
      BY <1>0 DEF Start, Runs
    <3>3. Undispatchable(r) \/ Conclude(r) => run'[r].phase = "done"
      BY <1>0 DEF Undispatchable, Conclude, Runs
    <3>4. ReadRow(r) => run'[r].phase \in {"read", "idle"}
      BY <1>0 DEF ReadRow, Idle, Runs
    <3>5. ReleaseLease(r) \/ DeferRateLimited(r) \/ Lose(r) => run'[r].phase = "idle"
      BY <1>0 DEF ReleaseLease, DeferRateLimited, Lose, Idle
    <3>. QED
      BY <1>2, <2>2, <3>1, <3>2, <3>3, <3>4, <3>5 DEF RunnerStep
  <2>. QED
    BY <2>1, <2>2
<1>3. ASSUME NEW j \in Job, ApiStep(j)
      PROVE  FALSE
  BY <1>3, ApiKeepsColumns
<1>4. run' # run
  OBVIOUS
<1>. QED
  BY <1>1, <1>2, <1>3, <1>4 DEF Next, Tick, vars

\* With runs that end before their lease does, a result is stored only by the
\* run that holds the row: nobody's late result overwrites the status that
\* the run after it stored (SubmitResult, executeJob).
THEOREM ResultsFromHolders ==
    ASSUME Punctual
    PROVE  Spec => ResultFromHolder
<1>1. LeaseInv /\ [Next]_vars => [ResultFromHolderStep]_vars
  <2>. SUFFICES ASSUME LeaseInv, [Next]_vars, NEW r \in Runner,
                       run[r].phase # "saved", run'[r].phase = "saved",
                       run[r].job \in exists
                PROVE  HeldBy(r, run[r].job)
    BY DEF ResultFromHolderStep
  <2>1. SaveResult(r)
    BY OnlySaveSaves DEF LeaseInv
  <2>2. Busy(r)
    BY <2>1 DEF SaveResult, Busy
  <2>3. Live(r)
    BY <2>2 DEF LeaseInv, RunsArePunctual, Live
  <2>. QED
    BY <2>3 DEF LeaseInv, LiveIsHeld
<1>2. Trustworthy
  BY DEF Trustworthy
<1>. QED
  BY <1>1, <1>2, LeaseCorrect, PTL DEF Spec, ResultFromHolder

-----------------------------------------------------------------------------
(* An edit of a running check.                                             *)

\* StaleRunReruns for one run.
StaleReruns(r) ==
    LET j == run[r].job IN
    Live(r) /\ j \in exists /\ api[j].step # "rerun" /\ run[r].period # job[j].period
        => job[j].runRequested # NULL

\* What a step does to a run it does not start: the run ends, or it keeps its
\* job and its lease, and its period stays or becomes the one of the row.
LEMMA RunMoves ==
    ASSUME TypeInv, [Next]_vars, NEW r \in Runner, Busy(r), Busy(r)'
    PROVE  /\ run'[r].job = run[r].job
           /\ run'[r].leaseEnd = run[r].leaseEnd
           /\ \/ run'[r].period = run[r].period
              \/ UNCHANGED job /\ run'[r].period = job[run[r].job].period
<1>0. run \in [Runner -> Runs]
  BY DEF TypeInv, TypeOK
<1>. DEFINE Goal == /\ run'[r].job = run[r].job
                    /\ run'[r].leaseEnd = run[r].leaseEnd
                    /\ \/ run'[r].period = run[r].period
                       \/ UNCHANGED job /\ run'[r].period = job[run[r].job].period
<1>1. ASSUME NEW w \in Worker, Claim(w)
      PROVE  run'[r] = run[r]
  <2>1. PICK T \in Selections(Cardinality(FreeRunners(w))), G \in SUBSET FreeRunners(w) :
          \E h \in [G -> Claimable(T)] :
              run' = [s \in Runner |-> IF s \in G THEN Taken(h[s]) ELSE run[s]]
    BY <1>1 DEF Claim
  <2>2. r \notin G
    BY DEF FreeRunners
  <2>. QED
    BY <2>1, <2>2
<1>2. ASSUME NEW s \in Runner, RunnerStep(s)
      PROVE  Goal
  <2>1. CASE s # r
    <3>1. run'[r] = run[r]
      BY <1>0, <1>2, <2>1 DEF RunnerStep, ClaimExpress, Start, Undispatchable, Conclude,
                              ReadRow, SaveResult, ReleaseLease, DeferRateLimited, Lose
    <3>. QED
      BY <3>1
  <2>2. CASE s = r
    <3>1. Start(r) \/ Undispatchable(r) \/ Conclude(r) \/ SaveResult(r) => Goal
      BY <1>0 DEF Start, Undispatchable, Conclude, SaveResult, Runs
    <3>2. ReadRow(r) => Goal
      BY <1>0 DEF ReadRow, Idle, Busy, Runs
    <3>3. ~ (ReleaseLease(r) \/ DeferRateLimited(r) \/ Lose(r))
      BY <1>0 DEF ReleaseLease, DeferRateLimited, Lose, Idle, Busy
    <3>4. \A j \in Job : ~ ClaimExpress(r, j)
      BY DEF ClaimExpress
    <3>. QED
      BY <1>2, <2>2, <3>1, <3>2, <3>3, <3>4 DEF RunnerStep
  <2>. QED
    BY <2>1, <2>2
<1>3. ASSUME NEW j \in Job, ApiStep(j)
      PROVE  run' = run
  BY <1>3, ApiKeepsColumns
<1>4. run'[r] = run[r] => Goal
  OBVIOUS
<1>. QED
  BY <1>1, <1>2, <1>3, <1>4 DEF Next, Tick, vars

\* What a step does to a run it starts: it carries the period of its row.
LEMMA RunStarts ==
    ASSUME LeaseInv, [Next]_vars, NEW r \in Runner, ~ Busy(r), Busy(r)'
    PROVE  /\ run'[r].job \in exists
           /\ run'[r].period = job[run'[r].job].period
           /\ run'[r].capture = job[run'[r].job].captureRequested
           /\ run'[r].phase = "claimed"
           /\ Unleased(job[run'[r].job], now)
           /\ job'[run'[r].job] = Leased(job[run'[r].job], Owner(r), now)
           /\ exists' = exists /\ api' = api
<1>0. run \in [Runner -> Runs] /\ exists \subseteq Job /\ job \in [Job -> Row]
  BY DEF LeaseInv, TypeInv, TypeOK
<1>1. ASSUME NEW w \in Worker, Claim(w)
      PROVE  \E j \in exists : /\ run'[r] = Taken(j)
                               /\ Unleased(job[j], now)
                               /\ job'[j] = Leased(job[j], Owner(r), now)
                               /\ exists' = exists /\ api' = api
  <2>1. PICK T \in Selections(Cardinality(FreeRunners(w))), G \in SUBSET FreeRunners(w) :
          \E h \in [G -> Claimable(T)] :
            /\ TakeRows(Claimable(T), w)
            /\ run' = [s \in Runner |-> IF s \in G THEN Taken(h[s]) ELSE run[s]]
    BY <1>1 DEF Claim
  <2>2. PICK h \in [G -> Claimable(T)] :
            /\ TakeRows(Claimable(T), w)
            /\ run' = [s \in Runner |-> IF s \in G THEN Taken(h[s]) ELSE run[s]]
    BY <2>1
  <2>3. r \in G
    BY <2>2 DEF Busy
  <2>4. h[r] \in Claimable(T) /\ run'[r] = Taken(h[r]) /\ Owner(r) = w
    BY <2>2, <2>3 DEF FreeRunners
  <2>5. h[r] \in exists /\ Unleased(job[h[r]], now)
    BY <2>4 DEF Claimable, Selections, Candidates, Selectable
  <2>6. job'[h[r]] = Leased(job[h[r]], w, now)
    BY <1>0, <2>2, <2>4, <2>5 DEF TakeRows
  <2>. QED
    BY <2>2, <2>4, <2>5, <2>6 DEF TakeRows
<1>2. ASSUME NEW s \in Runner, RunnerStep(s)
      PROVE  \E j \in exists : /\ run'[r] = Taken(j)
                               /\ Unleased(job[j], now)
                               /\ job'[j] = Leased(job[j], Owner(r), now)
                               /\ exists' = exists /\ api' = api
  <2>1. s = r
    <3>. SUFFICES ASSUME s # r
                  PROVE  FALSE
      OBVIOUS
    <3>1. run'[r] = run[r]
      BY <1>0, <1>2 DEF RunnerStep, ClaimExpress, Start, Undispatchable, Conclude,
                        ReadRow, SaveResult, ReleaseLease, DeferRateLimited, Lose
    <3>. QED
      BY <3>1 DEF Busy
  <2>2. ~ (Start(r) \/ Undispatchable(r) \/ Conclude(r) \/ ReadRow(r) \/ SaveResult(r)
              \/ ReleaseLease(r) \/ DeferRateLimited(r) \/ Lose(r))
    BY DEF Start, Undispatchable, Conclude, ReadRow, SaveResult, ReleaseLease,
           DeferRateLimited, Lose, Busy
  <2>3. PICK j \in Job : ClaimExpress(r, j)
    BY <1>2, <2>1, <2>2 DEF RunnerStep
  <2>4. run'[r] = Taken(j) /\ j \in exists /\ Unleased(job[j], now)
    BY <1>0, <2>3 DEF ClaimExpress
  <2>. QED
    BY <2>3, <2>4 DEF ClaimExpress, TakeRows
<1>3. ~ (\E j \in Job : ApiStep(j)) /\ run' # run
  BY ApiKeepsColumns DEF LeaseInv, Busy
<1>4. PICK j \in exists : /\ run'[r] = Taken(j)
                          /\ Unleased(job[j], now)
                          /\ job'[j] = Leased(job[j], Owner(r), now)
                          /\ exists' = exists /\ api' = api
  BY <1>1, <1>2, <1>3 DEF Next, Tick, vars
<1>. QED
  BY <1>4 DEF Taken

-----------------------------------------------------------------------------
(* What a step does to one row, and to the requests pending on it.         *)

IsKept(j) ==
    /\ job'[j] = job[j]
    /\ asked'[j] = asked[j]
    /\ api[j].step = "rerun" /\ api'[j].step # "rerun"
           => ~ (j \in exists /\ LeasedAt(job[j], now))

\* A run of the job starts, or ends before its start.
IsBegun(j) ==
    /\ UNCHANGED <<job, api>>
    /\ \E r \in Runner : run[r].phase = "claimed" /\ run[r].job = j
    /\ asked[j] # "waiting"
    /\ asked'[j] = "no"

IsTaken(j) ==
    /\ j \in exists
    /\ Unleased(job[j], now)
    /\ \E w \in Worker : job'[j] = Leased(job[j], w, now)
    /\ asked'[j] = IF asked[j] = "waiting" /\ job'[j].runRequested = NULL
                   THEN "carried" ELSE asked[j]

IsFreed(j) ==
    /\ \E r \in Runner : /\ Busy(r) /\ run[r].job = j /\ Owns(r) /\ ~ Busy(r)'
                         /\ \/ /\ DeferRateLimited(r)
                               /\ asked'[j] = IF asked[j] = "carried" THEN "turnedAway"
                                              ELSE asked[j]
                            \/ /\ run[r].phase = "saved"
                               /\ asked'[j] = asked[j]
    /\ \/ \E t \in Nat, u \in Int : job'[j] = Released(job[j], t, u)
       \/ \E t \in Nat : job'[j] = Deferred(job[j], t)

IsMadeDue(j) ==
    /\ api[j].step = "makeDue"
    /\ Idling(job[j], api[j].at)
    /\ asked'[j] = "waiting"
    /\ job'[j] = MadeDue(job[j], api[j].at)

IsParked(j) ==
    /\ asked'[j] \in {asked[j], "waiting"}
    /\ \E t \in {api[j].at, now} :
           ReleaseComing(job[j], t) /\ job'[j] = Parked(job[j], t)

IsCaptured(j) ==
    /\ asked'[j] = asked[j]
    /\ UNCHANGED api
    /\ job'[j] = CaptureAsked(job[j], now)

IsResynced(j) ==
    /\ j \in Editable
    /\ asked'[j] = "no"
    /\ api'[j].step = "rerun"
    /\ \E period \in Periods, t \in Nat : job'[j] = Resynced(job[j], period, t)

RowMove(j) ==
    \/ IsKept(j)
    \/ IsBegun(j)
    \/ IsTaken(j)
    \/ IsFreed(j)
    \/ IsMadeDue(j)
    \/ IsParked(j)
    \/ IsCaptured(j)
    \/ IsResynced(j)

\* A run starts, or its job is given an error result at the claim or at the tick.
LEMMA BegunMoves ==
    ASSUME TypeInv, NEW r \in Runner, Start(r) \/ Undispatchable(r) \/ Conclude(r),
           NEW j \in Job
    PROVE  IsKept(j) \/ IsBegun(j)
<1>0. asked \in [Job -> Fates] /\ job' = job /\ api' = api
  BY DEF TypeInv, TypeOK, Start, Undispatchable, Conclude
<1>1. asked' = asked \/ (asked' = Begun(r) /\ run[r].phase = "claimed")
  BY DEF Start, Undispatchable, Conclude
<1>2. CASE asked' = Begun(r) /\ run[r].phase = "claimed"
  <2>1. asked'[j] = asked[j] \/ (run[r].job = j /\ asked[j] # "waiting" /\ asked'[j] = "no")
    BY <1>0, <1>2 DEF Begun
  <2>. QED
    BY <1>0, <1>2, <2>1 DEF IsKept, IsBegun
<1>3. CASE asked' = asked
  BY <1>0, <1>3 DEF IsKept
<1>. QED
  BY <1>1, <1>2, <1>3

\* A run ends in a release or a deferral, which the row sees if it owns it.
LEMMA FreedMoves ==
    ASSUME TypeInv, NEW r \in Runner, ReleaseLease(r) \/ DeferRateLimited(r), NEW j \in Job
    PROVE  IsKept(j) \/ IsFreed(j)
<1>0. /\ job \in [Job -> Row] /\ run[r] \in Runs /\ now \in Nat /\ exists \subseteq Job
      /\ Busy(r) /\ run'[r] = Idle
      /\ asked \in [Job -> Fates] /\ api' = api
  BY DEF TypeInv, TypeOK, Time, ReleaseLease, DeferRateLimited, Busy
<1>1. ~ Busy(r)'
  BY <1>0 DEF Idle, Busy
<1>2. CASE ~ (Owns(r) /\ run[r].job = j)
  <2>1. job'[j] = job[j]
    BY <1>0, <1>2 DEF ReleaseLease, DeferRateLimited
  <2>2. asked'[j] = asked[j]
    BY <1>0, <1>2 DEF ReleaseLease, DeferRateLimited
  <2>. QED
    BY <1>0, <2>1, <2>2 DEF IsKept
<1>3. CASE Owns(r) /\ run[r].job = j /\ ReleaseLease(r)
  <2>1. PICK e \in EffOffsets \cup {0} :
          job' = [job EXCEPT ![j] = Released(job[j], run[r].next, run[r].next + e)]
    BY <1>3 DEF ReleaseLease
  <2>2. /\ job'[j] = Released(job[j], run[r].next, run[r].next + e)
        /\ run[r].next \in Nat /\ run[r].next + e \in Int
    <3>e. EffOffsets \cup {0} \subseteq Int
      OBVIOUS
    <3>n. run[r].next \in Nat
      BY <1>0 DEF Runs, Time
    <3>1. e \in Int /\ run[r].next \in Nat
      BY <3>e, <3>n
    <3>2. run[r].next + e \in Int
      BY <3>1
    <3>3. job'[j] = Released(job[j], run[r].next, run[r].next + e)
      BY <1>0, <2>1, Zenon
    <3>. QED
      BY <3>1, <3>2, <3>3
  <2>. QED
    BY <1>0, <1>1, <1>3, <2>2 DEF IsFreed, ReleaseLease
<1>4. CASE Owns(r) /\ run[r].job = j /\ DeferRateLimited(r)
  <2>1. now + run[r].period \in Nat /\ NextAligned(j, run[r].period, now) \in Nat
    <3>1. run[r].period \in Nat \ {0}
      BY <1>0 DEF TypeInv, RunHasJob
    <3>2. NextAligned(j, run[r].period, now) \in Nat
      BY <1>0, <3>1, NextAlignedAhead
    <3>. QED
      BY <1>0, <3>1, <3>2
  <2>2. \E t \in Nat : job'[j] = Deferred(job[j], t)
    BY <1>0, <1>4, <2>1 DEF DeferRateLimited
  <2>3. asked'[j] = IF asked[j] = "carried" THEN "turnedAway" ELSE asked[j]
    BY <1>0, <1>4 DEF DeferRateLimited
  <2>. QED
    BY <1>0, <1>1, <1>4, <2>2, <2>3 DEF IsFreed
<1>. QED
  BY <1>2, <1>3, <1>4

\* The calls of the API.
LEMMA ApiMoves ==
    ASSUME TypeInv, NEW i \in Job, ApiStep(i), NEW j \in Job
    PROVE  RowMove(j)
<1>. USE DEF RowMove
<1>0. /\ job \in [Job -> Row] /\ api \in [Job -> Calls] /\ asked \in [Job -> Fates]
      /\ wanted \in [Job -> TimeOrNull] /\ now \in Nat
  BY DEF TypeInv, TypeOK, Time
<1>1. CASE i # j
  <2>1. job'[j] = job[j] /\ asked'[j] = asked[j] /\ api'[j] = api[j]
    BY <1>0, <1>1 DEF ApiStep, RequestRun, MakeDue, Park, EditPeriod,
                      RerunInFlight, RequestCapture, DeleteJob
  <2>. QED
    BY <2>1 DEF IsKept
<1>2. CASE i = j
  <2>1. CASE RequestRun(j) \/ DeleteJob(j)
    BY <1>0, <2>1 DEF RequestRun, DeleteJob, IsKept, NoCall
  <2>2. CASE MakeDue(j)
    BY <1>0, <2>2 DEF MakeDue, IsKept, IsMadeDue
  <2>3. CASE Park(j)
    BY <1>0, <2>3 DEF Park, IsKept, IsParked
  <2>4. ASSUME NEW period \in Periods, EditPeriod(j, period)
        PROVE  RowMove(j)
    <3>1. NextAligned(j, period, now) \in Nat
      BY <1>0, NextAlignedAhead
    <3>. QED
      BY <1>0, <2>4, <3>1 DEF EditPeriod, IsResynced
  <2>5. CASE RerunInFlight(j)
    BY <1>0, <2>5 DEF RerunInFlight, IsKept, IsParked, ReleaseComing
  <2>6. CASE RequestCapture(j)
    BY <1>0, <2>6 DEF RequestCapture, IsCaptured
  <2>. QED
    BY <1>2, <2>1, <2>2, <2>3, <2>4, <2>5, <2>6 DEF ApiStep
<1>. QED
  BY <1>1, <1>2

\* Every step makes one of these moves on every row.
LEMMA RowMoves ==
    ASSUME TypeInv, [Next]_vars, NEW j \in Job
    PROVE  RowMove(j)
<1>. USE DEF RowMove
<1>0. /\ exists \subseteq Job /\ job \in [Job -> Row] /\ asked \in [Job -> Fates]
  BY DEF TypeInv, TypeOK
<1>1. ASSUME NEW w \in Worker, NEW S \in SUBSET exists, TakeRows(S, w),
             \A i \in S : Unleased(job[i], now)
      PROVE  RowMove(j)
  BY <1>0, <1>1 DEF TakeRows, IsTaken, IsKept
<1>2. ASSUME NEW w \in Worker, Claim(w)
      PROVE  RowMove(j)
  <2>1. PICK T \in Selections(Cardinality(FreeRunners(w))) : TakeRows(Claimable(T), w)
    BY <1>2 DEF Claim
  <2>2. /\ Claimable(T) \in SUBSET exists
        /\ \A i \in Claimable(T) : Unleased(job[i], now)
    BY <1>0 DEF Claimable, Selections, Candidates, Selectable
  <2>. QED
    BY <1>1, <2>1, <2>2
<1>3. ASSUME NEW r \in Runner, NEW i \in Job, ClaimExpress(r, i)
      PROVE  RowMove(j)
  <2>1. /\ Owner(r) \in Worker /\ TakeRows({i}, Owner(r)) /\ Unleased(job[i], now)
        /\ {i} \in SUBSET exists
    BY <1>3 DEF ClaimExpress, Owner
  <2>. QED
    BY <1>1, <2>1
<1>4. UNCHANGED <<job, api, asked>> => RowMove(j)
  BY DEF IsKept
<1>. QED
  BY <1>2, <1>3, <1>4, BegunMoves, FreedMoves, ApiMoves
     DEF Next, RunnerStep, ReadRow, SaveResult, Lose, Tick, vars

\* Time does not run backwards, and a deleted job stays deleted.
LEMMA StepFrame ==
    ASSUME TypeInv, [Next]_vars
    PROVE  /\ exists' \subseteq exists
           /\ \/ now' = now
              \/ now' = now + 1 /\ UNCHANGED <<exists, job, run, api, asked, wanted>>
<1>. USE DEF TakeRows
<1>1. ASSUME NEW w \in Worker, Claim(w)
      PROVE  now' = now /\ exists' = exists
  BY <1>1 DEF Claim
<1>2. ASSUME NEW r \in Runner, RunnerStep(r)
      PROVE  now' = now /\ exists' = exists
  BY <1>2 DEF RunnerStep, ClaimExpress, Start, Undispatchable, Conclude, ReadRow, SaveResult,
              ReleaseLease, DeferRateLimited, Lose
<1>. QED
  BY <1>1, <1>2, ApiKeepsColumns DEF Next, Tick, vars

-----------------------------------------------------------------------------
(* An edit of a running check is followed by a run with the new period.    *)

\* StaleRunReruns is inductive relative to the lease.
LEMMA StaleStep ==
    ASSUME Trustworthy, LeaseInv, StaleRunReruns, [Next]_vars
    PROVE  StaleRunReruns'
<1>0. /\ TypeInv /\ TypeInv' /\ LeaseInv' /\ now \in Nat /\ now' \in Nat
      /\ job \in [Job -> Row] /\ job' \in [Job -> Row]
      /\ exists' \subseteq exists /\ exists \subseteq Job
      /\ now <= now'
  BY LeaseStep, StepFrame DEF LeaseInv, TypeInv, TypeOK, Time
<1>. SUFFICES ASSUME NEW r \in Runner, Live(r)', run'[r].job \in exists',
                     api'[run'[r].job].step # "rerun",
                     run'[r].period # job'[run'[r].job].period
              PROVE  job'[run'[r].job].runRequested # NULL
  BY DEF StaleRunReruns
<1>. DEFINE j == run'[r].job
<1>1. j \in Job /\ j \in exists /\ Busy(r)' /\ now' <= run'[r].leaseEnd
  BY <1>0 DEF Live
<1>2. HeldBy(r, run[r].job)'
  BY <1>0 DEF LeaseInv, LiveIsHeld
<1>3. Busy(r)
  <2>. SUFFICES ASSUME ~ Busy(r)
                PROVE  FALSE
    OBVIOUS
  <2>1. run'[r].period = job[j].period /\ job'[j] = Leased(job[j], Owner(r), now)
    BY <1>1, RunStarts
  <2>2. job'[j].period = job[j].period
    BY <1>0, <1>1, <2>1 DEF Leased, Row
  <2>. QED
    BY <2>1, <2>2
<1>4. run[r].job = j /\ run'[r].leaseEnd = run[r].leaseEnd /\ run'[r].period = run[r].period
  BY <1>0, <1>1, <1>3, RunMoves
<1>5. Live(r) /\ HeldBy(r, j)
  <2>1. run[r].leaseEnd \in Nat
    BY <1>0 DEF TypeInv, TypeOK, Runs, Time
  <2>2. Live(r)
    BY <1>0, <1>1, <1>3, <1>4, <2>1 DEF Live
  <2>. QED
    BY <1>1, <1>4, <2>2 DEF LeaseInv, LiveIsHeld
<1>6. LeasedAt(job[j], now) /\ ~ Unleased(job[j], now)
  <2>1. job[j].leaseExpiresAt = run[r].leaseEnd /\ run[r].leaseEnd \in Nat /\ now <= run[r].leaseEnd
    BY <1>0, <1>5 DEF HeldBy, Live, TypeInv, TypeOK, Runs, Time
  <2>. QED
    BY <1>0, <2>1 DEF LeasedAt, Unleased
<1>7. job[j].period # run[r].period /\ api[j].step # "rerun" => job[j].runRequested # NULL
  BY <1>1, <1>4, <1>5 DEF StaleRunReruns
<1>8. job[j] \in Row /\ api[j].at \in Nat
  BY <1>0, <1>1 DEF TypeInv, TypeOK, Calls, Time
<1>9. CASE IsKept(j) \/ IsBegun(j)
  BY <1>1, <1>4, <1>6, <1>7, <1>9 DEF IsKept, IsBegun
<1>10. CASE IsTaken(j)
  BY <1>6, <1>10 DEF IsTaken
<1>11. CASE IsFreed(j)
  <2>1. job'[j].leaseWorker = NULL
    <3>1. ASSUME NEW t \in Nat, NEW u \in Int, job'[j] = Released(job[j], t, u)
          PROVE  job'[j].leaseWorker = NULL
      BY <1>8, <3>1, ReleasedColumns
    <3>2. ASSUME NEW t \in Nat, job'[j] = Deferred(job[j], t)
          PROVE  job'[j].leaseWorker = NULL
      BY <1>8, <3>2, LeaseColumns
    <3>. QED
      BY <1>11, <3>1, <3>2 DEF IsFreed
  <2>2. Owner(r) \in Worker
    BY DEF Owner
  <2>. QED
    BY <1>2, <2>1, <2>2 DEF HeldBy, Owner
<1>12. CASE IsMadeDue(j)
  BY <1>4, <1>7, <1>8, <1>12 DEF IsMadeDue, MadeDue, Row
<1>13. CASE IsParked(j)
  BY <1>0, <1>8, <1>13 DEF IsParked, Parked, Coalesce, Row
<1>14. CASE IsCaptured(j)
  BY <1>4, <1>7, <1>8, <1>14 DEF IsCaptured, CaptureAsked, Row
<1>15. CASE IsResynced(j)
  BY <1>15 DEF IsResynced
<1>. QED
  BY <1>0, <1>1, <1>9, <1>10, <1>11, <1>12, <1>13, <1>14, <1>15, RowMoves DEF RowMove

\* An edit never leaves a run of the old period without a rerun behind it,
\* in whatever order the two updates of the edit, claims, releases and run
\* requests fall (syncExistingJob, rerunInFlight).
THEOREM StaleRunsRerun ==
    ASSUME Trustworthy
    PROVE  Spec => []StaleRunReruns
<1>1. Init => StaleRunReruns
  BY DEF Init, Idle, StaleRunReruns, Live, Busy
<1>2. LeaseInv /\ StaleRunReruns /\ [Next]_vars => StaleRunReruns'
  BY StaleStep
<1>. QED
  BY <1>1, <1>2, LeaseCorrect, PTL DEF Spec

-----------------------------------------------------------------------------
(* A screenshot that was asked for.                                        *)

\* The run that owns a row carries the capture its lease claimed, and once
\* its result is stored nothing but a newer capture is left to answer.
CaptureCarried ==
    \A r \in Runner :
        LET j == run[r].job IN
        Busy(r) /\ Owns(r) =>
            /\ run[r].capture = job[j].captureClaimed
            /\ run[r].phase = "saved" => wanted[j] \in {NULL, job[j].captureRequested}

\* An unanswered capture is in the row, and a pending one is the newest.
CapturePending ==
    \A j \in Job :
        wanted[j] # NULL =>
            /\ wanted[j] \in {job[j].captureRequested, job[j].captureClaimed}
            /\ job[j].captureRequested # NULL => wanted[j] = job[j].captureRequested

CaptureInv == LeaseInv /\ CaptureCarried /\ CapturePending

\* What a step does to the capture columns of one row and to the newest
\* capture that is not answered.
CaptureColumnsStay(j) ==
    /\ job'[j].captureRequested = job[j].captureRequested
    /\ job'[j].captureClaimed = job[j].captureClaimed
    /\ job'[j].leaseWorker = job[j].leaseWorker

CaptureTaken(j) ==
    /\ Unleased(job[j], now)
    /\ \E w \in Worker : job'[j] = Leased(job[j], w, now)
    /\ wanted'[j] = IF job[j].captureRequested = NULL THEN NULL ELSE wanted[j]

CaptureFreed(j) ==
    /\ wanted'[j] = wanted[j]
    /\ job'[j].leaseWorker = NULL
    /\ job'[j].captureClaimed = NULL
    /\ \/ /\ \E r \in Runner : run[r].phase = "saved" /\ run[r].job = j /\ Owns(r)
          /\ job'[j].captureRequested = job[j].captureRequested
       \/ job'[j].captureRequested = Coalesce(job[j].captureRequested, job[j].captureClaimed)

CaptureNew(j) ==
    /\ job'[j].captureRequested = now
    /\ job'[j].captureClaimed = job[j].captureClaimed
    /\ job'[j].leaseWorker = job[j].leaseWorker
    /\ wanted'[j] = now

CaptureMove(j) ==
    \/ CaptureColumnsStay(j) /\ wanted'[j] \in {wanted[j], NULL}
    \/ CaptureTaken(j)
    \/ CaptureFreed(j)
    \/ CaptureNew(j)

\* Every step makes one of these moves.
LEMMA CaptureMoves ==
    ASSUME TypeInv, [Next]_vars, NEW j \in Job
    PROVE  CaptureMove(j)
<1>. USE DEF CaptureMove
<1>0. /\ exists \subseteq Job /\ job \in [Job -> Row] /\ wanted \in [Job -> TimeOrNull]
      /\ run \in [Runner -> Runs]
  BY DEF TypeInv, TypeOK
<1>1. ASSUME NEW w \in Worker, NEW S \in SUBSET Job, TakeRows(S, w),
             \A i \in S : Unleased(job[i], now)
      PROVE  CaptureMove(j)
  BY <1>0, <1>1 DEF TakeRows, CaptureTaken, CaptureColumnsStay
<1>2. ASSUME NEW w \in Worker, Claim(w)
      PROVE  CaptureMove(j)
  <2>1. PICK T \in Selections(Cardinality(FreeRunners(w))) : TakeRows(Claimable(T), w)
    BY <1>2 DEF Claim
  <2>2. /\ Claimable(T) \in SUBSET Job
        /\ \A i \in Claimable(T) : Unleased(job[i], now)
    BY <1>0 DEF Claimable, Selections, Candidates, Selectable
  <2>. QED
    BY <1>1, <2>1, <2>2
<1>3. ASSUME NEW r \in Runner, NEW i \in Job, ClaimExpress(r, i)
      PROVE  CaptureMove(j)
  <2>1. Owner(r) \in Worker /\ TakeRows({i}, Owner(r)) /\ Unleased(job[i], now)
    BY <1>3 DEF ClaimExpress, Owner
  <2>. QED
    BY <1>1, <2>1
<1>4. ASSUME NEW r \in Runner, SaveResult(r)
      PROVE  CaptureMove(j)
  BY <1>0, <1>4 DEF SaveResult, CaptureColumnsStay
<1>5. ASSUME NEW r \in Runner, ReleaseLease(r)
      PROVE  CaptureMove(j)
  <2>1. wanted' = wanted /\ run[r].phase = "saved"
    BY <1>5 DEF ReleaseLease
  <2>2. CASE Owns(r) /\ run[r].job = j
    <3>1. PICK e : job' = [job EXCEPT ![j] = Released(job[j], run[r].next, run[r].next + e)]
      BY <1>5, <2>2 DEF ReleaseLease
    <3>2. job'[j] = Released(job[j], run[r].next, run[r].next + e)
      BY <1>0, <3>1
    <3>3. /\ job'[j].captureRequested = job[j].captureRequested
          /\ job'[j].captureClaimed = NULL
          /\ job'[j].leaseWorker = NULL
      BY <1>0, <3>2 DEF Released, Row
    <3>. QED
      BY <2>1, <2>2, <3>3 DEF CaptureFreed
  <2>3. CASE ~ (Owns(r) /\ run[r].job = j)
    BY <1>0, <1>5, <2>1, <2>3 DEF ReleaseLease, CaptureColumnsStay
  <2>. QED
    BY <2>2, <2>3
<1>6. ASSUME NEW r \in Runner, DeferRateLimited(r)
      PROVE  CaptureMove(j)
  <2>1. wanted' = wanted
    BY <1>6 DEF DeferRateLimited
  <2>2. CASE Owns(r) /\ run[r].job = j
    <3>1. PICK t : job' = [job EXCEPT ![j] = Deferred(job[j], t)]
      BY <1>6, <2>2 DEF DeferRateLimited
    <3>2. job'[j] = Deferred(job[j], t)
      BY <1>0, <3>1
    <3>3. /\ job'[j].captureRequested = Coalesce(job[j].captureRequested, job[j].captureClaimed)
          /\ job'[j].captureClaimed = NULL
          /\ job'[j].leaseWorker = NULL
      BY <1>0, <3>2 DEF Deferred, Row
    <3>. QED
      BY <2>1, <3>3 DEF CaptureFreed
  <2>3. CASE ~ (Owns(r) /\ run[r].job = j)
    BY <1>0, <1>6, <2>1, <2>3 DEF DeferRateLimited, CaptureColumnsStay
  <2>. QED
    BY <2>2, <2>3
<1>7. ASSUME NEW i \in Job, ApiStep(i), ~ RequestCapture(i)
      PROVE  CaptureMove(j)
  <2>1. wanted' = wanted
    BY <1>7 DEF ApiStep, RequestRun, MakeDue, Park, EditPeriod, RerunInFlight, DeleteJob
  <2>2. \/ job'[j] = job[j]
        \/ \E t, p : job'[j] \in {MadeDue(job[j], t), Parked(job[j], t), Resynced(job[j], p, t)}
    BY <1>0, <1>7 DEF ApiStep, RequestRun, MakeDue, Park, EditPeriod, RerunInFlight, DeleteJob
  <2>3. CaptureColumnsStay(j)
    BY <1>0, <2>2 DEF CaptureColumnsStay, MadeDue, Parked, Resynced, Row
  <2>. QED
    BY <2>1, <2>3
<1>8. ASSUME NEW i \in Job, RequestCapture(i)
      PROVE  CaptureMove(j)
  <2>1. CASE i = j
    <3>1. job'[j] = CaptureAsked(job[j], now) /\ wanted'[j] = now
      BY <1>0, <1>8, <2>1 DEF RequestCapture
    <3>. QED
      BY <1>0, <3>1 DEF CaptureNew, CaptureAsked, Row
  <2>2. CASE i # j
    BY <1>0, <1>8, <2>2 DEF RequestCapture, CaptureColumnsStay
  <2>. QED
    BY <2>1, <2>2
<1>9. UNCHANGED <<job, wanted>> => CaptureMove(j)
  BY DEF CaptureColumnsStay
<1>. QED
  BY <1>2, <1>3, <1>4, <1>5, <1>6, <1>7, <1>8, <1>9
     DEF Next, RunnerStep, Start, Undispatchable, Conclude, ReadRow, Lose, Tick, vars

\* The capture a run carries is the one it was given, or the one it read.
LEMMA RunCarries ==
    ASSUME TypeInv, [Next]_vars, NEW r \in Runner, Busy(r), Busy(r)'
    PROVE  \/ run'[r].capture = run[r].capture
           \/ UNCHANGED job /\ run'[r].capture = job[run[r].job].captureClaimed
<1>0. run \in [Runner -> Runs]
  BY DEF TypeInv, TypeOK
<1>1. ASSUME NEW w \in Worker, Claim(w)
      PROVE  run'[r] = run[r]
  <2>1. PICK T \in Selections(Cardinality(FreeRunners(w))), G \in SUBSET FreeRunners(w) :
          \E h \in [G -> Claimable(T)] :
              run' = [s \in Runner |-> IF s \in G THEN Taken(h[s]) ELSE run[s]]
    BY <1>1 DEF Claim
  <2>2. r \notin G
    BY DEF FreeRunners
  <2>. QED
    BY <2>1, <2>2
<1>2. ASSUME NEW s \in Runner, RunnerStep(s), s # r
      PROVE  run'[r] = run[r]
  BY <1>0, <1>2 DEF RunnerStep, ClaimExpress, Start, Undispatchable, Conclude,
                    ReadRow, SaveResult, ReleaseLease, DeferRateLimited, Lose
<1>3. ASSUME RunnerStep(r)
      PROVE  \/ run'[r].capture = run[r].capture
             \/ UNCHANGED job /\ run'[r].capture = job[run[r].job].captureClaimed
  <2>1. Start(r) \/ Undispatchable(r) \/ Conclude(r) \/ SaveResult(r)
            => run'[r].capture = run[r].capture
    BY <1>0 DEF Start, Undispatchable, Conclude, SaveResult, Runs
  <2>2. ReadRow(r) => UNCHANGED job /\ run'[r].capture = job[run[r].job].captureClaimed
    BY <1>0 DEF ReadRow, Idle, Busy, Runs
  <2>3. ~ (ReleaseLease(r) \/ DeferRateLimited(r) \/ Lose(r))
    BY <1>0 DEF ReleaseLease, DeferRateLimited, Lose, Idle, Busy
  <2>4. \A j \in Job : ~ ClaimExpress(r, j)
    BY DEF ClaimExpress
  <2>. QED
    BY <1>3, <2>1, <2>2, <2>3, <2>4 DEF RunnerStep
<1>. QED
  BY <1>1, <1>2, <1>3, ApiKeepsColumns DEF Next, Tick, vars

\* Every step keeps CaptureInv.
LEMMA CaptureStep ==
    ASSUME Trustworthy, CaptureInv, [Next]_vars
    PROVE  CaptureInv'
<1>0. /\ LeaseInv /\ LeaseInv' /\ TypeInv /\ TypeInv'
      /\ job \in [Job -> Row] /\ job' \in [Job -> Row]
      /\ exists' \subseteq exists /\ exists \subseteq Job /\ now \in Nat
  BY LeaseStep, StepFrame DEF CaptureInv, LeaseInv, TypeInv, TypeOK, Time
<1>1. CapturePending'
  <2>. SUFFICES ASSUME NEW j \in Job, wanted'[j] # NULL
                PROVE  /\ wanted'[j] \in {job'[j].captureRequested, job'[j].captureClaimed}
                       /\ job'[j].captureRequested # NULL
                              => wanted'[j] = job'[j].captureRequested
    BY DEF CapturePending
  <2>0. job[j] \in Row
    BY <1>0
  <2>1. wanted[j] # NULL =>
            /\ wanted[j] \in {job[j].captureRequested, job[j].captureClaimed}
            /\ job[j].captureRequested # NULL => wanted[j] = job[j].captureRequested
    BY DEF CaptureInv, CapturePending
  <2>2. CASE CaptureColumnsStay(j) /\ wanted'[j] \in {wanted[j], NULL}
    BY <2>1, <2>2 DEF CaptureColumnsStay
  <2>3. CASE CaptureTaken(j)
    BY <2>0, <2>1, <2>3 DEF CaptureTaken, Leased, Row
  <2>4. CASE CaptureFreed(j)
    <3>1. CASE \E r \in Runner : run[r].phase = "saved" /\ run[r].job = j /\ Owns(r)
      <4>1. wanted[j] \in {NULL, job[j].captureRequested}
        BY <3>1 DEF CaptureInv, CaptureCarried, Busy
      <4>. QED
        BY <2>1, <2>4, <4>1 DEF CaptureFreed, Coalesce
    <3>2. CASE job'[j].captureRequested = Coalesce(job[j].captureRequested, job[j].captureClaimed)
      BY <2>1, <2>4, <3>2 DEF CaptureFreed, Coalesce
    <3>. QED
      BY <2>4, <3>1, <3>2 DEF CaptureFreed
  <2>5. CASE CaptureNew(j)
    BY <2>5 DEF CaptureNew
  <2>. QED
    BY <1>0, <2>2, <2>3, <2>4, <2>5, CaptureMoves DEF CaptureMove
<1>2. CaptureCarried'
  <2>. SUFFICES ASSUME NEW r \in Runner, Busy(r)', Owns(r)'
                PROVE  LET j == run'[r].job IN
                       /\ run'[r].capture = job'[j].captureClaimed
                       /\ run'[r].phase = "saved"
                              => wanted'[j] \in {NULL, job'[j].captureRequested}
    BY DEF CaptureCarried
  <2>1. run'[r].job \in exists /\ run'[r].job \in Job
    BY <1>0 DEF Owns
  <2>2. CASE ~ Busy(r)
    <3>1. /\ run'[r].capture = job[run'[r].job].captureRequested
          /\ run'[r].phase = "claimed"
          /\ job'[run'[r].job] = Leased(job[run'[r].job], Owner(r), now)
      BY <1>0, <2>2, RunStarts
    <3>. QED
      BY <1>0, <2>1, <3>1 DEF Leased, Row
  <2>3. CASE Busy(r)
    <3>. DEFINE k == run[r].job
    <3>0. /\ run'[r].job = k /\ k \in Job /\ k \in exists
          /\ run'[r].leaseEnd = run[r].leaseEnd
          /\ job[k] \in Row
      BY <1>0, <2>1, <2>3, RunMoves
    <3>1. job'[k].leaseWorker = Owner(r)
      BY <3>0 DEF Owns, Owner
    <3>2. CASE CaptureColumnsStay(k) /\ wanted'[k] \in {wanted[k], NULL}
      <4>1. /\ run[r].capture = job[k].captureClaimed
            /\ run[r].phase = "saved" => wanted[k] \in {NULL, job[k].captureRequested}
        BY <2>3, <3>0, <3>1, <3>2 DEF CaptureInv, CaptureCarried, CaptureColumnsStay, Owns
      <4>2. run'[r].capture = job'[k].captureClaimed
        BY <1>0, <2>3, <3>2, <4>1, RunCarries DEF CaptureColumnsStay
      <4>3. ASSUME run[r].phase # "saved", run'[r].phase = "saved"
            PROVE  wanted'[k] \in {NULL, job'[k].captureRequested}
        <5>1. SaveResult(r)
          BY <1>0, <4>3, OnlySaveSaves
        <5>2. wanted'[k] = IF wanted[k] = job[k].captureClaimed THEN NULL ELSE wanted[k]
          BY <1>0, <3>0, <4>1, <5>1 DEF SaveResult, TypeInv, TypeOK
        <5>3. wanted[k] # NULL => wanted[k] \in {job[k].captureRequested, job[k].captureClaimed}
          BY <3>0 DEF CaptureInv, CapturePending
        <5>. QED
          BY <3>2, <5>2, <5>3 DEF CaptureColumnsStay
      <4>. QED
        BY <3>0, <3>2, <4>1, <4>2, <4>3 DEF CaptureColumnsStay
    <3>3. CASE CaptureTaken(k)
      <4>1. ~ Live(r)
        BY <1>0, <2>3, <3>0, <3>3, NoRunOnUnleased DEF CaptureTaken
      <4>2. job'[k].leaseExpiresAt = LeaseEnd(job[k], now)
        BY <3>0, <3>3 DEF CaptureTaken, Leased, Row
      <4>3. job'[k].leaseExpiresAt = run[r].leaseEnd
        BY <1>0, <3>0 DEF LeaseInv, OwnedIsHeld, HeldBy
      <4>4. LeaseEnd(job[k], now) >= now
        BY <1>0, <3>0, LeaseEndAhead
      <4>. QED
        BY <2>3, <4>1, <4>2, <4>3, <4>4 DEF Live
    <3>4. CASE CaptureFreed(k)
      BY <3>1, <3>4 DEF CaptureFreed, Owner
    <3>5. CASE CaptureNew(k)
      <4>1. run[r].capture = job[k].captureClaimed
        BY <2>3, <3>0, <3>1, <3>5 DEF CaptureInv, CaptureCarried, CaptureNew, Owns
      <4>2. run'[r].capture = job'[k].captureClaimed
        BY <1>0, <2>3, <3>5, <4>1, RunCarries DEF CaptureNew
      <4>. QED
        BY <3>0, <3>5, <4>2 DEF CaptureNew
    <3>. QED
      BY <1>0, <3>0, <3>2, <3>3, <3>4, <3>5, CaptureMoves DEF CaptureMove
  <2>. QED
    BY <2>2, <2>3
<1>. QED
  BY <1>0, <1>1, <1>2 DEF CaptureInv

\* No screenshot that was asked for is forgotten: not by a deferral, not by a
\* release that falls between two requests, not by a second claim of the row
\* (RequestCheckCapture, DeferLeaseRateLimited, updateSingleJobLease).
THEOREM CapturesKept ==
    ASSUME Trustworthy
    PROVE  Spec => []CaptureKept
<1>1. Init => CaptureInv
  <2>. SUFFICES ASSUME Init
                PROVE  CaptureCarried /\ CapturePending
    BY LeaseInit DEF CaptureInv
  <2>. QED
    BY DEF Init, Idle, Busy, CaptureCarried, CapturePending
<1>2. CaptureInv /\ [Next]_vars => CaptureInv'
  BY CaptureStep
<1>3. CaptureInv => CaptureKept
  BY DEF CaptureInv, CapturePending, CaptureKept, LeaseInv, TypeInv, TypeOK
<1>. QED
  BY <1>1, <1>2, <1>3, PTL DEF Spec

-----------------------------------------------------------------------------
(* A run that was asked for.                                               *)

InPast(t) == t # NULL => t <= now

\* Whatever is requested was requested before now, and so is due.
RequestsInPast ==
    \A j \in Job :
        /\ InPast(job[j].captureRequested)
        /\ InPast(job[j].captureClaimed)
        /\ InPast(job[j].runRequested)
        /\ InPast(api[j].at)

\* A claim is made for a tick the lease covers, so a job whose lease runs out
\* is due.
DueBeforeLapse ==
    \A j \in Job \ Editable :
        job[j].leaseExpiresAt # NULL =>
            job[j].scheduledAt <= job[j].leaseExpiresAt \/ Due(job[j], now)

\* A request that waits for a claim is why the job is due and free, or is
\* parked in its row; one that a claim took has its lease, or the job is due.
OwedInRow ==
    \A j \in Job \ Editable :
        /\ asked[j] = "waiting" =>
               \/ job[j].runRequested # NULL
               \/ Due(job[j], now) /\ Unleased(job[j], now)
        /\ asked[j] = "carried" => job[j].leaseExpiresAt # NULL \/ Due(job[j], now)

\* No run gets past its start with a request still carried by its claim, so a
\* release never meets one.
CarriedNotBegun ==
    \A r \in Runner :
        Busy(r) /\ asked[run[r].job] = "carried" => run[r].phase = "claimed"

HonoredInv ==
    /\ LeaseInv
    /\ ParkedInv
    /\ RequestsInPast
    /\ DueBeforeLapse
    /\ CarriedNotBegun
    /\ OwedInRow

\* The times in the rows and calls are natural numbers or NULL.
LEMMA RowTimes ==
    ASSUME TypeInv, NEW j \in Job
    PROVE  /\ now \in Nat
           /\ job[j] \in Row
           /\ job[j].scheduledAt \in Nat
           /\ job[j].captureRequested \in Nat \cup {NULL}
           /\ job[j].captureClaimed \in Nat \cup {NULL}
           /\ job[j].runRequested \in Nat \cup {NULL}
           /\ job[j].leaseExpiresAt \in Nat \cup {NULL}
           /\ api[j].at \in Nat
<1>1. /\ now \in Nat /\ job[j] \in Row /\ api[j] \in Calls
  BY DEF TypeInv, TypeOK, Time
<1>. QED
  BY <1>1 DEF Row, Calls, TimeOrNull, Time

\* A call is made with the time it starts at.
LEMMA CallsStart ==
    ASSUME TypeInv, [Next]_vars, NEW j \in Job
    PROVE  api'[j].at \in {api[j].at, now, 0}
<1>0. api \in [Job -> Calls]
  BY DEF TypeInv, TypeOK
<1>1. ASSUME NEW i \in Job, ApiStep(i)
      PROVE  api'[j].at \in {api[j].at, now, 0}
  <2>1. CASE i # j
    BY <1>0, <1>1, <2>1 DEF ApiStep, RequestRun, MakeDue, Park, EditPeriod,
                            RerunInFlight, RequestCapture, DeleteJob
  <2>2. CASE i = j
    <3>1. RequestRun(j) \/ RequestCapture(j) \/ DeleteJob(j) => api'[j].at \in {api[j].at, now}
      BY <1>0 DEF RequestRun, RequestCapture, DeleteJob
    <3>2. MakeDue(j) \/ RerunInFlight(j) => api'[j].at \in {api[j].at, 0}
      BY <1>0 DEF MakeDue, RerunInFlight, NoCall, Calls
    <3>3. Park(j) => api'[j].at \in {api[j].at, 0}
      <4>1. Park(j) => api'[j] \in {NoCall, Retried(api[j])}
        BY <1>0 DEF Park
      <4>2. Retried(api[j]).at = api[j].at /\ NoCall.at = 0
        BY <1>0 DEF Retried, NoCall, Calls
      <4>. QED
        BY <4>1, <4>2
    <3>4. \A period \in Periods : EditPeriod(j, period) => api'[j].at = now
      BY <1>0 DEF EditPeriod
    <3>. QED
      BY <1>1, <2>2, <3>1, <3>2, <3>3, <3>4 DEF ApiStep
  <2>. QED
    BY <2>1, <2>2
<1>2. UNCHANGED api => api'[j].at \in {api[j].at, now, 0}
  OBVIOUS
<1>. QED
  BY <1>1, <1>2 DEF Next, RunnerStep, Claim, ClaimExpress, TakeRows, Start, Undispatchable,
                    Conclude, ReadRow, SaveResult, ReleaseLease, DeferRateLimited, Lose, Tick, vars

\* A run that a release ends holds a lease that is still in force.
LEMMA FreedWhileLeased ==
    ASSUME Punctual, LeaseInv, NEW j \in Job, IsFreed(j)
    PROVE  LeasedAt(job[j], now) /\ ~ Unleased(job[j], now)
<1>1. PICK r \in Runner : Busy(r) /\ run[r].job = j /\ Owns(r)
  BY DEF IsFreed
<1>2. HeldBy(r, j) /\ now <= run[r].leaseEnd
  BY <1>1 DEF LeaseInv, OwnedIsHeld, RunsArePunctual
<1>3. run[r].leaseEnd \in Nat /\ now \in Nat
  BY DEF LeaseInv, TypeInv, TypeOK, Runs, Time
<1>. QED
  BY <1>2, <1>3 DEF HeldBy, LeasedAt, Unleased

\* What each move leaves in the columns the promise is about.
LEMMA MoveColumns ==
    ASSUME NEW row \in Row, NEW t, NEW u, NEW w
    PROVE  /\ Leased(row, w, t).scheduledAt = row.scheduledAt
           /\ Leased(row, w, t).leaseExpiresAt = LeaseEnd(row, t)
           /\ Leased(row, w, t).runRequested = IF row.stepRun THEN row.runRequested ELSE NULL
           /\ Leased(row, w, t).captureRequested = NULL
           /\ Leased(row, w, t).captureClaimed = row.captureRequested
           /\ Released(row, t, u).scheduledAt = PendingRequestOr(row, t)
           /\ Released(row, t, u).runRequested = NULL
           /\ Released(row, t, u).captureRequested = row.captureRequested
           /\ Released(row, t, u).captureClaimed = NULL
           /\ Deferred(row, t).scheduledAt = Coalesce(row.runRequested, t)
           /\ Deferred(row, t).runRequested = NULL
           /\ Deferred(row, t).captureRequested = Coalesce(row.captureRequested, row.captureClaimed)
           /\ Deferred(row, t).captureClaimed = NULL
           /\ MadeDue(row, t).scheduledAt = t
           /\ MadeDue(row, t).runRequested = row.runRequested
           /\ MadeDue(row, t).captureRequested = row.captureRequested
           /\ MadeDue(row, t).captureClaimed = row.captureClaimed
           /\ Parked(row, t).scheduledAt = row.scheduledAt
           /\ Parked(row, t).runRequested = Coalesce(row.runRequested, t)
           /\ Parked(row, t).captureRequested = row.captureRequested
           /\ Parked(row, t).captureClaimed = row.captureClaimed
           /\ CaptureAsked(row, t).scheduledAt = t
           /\ CaptureAsked(row, t).runRequested = row.runRequested
           /\ CaptureAsked(row, t).captureRequested = t
           /\ CaptureAsked(row, t).captureClaimed = row.captureClaimed
           /\ Resynced(row, u, t).runRequested = row.runRequested
           /\ Resynced(row, u, t).captureRequested = row.captureRequested
           /\ Resynced(row, u, t).captureClaimed = row.captureClaimed
<1>1. /\ Leased(row, w, t).scheduledAt = row.scheduledAt
      /\ Leased(row, w, t).leaseExpiresAt = LeaseEnd(row, t)
      /\ Leased(row, w, t).runRequested = IF row.stepRun THEN row.runRequested ELSE NULL
      /\ Leased(row, w, t).captureRequested = NULL
      /\ Leased(row, w, t).captureClaimed = row.captureRequested
  BY DEF Leased, Row
<1>2. /\ Released(row, t, u).scheduledAt = PendingRequestOr(row, t)
      /\ Released(row, t, u).runRequested = NULL
      /\ Released(row, t, u).captureRequested = row.captureRequested
      /\ Released(row, t, u).captureClaimed = NULL
  BY DEF Released, Row
<1>3. /\ Deferred(row, t).scheduledAt = Coalesce(row.runRequested, t)
      /\ Deferred(row, t).runRequested = NULL
      /\ Deferred(row, t).captureRequested = Coalesce(row.captureRequested, row.captureClaimed)
      /\ Deferred(row, t).captureClaimed = NULL
  BY DEF Deferred, Row
<1>4. /\ MadeDue(row, t).scheduledAt = t
      /\ MadeDue(row, t).runRequested = row.runRequested
      /\ MadeDue(row, t).captureRequested = row.captureRequested
      /\ MadeDue(row, t).captureClaimed = row.captureClaimed
  BY DEF MadeDue, Row
<1>5. /\ Parked(row, t).scheduledAt = row.scheduledAt
      /\ Parked(row, t).runRequested = Coalesce(row.runRequested, t)
      /\ Parked(row, t).captureRequested = row.captureRequested
      /\ Parked(row, t).captureClaimed = row.captureClaimed
  BY DEF Parked, Row
<1>6. /\ CaptureAsked(row, t).scheduledAt = t
      /\ CaptureAsked(row, t).runRequested = row.runRequested
      /\ CaptureAsked(row, t).captureRequested = t
      /\ CaptureAsked(row, t).captureClaimed = row.captureClaimed
  BY DEF CaptureAsked, Row
<1>7. /\ Resynced(row, u, t).runRequested = row.runRequested
      /\ Resynced(row, u, t).captureRequested = row.captureRequested
      /\ Resynced(row, u, t).captureClaimed = row.captureClaimed
  BY DEF Resynced, Row
<1>. QED
  BY <1>1, <1>2, <1>3, <1>4, <1>5, <1>6, <1>7

LEMMA FreedSchedule ==
    ASSUME NEW row \in Row, NEW t, NEW u
    PROVE  /\ Released(row, t, u).scheduledAt = PendingRequestOr(row, t)
           /\ Deferred(row, t).scheduledAt = Coalesce(row.runRequested, t)
BY MoveColumns

\* Requests stay in the past.
LEMMA RequestsStep ==
    ASSUME TypeInv, RequestsInPast, [Next]_vars
    PROVE  RequestsInPast'
<1>. SUFFICES ASSUME NEW j \in Job
              PROVE  /\ InPast(job[j].captureRequested)'
                     /\ InPast(job[j].captureClaimed)'
                     /\ InPast(job[j].runRequested)'
                     /\ InPast(api[j].at)'
  BY DEF RequestsInPast
<1>1. /\ job[j] \in Row /\ now \in Nat /\ api[j].at \in Nat
      /\ job[j].captureRequested \in Nat \cup {NULL}
      /\ job[j].captureClaimed \in Nat \cup {NULL}
      /\ job[j].runRequested \in Nat \cup {NULL}
  BY RowTimes
<1>2. now' \in Nat /\ now <= now'
  BY <1>1, StepFrame
<1>3. /\ InPast(job[j].captureRequested)
      /\ InPast(job[j].captureClaimed)
      /\ InPast(job[j].runRequested)
      /\ api[j].at <= now
  BY <1>1 DEF RequestsInPast, InPast
<1>4. InPast(api[j].at)'
  BY <1>1, <1>2, <1>3, CallsStart DEF InPast
<1>. DEFINE Times == {job[j].captureRequested, job[j].captureClaimed, job[j].runRequested,
                      api[j].at, now, NULL}
<1>5. \A t \in Times : InPast(t)'
  BY <1>1, <1>2, <1>3 DEF InPast
<1>6. /\ job'[j].captureRequested \in Times
      /\ job'[j].captureClaimed \in Times
      /\ job'[j].runRequested \in Times
  <2>1. CASE IsKept(j) \/ IsBegun(j)
    BY <2>1 DEF IsKept, IsBegun
  <2>2. CASE IsTaken(j)
    BY <1>1, <2>2, MoveColumns DEF IsTaken
  <2>3. CASE IsFreed(j)
    BY <1>1, <2>3, MoveColumns DEF IsFreed, Coalesce
  <2>4. CASE IsMadeDue(j)
    BY <1>1, <2>4, MoveColumns DEF IsMadeDue
  <2>5. CASE IsParked(j)
    BY <1>1, <2>5, MoveColumns DEF IsParked, Coalesce
  <2>6. CASE IsCaptured(j)
    BY <1>1, <2>6, MoveColumns DEF IsCaptured
  <2>7. CASE IsResynced(j)
    BY <1>1, <2>7, MoveColumns DEF IsResynced
  <2>. QED
    BY <2>1, <2>2, <2>3, <2>4, <2>5, <2>6, <2>7, RowMoves DEF RowMove
<1>. QED
  BY <1>4, <1>5, <1>6 DEF InPast

\* What a step does to a run that has not started.
LEMMA ClaimedRun ==
    ASSUME TypeInv, [Next]_vars, NEW r \in Runner, run[r].phase = "claimed", Busy(r)'
    PROVE  \/ run'[r].phase = "claimed"
           \/ asked'[run[r].job] # "carried"
<1>0. run \in [Runner -> Runs] /\ asked \in [Job -> Fates] /\ run[r].job \in Job /\ Busy(r)
  BY DEF TypeInv, TypeOK, RunHasJob, Busy
<1>1. ASSUME NEW w \in Worker, Claim(w)
      PROVE  run'[r] = run[r]
  <2>1. PICK T \in Selections(Cardinality(FreeRunners(w))), G \in SUBSET FreeRunners(w) :
          \E h \in [G -> Claimable(T)] :
              run' = [s \in Runner |-> IF s \in G THEN Taken(h[s]) ELSE run[s]]
    BY <1>1 DEF Claim
  <2>2. r \notin G
    BY <1>0 DEF FreeRunners
  <2>. QED
    BY <2>1, <2>2
<1>2. ASSUME NEW s \in Runner, RunnerStep(s), s # r
      PROVE  run'[r] = run[r]
  BY <1>0, <1>2 DEF RunnerStep, ClaimExpress, Start, Undispatchable, Conclude,
                    ReadRow, SaveResult, ReleaseLease, DeferRateLimited, Lose
<1>3. ASSUME RunnerStep(r)
      PROVE  asked'[run[r].job] # "carried"
  <2>1. Start(r) \/ Undispatchable(r) \/ Conclude(r) => asked' = Begun(r)
    BY DEF Start, Undispatchable, Conclude
  <2>2. Begun(r)[run[r].job] # "carried"
    BY <1>0 DEF Begun
  <2>3. ~ (ReadRow(r) \/ SaveResult(r) \/ ReleaseLease(r) \/ DeferRateLimited(r) \/ Lose(r))
    BY <1>0 DEF ReadRow, SaveResult, ReleaseLease, DeferRateLimited, Lose, Idle, Busy
  <2>4. \A j \in Job : ~ ClaimExpress(r, j)
    BY <1>0 DEF ClaimExpress
  <2>. QED
    BY <1>3, <2>1, <2>2, <2>3, <2>4 DEF RunnerStep
<1>4. ASSUME NEW j \in Job, ApiStep(j)
      PROVE  run' = run
  BY <1>4, ApiKeepsColumns
<1>. QED
  BY <1>1, <1>2, <1>3, <1>4 DEF Next, Tick, vars

\* CarriedNotBegun is inductive relative to the lease: the row of a run that
\* has started is leased, so no claim can put a request on it.
LEMMA CarriedStep ==
    ASSUME Punctual, LeaseInv, CarriedNotBegun, [Next]_vars
    PROVE  CarriedNotBegun'
<1>. SUFFICES ASSUME NEW r \in Runner, Busy(r)', asked'[run'[r].job] = "carried"
              PROVE  run'[r].phase = "claimed"
  BY DEF CarriedNotBegun
<1>0. TypeInv
  BY DEF LeaseInv
<1>1. CASE ~ Busy(r)
  BY <1>1, RunStarts
<1>2. CASE Busy(r)
  <2>. DEFINE j == run[r].job
  <2>1. run'[r].job = j /\ j \in Job
    BY <1>0, <1>2, RunMoves DEF TypeInv, RunHasJob
  <2>2. ~ IsTaken(j)
    BY <1>2, NoRunOnUnleased DEF IsTaken
  <2>3. asked[j] = "carried"
    BY <1>0, <2>1, <2>2, RowMoves
       DEF RowMove, IsKept, IsBegun, IsFreed, IsMadeDue, IsParked, IsCaptured, IsResynced
  <2>4. run[r].phase = "claimed"
    BY <1>2, <2>3 DEF CarriedNotBegun
  <2>. QED
    BY <1>0, <2>1, <2>4, ClaimedRun
<1>. QED
  BY <1>1, <1>2

\* A row is never freed with the request still carried by the claim: the run
\* has started, or the deferral has turned the request away.
LEMMA NoReleaseOfCarried ==
    ASSUME CarriedNotBegun, NEW j \in Job, IsFreed(j)
    PROVE  asked'[j] # "carried"
<1>1. PICK r \in Runner : /\ Busy(r) /\ run[r].job = j
                          /\ \/ asked'[j] = IF asked[j] = "carried" THEN "turnedAway"
                                            ELSE asked[j]
                             \/ run[r].phase = "saved" /\ asked'[j] = asked[j]
  BY DEF IsFreed
<1>. QED
  BY <1>1 DEF CarriedNotBegun

\* The row of a job whose schedule nobody edits keeps its promise through
\* every step.
LEMMA HonoredRow ==
    ASSUME Punctual, HonoredInv, [Next]_vars, NEW j \in Job \ Editable
    PROVE  /\ job'[j].leaseExpiresAt # NULL =>
                  job'[j].scheduledAt <= job'[j].leaseExpiresAt \/ Due(job'[j], now')
           /\ asked'[j] = "waiting" =>
                  \/ job'[j].runRequested # NULL
                  \/ Due(job'[j], now') /\ Unleased(job'[j], now')
           /\ asked'[j] = "carried" => job'[j].leaseExpiresAt # NULL \/ Due(job'[j], now')
<1>. USE DEF Due
<1>0. TypeInv
  BY DEF HonoredInv, LeaseInv
<1>1. /\ job[j] \in Row /\ now \in Nat /\ api[j].at \in Nat
      /\ job[j].scheduledAt \in Nat
      /\ job[j].captureRequested \in Nat \cup {NULL}
      /\ job[j].captureClaimed \in Nat \cup {NULL}
      /\ job[j].runRequested \in Nat \cup {NULL}
      /\ job[j].leaseExpiresAt \in Nat \cup {NULL}
  BY <1>0, RowTimes
<1>2. /\ job[j].leaseExpiresAt # NULL =>
             job[j].scheduledAt <= job[j].leaseExpiresAt \/ job[j].scheduledAt <= now
      /\ asked[j] = "waiting" =>
             \/ job[j].runRequested # NULL
             \/ job[j].scheduledAt <= now /\ Unleased(job[j], now)
      /\ asked[j] = "carried" => job[j].leaseExpiresAt # NULL \/ job[j].scheduledAt <= now
  BY DEF HonoredInv, DueBeforeLapse, OwedInRow
<1>3. /\ job[j].captureRequested # NULL => job[j].captureRequested <= now
      /\ job[j].runRequested # NULL => job[j].runRequested <= now
      /\ api[j].at <= now
  BY <1>1 DEF HonoredInv, RequestsInPast, InPast
<1>4. now' \in Nat /\ now <= now' /\ (now' = now \/ UNCHANGED <<job, asked>>)
  BY <1>0, <1>1, StepFrame
<1>5. CASE IsKept(j) \/ IsBegun(j)
  <2>1. job'[j] = job[j] /\ asked'[j] \in {asked[j], "no"}
    BY <1>5 DEF IsKept, IsBegun
  <2>. QED
    BY <1>1, <1>2, <1>4, <2>1 DEF Unleased
<1>6. CASE IsTaken(j) /\ now' = now
  <2>1. PICK w \in Worker : job'[j] = Leased(job[j], w, now)
    BY <1>6 DEF IsTaken
  <2>2. job'[j].scheduledAt = job[j].scheduledAt /\ job'[j].leaseExpiresAt = LeaseEnd(job[j], now)
    BY <1>1, <2>1, MoveColumns
  <2>3. job[j].period \in Nat
    BY <1>1 DEF Row
  <2>4. job[j].scheduledAt <= LeaseEnd(job[j], now)
    BY <1>1, <2>3 DEF LeaseEnd, Later
  <2>5. LeaseEnd(job[j], now) # NULL
    BY <1>1, LeaseEndAhead
  <2>6. asked'[j] = "waiting" => job'[j].runRequested # NULL
    BY <1>6 DEF IsTaken
  <2>. QED
    BY <2>2, <2>4, <2>5, <2>6
<1>7. CASE IsFreed(j) /\ now' = now
  <2>1. ~ Unleased(job[j], now)
    BY <1>7, FreedWhileLeased DEF HonoredInv
  <2>2. job'[j].leaseExpiresAt = NULL
    BY <1>1, <1>7, ReleasedColumns, LeaseColumns DEF IsFreed
  <2>3. asked'[j] = "waiting" => job[j].runRequested # NULL
    BY <1>2, <1>7, <2>1 DEF IsFreed
  <2>5. asked'[j] # "carried"
    BY <1>7, NoReleaseOfCarried DEF HonoredInv
  <2>4. asked'[j] = "waiting" => job'[j].scheduledAt <= now
    <3>. SUFFICES ASSUME asked'[j] = "waiting"
                  PROVE  job'[j].scheduledAt <= now
      OBVIOUS
    <3>1. ASSUME NEW t \in Nat, NEW u \in Int, job'[j] = Released(job[j], t, u)
          PROVE  job'[j].scheduledAt \in {job[j].captureRequested, job[j].runRequested} \ {NULL}
      BY <1>1, <2>3, <3>1, FreedSchedule DEF PendingRequestOr, Coalesce3, Coalesce
    <3>2. ASSUME NEW t \in Nat, job'[j] = Deferred(job[j], t)
          PROVE  job'[j].scheduledAt = job[j].runRequested /\ job[j].runRequested # NULL
      BY <1>1, <2>3, <3>2, FreedSchedule DEF Coalesce
    <3>3. job'[j].scheduledAt \in {job[j].captureRequested, job[j].runRequested} \ {NULL}
      BY <1>7, <3>1, <3>2 DEF IsFreed
    <3>. QED
      BY <1>3, <3>3
  <2>. QED
    BY <1>7, <2>2, <2>4, <2>5 DEF Unleased
<1>8. CASE IsMadeDue(j) /\ now' = now
  <2>1. job'[j].scheduledAt = api[j].at /\ job'[j].leaseExpiresAt = job[j].leaseExpiresAt
    <3>1. job'[j] = MadeDue(job[j], api[j].at)
      BY <1>8 DEF IsMadeDue
    <3>2. job'[j].scheduledAt = api[j].at
      BY <1>1, <3>1, MoveColumns
    <3>3. job'[j].leaseExpiresAt = job[j].leaseExpiresAt
      BY <1>1, <3>1, LeaseColumns
    <3>. QED
      BY <3>2, <3>3
  <2>2. Unleased(job[j], api[j].at)
    BY <1>8 DEF IsMadeDue, Idling
  <2>3. asked'[j] = "waiting"
    BY <1>8 DEF IsMadeDue
  <2>. QED
    BY <1>1, <1>3, <1>8, <2>1, <2>2, <2>3 DEF Unleased
<1>9. CASE IsParked(j) /\ now' = now
  <2>1. PICK t \in {api[j].at, now} : job'[j] = Parked(job[j], t)
    BY <1>9 DEF IsParked
  <2>2. /\ job'[j].scheduledAt = job[j].scheduledAt
        /\ job'[j].leaseExpiresAt = job[j].leaseExpiresAt
        /\ job'[j].runRequested = Coalesce(job[j].runRequested, t)
    BY <1>1, <2>1 DEF Parked, Row
  <2>3. t # NULL
    BY <1>1
  <2>. QED
    BY <1>2, <1>9, <2>2, <2>3 DEF Coalesce, IsParked
<1>10. CASE IsCaptured(j) /\ now' = now
  <2>1. /\ job'[j].scheduledAt = now
        /\ job'[j].leaseExpiresAt = job[j].leaseExpiresAt
        /\ job'[j].runRequested = job[j].runRequested
        /\ asked'[j] = asked[j]
    BY <1>1, <1>10, MoveColumns, LeaseColumns DEF IsCaptured
  <2>. QED
    BY <1>1, <1>2, <1>10, <2>1 DEF Unleased
<1>11. CASE IsResynced(j)
  BY <1>11 DEF IsResynced
<1>12. CASE UNCHANGED <<job, asked>>
  BY <1>1, <1>2, <1>4, <1>12 DEF Unleased
<1>. QED
  BY <1>0, <1>4, <1>5, <1>6, <1>7, <1>8, <1>9, <1>10, <1>11, <1>12, RowMoves DEF RowMove

\* HonoredInv is inductive.
LEMMA HonoredStep ==
    ASSUME Punctual, HonoredInv, [Next]_vars
    PROVE  HonoredInv'
<1>1. Trustworthy /\ TypeInv
  BY DEF Trustworthy, HonoredInv, LeaseInv
<1>2. LeaseInv' /\ ParkedInv' /\ RequestsInPast' /\ CarriedNotBegun'
  BY <1>1, LeaseStep, ParkedStep, RequestsStep, CarriedStep DEF HonoredInv
<1>3. DueBeforeLapse' /\ OwedInRow'
  BY HonoredRow DEF DueBeforeLapse, OwedInRow
<1>. QED
  BY <1>2, <1>3 DEF HonoredInv

LEMMA HonoredInit == Init => HonoredInv
<1>. SUFFICES ASSUME Init
              PROVE  HonoredInv
  OBVIOUS
<1>1. PICK p \in [Job -> Periods], S \in SUBSET Sliced :
          job = [j \in Job |-> NewRow(j, p[j], j \in S)]
  BY DEF Init
<1>2. \A j \in Job : /\ job[j].leaseWorker = NULL
                     /\ job[j].leaseExpiresAt = NULL
                     /\ job[j].captureRequested = NULL
                     /\ job[j].captureClaimed = NULL
                     /\ job[j].runRequested = NULL
  BY <1>1 DEF NewRow
<1>3. \A j \in Job : asked[j] = "no" /\ api[j].at = 0 /\ now = 0
  BY DEF Init, NoCall
<1>6. CarriedNotBegun
  BY DEF Init, Idle, Busy, CarriedNotBegun
<1>4. ParkedInv
  BY <1>2, TypeInit DEF ParkedInv, LeaseWhole
<1>5. RequestsInPast /\ DueBeforeLapse /\ OwedInRow
  BY <1>2, <1>3 DEF RequestsInPast, InPast, DueBeforeLapse, OwedInRow
<1>. QED
  BY <1>4, <1>5, <1>6, LeaseInit DEF HonoredInv

\* With runs that end before their lease does, a request for a run is kept
\* until a run that took it starts, whatever order the two updates of
\* RequestCheckRunOn, the claims, the releases and lost runs come in.  The
\* deferral of the rate limit is in it as far as it can be: it honours a
\* request parked during the run it turns away, and ends the one that run had
\* taken (turnedAway).
THEOREM RequestsKept ==
    ASSUME Punctual
    PROVE  Spec => []RequestKept
<1>1. HonoredInv /\ [Next]_vars => HonoredInv'
  BY HonoredStep
<1>2. HonoredInv => RequestKept
  <2>. SUFFICES ASSUME HonoredInv, NEW j \in exists \ Editable
                PROVE  /\ asked[j] = "waiting" =>
                              \/ Due(job[j], now) /\ Unleased(job[j], now)
                              \/ ReleaseComing(job[j], now) /\ job[j].runRequested # NULL
                       /\ asked[j] = "carried" => Due(job[j], now) \/ LeasedAt(job[j], now)
    BY DEF RequestKept
  <2>1. j \in Job \ Editable /\ TypeInv
    BY DEF HonoredInv, LeaseInv, TypeInv, TypeOK
  <2>2. job[j].leaseExpiresAt \in Nat \cup {NULL} /\ now \in Nat /\ job[j].scheduledAt \in Nat
    BY <2>1, RowTimes
  <2>3. job[j].runRequested # NULL => job[j].leaseExpiresAt # NULL \/ job[j].stepRun
    BY <2>1 DEF HonoredInv, ParkedInv, LeaseWhole
  <2>4. /\ asked[j] = "waiting" => \/ job[j].runRequested # NULL
                                   \/ Due(job[j], now) /\ Unleased(job[j], now)
        /\ asked[j] = "carried" => job[j].leaseExpiresAt # NULL \/ Due(job[j], now)
    BY <2>1 DEF HonoredInv, OwedInRow
  <2>5. job[j].leaseExpiresAt # NULL =>
            \/ LeasedAt(job[j], now)
            \/ Due(job[j], now) /\ Unleased(job[j], now)
    <3>1. job[j].leaseExpiresAt # NULL =>
              job[j].scheduledAt <= job[j].leaseExpiresAt \/ Due(job[j], now)
      BY <2>1 DEF HonoredInv, DueBeforeLapse
    <3>. QED
      BY <2>2, <3>1 DEF LeasedAt, Due, Unleased
  <2>. QED
    BY <2>3, <2>4, <2>5 DEF ReleaseComing
<1>. QED
  BY <1>1, <1>2, HonoredInit, PTL DEF Spec
=============================================================================
