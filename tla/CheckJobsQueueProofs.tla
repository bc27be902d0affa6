------------------------ MODULE CheckJobsQueueProofs ------------------------
(***************************************************************************)
(* The check-job queue implements RunQueue, for every fleet whose runs end *)
(* before their lease does, seen through any job whose schedule nobody     *)
(* edits: each step of CheckJobs is one step of RunQueue or leaves the     *)
(* watched job as it is.  The invariant that makes the steps map is the    *)
(* one behind RequestKept (CheckJobRequestsProofs).                        *)
(***************************************************************************)
EXTENDS CheckJobsQueue, CheckJobRequestsProofs

USE NullAssumption, TimingAssumption, FleetAssumption, WatchedAssumption

\* The columns of the watched row, and what its status is read from.
LEMMA WatchedColumns ==
    ASSUME HonoredInv
    PROVE  /\ now \in Nat
           /\ job[Watched] \in Row
           /\ job[Watched].scheduledAt \in Nat
           /\ job[Watched].runRequested \in Nat \cup {NULL}
           /\ job[Watched].leaseExpiresAt \in Nat \cup {NULL}
           /\ api[Watched].at \in Nat
           /\ asked[Watched] \in Fates
           /\ exists \subseteq Job
  BY RowTimes DEF HonoredInv, LeaseInv, TypeInv, TypeOK

\* The tick: the watched job becomes due, or its lease lapses into a due job.
LEMMA TickMaps ==
    ASSUME HonoredInv, Watched \notin Editable, now' = now + 1,
           UNCHANGED <<exists, job, run, api, asked, wanted>>
    PROVE  [Queue!Next]_(Queue!vars)
<1>1. /\ now \in Nat /\ job[Watched].scheduledAt \in Nat
      /\ job[Watched].leaseExpiresAt \in Nat \cup {NULL}
  BY WatchedColumns
<1>2. job[Watched].leaseExpiresAt # NULL =>
          job[Watched].scheduledAt <= job[Watched].leaseExpiresAt \/ Due(job[Watched], now)
  BY DEF HonoredInv, DueBeforeLapse
<1>3. QueueOwed' = QueueOwed
  BY DEF QueueOwed
<1>4. CASE Watched \notin exists
  BY <1>3, <1>4 DEF Queue!vars, QueueStatus
<1>5. CASE Watched \in exists /\ LeasedAt(job[Watched], now)
  <2>1. QueueStatus = "held"
    BY <1>5 DEF QueueStatus
  <2>2. QueueStatus' \in {"held", "due"}
    BY <1>1, <1>2, <1>5 DEF QueueStatus, LeasedAt, Due
  <2>. QED
    BY <1>3, <2>1, <2>2 DEF Queue!vars, Queue!Next, Queue!Lapse
<1>6. CASE Watched \in exists /\ ~ LeasedAt(job[Watched], now)
  <2>1. ~ LeasedAt(job[Watched], now + 1)
    BY <1>1, <1>6 DEF LeasedAt
  <2>2. \/ QueueStatus = "due" /\ QueueStatus' = "due"
        \/ QueueStatus = "waiting" /\ QueueStatus' \in {"waiting", "due"}
    BY <1>1, <1>6, <2>1 DEF QueueStatus, Due
  <2>. QED
    BY <1>3, <2>2 DEF Queue!vars, Queue!Next, Queue!BecomeDue
<1>. QED
  BY <1>4, <1>5, <1>6

\* What is owed on the watched row, and where the row stands, while it exists.
LEMMA Seen ==
    ASSUME Watched \in exists
    PROVE  /\ QueueStatus = IF LeasedAt(job[Watched], now) THEN "held"
                            ELSE IF Due(job[Watched], now) THEN "due" ELSE "waiting"
           /\ asked[Watched] \in {"no", "turnedAway"} => QueueOwed = "no"
           /\ asked[Watched] = "carried" => QueueOwed = "carried"
           /\ asked[Watched] = "waiting" =>
                  QueueOwed = IF job[Watched].runRequested # NULL THEN "parked" ELSE "asked"
BY DEF QueueStatus, QueueOwed

\* The same, after the step.
LEMMA SeenNext ==
    ASSUME Watched \in exists'
    PROVE  /\ QueueStatus' = IF LeasedAt(job'[Watched], now') THEN "held"
                             ELSE IF Due(job'[Watched], now') THEN "due" ELSE "waiting"
           /\ asked'[Watched] \in {"no", "turnedAway"} => QueueOwed' = "no"
           /\ asked'[Watched] = "carried" => QueueOwed' = "carried"
           /\ asked'[Watched] = "waiting" =>
                  QueueOwed' = IF job'[Watched].runRequested # NULL THEN "parked" ELSE "asked"
BY DEF QueueStatus, QueueOwed

\* The moves of the watched row, one by one: each is a step of RunQueue.
Moving ==
    /\ Punctual /\ HonoredInv /\ Watched \notin Editable
    /\ now' = now /\ Watched \in exists /\ Watched \in exists'
    /\ asked'[Watched] \in Fates
    /\ job'[Watched].stepRun = job[Watched].stepRun

\* What the invariant says of the watched row.
LEMMA WatchedRow ==
    ASSUME HonoredInv, Watched \notin Editable
    PROVE  /\ job[Watched].leaseExpiresAt # NULL =>
                  \/ job[Watched].scheduledAt <= job[Watched].leaseExpiresAt
                  \/ Due(job[Watched], now)
           /\ api[Watched].at <= now
           /\ asked[Watched] = "waiting" =>
                  \/ job[Watched].runRequested # NULL
                  \/ Due(job[Watched], now) /\ Unleased(job[Watched], now)
           /\ job[Watched].captureRequested # NULL => job[Watched].captureRequested <= now
           /\ job[Watched].runRequested # NULL => job[Watched].runRequested <= now
<1>. api[Watched].at \in Nat
  BY WatchedColumns
<1>. QED
  BY DEF HonoredInv, DueBeforeLapse, OwedInRow, RequestsInPast, InPast

\* A run of the job starts under its lease: the request it carries is served.
LEMMA BegunMaps ==
    ASSUME Moving, IsBegun(Watched)
    PROVE  [Queue!Next]_(Queue!vars)
<1>1. PICK r \in Runner : run[r].phase = "claimed" /\ run[r].job = Watched
  BY DEF IsBegun
<1>2. Busy(r) /\ now <= run[r].leaseEnd /\ run[r].leaseEnd \in Nat /\ now \in Nat
  BY <1>1 DEF Moving, HonoredInv, LeaseInv, RunsArePunctual, TypeInv, TypeOK, Runs, Time, Busy
<1>3. HeldBy(r, Watched)
  BY <1>1, <1>2 DEF Moving, HonoredInv, LeaseInv, LiveIsHeld, Live
<1>4. LeasedAt(job[Watched], now)
  BY <1>2, <1>3 DEF HeldBy, LeasedAt
<1>5. /\ QueueStatus = "held" /\ QueueStatus' = "held" /\ QueueOwed' = "no"
      /\ QueueOwed \in {"no", "carried"}
  <2>1. asked[Watched] \in Fates \ {"waiting"} /\ asked'[Watched] = "no" /\ job' = job
    BY WatchedColumns DEF Moving, IsBegun
  <2>. QED
    BY <1>4, <2>1, Seen, SeenNext DEF Moving, Fates
<1>. QED
  BY <1>5 DEF Moving, Queue!vars, Queue!Next, Queue!Serve

\* A claim takes the row, with the request that it does not leave parked.
LEMMA TakenMaps ==
    ASSUME Moving, IsTaken(Watched)
    PROVE  [Queue!Next]_(Queue!vars)
<1>. DEFINE row == job[Watched]
<1>0. /\ now \in Nat /\ row \in Row /\ row.leaseExpiresAt \in Nat \cup {NULL}
      /\ row.stepRun \in BOOLEAN /\ asked[Watched] \in Fates
  BY WatchedColumns DEF Moving, Row
<1>1. /\ job'[Watched].leaseExpiresAt = LeaseEnd(row, now)
      /\ job'[Watched].runRequested = IF row.stepRun THEN row.runRequested ELSE NULL
  BY <1>0, MoveColumns DEF IsTaken
<1>2. LeaseEnd(row, now) \in Nat /\ LeaseEnd(row, now) >= now
  BY <1>0, LeaseEndAhead
<1>3. LeasedAt(job'[Watched], now) /\ ~ LeasedAt(row, now)
  BY <1>0, <1>1, <1>2 DEF IsTaken, LeasedAt, Unleased
<1>4. QueueStatus \in {"due", "waiting"} /\ QueueStatus' = "held"
  BY <1>3, Seen, SeenNext DEF Moving
<1>5. asked'[Watched] = IF asked[Watched] = "waiting" /\ job'[Watched].runRequested = NULL
                        THEN "carried" ELSE asked[Watched]
  BY DEF IsTaken
<1>6. QueueOwed' = IF QueueOwed = "asked" \/ (QueueOwed = "parked" /\ ~ row.stepRun)
                   THEN "carried" ELSE QueueOwed
  <2>1. CASE asked[Watched] = "waiting" /\ job'[Watched].runRequested = NULL
    <3>1. QueueOwed' = "carried"
      BY <1>5, <2>1, SeenNext DEF Moving
    <3>2. QueueOwed = "asked" \/ (QueueOwed = "parked" /\ ~ row.stepRun)
      BY <1>0, <1>1, <2>1, Seen DEF Moving
    <3>. QED
      BY <3>1, <3>2
  <2>2. CASE asked[Watched] = "waiting" /\ job'[Watched].runRequested # NULL
    <3>1. row.stepRun /\ row.runRequested # NULL
      BY <1>1, <2>2
    <3>2. QueueOwed' = "parked" /\ QueueOwed = "parked"
      BY <1>5, <2>2, <3>1, Seen, SeenNext DEF Moving
    <3>. QED
      BY <3>1, <3>2
  <2>3. CASE asked[Watched] # "waiting"
    <3>1. asked'[Watched] = asked[Watched] /\ asked[Watched] \in {"no", "turnedAway", "carried"}
      BY <1>0, <1>5, <2>3 DEF Fates
    <3>2. QueueOwed' = QueueOwed /\ QueueOwed \in {"no", "carried"}
      BY <3>1, Seen, SeenNext DEF Moving
    <3>. QED
      BY <3>2
  <2>. QED
    BY <2>1, <2>2, <2>3
<1>. QED
  BY <1>4, <1>6 DEF Moving, Queue!Next, Queue!Hold

\* A run gives the row back: due, if a request is parked.
LEMMA FreedMaps ==
    ASSUME Moving, IsFreed(Watched)
    PROVE  [Queue!Next]_(Queue!vars)
<1>. DEFINE row == job[Watched]
<1>0. /\ now \in Nat /\ row \in Row /\ asked[Watched] \in Fates
      /\ row.runRequested \in Nat \cup {NULL}
  BY WatchedColumns DEF Moving
<1>1. LeasedAt(row, now) /\ ~ Unleased(row, now)
  BY FreedWhileLeased DEF Moving, HonoredInv
<1>2. job'[Watched].leaseExpiresAt = NULL
  BY <1>0, ReleasedColumns, LeaseColumns DEF IsFreed
<1>3. job'[Watched].runRequested = NULL
  BY <1>0, MoveColumns DEF IsFreed
<1>4. QueueStatus = "held" /\ QueueStatus' \in {"due", "waiting"}
  BY <1>1, <1>2, Seen, SeenNext DEF Moving, LeasedAt
<1>5. CASE asked[Watched] = "waiting"
  <2>1. row.runRequested # NULL
    BY <1>1, <1>5, WatchedRow DEF Moving
  <2>2. asked'[Watched] = "waiting"
    BY <1>5 DEF IsFreed
  <2>3. QueueOwed = "parked" /\ QueueOwed' = "asked"
    BY <1>3, <1>5, <2>1, <2>2, Seen, SeenNext DEF Moving
  <2>4. job'[Watched].scheduledAt <= now
    <3>1. ASSUME NEW t \in Nat, NEW u \in Int, job'[Watched] = Released(row, t, u)
          PROVE  job'[Watched].scheduledAt \in {row.captureRequested, row.runRequested} \ {NULL}
      BY <1>0, <2>1, <3>1, FreedSchedule DEF PendingRequestOr, Coalesce3, Coalesce
    <3>2. ASSUME NEW t \in Nat, job'[Watched] = Deferred(row, t)
          PROVE  job'[Watched].scheduledAt = row.runRequested
      BY <1>0, <2>1, <3>2, FreedSchedule DEF Coalesce
    <3>3. job'[Watched].scheduledAt \in {row.captureRequested, row.runRequested} \ {NULL}
      BY <2>1, <3>1, <3>2 DEF IsFreed
    <3>. QED
      BY <3>3, WatchedRow DEF Moving
  <2>5. QueueStatus' = "due"
    BY <1>2, <2>4, SeenNext DEF Moving, LeasedAt, Due
  <2>. QED
    BY <1>4, <2>3, <2>5 DEF Moving, Queue!Next, Queue!Return
<1>6. CASE asked[Watched] = "carried"
  <2>1. asked'[Watched] = "turnedAway"
    <3>1. asked'[Watched] # "carried"
      BY NoReleaseOfCarried DEF Moving, HonoredInv
    <3>. QED
      BY <1>6, <3>1 DEF IsFreed
  <2>2. QueueOwed = "carried" /\ QueueOwed' = "no"
    BY <1>6, <2>1, Seen, SeenNext DEF Moving
  <2>. QED
    BY <1>4, <2>2 DEF Moving, Queue!Next, Queue!TurnAway
<1>7. CASE asked[Watched] \in {"no", "turnedAway"}
  <2>1. asked'[Watched] = asked[Watched]
    BY <1>7 DEF IsFreed
  <2>2. QueueOwed = "no" /\ QueueOwed' = "no"
    BY <1>7, <2>1, Seen, SeenNext DEF Moving
  <2>. QED
    BY <1>4, <2>2 DEF Moving, Queue!Next, Queue!Return
<1>. QED
  BY <1>0, <1>5, <1>6, <1>7 DEF Fates

\* The first update of a request: the idle job is due.
LEMMA MadeDueMaps ==
    ASSUME Moving, IsMadeDue(Watched)
    PROVE  [Queue!Next]_(Queue!vars)
<1>. DEFINE row == job[Watched]
<1>0. /\ now \in Nat /\ row \in Row /\ api[Watched].at \in Nat
      /\ row.leaseExpiresAt \in Nat \cup {NULL} /\ api[Watched].at <= now
  BY WatchedColumns, WatchedRow DEF Moving
<1>1. job'[Watched].scheduledAt = api[Watched].at
  BY <1>0, MoveColumns DEF IsMadeDue
<1>2. job'[Watched].leaseExpiresAt = row.leaseExpiresAt
  BY <1>0, LeaseColumns DEF IsMadeDue
<1>3. ~ LeasedAt(row, now) /\ ~ LeasedAt(job'[Watched], now)
  BY <1>0, <1>2 DEF IsMadeDue, Idling, Unleased, LeasedAt
<1>4. QueueStatus \in {"due", "waiting"} /\ QueueStatus' = "due"
  BY <1>0, <1>1, <1>3, Seen, SeenNext DEF Moving, Due
<1>5. QueueOwed' \in {"asked", "parked"}
  BY SeenNext DEF Moving, IsMadeDue
<1>. QED
  BY <1>4, <1>5 DEF Moving, Queue!Next, Queue!Ask

\* The second update of a request: the release to come will see it.
LEMMA ParkedMaps ==
    ASSUME Moving, IsParked(Watched)
    PROVE  [Queue!Next]_(Queue!vars)
<1>. DEFINE row == job[Watched]
<1>0. /\ now \in Nat /\ row \in Row /\ api[Watched].at \in Nat
      /\ row.scheduledAt \in Nat /\ row.runRequested \in Nat \cup {NULL}
      /\ row.leaseExpiresAt \in Nat \cup {NULL} /\ api[Watched].at <= now
      /\ asked[Watched] \in Fates
  BY WatchedColumns, WatchedRow DEF Moving
<1>1. PICK t \in {api[Watched].at, now} :
          ReleaseComing(row, t) /\ job'[Watched] = Parked(row, t)
  BY DEF IsParked
<1>2. /\ job'[Watched].scheduledAt = row.scheduledAt
      /\ job'[Watched].leaseExpiresAt = row.leaseExpiresAt
      /\ job'[Watched].runRequested = Coalesce(row.runRequested, t)
  BY <1>0, <1>1 DEF Parked, Row
<1>3. job'[Watched].runRequested # NULL
  BY <1>0, <1>1, <1>2 DEF Coalesce
<1>4. QueueStatus' = QueueStatus
  BY <1>2, Seen, SeenNext DEF Moving, LeasedAt, Due
<1>5. QueueStatus = "held" \/ row.stepRun \/ QueueStatus = "due"
  <2>1. LeasedAt(row, t) /\ ~ LeasedAt(row, now) => Due(row, now)
    BY <1>0, WatchedRow DEF Moving, LeasedAt, Due
  <2>. QED
    BY <1>1, <2>1, Seen DEF Moving, ReleaseComing
<1>6. CASE asked'[Watched] = "waiting"
  <2>1. QueueOwed' = "parked"
    BY <1>3, <1>6, SeenNext DEF Moving
  <2>2. QueueStatus # "gone"
    BY Seen DEF Moving
  <2>. QED
    BY <1>4, <1>5, <2>1, <2>2 DEF Moving, Queue!Next, Queue!Ask
<1>7. CASE asked'[Watched] = asked[Watched] /\ asked[Watched] # "waiting"
  <2>1. asked[Watched] \in {"no", "turnedAway", "carried"}
    BY <1>0, <1>7 DEF Fates
  <2>2. QueueOwed' = QueueOwed
    BY <1>7, <2>1, Seen, SeenNext DEF Moving
  <2>. QED
    BY <1>4, <2>2 DEF Moving, Queue!vars
<1>. QED
  BY <1>6, <1>7 DEF IsParked

\* A screenshot is asked for: the job is pulled forward.
LEMMA CapturedMaps ==
    ASSUME Moving, IsCaptured(Watched)
    PROVE  [Queue!Next]_(Queue!vars)
<1>. DEFINE row == job[Watched]
<1>0. now \in Nat /\ row \in Row
  BY WatchedColumns DEF Moving
<1>1. /\ job'[Watched].scheduledAt = now
      /\ job'[Watched].runRequested = row.runRequested
      /\ asked'[Watched] = asked[Watched]
  BY <1>0, MoveColumns DEF IsCaptured
<1>2. job'[Watched].leaseExpiresAt = row.leaseExpiresAt
  BY <1>0, LeaseColumns DEF IsCaptured
<1>3. QueueOwed' = QueueOwed
  BY <1>1 DEF Moving, QueueOwed
<1>4. \/ QueueStatus = "held" /\ QueueStatus' = "held"
      \/ QueueStatus \in {"due", "waiting"} /\ QueueStatus' = "due"
  BY <1>0, <1>1, <1>2, Seen, SeenNext DEF Moving, LeasedAt, Due
<1>. QED
  BY <1>3, <1>4 DEF Moving, Queue!vars, Queue!Next, Queue!BecomeDue

\* Every step is a step of RunQueue or leaves the watched job as it is.
LEMMA StepMaps ==
    ASSUME Punctual, Watched \notin Editable, HonoredInv, [Next]_vars
    PROVE  [Queue!Next]_(Queue!vars)
<1>0. /\ TypeInv /\ TypeInv' /\ RowMove(Watched)
      /\ job'[Watched].stepRun = job[Watched].stepRun
  BY TypeStep, RowMoves, StepRunStays DEF HonoredInv, LeaseInv
<1>1. CASE now' # now
  BY <1>0, <1>1, StepFrame, TickMaps
<1>2. CASE now' = now /\ Watched \in exists'
  <2>1. Moving
    BY <1>0, <1>2, StepFrame DEF Moving, TypeInv, TypeOK
  <2>2. IsKept(Watched) => UNCHANGED Queue!vars
    BY <2>1, Seen, SeenNext DEF IsKept, Moving, Queue!vars, QueueStatus, QueueOwed
  <2>3. ~ IsResynced(Watched)
    BY DEF IsResynced
  <2>. QED
    BY <1>0, <2>1, <2>2, <2>3, BegunMaps, TakenMaps, FreedMaps, MadeDueMaps, ParkedMaps,
       CapturedMaps DEF RowMove
<1>3. CASE now' = now /\ Watched \notin exists /\ Watched \notin exists'
  BY <1>0, <1>3 DEF Queue!vars, QueueStatus, QueueOwed
<1>4. CASE now' = now /\ Watched \in exists /\ Watched \notin exists'
  <2>1. QueueStatus # "gone" /\ QueueStatus' = "gone" /\ QueueOwed' = "no"
    BY <1>4 DEF QueueStatus, QueueOwed
  <2>. QED
    BY <1>0, <2>1 DEF Queue!Next, Queue!Remove
<1>. QED
  BY <1>1, <1>2, <1>3, <1>4

\* The rows start free, and nothing has been asked for.
LEMMA InitMaps == Init => Queue!Init
<1>. SUFFICES ASSUME Init
              PROVE  Queue!Init
  OBVIOUS
<1>1. PICK p \in [Job -> Periods], S \in SUBSET Sliced :
          job = [j \in Job |-> NewRow(j, p[j], j \in S)]
  BY DEF Init
<1>2. /\ Watched \in exists /\ asked[Watched] = "no"
      /\ job[Watched].leaseExpiresAt = NULL
  BY <1>1 DEF Init, NewRow
<1>3. job[Watched].stepRun \in BOOLEAN
  BY HonoredInit, WatchedColumns DEF Row
<1>. QED
  BY <1>2, <1>3 DEF Queue!Init, QueueStatus, QueueOwed, LeasedAt

\* The queue keeps every promise of RunQueue about a job whose schedule is
\* not edited: a due job leaves only by being leased, one that is owed a run
\* never goes back to waiting, and a lapsed lease gives the job back due.
THEOREM Implements ==
    ASSUME Punctual, Watched \notin Editable
    PROVE  Spec => ImplementsRunQueue
<1>1. HonoredInv /\ [Next]_vars => HonoredInv'
  BY HonoredStep
<1>2. HonoredInv /\ [Next]_vars => [Queue!Next]_(Queue!vars)
  BY StepMaps
<1>. QED
  BY <1>1, <1>2, HonoredInit, InitMaps, PTL DEF Spec, ImplementsRunQueue, Queue!Spec
=============================================================================
