------------------------------ MODULE CheckPool ------------------------------
(***************************************************************************)
(* One check worker: a fetcher that claims jobs, a pool of runners that    *)
(* execute them, and an express goroutine that serves check.created events *)
(* on its own.                                                             *)
(*                                                                         *)
(* The goroutines share two atomic counters (availableRunners, busySlow),  *)
(* an unbuffered channel of jobs (a rendezvous of the fetcher and one      *)
(* runner), a completion channel of capacity one, and a buffered channel   *)
(* of hints for each of the two listeners.  What CheckJobs treats as one   *)
(* claim for "the free runners" is here the read of a counter, a claim and *)
(* a hand-over, with the runners moving in between.                        *)
(*                                                                         *)
(* The queue of check_jobs is reduced to what this concurrency depends on: *)
(* which rows are claimable, in which order and in which lane.  Time is    *)
(* reduced to what the fetcher's timers distinguish: the alarm of the next *)
(* eligible row, and the flat poll.                                        *)
(***************************************************************************)
EXTENDS Integers, Sequences, FiniteSetsExt, RowOrder

CONSTANTS
    Job,           \* the rows in the scope of this worker
    New,           \* the rows of checks that are created later
    Runner,        \* the goroutines of the pool
    Reserved,      \* fastLaneReserved, clamped below the size of the pool
    Slow,          \* the rows that start in the slow lane
    Moving,        \* the rows whose lane the cost accounting may change
    HintBuffer,    \* notifier.ListenerBuffer
    ExpressOn,     \* TRUE: check.created events and run requests happen
    Failures,      \* TRUE: claims fail, runs end without a release
    Stops,         \* TRUE: the worker is shut down some day
    Prompt,        \* TRUE: a probe outlasts the steps between two probes
    NULL

\* A claimed job as a goroutine keeps it: the lane is the one of the claim.
Held == [job : Job, lane : {"slow", "fast"}]

ASSUME PoolAssumption ==
    /\ IsFiniteSet(Job)
    /\ New \subseteq Job
    /\ Slow \subseteq Job \ New
    /\ Moving \subseteq Job
    /\ IsFiniteSet(Runner) /\ Runner # {}
    /\ Reserved \in 0 .. Cardinality(Runner) - 1
    /\ HintBuffer \in Nat \ {0}
    /\ ExpressOn \in BOOLEAN
    /\ Failures \in BOOLEAN
    /\ Stops \in BOOLEAN
    /\ Prompt \in BOOLEAN
    /\ NULL \notin Job \cup Held

PoolSize == Cardinality(Runner)

VARIABLES
    ready,         \* the claimable rows, in the order of effective_scheduled_at
    overdue,       \* the rows at the head of ready that no newcomer passes
    leased,        \* the rows under a lease
    absent,        \* the rows that do not exist yet
    slowLane,      \* the rows whose stored lane is slow
    fetcher,       \* the goroutine of fetcherLoop
    runner,        \* the goroutines of runnerLoop
    express,       \* the goroutine of expressLoop
    available,     \* availableRunners
    busySlow,      \* busySlow
    completion,    \* completionChan holds its one signal
    fetchHints,    \* hints buffered for the fetcher
    expressHints,  \* hints buffered for the express goroutine, in order
    stopping       \* ctx is done

queue == <<ready, overdue, leased, absent, slowLane>>
counters == <<available, busySlow>>
signals == <<completion, fetchHints, expressHints>>
vars == <<queue, fetcher, runner, express, counters, signals, stopping>>

-----------------------------------------------------------------------------
Ready == DOMAIN ready

\* Known to the worker's scope and not claimable yet.
Later == Job \ (Ready \cup leased \cup absent)

Lane(j) == IF j \in slowLane THEN "slow" ELSE "fast"

TypeOK ==
    /\ Ready \subseteq Job /\ IsOrder(ready)
    /\ AtHead(ready, overdue)
    /\ leased \subseteq Job
    /\ absent \subseteq New
    /\ slowLane \subseteq Job
    /\ fetcher \in [pc : {"load", "claim", "send", "wait", "backoff", "stopped"},
                    free : 0 .. PoolSize, slow : 0 .. PoolSize,
                    lanes : UNION {[S -> {"slow", "fast"}] : S \in SUBSET Job},
                    jobs : UNION {[S -> SUBSET S] : S \in SUBSET Job},
                    alarm : SUBSET Job, skipped : BOOLEAN]
    /\ IsOrder(fetcher.jobs) /\ DOMAIN fetcher.lanes = DOMAIN fetcher.jobs
    /\ runner \in [Runner -> [pc : {"loop", "waiting", "handed", "running",
                                    "ran", "signal", "stopped"},
                              held : Held \cup {NULL}]]
    /\ express \in [pc : {"listen", "running", "stopped"}, held : Held \cup {NULL}]
    /\ available \in -PoolSize .. PoolSize
    /\ busySlow \in Int
    /\ completion \in BOOLEAN
    /\ fetchHints \in 0 .. HintBuffer
    /\ expressHints \in Seq(Job) /\ Len(expressHints) <= HintBuffer
    /\ stopping \in BOOLEAN
    /\ Ready \cap leased = {}

Init ==
    /\ ready = Nothing
    /\ overdue = {}
    /\ leased = {}
    /\ absent = New
    /\ slowLane = Slow
    /\ fetcher = [pc |-> "load", free |-> 0, slow |-> 0,
                  jobs |-> Nothing, lanes |-> Nothing, alarm |-> {}, skipped |-> FALSE]
    /\ runner = [r \in Runner |-> [pc |-> "loop", held |-> NULL]]
    /\ express = [pc |-> "listen", held |-> NULL]
    /\ available = 0
    /\ busySlow = 0
    /\ completion = FALSE
    /\ fetchHints = 0
    /\ expressHints = <<>>
    /\ stopping = FALSE

-----------------------------------------------------------------------------
(* The queue around the worker.                                            *)

\* A row becomes claimable.  Its ordering key puts it anywhere behind the rows
\* that are overdue by more than any offset or credit.
BecomeReady(j) ==
    /\ j \in Later
    /\ \E S \in Places(ready) : overdue \subseteq S /\ ready' = Inserted(ready, j, S)
    /\ UNCHANGED <<overdue, leased, absent, slowLane, fetcher, runner, express,
                   counters, signals, stopping>>

\* Time passes until no newcomer's key can be below the key of j.
Age(j) ==
    /\ j \in Ready \ overdue
    /\ overdue' = ready[j] \cup {j}
    /\ UNCHANGED <<ready, leased, absent, slowLane, fetcher, runner, express,
                   counters, signals, stopping>>

Holders == {runner[r].held : r \in Runner} \cup {express.held}
HeldJobs == {h.job : h \in Holders \ {NULL}} \cup DOMAIN fetcher.jobs

\* A lease whose run was lost runs out; the row is overdue by then.
LeaseExpires(j) ==
    /\ j \in leased \ HeldJobs
    /\ leased' = leased \ {j}
    /\ ready' = Inserted(ready, j, overdue)
    /\ overdue' = overdue \cup {j}
    /\ UNCHANGED <<absent, slowLane, fetcher, runner, express, counters,
                   signals, stopping>>

\* notifier.Notify: both listeners, and a full channel drops the hint.
Notify(j) ==
    /\ fetchHints' = Min({fetchHints + 1, HintBuffer})
    /\ expressHints' = IF Len(expressHints) < HintBuffer
                       THEN Append(expressHints, j) ELSE expressHints
    /\ UNCHANGED completion

\* A check is created: its first tick is ahead, in the fast lane.
Create(j) ==
    /\ ExpressOn
    /\ j \in absent
    /\ absent' = absent \ {j}
    /\ Notify(j)
    /\ UNCHANGED <<ready, overdue, leased, slowLane, fetcher, runner, express,
                   counters, stopping>>

\* Mutant: a claim does not take the rows off the queue.
WithoutNone(S) == UNCHANGED <<ready, overdue>>

\* The rows without those of S.
Without(S) ==
    /\ ready' = Dequeued(ready, S)
    /\ overdue' = overdue \ S

\* "Run now" on an idle row makes it due now, wherever it stood; on a leased
\* row it is parked.  Either way the hint goes out.
RunNow(j) ==
    /\ ExpressOn
    /\ j \in Job \ absent
    /\ IF j \in leased
       THEN UNCHANGED <<ready, overdue>>
       ELSE LET others == Dequeued(ready, {j})
            IN /\ \E S \in Places(others) : /\ overdue \ {j} \subseteq S
                                            /\ ready' = Inserted(others, j, S)
               /\ overdue' = overdue \ {j}
    /\ Notify(j)
    /\ UNCHANGED <<leased, absent, slowLane, fetcher, runner, express, counters, stopping>>

\* The release of a run: the row goes to a later tick, and the cost accounting
\* classifies it again.
Release(j) ==
    /\ leased' = leased \ {j}
    /\ \E lanes \in {slowLane} \cup
                    (IF j \in Moving THEN {slowLane \cup {j}, slowLane \ {j}} ELSE {}) :
           slowLane' = lanes
    /\ UNCHANGED <<ready, overdue, absent>>

-----------------------------------------------------------------------------
(* The fetcher.                                                            *)

\* Mutant: the reservation is not subtracted.
LaneLimitUnreserved(free, slowInFlight) == Max({0, Min({PoolSize - slowInFlight, free})})

\* Mutant: off by one, a slow job is taken for in flight when none is.
LaneLimitTight(free, slowInFlight) ==
    Max({0, Min({PoolSize - Reserved - slowInFlight - 1, free})})

\* scheduling.LaneLimits: the slow budget of one fetch.
LaneLimit(free, slowInFlight) ==
    Max({0, Min({PoolSize - Reserved - slowInFlight, free})})

\* fetchAndDistributeJobs reads the counters ...  A runner that just signalled
\* its completion has usually announced itself by then; nothing orders the two.
Load ==
    /\ fetcher.pc = "load" /\ ~stopping
    /\ Prompt => \A r \in Runner : runner[r].pc \notin {"signal", "loop"}
    /\ fetcher' = IF available = 0
                  THEN [fetcher EXCEPT !.pc = "wait", !.alarm = {}, !.skipped = TRUE]
                  ELSE [fetcher EXCEPT !.pc = "claim", !.free = available,
                                       !.slow = LaneLimit(available, busySlow)]
    /\ UNCHANGED <<queue, runner, express, counters, signals, stopping>>

InLane(lane) == {j \in Ready : Lane(j) = lane}

\* The first n rows of S.
Oldest(S, n) == {j \in S : Cardinality(ready[j] \cap S) < n}

\* Mutant: the fast lane first, slow on what is left.
TakenFastFirst(free, slow) ==
    LET fast == Oldest(InLane("fast"), free)
    IN fast \cup Oldest(InLane("slow"), Min({slow, free - Cardinality(fast)}))

\* ClaimJobs: the slow lane first, up to its budget, then the fast lane.
Taken(free, slow) ==
    LET slowJobs == Oldest(InLane("slow"), Min({slow, free}))
    IN slowJobs \cup Oldest(InLane("fast"), free - Cardinality(slowJobs))

\* The batch is handed out in the order of the claims.
Batch(jobs) ==
    [j \in jobs |->
        {k \in jobs : \/ Lane(k) = "slow" /\ Lane(j) = "fast"
                      \/ Lane(k) = Lane(j) /\ k \in ready[j]}]

Hold(j) == [job |-> j, lane |-> Lane(j)]

\* accountClaimedLanes.
Accounted(jobs) == busySlow + Cardinality(jobs \cap slowLane)

\* ... claims, and counts the slow jobs it got.  The hint is the next row that
\* is neither claimable nor leased: the alarm rings when one of them is.
Claim ==
    /\ fetcher.pc = "claim" /\ ~stopping
    /\ LET jobs == Taken(fetcher.free, fetcher.slow) IN
       /\ Without(jobs)
       /\ leased' = leased \cup jobs
       /\ busySlow' = Accounted(jobs)
       /\ fetcher' = [pc |-> IF jobs = {} THEN "wait" ELSE "send",
                      free |-> 0, slow |-> 0,
                      jobs |-> Batch(jobs), lanes |-> [j \in jobs |-> Lane(j)],
                      alarm |-> Later, skipped |-> FALSE]
    /\ UNCHANGED <<absent, slowLane, runner, express, available, signals, stopping>>

\* The database refuses the claim, or the claim is committed and an agent
\* never gets the answer.
ClaimFails ==
    /\ Failures
    /\ fetcher.pc = "claim" /\ ~stopping
    /\ fetcher' = [fetcher EXCEPT !.pc = "backoff", !.free = 0, !.slow = 0]
    /\ \/ UNCHANGED queue
       \/ LET taken == Taken(fetcher.free, fetcher.slow) IN
          /\ Without(taken)
          /\ leased' = leased \cup taken
          /\ UNCHANGED <<absent, slowLane>>
    /\ UNCHANGED <<runner, express, counters, signals, stopping>>

BackoffEnds ==
    /\ fetcher.pc = "backoff" /\ ~stopping
    /\ fetcher' = [fetcher EXCEPT !.pc = "load"]
    /\ UNCHANGED <<queue, runner, express, counters, signals, stopping>>

\* A structural fault of the database: the latch takes the process down.
Fault ==
    /\ Failures /\ Stops
    /\ fetcher.pc = "claim" /\ ~stopping
    /\ fetcher' = [fetcher EXCEPT !.pc = "stopped", !.free = 0, !.slow = 0]
    /\ stopping' = TRUE
    /\ UNCHANGED <<queue, runner, express, counters, signals>>

\* jobsChan is unbuffered: a send is the receive of a waiting runner.
HandOver(r) ==
    /\ fetcher.pc = "send"
    /\ runner[r].pc = "waiting"
    /\ \E j \in First(fetcher.jobs) :
           LET rest == DOMAIN fetcher.jobs \ {j} IN
           /\ runner' = [runner EXCEPT ![r] = [pc |-> "handed",
                                               held |-> [job |-> j, lane |-> fetcher.lanes[j]]]]
           /\ fetcher' = [fetcher EXCEPT !.jobs = Dequeued(@, {j}),
                                         !.lanes = [k \in rest |-> @[k]],
                                         !.pc = IF rest = {} THEN "wait" ELSE "send"]
    /\ UNCHANGED <<queue, express, counters, signals, stopping>>

Woken == fetcher' = [fetcher EXCEPT !.pc = "load", !.alarm = {}, !.skipped = FALSE]

WakeOnCompletion ==
    /\ fetcher.pc = "wait" /\ completion
    /\ Woken
    /\ completion' = FALSE
    /\ UNCHANGED <<queue, runner, express, counters, fetchHints, expressHints, stopping>>

WakeOnHint ==
    /\ fetcher.pc = "wait" /\ fetchHints > 0
    /\ Woken
    /\ fetchHints' = fetchHints - 1
    /\ UNCHANGED <<queue, runner, express, counters, completion, expressHints, stopping>>

\* The timer armed with the claim's hint.
AlarmRings == fetcher.alarm \ Later # {}

WakeOnAlarm ==
    /\ fetcher.pc = "wait" /\ AlarmRings
    /\ Woken
    /\ UNCHANGED <<queue, runner, express, counters, signals, stopping>>

\* The flat poll: the timer of a fetch that got no hint.  A pending signal is
\* taken long before it.
WakeOnPoll ==
    /\ fetcher.pc = "wait"
    /\ Prompt => ~completion /\ fetchHints = 0
    /\ Woken
    /\ UNCHANGED <<queue, runner, express, counters, signals, stopping>>

\* Mutant: the send does not select on ctx.Done.
FetcherStopsUnlessSending ==
    /\ stopping /\ fetcher.pc \notin {"stopped", "send"}
    /\ fetcher' = [fetcher EXCEPT !.pc = "stopped", !.free = 0, !.slow = 0, !.alarm = {},
                                  !.jobs = Nothing, !.lanes = Nothing, !.skipped = FALSE]
    /\ UNCHANGED <<queue, runner, express, counters, signals, stopping>>

\* Shutdown: seen at the top of the loop, in a claim, in a send or in a wait.
FetcherStops ==
    /\ stopping /\ fetcher.pc # "stopped"
    /\ fetcher' = [fetcher EXCEPT !.pc = "stopped", !.free = 0, !.slow = 0, !.alarm = {},
                                  !.jobs = Nothing, !.lanes = Nothing, !.skipped = FALSE]
    /\ UNCHANGED <<queue, runner, express, counters, signals, stopping>>

-----------------------------------------------------------------------------
(* The runners.                                                            *)

\* "I'm available for work".
Announce(r) ==
    /\ runner[r].pc = "loop"
    /\ runner' = [runner EXCEPT ![r].pc = "waiting"]
    /\ available' = available + 1
    /\ UNCHANGED <<queue, fetcher, express, busySlow, signals, stopping>>

\* "I'm now busy": the counter follows the hand-over.
MarkBusy(r) ==
    /\ runner[r].pc = "handed"
    /\ runner' = [runner EXCEPT ![r].pc = "running"]
    /\ available' = available - 1
    /\ UNCHANGED <<queue, fetcher, express, busySlow, signals, stopping>>

\* A probe goes over the network; the steps of the other goroutines between two
\* waits are in memory, and are over before the probe is.
Settled(r) ==
    Prompt => /\ fetcher.pc # "load"
              /\ fetcher.pc = "send" => \A q \in Runner : runner[q].pc # "waiting"
              /\ fetcher.pc = "wait" => ~completion /\ fetchHints = 0
              /\ \A q \in Runner \ {r} : runner[q].pc \in {"waiting", "running", "stopped"}

\* executeJob ends with its release ...
Finish(r) ==
    /\ runner[r].pc = "running"
    /\ Settled(r)
    /\ runner' = [runner EXCEPT ![r].pc = "ran"]
    /\ Release(runner[r].held.job)
    /\ UNCHANGED <<fetcher, express, counters, signals, stopping>>

\* ... or without one: a failed save, a shutdown in the sleep.
FinishUnreleased(r) ==
    /\ Failures \/ stopping
    /\ runner[r].pc = "running"
    /\ runner' = [runner EXCEPT ![r].pc = "ran"]
    /\ UNCHANGED <<queue, fetcher, express, counters, signals, stopping>>

\* Mutant: the lane the row has by now.
RunLaneNow(h) == Lane(h.job)

\* The lane a run was claimed in: its slot is given back to that lane.
RunLane(h) == h.lane

\* The slow slot is given back.
FreeLane(r) ==
    /\ runner[r].pc = "ran"
    /\ runner' = [runner EXCEPT ![r] = [pc |-> "signal", held |-> NULL]]
    /\ busySlow' = IF RunLane(runner[r].held) = "slow" THEN busySlow - 1 ELSE busySlow
    /\ UNCHANGED <<queue, fetcher, express, available, signals, stopping>>

\* Mutant: the channel has no buffer, so the signal only reaches a fetcher
\* that is waiting for it.
Unbuffered == completion \/ fetcher.pc = "wait"

\* The non-blocking send to a channel of capacity one.
Buffered == TRUE

\* The completion signal, before the runner announces itself again.
Signal(r) ==
    /\ runner[r].pc = "signal"
    /\ runner' = [runner EXCEPT ![r].pc = "loop"]
    /\ completion' = Buffered
    /\ UNCHANGED <<queue, fetcher, express, counters, fetchHints, expressHints, stopping>>

\* A waiting runner sees ctx.Done or the closed channel.
RunnerStops(r) ==
    /\ runner[r].pc = "waiting"
    /\ stopping
    /\ runner' = [runner EXCEPT ![r].pc = "stopped"]
    /\ available' = available - 1
    /\ UNCHANGED <<queue, fetcher, express, busySlow, signals, stopping>>

-----------------------------------------------------------------------------
(* The express goroutine.                                                  *)

\* handleExpressEvent: ClaimJobsForCheck gets the row if it is due and free.
ExpressServes ==
    /\ express.pc = "listen" /\ ~stopping
    /\ expressHints # <<>>
    /\ LET j == Head(expressHints) IN
       \/ /\ j \in Ready
          /\ Without({j})
          /\ leased' = leased \cup {j}
          /\ express' = [pc |-> "running", held |-> Hold(j)]
       \/ UNCHANGED <<ready, overdue, leased, express>>
    /\ expressHints' = Tail(expressHints)
    /\ UNCHANGED <<absent, slowLane, fetcher, runner, counters, completion,
                   fetchHints, stopping>>

ExpressFinishes ==
    /\ express.pc = "running"
    /\ express' = [pc |-> "listen", held |-> NULL]
    /\ \/ Release(express.held.job)
       \/ (Failures \/ stopping) /\ UNCHANGED queue
    /\ UNCHANGED <<fetcher, runner, counters, signals, stopping>>

ExpressStops ==
    /\ express.pc = "listen" /\ stopping
    /\ express' = [express EXCEPT !.pc = "stopped"]
    /\ UNCHANGED <<queue, fetcher, runner, counters, signals, stopping>>

-----------------------------------------------------------------------------
Shutdown ==
    /\ Stops
    /\ ~stopping
    /\ stopping' = TRUE
    /\ UNCHANGED <<queue, fetcher, runner, express, counters, signals>>

AllStopped ==
    /\ fetcher.pc = "stopped"
    /\ express.pc = "stopped"
    /\ \A r \in Runner : runner[r].pc = "stopped"

\* The process is gone.
Stopped == AllStopped /\ UNCHANGED vars

QueueStep ==
    \E j \in Job : BecomeReady(j) \/ Age(j) \/ LeaseExpires(j) \/ Create(j) \/ RunNow(j)

Wake == WakeOnCompletion \/ WakeOnHint \/ WakeOnAlarm \/ WakeOnPoll

FetcherStep == Load \/ Claim \/ ClaimFails \/ BackoffEnds \/ Fault \/ Wake \/ FetcherStops

RunnerStep(r) ==
    \/ Announce(r) \/ MarkBusy(r) \/ Finish(r) \/ FinishUnreleased(r)
    \/ FreeLane(r) \/ Signal(r) \/ RunnerStops(r)

ExpressStep == ExpressServes \/ ExpressFinishes \/ ExpressStops

Next ==
    \/ QueueStep
    \/ FetcherStep
    \/ \E r \in Runner : HandOver(r) \/ RunnerStep(r)
    \/ ExpressStep
    \/ Shutdown
    \/ Stopped

Spec == Init /\ [][Next]_vars

(***************************************************************************)
(* Every goroutine runs when it can.  A probe ends: the execution timeout  *)
(* and the watchdog see to it.  The flat poll always comes.  The database  *)
(* answers a claim again and again, whatever fails in between.  Nothing    *)
(* forces a check to be created, run by hand, or the worker to stop.  A    *)
(* claim that found something does not lose its answer every time.         *)
(***************************************************************************)
Fairness ==
    /\ WF_vars(Load) /\ WF_vars(BackoffEnds)
    /\ SF_vars(Claim) /\ SF_vars(Claim /\ fetcher'.pc = "send")
    /\ WF_vars(Wake) /\ WF_vars(FetcherStops)
    /\ WF_vars(\E r \in Runner : HandOver(r))
    /\ \A r \in Runner : SF_vars(RunnerStep(r))
    /\ WF_vars(ExpressStep)
    /\ \A j \in Job : WF_vars(Age(j)) /\ WF_vars(LeaseExpires(j))

FairSpec == Spec /\ Fairness

-----------------------------------------------------------------------------
(* Properties.                                                             *)

SlowRunners == {r \in Runner : runner[r].held # NULL /\ runner[r].held.lane = "slow"}
SlowPending == {j \in DOMAIN fetcher.jobs : fetcher.lanes[j] = "slow"}
SlowInPool == Cardinality(SlowRunners) + Cardinality(SlowPending)

\* The slow jobs of the pool, handed out or about to be, never take the slots
\* reserved for the fast lane, although the runners finish and the lanes of
\* rows change while the fetcher is between its reads and its claim.
FastSlotsKept == SlowInPool <= PoolSize - Reserved

\* The count the next budget is computed from is never below what is in flight
\* (a stopped fetcher computes no budget any more).
SlowCounted == fetcher.pc # "stopped" => busySlow = SlowInPool

\* Nobody is about to wake the fetcher before the flat poll.
Asleep ==
    /\ fetcher.pc = "wait" /\ ~stopping
    /\ ~completion /\ fetchHints = 0 /\ ~AlarmRings
    /\ \A r \in Runner : runner[r].pc \in {"loop", "waiting", "stopped"}

\* A row the next fetch would claim.
Takeable(j) == j \in Ready /\ (Lane(j) = "fast" \/ busySlow < PoolSize - Reserved)

\* The claim's hint and the completions leave no claimable row to the flat
\* poll: an idle pool that knows of a claimable row is about to fetch it.
HintCovers == Asleep /\ ~fetcher.skipped => \A j \in Job : ~Takeable(j)

RunningJob(j) ==
    \/ \E r \in Runner : runner[r].pc = "running" /\ runner[r].held.job = j
    \/ express.pc = "running" /\ express.held.job = j

\* A claimable row is executed, in either lane, however busy the other lane
\* keeps the pool and whatever rows become claimable meanwhile.
EveryReadyJobRuns == \A j \in Job : j \in Ready ~> RunningJob(j) \/ stopping

\* A run that was lost with its lease is executed again.
LostRunsRetried == \A j \in Job : j \in leased \ HeldJobs ~> RunningJob(j) \/ stopping

\* A shutdown ends every goroutine, in whatever hand-over it finds them.
ShutdownEnds == stopping ~> AllStopped
=============================================================================
