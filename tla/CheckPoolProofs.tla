-------------------------- MODULE CheckPoolProofs ---------------------------
(***************************************************************************)
(* Proofs about the worker pool, for any number of rows and runners: its   *)
(* types, that the count of slow jobs is the number of slow jobs in the    *)
(* pool, that those jobs never take a slot reserved for the fast lane, and *)
(* that an idle pool leaves no claimable row to the flat poll.             *)
(***************************************************************************)
EXTENDS CheckPool, TLAPS, FiniteSetTheorems, WellFoundedInduction

USE PoolAssumption

-----------------------------------------------------------------------------
(* The order of rows.                                                      *)

LEMMA InsertedOrder ==
    ASSUME NEW q, IsOrder(q), NEW new, new \notin DOMAIN q, NEW S, AtHead(q, S)
    PROVE  /\ IsOrder(Inserted(q, new, S))
           /\ DOMAIN Inserted(q, new, S) = DOMAIN q \cup {new}
           /\ AtHead(Inserted(q, new, S), S)
           /\ AtHead(Inserted(q, new, S), S \cup {new})
<1>. DEFINE p == Inserted(q, new, S)
<1>1. /\ DOMAIN p = DOMAIN q \cup {new}
      /\ p[new] = S
      /\ \A i \in DOMAIN q : p[i] = IF i \in S THEN q[i] ELSE q[i] \cup {new}
  BY DEF Inserted
<1>2. p \in [DOMAIN p -> SUBSET DOMAIN p]
  BY DEF Inserted, IsOrder, AtHead
<1>. HIDE DEF p
<1>3. ASSUME NEW i \in DOMAIN p, NEW j \in DOMAIN p
      PROVE  i \in p[j] <=> i # j /\ j \notin p[i]
  BY <1>1, <1>3 DEF IsOrder, AtHead
<1>4. ASSUME NEW i \in DOMAIN p, NEW j \in DOMAIN p, i \in p[j]
      PROVE  p[i] \subseteq p[j]
  <2>1. CASE i = new
    BY <1>1, <1>4, <2>1 DEF IsOrder, AtHead
  <2>2. CASE j = new
    BY <1>1, <1>4, <2>2 DEF IsOrder, AtHead
  <2>3. CASE i # new /\ j # new
    BY <1>1, <1>4, <2>3 DEF IsOrder, AtHead
  <2>. QED
    BY <2>1, <2>2, <2>3
<1>5. IsOrder(p)
  BY <1>2, <1>3, <1>4 DEF IsOrder
<1>6. AtHead(p, S) /\ AtHead(p, S \cup {new})
  BY <1>1 DEF AtHead
<1>. QED
  BY <1>1, <1>5, <1>6 DEF p

\* The head of a queue stays its head when a row gets in behind it.
LEMMA InsertedBehind ==
    ASSUME NEW q, IsOrder(q), NEW new, new \notin DOMAIN q, NEW S, AtHead(q, S),
           NEW T, AtHead(q, T), T \subseteq S
    PROVE  AtHead(Inserted(q, new, S), T)
BY DEF IsOrder, AtHead, Inserted

LEMMA PlacesAtHead ==
    ASSUME NEW q, IsOrder(q), NEW S \in Places(q)
    PROVE  AtHead(q, S)
BY DEF IsOrder, Places, AtHead

LEMMA DequeuedOrder ==
    ASSUME NEW q, IsOrder(q), NEW S
    PROVE  /\ IsOrder(Dequeued(q, S))
           /\ DOMAIN Dequeued(q, S) = DOMAIN q \ S
           /\ \A T : AtHead(q, T) => AtHead(Dequeued(q, S), T \ S)
<1>1. IsOrder(Dequeued(q, S)) /\ DOMAIN Dequeued(q, S) = DOMAIN q \ S
  BY DEF IsOrder, Dequeued
<1>2. \A T : AtHead(q, T) => AtHead(Dequeued(q, S), T \ S)
  BY DEF Dequeued, AtHead
<1>. QED
  BY <1>1, <1>2

LEMMA NothingIsOrder == IsOrder(Nothing) /\ DOMAIN Nothing = {} /\ AtHead(Nothing, {})
BY DEF Nothing, IsOrder, AtHead

-----------------------------------------------------------------------------
(* The first rows of a lane.                                               *)

\* Every nonempty set of numbers has a least one.
LEMMA LeastNumber ==
    ASSUME NEW T \in SUBSET Nat, T # {}
    PROVE  \E x \in T : \A y \in T : x <= y
<1>1. PICK x \in T : \A y \in T : ~ (<<y, x>> \in OpToRel(<, Nat))
  BY WFMin, NatLessThanWellFounded
<1>2. \A y \in T : y \in Nat
  OBVIOUS
<1>3. \A y \in T : ~ (y < x)
  BY <1>1, <1>2 DEF OpToRel
<1>. QED
  BY <1>2, <1>3

\* How many rows of S are ahead of one, from any number of rows to at most n.
LEMMA RankOrders ==
    ASSUME IsOrder(ready), NEW S, S \subseteq Ready, IsFiniteSet(S)
    PROVE  /\ \A j \in S : Cardinality(ready[j] \cap S) \in Nat
           /\ \A i, j \in S : i \in ready[j]
                => Cardinality(ready[i] \cap S) < Cardinality(ready[j] \cap S)
<1>1. ASSUME NEW j \in S
      PROVE  IsFiniteSet(ready[j] \cap S) /\ Cardinality(ready[j] \cap S) \in Nat
  BY FS_Intersection, FS_CardinalityType
<1>2. ASSUME NEW i \in S, NEW j \in S, i \in ready[j]
      PROVE  Cardinality(ready[i] \cap S) < Cardinality(ready[j] \cap S)
  <2>. DEFINE A == ready[i] \cap S
              B == ready[j] \cap S
  <2>1. A \in SUBSET B /\ i \notin A /\ i \in B
    BY <1>2 DEF IsOrder, Ready
  <2>2. IsFiniteSet(B) /\ Cardinality(A) \in Nat /\ Cardinality(B) \in Nat
    BY <1>1
  <2>. HIDE DEF A, B
  <2>3. Cardinality(A) <= Cardinality(B) /\ (Cardinality(B) = Cardinality(A) => B = A)
    BY <2>1, <2>2, FS_Subset
  <2>4. Cardinality(A) < Cardinality(B)
    BY <2>1, <2>2, <2>3
  <2>. QED
    BY <2>4 DEF A, B
<1>. QED
  BY <1>1, <1>2

\* No more than n rows, of S, and at least one if there is one to take.
LEMMA OldestBounds ==
    ASSUME IsOrder(ready), NEW S, S \subseteq Ready, IsFiniteSet(S), NEW n \in Nat
    PROVE  /\ Oldest(S, n) \subseteq S
           /\ Cardinality(Oldest(S, n)) \in 0 .. n
           /\ n > 0 /\ S # {} => Oldest(S, n) # {}
<1>. DEFINE T == Oldest(S, n)
            rank(j) == Cardinality(ready[j] \cap S)
<1>1. T \subseteq S /\ IsFiniteSet(T) /\ Cardinality(T) \in Nat
  BY FS_Subset, FS_CardinalityType DEF Oldest
<1>2. /\ \A j \in S : rank(j) \in Nat
      /\ \A i, j \in S : i \in ready[j] => rank(i) < rank(j)
  BY RankOrders
<1>3. \A j \in T : rank(j) < n
  BY DEF Oldest
<1>4. \A j \in S : IsFiniteSet(ready[j] \cap S)
  BY FS_Intersection
<1>5. \A j \in S : rank(j) = 0 => j \in T \/ n = 0
  BY DEF Oldest
<1>. HIDE DEF T
<1>6. ASSUME T # {}
      PROVE  Cardinality(T) <= n
  \* The last row of T has the others of T ahead of it.
  <2>. DEFINE D == {n - rank(j) : j \in T}
  <2>. HIDE DEF rank
  <2>1. D \in SUBSET Nat /\ D # {}
    BY <1>1, <1>2, <1>3, <1>6
  <2>2. PICK d \in D : \A e \in D : d <= e
    BY <2>1, LeastNumber
  <2>3. PICK m \in T : d = n - rank(m)
    BY <2>2
  <2>4. ASSUME NEW k \in T
        PROVE  rank(k) <= rank(m)
    <3>1. n - rank(m) <= n - rank(k)
      BY <2>2, <2>3
    <3>2. rank(k) \in Nat /\ rank(m) \in Nat
      BY <1>1, <1>2
    <3>. QED
      BY <3>1, <3>2
  <2>5. ASSUME NEW k \in T \ {m}
        PROVE  k \in ready[m] \cap S
    <3>1. ~ (m \in ready[k])
      BY <1>1, <1>2, <2>4
    <3>. QED
      BY <1>1, <3>1 DEF IsOrder, Ready
  <2>6. T \ {m} \in SUBSET (ready[m] \cap S)
    BY <2>5
  <2>7. Cardinality(T \ {m}) <= rank(m)
    BY <1>1, <1>4, <2>6, FS_Subset DEF rank
  <2>8. Cardinality(T \ {m}) = Cardinality(T) - 1
    BY <1>1, FS_RemoveElement
  <2>. QED
    BY <1>1, <1>2, <1>3, <2>7, <2>8
<1>7. Cardinality(T) <= n
  BY <1>1, <1>6, FS_EmptySet
<1>8. ASSUME n > 0, S # {}
      PROVE  T # {}
  \* The first row of S has none ahead of it.
  <2>. DEFINE D == {rank(j) : j \in S}
  <2>. HIDE DEF rank
  <2>1. D \in SUBSET Nat /\ D # {}
    BY <1>2, <1>8
  <2>2. PICK d \in D : \A e \in D : d <= e
    BY <2>1, LeastNumber
  <2>3. PICK m \in S : d = rank(m)
    BY <2>2
  <2>4. \A k \in S : rank(m) <= rank(k)
    BY <1>2, <2>2, <2>3
  <2>5. ready[m] \cap S = {}
    BY <1>2, <2>4
  <2>6. rank(m) = 0
    BY <2>5, FS_EmptySet DEF rank
  <2>. QED
    BY <1>5, <1>8, <2>6
<1>. QED
  BY <1>1, <1>7, <1>8 DEF T

-----------------------------------------------------------------------------
(* The budget of a fetch, and what a claim takes.                          *)

LEMMA MinOfTwo ==
    ASSUME NEW m \in Int, NEW n \in Int
    PROVE  Min({m, n}) = IF m <= n THEN m ELSE n
BY DEF Min

LEMMA MaxOfTwo ==
    ASSUME NEW m \in Int, NEW n \in Int
    PROVE  Max({m, n}) = IF m >= n THEN m ELSE n
BY DEF Max

LEMMA PoolSizeType == PoolSize \in Nat /\ Reserved \in Nat /\ PoolSize - Reserved \in Nat \ {0}
<1>1. Cardinality(Runner) \in Nat
  BY FS_CardinalityType
<1>. QED
  BY <1>1 DEF PoolSize

\* The budget is within the free runners and within the slots that are neither
\* reserved nor taken, and only a full slow lane makes it zero.
LEMMA LaneLimitBounds ==
    ASSUME NEW free \in Nat, NEW busy \in Int
    PROVE  /\ LaneLimit(free, busy) \in 0 .. free
           /\ busy <= PoolSize - Reserved => busy + LaneLimit(free, busy) <= PoolSize - Reserved
           /\ LaneLimit(free, busy) = 0 => free = 0 \/ busy >= PoolSize - Reserved
<1>. DEFINE left == PoolSize - Reserved - busy
            least == Min({left, free})
<1>1. left \in Int
  BY PoolSizeType
<1>2. least = IF left <= free THEN left ELSE free
  BY <1>1, MinOfTwo
<1>3. LaneLimit(free, busy) = IF 0 >= least THEN 0 ELSE least
  <2>1. LaneLimit(free, busy) = Max({0, least})
    BY DEF LaneLimit
  <2>2. least \in Int
    BY <1>1, <1>2
  <2>. HIDE DEF least
  <2>. QED
    BY <2>1, <2>2, MaxOfTwo
<1>. QED
  BY <1>1, <1>2, <1>3, PoolSizeType

\* A claim takes claimable rows, no more slow ones than its budget, and at
\* least one if there is one and the budget is not zero.
LEMMA TakenBounds ==
    ASSUME IsOrder(ready), Ready \subseteq Job, NEW free \in Nat, NEW slow \in Nat
    PROVE  /\ Taken(free, slow) \subseteq Ready
           /\ Cardinality(Taken(free, slow) \cap slowLane) \in 0 .. slow
           /\ free > 0 /\ slow > 0 /\ Ready # {} => Taken(free, slow) # {}
<1>. DEFINE m == Min({slow, free})
            slowJobs == Oldest(InLane("slow"), m)
            fastJobs == Oldest(InLane("fast"), free - Cardinality(slowJobs))
<1>1. \A lane : InLane(lane) \subseteq Ready /\ IsFiniteSet(InLane(lane))
  BY FS_Subset DEF InLane
<1>2. m \in Nat /\ m <= slow /\ m <= free /\ (free > 0 /\ slow > 0 => m > 0)
  BY MinOfTwo
<1>. HIDE DEF m
<1>3. /\ slowJobs \subseteq InLane("slow")
      /\ Cardinality(slowJobs) \in 0 .. m
      /\ m > 0 /\ InLane("slow") # {} => slowJobs # {}
  BY <1>1, <1>2, OldestBounds
<1>4. free - Cardinality(slowJobs) \in Nat
  BY <1>2, <1>3
<1>5. /\ fastJobs \subseteq InLane("fast")
      /\ free - Cardinality(slowJobs) > 0 /\ InLane("fast") # {} => fastJobs # {}
  BY <1>1, <1>4, OldestBounds
<1>6. Taken(free, slow) = slowJobs \cup fastJobs
  BY DEF Taken, m
<1>. HIDE DEF slowJobs, fastJobs
<1>7. Taken(free, slow) \cap slowLane = slowJobs
  BY <1>3, <1>5, <1>6 DEF InLane, Lane
<1>8. Cardinality(Taken(free, slow) \cap slowLane) \in 0 .. slow
  <2>1. Cardinality(slowJobs) \in 0 .. slow
    BY <1>2, <1>3
  <2>. QED
    BY <1>7, <2>1, Zenon
<1>9. ASSUME free > 0, slow > 0, Ready # {}
      PROVE  Taken(free, slow) # {}
  <2>1. CASE InLane("slow") # {}
    BY <1>2, <1>3, <1>6, <1>9, <2>1
  <2>2. CASE InLane("slow") = {}
    <3>1. slowJobs = {} /\ Cardinality(slowJobs) = 0
      BY <1>3, <2>2, FS_EmptySet
    <3>2. InLane("fast") # {}
      BY <1>9, <2>2 DEF InLane, Lane
    <3>. QED
      BY <1>5, <1>6, <1>9, <3>1, <3>2
  <2>. QED
    BY <2>1, <2>2
<1>. QED
  BY <1>1, <1>3, <1>5, <1>6, <1>8, <1>9

-----------------------------------------------------------------------------
(* The inductive invariant.                                                *)

QueueInv ==
    /\ Ready \subseteq Job /\ IsOrder(ready) /\ AtHead(ready, overdue)
    /\ leased \subseteq Job /\ absent \subseteq New /\ slowLane \subseteq Job
    /\ Ready \cap leased = {}

Orders == UNION {[S -> SUBSET S] : S \in SUBSET Job}
LaneMaps == UNION {[S -> {"slow", "fast"}] : S \in SUBSET Job}

Fetcher == [pc : {"load", "claim", "send", "wait", "backoff", "stopped"},
            free : 0 .. PoolSize, slow : 0 .. PoolSize, lanes : LaneMaps,
            jobs : Orders, alarm : SUBSET Job, skipped : BOOLEAN]

\* The fetcher has jobs to hand out only while it hands them out.
FetcherInv ==
    /\ fetcher \in Fetcher
    /\ IsOrder(fetcher.jobs) /\ DOMAIN fetcher.lanes = DOMAIN fetcher.jobs
    /\ fetcher.pc # "send" => DOMAIN fetcher.jobs = {}

Goroutine == [pc : {"loop", "waiting", "handed", "running", "ran", "signal", "stopped"},
              held : Held \cup {NULL}]

\* A runner holds a job from the hand-over to the end of its run.
RunnerInv ==
    /\ runner \in [Runner -> Goroutine]
    /\ \A r \in Runner : runner[r].held # NULL <=> runner[r].pc \in {"handed", "running", "ran"}

ExpressInv ==
    /\ express \in [pc : {"listen", "running", "stopped"}, held : Held \cup {NULL}]
    /\ express.held # NULL <=> express.pc = "running"

SignalInv ==
    /\ completion \in BOOLEAN
    /\ fetchHints \in 0 .. HintBuffer
    /\ expressHints \in Seq(Job) /\ Len(expressHints) <= HintBuffer
    /\ stopping \in BOOLEAN

\* The counter of available runners counts those that announced themselves and
\* did not yet mark themselves busy.
Announced == {r \in Runner : runner[r].pc \in {"waiting", "handed"}}
AvailableCounted == available = Cardinality(Announced)

\* The budget that a fetch computed still fits when it claims.
BudgetFits == fetcher.pc = "claim" => SlowInPool + fetcher.slow <= PoolSize - Reserved

CountInv ==
    /\ busySlow \in Int
    /\ AvailableCounted
    /\ SlowCounted
    /\ FastSlotsKept
    /\ BudgetFits

PoolInv == QueueInv /\ FetcherInv /\ RunnerInv /\ ExpressInv /\ SignalInv /\ CountInv

LEMMA AnnouncedType == IsFiniteSet(Announced) /\ Cardinality(Announced) \in 0 .. PoolSize
<1>1. Announced \in SUBSET Runner
  BY DEF Announced
<1>. QED
  BY <1>1, FS_Subset, FS_CardinalityType DEF PoolSize

LEMMA PoolInvTypes == PoolInv => TypeOK
<1>. SUFFICES ASSUME PoolInv
              PROVE  TypeOK
  OBVIOUS
<1>1. available \in -PoolSize .. PoolSize
  BY AnnouncedType, PoolSizeType DEF PoolInv, CountInv, AvailableCounted
<1>. QED
  BY <1>1 DEF PoolInv, QueueInv, FetcherInv, RunnerInv, ExpressInv, SignalInv, CountInv,
              TypeOK, Fetcher, Orders, LaneMaps, Goroutine

\* What a batch of the fetcher is.
LEMMA BatchType ==
    ASSUME NEW jobs, IsOrder(jobs), DOMAIN jobs \subseteq Job,
           NEW lanes \in [DOMAIN jobs -> {"slow", "fast"}]
    PROVE  jobs \in Orders /\ lanes \in LaneMaps
BY DEF IsOrder, Orders, LaneMaps

LEMMA BatchOfFetcher ==
    ASSUME FetcherInv
    PROVE  /\ DOMAIN fetcher.jobs \subseteq Job
           /\ fetcher.lanes \in [DOMAIN fetcher.jobs -> {"slow", "fast"}]
BY DEF FetcherInv, Fetcher, Orders, LaneMaps

LEMMA SlowSetsFinite ==
    ASSUME FetcherInv
    PROVE  /\ IsFiniteSet(SlowRunners) /\ Cardinality(SlowRunners) \in Nat
           /\ IsFiniteSet(SlowPending) /\ Cardinality(SlowPending) \in Nat
<1>1. SlowRunners \in SUBSET Runner /\ SlowPending \in SUBSET Job
  BY BatchOfFetcher DEF SlowRunners, SlowPending
<1>. QED
  BY <1>1, FS_Subset, FS_CardinalityType

-----------------------------------------------------------------------------
(* The queue.                                                              *)

\* Rows leave the queue for a lease.
LEMMA LeaseKeepsQueue ==
    ASSUME QueueInv, NEW S, S \subseteq Ready, Without(S), leased' = leased \cup S,
           UNCHANGED <<absent, slowLane>>
    PROVE  QueueInv'
<1>1. IsOrder(ready') /\ DOMAIN ready' = Ready \ S /\ AtHead(ready', overdue')
  BY DequeuedOrder DEF QueueInv, Without, Ready
<1>2. Ready' = Ready \ S
  BY <1>1 DEF Ready
<1>. QED
  BY <1>1, <1>2 DEF QueueInv

LEMMA ReleaseKeepsQueue ==
    ASSUME QueueInv, NEW j \in Job, Release(j)
    PROVE  QueueInv'
BY DEF QueueInv, Release, Ready

LEMMA QueueStepKeepsQueue ==
    ASSUME QueueInv, QueueStep
    PROVE  QueueInv'
<1>1. ASSUME NEW j \in Job, BecomeReady(j)
      PROVE  QueueInv'
  <2>1. PICK S \in Places(ready) : overdue \subseteq S /\ ready' = Inserted(ready, j, S)
    BY <1>1 DEF BecomeReady
  <2>2. j \notin DOMAIN ready /\ j \notin leased
    BY <1>1 DEF BecomeReady, Later, Ready
  <2>3. AtHead(ready, S) /\ AtHead(ready, overdue)
    BY PlacesAtHead DEF QueueInv
  <2>4. IsOrder(ready') /\ DOMAIN ready' = DOMAIN ready \cup {j} /\ AtHead(ready', overdue)
    BY <2>1, <2>2, <2>3, InsertedOrder, InsertedBehind DEF QueueInv
  <2>. QED
    BY <1>1, <2>2, <2>4 DEF QueueInv, BecomeReady, Ready
<1>2. ASSUME NEW j \in Job, Age(j)
      PROVE  QueueInv'
  BY <1>2 DEF QueueInv, Age, Ready, AtHead, IsOrder
<1>3. ASSUME NEW j \in Job, LeaseExpires(j)
      PROVE  QueueInv'
  <2>1. j \in leased /\ j \notin DOMAIN ready
    BY <1>3 DEF LeaseExpires, QueueInv, Ready
  <2>2. IsOrder(ready') /\ DOMAIN ready' = DOMAIN ready \cup {j} /\ AtHead(ready', overdue')
    BY <1>3, <2>1, InsertedOrder DEF QueueInv, LeaseExpires
  <2>. QED
    BY <1>3, <2>1, <2>2 DEF QueueInv, LeaseExpires, Ready
<1>4. ASSUME NEW j \in Job, Create(j)
      PROVE  QueueInv'
  BY <1>4 DEF QueueInv, Create, Ready
<1>5. ASSUME NEW j \in Job, RunNow(j)
      PROVE  QueueInv'
  <2>1. CASE j \in leased
    BY <1>5, <2>1 DEF QueueInv, RunNow, Ready
  <2>2. CASE j \notin leased
    <3>. DEFINE others == Dequeued(ready, {j})
                passed == overdue \ {j}
    <3>1. PICK S \in Places(others) : passed \subseteq S /\ ready' = Inserted(others, j, S)
      BY <1>5, <2>2 DEF RunNow
    <3>2. /\ IsOrder(others) /\ DOMAIN others = DOMAIN ready \ {j}
          /\ AtHead(others, passed)
      BY DequeuedOrder DEF QueueInv
    <3>. HIDE DEF others, passed
    <3>3. AtHead(others, S)
      BY <3>2, PlacesAtHead
    <3>4. j \notin DOMAIN others
      BY <3>2
    <3>5. IsOrder(ready') /\ DOMAIN ready' = DOMAIN others \cup {j} /\ AtHead(ready', passed)
      BY <3>1, <3>2, <3>3, <3>4, InsertedOrder, InsertedBehind
    <3>6. overdue' = passed /\ UNCHANGED <<leased, absent, slowLane>>
      BY <1>5, <2>2 DEF RunNow, passed
    <3>7. Ready' = (Ready \ {j}) \cup {j}
      BY <3>2, <3>5 DEF Ready
    <3>8. AtHead(ready', overdue')
      BY <3>5, <3>6
    <3>9. Ready' \subseteq Job /\ Ready' \cap leased = {}
      BY <2>2, <3>7 DEF QueueInv
    <3>. QED
      BY <3>5, <3>6, <3>8, <3>9 DEF QueueInv
  <2>. QED
    BY <2>1, <2>2
<1>. QED
  BY <1>1, <1>2, <1>3, <1>4, <1>5 DEF QueueStep

\* What the fetcher takes is claimable.
LEMMA FetcherTakes ==
    ASSUME QueueInv, FetcherInv
    PROVE  /\ Taken(fetcher.free, fetcher.slow) \subseteq Ready
           /\ Cardinality(Taken(fetcher.free, fetcher.slow) \cap slowLane) \in 0 .. fetcher.slow
           /\ fetcher.free > 0 /\ fetcher.slow > 0 /\ Ready # {}
                => Taken(fetcher.free, fetcher.slow) # {}
<1>1. fetcher.free \in Nat /\ fetcher.slow \in Nat
  BY PoolSizeType DEF FetcherInv, Fetcher
<1>. QED
  BY <1>1, TakenBounds DEF QueueInv

LEMMA QueueMoves ==
    ASSUME PoolInv, [Next]_vars
    PROVE  QueueInv'
<1>. USE DEF PoolInv
<1>1. CASE UNCHANGED queue
  BY <1>1 DEF queue, QueueInv, Ready
<1>2. CASE Claim \/ ClaimFails
  <2>. DEFINE S == Taken(fetcher.free, fetcher.slow)
  <2>1. S \subseteq Ready
    BY FetcherTakes
  <2>2. CASE /\ Without(S) /\ leased' = leased \cup S
             /\ UNCHANGED <<absent, slowLane>>
    BY <2>1, <2>2, LeaseKeepsQueue
  <2>. QED
    BY <1>1, <1>2, <2>2 DEF Claim, ClaimFails
<1>3. ASSUME NEW r \in Runner, Finish(r)
      PROVE  QueueInv'
  <2>1. runner[r].held.job \in Job
    BY <1>3 DEF RunnerInv, Goroutine, Finish, Held
  <2>. QED
    BY <1>3, <2>1, ReleaseKeepsQueue DEF Finish
<1>4. CASE ExpressServes
  BY <1>1, <1>4, LeaseKeepsQueue DEF ExpressServes, queue
<1>5. CASE ExpressFinishes
  <2>1. express.held.job \in Job
    BY <1>5 DEF ExpressInv, ExpressFinishes, Held
  <2>. QED
    BY <1>1, <1>5, <2>1, ReleaseKeepsQueue DEF ExpressFinishes
<1>6. ASSUME NEW r \in Runner, HandOver(r) \/ RunnerStep(r), ~ Finish(r)
      PROVE  UNCHANGED queue
  BY <1>6 DEF HandOver, RunnerStep, Announce, MarkBusy, FinishUnreleased, FreeLane, Signal,
              RunnerStops
<1>7. ASSUME FetcherStep, ~ Claim, ~ ClaimFails
      PROVE  UNCHANGED queue
  BY <1>7 DEF FetcherStep, Load, BackoffEnds, Fault, Wake, WakeOnCompletion, WakeOnHint,
              WakeOnAlarm, WakeOnPoll, FetcherStops
<1>8. CASE ExpressStops \/ Shutdown \/ UNCHANGED vars
  BY <1>1, <1>8 DEF ExpressStops, Shutdown, vars
<1>. QED
  BY <1>1, <1>2, <1>3, <1>4, <1>5, <1>6, <1>7, <1>8, QueueStepKeepsQueue
     DEF Next, ExpressStep, Stopped

-----------------------------------------------------------------------------
(* The goroutines and the signals.                                         *)

LEMMA SignalMoves ==
    ASSUME PoolInv, [Next]_vars
    PROVE  SignalInv'
<1>. USE DEF PoolInv
<1>1. CASE UNCHANGED <<signals, stopping>>
  BY <1>1 DEF signals, SignalInv
<1>2. ASSUME NEW j \in Job, Notify(j), UNCHANGED stopping
      PROVE  SignalInv'
  <2>1. fetchHints' \in 0 .. HintBuffer
    <3>1. Min({fetchHints + 1, HintBuffer})
            = IF fetchHints + 1 <= HintBuffer THEN fetchHints + 1 ELSE HintBuffer
      BY MinOfTwo DEF SignalInv
    <3>. QED
      BY <1>2, <3>1 DEF Notify, SignalInv
  <2>2. expressHints' \in Seq(Job) /\ Len(expressHints') <= HintBuffer
    BY <1>2 DEF Notify, SignalInv
  <2>. QED
    BY <1>2, <2>1, <2>2 DEF Notify, SignalInv
<1>3. CASE QueueStep
  BY <1>1, <1>2, <1>3 DEF QueueStep, BecomeReady, Age, LeaseExpires, Create, RunNow, signals
<1>4. CASE FetcherStep
  <2>1. CASE WakeOnHint
    BY <2>1 DEF WakeOnHint, SignalInv
  <2>2. CASE WakeOnCompletion \/ Fault
    BY <2>2 DEF WakeOnCompletion, Fault, signals, SignalInv
  <2>. QED
    BY <1>1, <1>4, <2>1, <2>2 DEF FetcherStep, Load, Claim, ClaimFails, BackoffEnds, Wake,
       WakeOnAlarm, WakeOnPoll, FetcherStops
<1>5. ASSUME NEW r \in Runner, HandOver(r) \/ RunnerStep(r)
      PROVE  SignalInv'
  <2>1. CASE Signal(r)
    BY <2>1 DEF Signal, Buffered, SignalInv
  <2>. QED
    BY <1>1, <1>5, <2>1 DEF HandOver, RunnerStep, Announce, MarkBusy, Finish,
       FinishUnreleased, FreeLane, RunnerStops
<1>6. CASE ExpressStep
  <2>1. CASE ExpressServes
    <3>1. Tail(expressHints) \in Seq(Job) /\ Len(Tail(expressHints)) = Len(expressHints) - 1
      BY <2>1 DEF ExpressServes, SignalInv
    <3>2. Len(expressHints) \in Nat
      BY DEF SignalInv
    <3>3. expressHints' \in Seq(Job) /\ Len(expressHints') <= HintBuffer
      BY <2>1, <3>1, <3>2 DEF ExpressServes, SignalInv
    <3>. QED
      BY <2>1, <3>3 DEF ExpressServes, SignalInv
  <2>. QED
    BY <1>1, <1>6, <2>1 DEF ExpressStep, ExpressFinishes, ExpressStops
<1>7. CASE Shutdown \/ UNCHANGED vars
  BY <1>7 DEF Shutdown, vars, signals, SignalInv
<1>. QED
  BY <1>3, <1>4, <1>5, <1>6, <1>7 DEF Next, Stopped

LEMMA ExpressMoves ==
    ASSUME PoolInv, [Next]_vars
    PROVE  ExpressInv'
<1>. USE DEF PoolInv
<1>1. CASE UNCHANGED express
  BY <1>1 DEF ExpressInv
<1>2. CASE ExpressServes
  <2>1. \A j \in Job : Hold(j) \in Held /\ Hold(j) # NULL
    BY DEF Hold, Held, Lane
  <2>2. Ready \subseteq Job
    BY DEF QueueInv
  <2>3. CASE UNCHANGED express
    BY <1>1, <2>3
  <2>. QED
    BY <1>2, <2>1, <2>2, <2>3 DEF ExpressServes, ExpressInv
<1>3. CASE ExpressFinishes
  BY <1>3 DEF ExpressFinishes, ExpressInv
<1>4. CASE ExpressStops
  BY <1>4 DEF ExpressStops, ExpressInv
<1>5. ASSUME NEW r \in Runner, HandOver(r) \/ RunnerStep(r)
      PROVE  UNCHANGED express
  BY <1>5 DEF HandOver, RunnerStep, Announce, MarkBusy, Finish, FinishUnreleased, FreeLane,
              Signal, RunnerStops
<1>6. ASSUME FetcherStep \/ QueueStep \/ Shutdown \/ UNCHANGED vars
      PROVE  UNCHANGED express
  BY <1>6 DEF FetcherStep, Load, Claim, ClaimFails, BackoffEnds, Fault, Wake, WakeOnCompletion,
              WakeOnHint, WakeOnAlarm, WakeOnPoll, FetcherStops, QueueStep, BecomeReady, Age,
              LeaseExpires, Create, RunNow, Shutdown, vars
<1>. QED
  BY <1>1, <1>2, <1>3, <1>4, <1>5, <1>6 DEF Next, ExpressStep, Stopped

\* The runners change one at a time, but for what a step of another goroutine
\* leaves alone.
LEMMA RunnerMoves ==
    ASSUME PoolInv, [Next]_vars
    PROVE  RunnerInv'
<1>. USE DEF PoolInv
<1>1. CASE UNCHANGED runner
  BY <1>1 DEF RunnerInv
<1>2. ASSUME NEW r \in Runner, HandOver(r)
      PROVE  RunnerInv'
  <2>1. PICK j \in First(fetcher.jobs) :
          runner' = [runner EXCEPT ![r] = [pc |-> "handed",
                                           held |-> [job |-> j, lane |-> fetcher.lanes[j]]]]
    BY <1>2 DEF HandOver
  <2>2. [job |-> j, lane |-> fetcher.lanes[j]] \in Held
    BY BatchOfFetcher DEF First, Held
  <2>3. [job |-> j, lane |-> fetcher.lanes[j]] # NULL
    BY <2>2
  <2>. QED
    BY <2>1, <2>2, <2>3 DEF RunnerInv, Goroutine
<1>3. ASSUME NEW r \in Runner, RunnerStep(r)
      PROVE  RunnerInv'
  <2>1. runner[r] \in Goroutine
    BY DEF RunnerInv
  <2>2. CASE FreeLane(r)
    BY <2>2 DEF FreeLane, RunnerInv, Goroutine
  <2>3. ASSUME NEW pc \in {"loop", "waiting", "running", "ran", "stopped"},
               runner' = [runner EXCEPT ![r].pc = pc],
               pc \in {"running", "ran"} <=> runner[r].pc \in {"handed", "running", "ran"}
        PROVE  RunnerInv'
    <3>1. [runner[r] EXCEPT !.pc = pc] \in Goroutine
      BY <2>1 DEF Goroutine
    <3>2. /\ runner' \in [Runner -> Goroutine]
          /\ runner'[r].pc = pc /\ runner'[r].held = runner[r].held
          /\ \A q \in Runner \ {r} : runner'[q] = runner[q]
      BY <2>1, <2>3, <3>1 DEF RunnerInv, Goroutine
    <3>. QED
      BY <2>3, <3>2 DEF RunnerInv
  <2>. QED
    BY <1>3, <2>2, <2>3 DEF RunnerStep, Announce, MarkBusy, Finish, FinishUnreleased, Signal,
                            RunnerStops
<1>4. ASSUME FetcherStep \/ QueueStep \/ ExpressStep \/ Shutdown \/ UNCHANGED vars
      PROVE  UNCHANGED runner
  BY <1>4 DEF FetcherStep, Load, Claim, ClaimFails, BackoffEnds, Fault, Wake, WakeOnCompletion,
              WakeOnHint, WakeOnAlarm, WakeOnPoll, FetcherStops, QueueStep, BecomeReady, Age,
              LeaseExpires, Create, RunNow, ExpressStep, ExpressServes, ExpressFinishes,
              ExpressStops, Shutdown, vars
<1>. QED
  BY <1>1, <1>2, <1>3, <1>4 DEF Next, Stopped

-----------------------------------------------------------------------------
(* The fetcher.                                                            *)

\* The fetcher with another batch.
LEMMA FetcherType ==
    ASSUME NEW f, NEW jobs, IsOrder(jobs), DOMAIN jobs \subseteq Job,
           NEW lanes \in [DOMAIN jobs -> {"slow", "fast"}],
           NEW pc \in {"load", "claim", "send", "wait", "backoff", "stopped"},
           NEW free \in 0 .. PoolSize, NEW slow \in 0 .. PoolSize,
           NEW alarm \in SUBSET Job, NEW skipped \in BOOLEAN,
           f = [pc |-> pc, free |-> free, slow |-> slow, jobs |-> jobs, lanes |-> lanes,
                alarm |-> alarm, skipped |-> skipped],
           pc # "send" => DOMAIN jobs = {}
    PROVE  /\ f \in Fetcher
           /\ IsOrder(f.jobs) /\ DOMAIN f.lanes = DOMAIN f.jobs
           /\ f.pc # "send" => DOMAIN f.jobs = {}
BY BatchType DEF Fetcher

\* A step of the fetcher with no batch that leaves it none.
LEMMA FetcherIdles ==
    ASSUME FetcherInv, fetcher'.jobs = fetcher.jobs, fetcher'.lanes = fetcher.lanes,
           fetcher.pc # "send", fetcher' \in Fetcher
    PROVE  FetcherInv'
BY DEF FetcherInv

LEMMA BatchOrder ==
    ASSUME QueueInv, NEW S, S \subseteq Ready
    PROVE  IsOrder(Batch(S)) /\ DOMAIN Batch(S) = S
<1>. DEFINE Before(k, j) == \/ Lane(k) = "slow" /\ Lane(j) = "fast"
                            \/ Lane(k) = Lane(j) /\ k \in ready[j]
            B == [j \in S |-> {k \in S : Before(k, j)}]
<1>1. Batch(S) = B
  BY DEF Batch
<1>2. \A j \in S : Lane(j) \in {"slow", "fast"}
  BY DEF Lane
<1>3. \A i, j \in S : i \in ready[j] <=> i # j /\ j \notin ready[i]
  BY DEF QueueInv, IsOrder, Ready
<1>4. \A i, j \in S : i \in ready[j] => ready[i] \subseteq ready[j]
  BY DEF QueueInv, IsOrder, Ready
<1>5. \A i, j \in S : Before(i, j) <=> i # j /\ ~ Before(j, i)
  BY <1>2, <1>3
<1>6. \A i, j, k \in S : Before(k, i) /\ Before(i, j) => Before(k, j)
  BY <1>2, <1>4
<1>. HIDE DEF Before
<1>7. DOMAIN B = S /\ B \in [S -> SUBSET S]
  OBVIOUS
<1>8. \A j, k \in S : k \in B[j] <=> Before(k, j)
  OBVIOUS
<1>. HIDE DEF B
<1>9. \A i, j \in S : i \in B[j] => B[i] \subseteq B[j]
  BY <1>6, <1>7, <1>8
<1>10. \A i, j \in S : i \in B[j] <=> i # j /\ j \notin B[i]
  BY <1>5, <1>8
<1>11. IsOrder(B)
  BY <1>7, <1>9, <1>10 DEF IsOrder
<1>. QED
  BY <1>1, <1>7, <1>11

LEMMA FetcherMoves ==
    ASSUME PoolInv, [Next]_vars
    PROVE  FetcherInv'
<1>. USE DEF PoolInv
<1>0. /\ fetcher \in Fetcher /\ IsOrder(fetcher.jobs)
      /\ DOMAIN fetcher.lanes = DOMAIN fetcher.jobs
      /\ fetcher.pc # "send" => DOMAIN fetcher.jobs = {}
  BY DEF FetcherInv
<1>1. CASE UNCHANGED fetcher
  BY <1>1 DEF FetcherInv
<1>2. CASE Load
  <2>1. available \in 0 .. PoolSize
    BY AnnouncedType DEF CountInv, AvailableCounted
  <2>2. LaneLimit(available, busySlow) \in 0 .. PoolSize
    <3>1. available \in Nat /\ busySlow \in Int
      BY <2>1, PoolSizeType DEF CountInv
    <3>2. LaneLimit(available, busySlow) \in 0 .. available
      BY <3>1, LaneLimitBounds
    <3>. QED
      BY <2>1, <3>2, PoolSizeType
  <2>. QED
    BY <1>0, <1>2, <2>1, <2>2, FetcherIdles DEF Load, Fetcher
<1>3. CASE Claim
  <2>. DEFINE S == Taken(fetcher.free, fetcher.slow)
  <2>1. S \subseteq Ready /\ S \subseteq Job
    BY FetcherTakes DEF QueueInv
  <2>. DEFINE B == Batch(S)
              L == [j \in S |-> Lane(j)]
  <2>2. fetcher' = [pc |-> IF S = {} THEN "wait" ELSE "send", free |-> 0, slow |-> 0,
                    jobs |-> B, lanes |-> L, alarm |-> Later, skipped |-> FALSE]
    BY <1>3 DEF Claim
  <2>. HIDE DEF S
  <2>3. IsOrder(B) /\ DOMAIN B = S
    BY <2>1, BatchOrder
  <2>4. L \in [DOMAIN B -> {"slow", "fast"}]
    BY <2>3 DEF Lane
  <2>5. Later \in SUBSET Job /\ 0 \in 0 .. PoolSize
    BY PoolSizeType DEF Later
  <2>. HIDE DEF B, L
  <2>6. CASE S = {}
    BY <2>1, <2>2, <2>3, <2>4, <2>5, <2>6, FetcherType DEF FetcherInv
  <2>7. CASE S # {}
    BY <2>1, <2>2, <2>3, <2>4, <2>5, <2>7, FetcherType DEF FetcherInv
  <2>. QED
    BY <2>6, <2>7
<1>4. CASE ClaimFails \/ Fault
  <2>1. 0 \in 0 .. PoolSize
    BY PoolSizeType
  <2>2. \E pc \in {"backoff", "stopped"} :
          fetcher' = [fetcher EXCEPT !.pc = pc, !.free = 0, !.slow = 0]
    BY <1>4 DEF ClaimFails, Fault
  <2>3. fetcher.pc = "claim"
    BY <1>4 DEF ClaimFails, Fault
  <2>. QED
    BY <1>0, <2>1, <2>2, <2>3, FetcherIdles DEF Fetcher
<1>5. CASE BackoffEnds
  BY <1>0, <1>5, FetcherIdles DEF BackoffEnds, Fetcher
<1>6. CASE Wake
  BY <1>0, <1>6, FetcherIdles DEF Wake, WakeOnCompletion, WakeOnHint, WakeOnAlarm, WakeOnPoll,
                                  Woken, Fetcher
<1>7. CASE FetcherStops
  <2>1. fetcher' = [pc |-> "stopped", free |-> 0, slow |-> 0, jobs |-> Nothing,
                    lanes |-> Nothing, alarm |-> {}, skipped |-> FALSE]
    BY <1>0, <1>7 DEF FetcherStops, Fetcher
  <2>2. Nothing \in [DOMAIN Nothing -> {"slow", "fast"}] /\ 0 \in 0 .. PoolSize
    BY PoolSizeType DEF Nothing
  <2>. QED
    BY <2>1, <2>2, NothingIsOrder, FetcherType DEF FetcherInv
<1>8. ASSUME NEW r \in Runner, HandOver(r)
      PROVE  FetcherInv'
  <2>1. PICK j \in First(fetcher.jobs) :
          LET rest == DOMAIN fetcher.jobs \ {j} IN
          fetcher' = [fetcher EXCEPT !.jobs = Dequeued(@, {j}),
                                     !.lanes = [k \in rest |-> @[k]],
                                     !.pc = IF rest = {} THEN "wait" ELSE "send"]
    BY <1>8 DEF HandOver
  <2>. DEFINE rest == DOMAIN fetcher.jobs \ {j}
              J == Dequeued(fetcher.jobs, {j})
              L == [k \in rest |-> fetcher.lanes[k]]
  <2>2. fetcher' = [pc |-> IF rest = {} THEN "wait" ELSE "send", free |-> fetcher.free,
                    slow |-> fetcher.slow, jobs |-> J, lanes |-> L, alarm |-> fetcher.alarm,
                    skipped |-> fetcher.skipped]
    BY <1>0, <2>1 DEF Fetcher
  <2>3. IsOrder(J) /\ DOMAIN J = rest
    BY <1>0, DequeuedOrder
  <2>4. rest \subseteq Job /\ L \in [rest -> {"slow", "fast"}]
    BY BatchOfFetcher
  <2>5. /\ fetcher.free \in 0 .. PoolSize /\ fetcher.slow \in 0 .. PoolSize
        /\ fetcher.alarm \in SUBSET Job /\ fetcher.skipped \in BOOLEAN
    BY <1>0 DEF Fetcher
  <2>. HIDE DEF J, L, rest
  <2>6. CASE rest = {}
    BY <2>2, <2>3, <2>4, <2>5, <2>6, FetcherType DEF FetcherInv
  <2>7. CASE rest # {}
    BY <2>2, <2>3, <2>4, <2>5, <2>7, FetcherType DEF FetcherInv
  <2>. QED
    BY <2>6, <2>7
<1>9. ASSUME NEW r \in Runner, RunnerStep(r)
      PROVE  UNCHANGED fetcher
  BY <1>9 DEF RunnerStep, Announce, MarkBusy, Finish, FinishUnreleased, FreeLane, Signal,
              RunnerStops
<1>10. ASSUME QueueStep \/ ExpressStep \/ Shutdown \/ UNCHANGED vars
       PROVE  UNCHANGED fetcher
  BY <1>10 DEF QueueStep, BecomeReady, Age, LeaseExpires, Create, RunNow, ExpressStep,
               ExpressServes, ExpressFinishes, ExpressStops, Shutdown, vars
<1>. QED
  BY <1>1, <1>2, <1>3, <1>4, <1>5, <1>6, <1>7, <1>8, <1>9, <1>10 DEF Next, FetcherStep, Stopped

-----------------------------------------------------------------------------
(* The counters.                                                           *)

\* One runner more or less in a set of runners.
LEMMA OneRunner ==
    ASSUME NEW S, IsFiniteSet(S), NEW r
    PROVE  /\ r \notin S => Cardinality(S \cup {r}) = Cardinality(S) + 1
           /\ r \in S => Cardinality(S \ {r}) = Cardinality(S) - 1
           /\ Cardinality(S) \in Nat
BY FS_AddElement, FS_RemoveElement, FS_CardinalityType

\* Steps that touch neither the counters nor what they count.
LEMMA CountFrame ==
    ASSUME CountInv, UNCHANGED counters,
           UNCHANGED <<Announced, SlowRunners, SlowPending>>,
           fetcher'.pc = "claim" => fetcher.pc = "claim" /\ fetcher'.slow = fetcher.slow,
           fetcher'.pc # "stopped" => fetcher.pc # "stopped"
    PROVE  CountInv'
BY DEF CountInv, counters, AvailableCounted, SlowCounted, FastSlotsKept, BudgetFits, SlowInPool

\* A runner that takes or leaves no job: only its announcement may change.
LEMMA RunnerFrame ==
    ASSUME RunnerInv, NEW r \in Runner, NEW pc, runner' = [runner EXCEPT ![r].pc = pc]
    PROVE  /\ SlowRunners' = SlowRunners
           /\ Announced' = IF pc \in {"waiting", "handed"} THEN Announced \cup {r}
                           ELSE Announced \ {r}
<1>1. /\ runner'[r].pc = pc /\ runner'[r].held = runner[r].held
      /\ \A q \in Runner \ {r} : runner'[q] = runner[q]
  BY DEF RunnerInv, Goroutine
<1>. QED
  BY <1>1 DEF SlowRunners, Announced

LEMMA LoadKeepsCount ==
    ASSUME PoolInv, Load
    PROVE  CountInv'
<1>. USE DEF PoolInv
<1>1. UNCHANGED <<runner, available, busySlow>>
  BY DEF Load, counters
<1>2. /\ fetcher'.jobs = fetcher.jobs /\ fetcher'.lanes = fetcher.lanes
      /\ fetcher'.pc \in {"wait", "claim"} /\ fetcher.pc = "load"
      /\ fetcher'.pc = "claim" => fetcher'.slow = LaneLimit(available, busySlow)
  BY DEF Load, FetcherInv, Fetcher
<1>3. UNCHANGED <<Announced, SlowRunners, SlowPending>>
  BY <1>1, <1>2 DEF Announced, SlowRunners, SlowPending
<1>4. SlowInPool' = SlowInPool
  BY <1>3 DEF SlowInPool
<1>5. available \in Nat /\ busySlow \in Int
  BY AnnouncedType, PoolSizeType DEF CountInv, AvailableCounted
<1>6. busySlow = SlowInPool /\ SlowInPool <= PoolSize - Reserved
  BY <1>2 DEF CountInv, SlowCounted, FastSlotsKept
<1>7. busySlow + LaneLimit(available, busySlow) <= PoolSize - Reserved
  BY <1>5, <1>6, LaneLimitBounds
<1>. QED
  BY <1>1, <1>2, <1>3, <1>4, <1>6, <1>7
     DEF CountInv, AvailableCounted, SlowCounted, FastSlotsKept, BudgetFits

LEMMA ClaimKeepsCount ==
    ASSUME PoolInv, Claim
    PROVE  CountInv'
<1>. USE DEF PoolInv
<1>. DEFINE S == Taken(fetcher.free, fetcher.slow)
<1>1. /\ fetcher'.jobs = Batch(S) /\ fetcher'.lanes = [j \in S |-> Lane(j)]
      /\ fetcher'.pc \in {"wait", "send"} /\ fetcher.pc = "claim"
      /\ busySlow' = busySlow + Cardinality(S \cap slowLane)
      /\ UNCHANGED <<runner, available>>
  BY DEF Claim, Accounted
<1>2. S \subseteq Ready /\ Cardinality(S \cap slowLane) \in 0 .. fetcher.slow
  BY FetcherTakes
<1>. HIDE DEF S
<1>3. SlowPending' = S \cap slowLane
  BY <1>1, <1>2, BatchOrder DEF SlowPending, Lane
<1>4. SlowPending = {} /\ Cardinality(SlowPending) = 0
  BY <1>1, FS_EmptySet DEF FetcherInv, SlowPending
<1>5. UNCHANGED <<Announced, SlowRunners>>
  BY <1>1 DEF Announced, SlowRunners
<1>6. SlowInPool = Cardinality(SlowRunners) /\ Cardinality(SlowRunners) \in Nat
  BY <1>4, SlowSetsFinite DEF SlowInPool
<1>7. SlowInPool' = Cardinality(SlowRunners) + Cardinality(S \cap slowLane)
  BY <1>3, <1>5 DEF SlowInPool
<1>8. busySlow = SlowInPool /\ SlowInPool + fetcher.slow <= PoolSize - Reserved
  BY <1>1 DEF CountInv, SlowCounted, BudgetFits
<1>9. fetcher.slow \in Nat
  BY PoolSizeType DEF FetcherInv, Fetcher
<1>. QED
  BY <1>1, <1>2, <1>5, <1>6, <1>7, <1>8, <1>9, PoolSizeType
     DEF CountInv, AvailableCounted, SlowCounted, FastSlotsKept, BudgetFits

LEMMA FetcherStopsKeepsCount ==
    ASSUME PoolInv, FetcherStops
    PROVE  CountInv'
<1>. USE DEF PoolInv
<1>1. /\ fetcher'.jobs = Nothing /\ fetcher'.pc = "stopped"
      /\ UNCHANGED <<runner, available, busySlow>>
  BY DEF FetcherStops, FetcherInv, Fetcher, counters
<1>2. SlowPending' = {} /\ UNCHANGED <<Announced, SlowRunners>>
  BY <1>1, NothingIsOrder DEF SlowPending, Announced, SlowRunners
<1>3. SlowInPool' = Cardinality(SlowRunners)
  BY <1>2, FS_EmptySet, SlowSetsFinite DEF SlowInPool
<1>4. SlowInPool = Cardinality(SlowRunners) + Cardinality(SlowPending)
  BY DEF SlowInPool
<1>. QED
  BY <1>1, <1>2, <1>3, <1>4, SlowSetsFinite, PoolSizeType
     DEF CountInv, AvailableCounted, SlowCounted, FastSlotsKept, BudgetFits

\* A slow job that is handed over stays in the pool.
LEMMA HandOverKeepsCount ==
    ASSUME PoolInv, NEW r \in Runner, HandOver(r)
    PROVE  CountInv'
<1>. USE DEF PoolInv
<1>1. PICK j \in First(fetcher.jobs) :
        LET rest == DOMAIN fetcher.jobs \ {j} IN
        /\ runner' = [runner EXCEPT ![r] = [pc |-> "handed",
                                            held |-> [job |-> j, lane |-> fetcher.lanes[j]]]]
        /\ fetcher' = [fetcher EXCEPT !.jobs = Dequeued(@, {j}),
                                      !.lanes = [k \in rest |-> @[k]],
                                      !.pc = IF rest = {} THEN "wait" ELSE "send"]
  BY DEF HandOver
<1>2. /\ DOMAIN fetcher'.jobs = DOMAIN fetcher.jobs \ {j}
      /\ \A k \in DOMAIN fetcher'.jobs : fetcher'.lanes[k] = fetcher.lanes[k]
      /\ fetcher'.pc \in {"wait", "send"}
  BY <1>1, DequeuedOrder DEF FetcherInv, Fetcher
<1>3. /\ j \in DOMAIN fetcher.jobs /\ fetcher.lanes[j] \in {"slow", "fast"}
      /\ [job |-> j, lane |-> fetcher.lanes[j]] \in Held
  BY BatchOfFetcher DEF First, Held
<1>4. /\ runner'[r] = [pc |-> "handed", held |-> [job |-> j, lane |-> fetcher.lanes[j]]]
      /\ \A q \in Runner \ {r} : runner'[q] = runner[q]
      /\ runner[r].pc = "waiting" /\ fetcher.pc = "send"
  BY <1>1 DEF HandOver, RunnerInv
<1>5. r \notin SlowRunners /\ r \in Announced
  BY <1>4 DEF SlowRunners, Announced, RunnerInv
<1>6. Announced' = Announced
  BY <1>4, <1>5 DEF Announced
<1>7. UNCHANGED <<available, busySlow>>
  BY DEF HandOver, counters
<1>8. CASE fetcher.lanes[j] = "slow"
  <2>1. SlowRunners' = SlowRunners \cup {r}
    BY <1>3, <1>4, <1>8 DEF SlowRunners
  <2>2. SlowPending' = SlowPending \ {j} /\ j \in SlowPending
    BY <1>2, <1>3, <1>8 DEF SlowPending
  <2>3. Cardinality(SlowRunners') = Cardinality(SlowRunners) + 1
    BY <1>5, <2>1, OneRunner, SlowSetsFinite
  <2>4. Cardinality(SlowPending') = Cardinality(SlowPending) - 1
    BY <2>2, OneRunner, SlowSetsFinite
  <2>5. SlowInPool' = SlowInPool
    BY <2>3, <2>4, SlowSetsFinite DEF SlowInPool
  <2>. QED
    BY <1>2, <1>4, <1>6, <1>7, <2>5
       DEF CountInv, AvailableCounted, SlowCounted, FastSlotsKept, BudgetFits
<1>9. CASE fetcher.lanes[j] = "fast"
  <2>1. SlowRunners' = SlowRunners
    BY <1>3, <1>4, <1>5, <1>9 DEF SlowRunners
  <2>2. SlowPending' = SlowPending
    BY <1>2, <1>3, <1>9 DEF SlowPending
  <2>. QED
    BY <1>2, <1>4, <1>6, <1>7, <2>1, <2>2, CountFrame DEF counters
<1>. QED
  BY <1>3, <1>8, <1>9

\* The slot that a slow run gives back is its own.
LEMMA FreeLaneKeepsCount ==
    ASSUME PoolInv, NEW r \in Runner, FreeLane(r)
    PROVE  CountInv'
<1>. USE DEF PoolInv
<1>1. /\ runner'[r] = [pc |-> "signal", held |-> NULL]
      /\ \A q \in Runner \ {r} : runner'[q] = runner[q]
      /\ runner[r].pc = "ran" /\ runner[r].held # NULL
  BY DEF FreeLane, RunnerInv
<1>2. Announced' = Announced
  BY <1>1 DEF Announced
<1>3. UNCHANGED <<fetcher, available>> /\ SlowPending' = SlowPending
  BY DEF FreeLane, SlowPending
<1>4. CASE runner[r].held.lane = "slow"
  <2>1. SlowRunners' = SlowRunners \ {r} /\ r \in SlowRunners
    BY <1>1, <1>4 DEF SlowRunners
  <2>2. Cardinality(SlowRunners') = Cardinality(SlowRunners) - 1
    BY <2>1, OneRunner, SlowSetsFinite
  <2>3. busySlow' = busySlow - 1
    BY <1>4 DEF FreeLane, RunLane
  <2>4. SlowInPool' = SlowInPool - 1 /\ SlowInPool \in Nat
    BY <1>3, <2>2, SlowSetsFinite DEF SlowInPool
  <2>5. fetcher.slow \in Nat
    BY PoolSizeType DEF FetcherInv, Fetcher
  <2>. QED
    BY <1>2, <1>3, <2>3, <2>4, <2>5, PoolSizeType
       DEF CountInv, AvailableCounted, SlowCounted, FastSlotsKept, BudgetFits
<1>5. CASE runner[r].held.lane # "slow"
  <2>1. SlowRunners' = SlowRunners
    BY <1>1, <1>5 DEF SlowRunners
  <2>2. busySlow' = busySlow
    BY <1>5 DEF FreeLane, RunLane
  <2>. QED
    BY <1>2, <1>3, <2>1, <2>2, CountFrame DEF counters
<1>. QED
  BY <1>4, <1>5

LEMMA RunnerKeepsCount ==
    ASSUME PoolInv, NEW r \in Runner, RunnerStep(r)
    PROVE  CountInv'
<1>. USE DEF PoolInv
<1>0. IsFiniteSet(Announced)
  BY AnnouncedType
<1>1. CASE Announce(r) \/ MarkBusy(r) \/ RunnerStops(r)
  <2>1. UNCHANGED <<fetcher, busySlow>> /\ SlowPending' = SlowPending
    BY <1>1 DEF Announce, MarkBusy, RunnerStops, SlowPending
  <2>2. SlowRunners' = SlowRunners
    BY <1>1, RunnerFrame DEF Announce, MarkBusy, RunnerStops
  <2>3. available' = Cardinality(Announced')
    <3>1. CASE Announce(r)
      <4>1. Announced' = Announced \cup {r} /\ r \notin Announced
        BY <3>1, RunnerFrame DEF Announce, Announced
      <4>2. Cardinality(Announced') = Cardinality(Announced) + 1
        BY <1>0, <4>1, OneRunner
      <4>. QED
        BY <3>1, <4>2 DEF Announce, CountInv, AvailableCounted
    <3>2. CASE MarkBusy(r) \/ RunnerStops(r)
      <4>1. Announced' = Announced \ {r}
        <5>1. CASE MarkBusy(r)
          BY <5>1, RunnerFrame DEF MarkBusy
        <5>2. CASE RunnerStops(r)
          BY <5>2, RunnerFrame DEF RunnerStops
        <5>. QED
          BY <3>2, <5>1, <5>2
      <4>2. r \in Announced
        BY <3>2 DEF MarkBusy, RunnerStops, Announced
      <4>3. Cardinality(Announced') = Cardinality(Announced) - 1
        BY <1>0, <4>1, <4>2, OneRunner
      <4>. QED
        BY <3>2, <4>3 DEF MarkBusy, RunnerStops, CountInv, AvailableCounted
    <3>. QED
      BY <1>1, <3>1, <3>2
  <2>. QED
    BY <2>1, <2>2, <2>3
       DEF CountInv, AvailableCounted, SlowCounted, FastSlotsKept, BudgetFits, SlowInPool
<1>2. CASE Finish(r) \/ FinishUnreleased(r) \/ Signal(r)
  <2>1. UNCHANGED <<fetcher, counters>> /\ SlowPending' = SlowPending
    BY <1>2 DEF Finish, FinishUnreleased, Signal, SlowPending
  <2>2. r \notin Announced /\ Announced' = Announced \ {r} /\ SlowRunners' = SlowRunners
    BY <1>2, RunnerFrame DEF Finish, FinishUnreleased, Signal, Announced
  <2>. QED
    BY <2>1, <2>2, CountFrame
<1>. QED
  BY <1>1, <1>2, FreeLaneKeepsCount DEF RunnerStep

LEMMA CountMoves ==
    ASSUME PoolInv, [Next]_vars
    PROVE  CountInv'
<1>. USE DEF PoolInv
<1>1. ASSUME UNCHANGED <<runner, fetcher, counters>>
      PROVE  CountInv'
  BY <1>1, CountFrame DEF Announced, SlowRunners, SlowPending
<1>2. CASE ClaimFails \/ Fault \/ BackoffEnds \/ Wake
  <2>1. /\ UNCHANGED <<runner, counters>>
        /\ fetcher'.jobs = fetcher.jobs /\ fetcher'.lanes = fetcher.lanes
        /\ fetcher'.pc # "claim" /\ fetcher.pc # "stopped"
    BY <1>2 DEF ClaimFails, Fault, BackoffEnds, Wake, WakeOnCompletion, WakeOnHint, WakeOnAlarm,
                WakeOnPoll, Woken, FetcherInv, Fetcher, counters
  <2>2. UNCHANGED <<Announced, SlowRunners, SlowPending>>
    BY <2>1 DEF Announced, SlowRunners, SlowPending
  <2>. QED
    BY <2>1, <2>2, CountFrame
<1>3. ASSUME QueueStep \/ ExpressStep \/ Shutdown \/ UNCHANGED vars
      PROVE  UNCHANGED <<runner, fetcher, counters>>
  BY <1>3 DEF QueueStep, BecomeReady, Age, LeaseExpires, Create, RunNow, ExpressStep,
              ExpressServes, ExpressFinishes, ExpressStops, Shutdown, counters, vars
<1>. QED
  BY <1>1, <1>2, <1>3, LoadKeepsCount, ClaimKeepsCount, FetcherStopsKeepsCount,
     HandOverKeepsCount, RunnerKeepsCount DEF Next, FetcherStep, Stopped

-----------------------------------------------------------------------------
(* The theorems for any pool.                                              *)

LEMMA PoolInvInit == Init => PoolInv
<1>. SUFFICES ASSUME Init
              PROVE  PoolInv
  OBVIOUS
<1>1. QueueInv
  BY NothingIsOrder DEF Init, QueueInv, Ready
<1>2. FetcherInv
  <2>1. Nothing \in [DOMAIN Nothing -> {"slow", "fast"}] /\ 0 \in 0 .. PoolSize
    BY PoolSizeType DEF Nothing
  <2>. QED
    BY <2>1, NothingIsOrder, FetcherType DEF Init, FetcherInv
<1>3. RunnerInv /\ ExpressInv
  BY DEF Init, RunnerInv, Goroutine, ExpressInv
<1>4. SignalInv
  <2>1. <<>> \in Seq(Job) /\ Len(<<>>) = 0
    OBVIOUS
  <2>2. completion = FALSE /\ fetchHints = 0 /\ expressHints = <<>> /\ stopping = FALSE
    BY DEF Init
  <2>3. 0 \in 0 .. HintBuffer /\ 0 <= HintBuffer
    OBVIOUS
  <2>. QED
    BY <2>1, <2>2, <2>3 DEF SignalInv
<1>5. Announced = {} /\ SlowRunners = {} /\ SlowPending = {}
  BY NothingIsOrder DEF Init, Announced, SlowRunners, SlowPending
<1>6. Cardinality(Announced) = 0 /\ SlowInPool = 0
  BY <1>5, FS_EmptySet DEF SlowInPool
<1>7. CountInv
  BY <1>6, PoolSizeType
     DEF Init, CountInv, AvailableCounted, SlowCounted, FastSlotsKept, BudgetFits
<1>. QED
  BY <1>1, <1>2, <1>3, <1>4, <1>7 DEF PoolInv

LEMMA PoolInvStep == PoolInv /\ [Next]_vars => PoolInv'
BY QueueMoves, FetcherMoves, RunnerMoves, ExpressMoves, SignalMoves, CountMoves DEF PoolInv

LEMMA PoolInvAlways == Spec => []PoolInv
BY PoolInvInit, PoolInvStep, PTL DEF Spec

\* The queue, the goroutines and what they share keep their types: in
\* particular the counter of available runners stays within the pool, although
\* a runner marks itself busy after it was handed a job (runnerLoop).
THEOREM PoolTypes == Spec => []TypeOK
BY PoolInvAlways, PoolInvTypes, PTL

\* The count of slow jobs that every budget starts from is the number of slow
\* jobs in the pool, whatever lane their rows have by then
\* (accountClaimedLanes, runnerLoop).
THEOREM SlowJobsCounted == Spec => []SlowCounted
BY PoolInvAlways, PTL DEF PoolInv, CountInv

\* Slow jobs never take the slots reserved for the fast lane, although the
\* runners move between the reads of the counters, the claim and the hand-over
\* (LaneLimits, fetchAndDistributeJobs).
THEOREM ReservedSlotsKept == Spec => []FastSlotsKept
BY PoolInvAlways, PTL DEF PoolInv, CountInv

-----------------------------------------------------------------------------
(* Without express runs, run requests and failures, what the fetcher was   *)
(* told is enough.                                                         *)

Undisturbed == ~ ExpressOn /\ ~ Failures

\* No job is on its way through a runner.
Quiet == \A r \in Runner : runner[r].pc \in {"loop", "waiting", "stopped"}

\* A budget of nothing for the slow lane was read while slow jobs ran, and
\* their end is told.
QuietClaim ==
    fetcher.pc = "claim" => fetcher.free > 0 /\ (fetcher.slow = 0 => completion \/ ~ Quiet)

\* Nothing is claimable in a quiet pool but what became so since the claim.
QuietWait ==
    fetcher.pc = "wait" /\ ~ fetcher.skipped /\ ~ completion /\ Quiet /\ ~ stopping
        => Ready \cup Later \subseteq fetcher.alarm

NoExpress == expressHints = <<>> /\ express.pc # "running"

\* A runner between the hand-over of j and its release.
Runs(r, j) == runner[r].pc \in {"handed", "running"} /\ runner[r].held.job = j

\* No lease is lost before the shutdown.
LeasesHeld ==
    ~ stopping => \A j \in leased : j \in DOMAIN fetcher.jobs \/ \E r \in Runner : Runs(r, j)

HintInv == QuietClaim /\ QuietWait /\ NoExpress /\ LeasesHeld

LEMMA NoExpressMoves ==
    ASSUME Undisturbed, NoExpress, [Next]_vars
    PROVE  NoExpress' /\ ~ ExpressServes /\ ~ ExpressFinishes
<1>1. ~ ExpressServes /\ ~ ExpressFinishes
  BY DEF NoExpress, ExpressServes, ExpressFinishes
<1>2. ASSUME NEW r \in Runner, HandOver(r) \/ RunnerStep(r)
      PROVE  UNCHANGED <<express, expressHints>>
  BY <1>2 DEF HandOver, RunnerStep, Announce, MarkBusy, Finish, FinishUnreleased, FreeLane,
              Signal, RunnerStops, signals
<1>3. ASSUME FetcherStep \/ QueueStep \/ Shutdown \/ UNCHANGED vars
      PROVE  UNCHANGED <<express, expressHints>>
  BY <1>3 DEF Undisturbed, FetcherStep, Load, Claim, ClaimFails, BackoffEnds, Fault, Wake,
              WakeOnCompletion, WakeOnHint, WakeOnAlarm, WakeOnPoll, FetcherStops, QueueStep,
              BecomeReady, Age, LeaseExpires, Create, RunNow, Shutdown, vars, signals
<1>4. CASE ExpressStops
  <2>1. expressHints' = expressHints /\ express'.pc \in {"stopped", express.pc}
    BY <1>4 DEF ExpressStops, signals
  <2>. QED
    BY <1>1, <2>1 DEF NoExpress
<1>. QED
  BY <1>1, <1>2, <1>3, <1>4 DEF Next, Stopped, ExpressStep, NoExpress

\* A step after which no runner has a job either leaves the runners without
\* one, or tells the fetcher of the end of a run.
LEMMA QuietMoves ==
    ASSUME RunnerInv, NEW r \in Runner, RunnerStep(r), Quiet'
    PROVE  \/ completion'
           \/ Quiet /\ (Announce(r) \/ RunnerStops(r))
<1>1. CASE Signal(r)
  BY <1>1 DEF Signal, Buffered
<1>2. CASE Announce(r) \/ RunnerStops(r)
  <2>1. \A q \in Runner \ {r} : runner'[q] = runner[q]
    BY <1>2 DEF Announce, RunnerStops, RunnerInv
  <2>2. runner[r].pc \in {"loop", "waiting"}
    BY <1>2 DEF Announce, RunnerStops
  <2>. QED
    BY <1>2, <2>1, <2>2 DEF Quiet
<1>3. CASE MarkBusy(r) \/ Finish(r) \/ FinishUnreleased(r) \/ FreeLane(r)
  <2>1. runner'[r].pc \in {"running", "ran", "signal"}
    BY <1>3 DEF MarkBusy, Finish, FinishUnreleased, FreeLane, RunnerInv, Goroutine
  <2>. QED
    BY <2>1 DEF Quiet
<1>. QED
  BY <1>1, <1>2, <1>3 DEF RunnerStep

LEMMA QuietClaimMoves ==
    ASSUME PoolInv, HintInv, Undisturbed, [Next]_vars
    PROVE  QuietClaim'
<1>. USE DEF PoolInv, HintInv
<1>1. CASE Load
  <2>1. SUFFICES ASSUME fetcher'.pc = "claim"
                 PROVE  fetcher'.free > 0 /\ (fetcher'.slow = 0 => ~ Quiet')
    BY DEF QuietClaim
  <2>2. available \in Nat /\ busySlow \in Int
    BY AnnouncedType, PoolSizeType DEF CountInv, AvailableCounted
  <2>3. /\ available # 0 /\ fetcher'.free = available
        /\ fetcher'.slow = LaneLimit(available, busySlow)
        /\ runner' = runner /\ fetcher.pc = "load"
    BY <1>1, <2>1 DEF Load, FetcherInv, Fetcher
  <2>4. ASSUME fetcher'.slow = 0
        PROVE  ~ Quiet'
    <3>1. busySlow >= PoolSize - Reserved
      BY <2>2, <2>3, <2>4, LaneLimitBounds
    <3>2. busySlow > 0
      BY <2>2, <3>1, PoolSizeType
    <3>3. SlowPending = {} /\ Cardinality(SlowPending) = 0
      BY <2>3, FS_EmptySet DEF SlowPending, FetcherInv
    <3>4. Cardinality(SlowRunners) = busySlow
      BY <2>3, <3>3, SlowSetsFinite DEF CountInv, SlowCounted, SlowInPool
    <3>5. SlowRunners # {}
      BY <3>2, <3>4, FS_EmptySet
    <3>6. PICK r \in Runner : runner[r].held # NULL
      BY <3>5 DEF SlowRunners
    <3>. QED
      BY <2>3, <3>6 DEF Quiet, RunnerInv
  <2>. QED
    BY <2>2, <2>3, <2>4
<1>2. CASE fetcher.pc # "claim" /\ fetcher' = fetcher
  BY <1>2 DEF QuietClaim
<1>3. ASSUME FetcherStep, ~ Load
      PROVE  fetcher'.pc # "claim"
  <2>1. CASE Claim
    BY <2>1 DEF Claim
  <2>2. CASE ClaimFails \/ Fault \/ BackoffEnds
    BY <2>2 DEF ClaimFails, Fault, BackoffEnds, FetcherInv, Fetcher
  <2>3. CASE Wake \/ FetcherStops
    BY <2>3 DEF Wake, WakeOnCompletion, WakeOnHint, WakeOnAlarm, WakeOnPoll, Woken,
                FetcherStops, FetcherInv, Fetcher
  <2>. QED
    BY <1>3, <2>1, <2>2, <2>3 DEF FetcherStep
<1>4. ASSUME NEW r \in Runner, HandOver(r)
      PROVE  fetcher'.pc # "claim"
  BY <1>4 DEF HandOver, FetcherInv, Fetcher
<1>5. ASSUME NEW r \in Runner, RunnerStep(r)
      PROVE  QuietClaim'
  <2>1. fetcher' = fetcher /\ (completion => completion')
    BY <1>5 DEF RunnerStep, Announce, MarkBusy, Finish, FinishUnreleased, FreeLane, Signal,
                RunnerStops, signals, Buffered, SignalInv
  <2>. QED
    BY <1>5, <2>1, QuietMoves DEF QuietClaim
<1>6. ASSUME QueueStep \/ ExpressStops \/ Shutdown \/ UNCHANGED vars
      PROVE  UNCHANGED <<fetcher, completion, runner>>
  BY <1>6 DEF QueueStep, BecomeReady, Age, LeaseExpires, Create, RunNow, Undisturbed,
              ExpressStops, Shutdown, vars, signals
<1>7. ASSUME UNCHANGED <<fetcher, completion, runner>>
      PROVE  QuietClaim'
  BY <1>7 DEF QuietClaim, Quiet
<1>8. fetcher'.pc # "claim" => QuietClaim'
  BY DEF QuietClaim
<1>. QED
  BY <1>1, <1>3, <1>4, <1>5, <1>6, <1>7, <1>8, NoExpressMoves
     DEF Next, Stopped, ExpressStep

\* Rows that become claimable were ahead when the fetcher claimed.
LEMMA KnownRowsStay ==
    ASSUME PoolInv, LeasesHeld, Undisturbed, ~ stopping, QueueStep
    PROVE  Ready' \cup Later' = Ready \cup Later /\ leased' = leased
<1>. USE DEF PoolInv
<1>1. ASSUME NEW j \in Job, BecomeReady(j)
      PROVE  Ready' \cup Later' = Ready \cup Later /\ leased' = leased
  <2>1. Ready' = Ready \cup {j} /\ j \in Later /\ UNCHANGED <<leased, absent>>
    BY <1>1 DEF BecomeReady, Inserted, Ready
  <2>. QED
    BY <2>1 DEF Later
<1>2. ASSUME NEW j \in Job, Age(j)
      PROVE  Ready' \cup Later' = Ready \cup Later /\ leased' = leased
  BY <1>2 DEF Age, Ready, Later
<1>3. ASSUME NEW j \in Job, LeaseExpires(j)
      PROVE  FALSE
  <2>1. j \in leased /\ j \notin HeldJobs
    BY <1>3 DEF LeaseExpires
  <2>2. PICK r \in Runner : Runs(r, j)
    BY <2>1 DEF LeasesHeld, HeldJobs
  <2>3. runner[r].held \in Holders \ {NULL} /\ runner[r].held.job = j
    BY <2>2 DEF Runs, RunnerInv, Holders
  <2>. QED
    BY <2>1, <2>3 DEF HeldJobs
<1>. QED
  BY <1>1, <1>2, <1>3 DEF QueueStep, Create, RunNow, Undisturbed

LEMMA LeasesHeldMoves ==
    ASSUME PoolInv, HintInv, Undisturbed, [Next]_vars
    PROVE  LeasesHeld'
<1>. USE DEF PoolInv, HintInv
<1>1. SUFFICES ASSUME ~ stopping', NEW j \in leased'
               PROVE  j \in DOMAIN fetcher'.jobs \/ \E r \in Runner : Runs(r, j)'
  BY DEF LeasesHeld
<1>2. ~ stopping
  BY <1>1, NoExpressMoves DEF Next, Stopped, ExpressStep, ExpressStops, QueueStep, BecomeReady,
     Age, LeaseExpires, Create, RunNow, FetcherStep, Load, Claim, ClaimFails, BackoffEnds, Fault,
     Wake, WakeOnCompletion, WakeOnHint, WakeOnAlarm, WakeOnPoll, FetcherStops, HandOver,
     RunnerStep, Announce, MarkBusy, Finish, FinishUnreleased, FreeLane, Signal, RunnerStops,
     Shutdown, vars
<1>3. j \in leased => j \in DOMAIN fetcher.jobs \/ \E r \in Runner : Runs(r, j)
  BY <1>2 DEF LeasesHeld
<1>4. CASE Claim
  <2>. DEFINE S == Taken(fetcher.free, fetcher.slow)
  <2>1. /\ leased' = leased \cup S /\ fetcher'.jobs = Batch(S)
        /\ runner' = runner /\ fetcher.pc = "claim"
    BY <1>4 DEF Claim
  <2>2. S \subseteq Ready
    BY FetcherTakes
  <2>3. DOMAIN fetcher'.jobs = S /\ DOMAIN fetcher.jobs = {}
    BY <2>1, <2>2, BatchOrder DEF FetcherInv
  <2>. HIDE DEF S
  <2>. QED
    BY <1>1, <1>3, <2>1, <2>3 DEF Runs
<1>5. ASSUME leased' = leased, runner' = runner, fetcher'.jobs = fetcher.jobs
      PROVE  j \in DOMAIN fetcher'.jobs \/ \E r \in Runner : Runs(r, j)'
  BY <1>1, <1>3, <1>5 DEF Runs
<1>6. ASSUME FetcherStep, ~ Claim
      PROVE  leased' = leased /\ runner' = runner /\ fetcher'.jobs = fetcher.jobs
  BY <1>2, <1>6 DEF Undisturbed, FetcherStep, Load, ClaimFails, BackoffEnds, Fault, Wake,
     WakeOnCompletion, WakeOnHint, WakeOnAlarm, WakeOnPoll, Woken, FetcherStops, FetcherInv,
     Fetcher, queue
<1>7. ASSUME NEW r \in Runner, HandOver(r)
      PROVE  j \in DOMAIN fetcher'.jobs \/ \E q \in Runner : Runs(q, j)'
  <2>1. PICK k \in First(fetcher.jobs) :
          LET rest == DOMAIN fetcher.jobs \ {k} IN
          /\ runner' = [runner EXCEPT ![r] = [pc |-> "handed",
                                              held |-> [job |-> k, lane |-> fetcher.lanes[k]]]]
          /\ fetcher' = [fetcher EXCEPT !.jobs = Dequeued(@, {k}),
                                        !.lanes = [i \in rest |-> @[i]],
                                        !.pc = IF rest = {} THEN "wait" ELSE "send"]
    BY <1>7 DEF HandOver
  <2>2. DOMAIN fetcher'.jobs = DOMAIN fetcher.jobs \ {k}
    BY <2>1, DequeuedOrder DEF FetcherInv, Fetcher
  <2>3. /\ runner'[r].pc = "handed" /\ runner'[r].held.job = k
        /\ \A q \in Runner \ {r} : runner'[q] = runner[q]
        /\ runner[r].pc = "waiting" /\ leased' = leased
    BY <1>7, <2>1 DEF HandOver, RunnerInv, queue
  <2>. QED
    BY <1>1, <1>3, <2>2, <2>3 DEF Runs
<1>8. ASSUME NEW r \in Runner, RunnerStep(r)
      PROVE  j \in DOMAIN fetcher'.jobs \/ \E q \in Runner : Runs(q, j)'
  <2>1. fetcher' = fetcher
    BY <1>8 DEF RunnerStep, Announce, MarkBusy, Finish, FinishUnreleased, FreeLane, Signal,
                RunnerStops
  <2>2. \A q \in Runner \ {r} : runner'[q] = runner[q]
    BY <1>8 DEF RunnerStep, Announce, MarkBusy, Finish, FinishUnreleased, FreeLane, Signal,
                RunnerStops, RunnerInv
  <2>3. CASE Finish(r)
    <3>1. leased' = leased \ {runner[r].held.job}
      BY <2>3 DEF Finish, Release
    <3>2. \A q \in Runner : Runs(q, j) => q # r
      BY <1>1, <3>1 DEF Runs
    <3>. QED
      BY <1>1, <1>3, <2>1, <2>2, <3>1, <3>2 DEF Runs
  <2>4. CASE MarkBusy(r)
    <3>1. leased' = leased /\ runner'[r].pc = "running" /\ runner'[r].held = runner[r].held
      BY <2>4 DEF MarkBusy, RunnerInv, Goroutine, queue
    <3>. QED
      BY <1>1, <1>3, <2>1, <2>2, <3>1 DEF Runs
  <2>5. CASE Announce(r) \/ FreeLane(r) \/ Signal(r)
    <3>1. leased' = leased /\ runner[r].pc \notin {"handed", "running"}
      BY <2>5 DEF Announce, FreeLane, Signal, queue
    <3>. QED
      BY <1>1, <1>3, <2>1, <2>2, <3>1 DEF Runs
  <2>. QED
    BY <1>2, <1>8, <2>3, <2>4, <2>5 DEF RunnerStep, FinishUnreleased, RunnerStops, Undisturbed
<1>9. ASSUME QueueStep
      PROVE  leased' = leased /\ runner' = runner /\ fetcher'.jobs = fetcher.jobs
  <2>1. leased' = leased
    BY <1>2, <1>9, KnownRowsStay
  <2>. QED
    BY <1>9, <2>1 DEF QueueStep, BecomeReady, Age, LeaseExpires, Create, RunNow
<1>10. ASSUME ExpressStops \/ UNCHANGED vars
       PROVE  leased' = leased /\ runner' = runner /\ fetcher'.jobs = fetcher.jobs
  BY <1>10 DEF ExpressStops, vars, queue
<1>11. ~ Shutdown
  BY <1>1 DEF Shutdown
<1>. QED
  BY <1>4, <1>5, <1>6, <1>7, <1>8, <1>9, <1>10, <1>11, NoExpressMoves
     DEF Next, Stopped, ExpressStep

\* What a step of another goroutine may do to a waiting fetcher.
LEMMA QuietWaitFrame ==
    ASSUME QuietWait, fetcher' = fetcher, Quiet' => completion' \/ Quiet,
           completion => completion', stopping => stopping',
           ~ stopping' => Ready' \cup Later' = Ready \cup Later
    PROVE  QuietWait'
BY DEF QuietWait

LEMMA QuietWaitMoves ==
    ASSUME PoolInv, HintInv, Undisturbed, [Next]_vars
    PROVE  QuietWait'
<1>. USE DEF PoolInv, HintInv
<1>1. CASE Claim
  <2>. DEFINE S == Taken(fetcher.free, fetcher.slow)
  <2>1. SUFFICES ASSUME fetcher'.pc = "wait", ~ completion', Quiet'
                 PROVE  Ready' \cup Later' \subseteq fetcher'.alarm
    BY DEF QuietWait
  <2>2. /\ S = {} /\ fetcher'.alarm = Later /\ fetcher.pc = "claim"
        /\ Without(S) /\ leased' = leased \cup S
        /\ UNCHANGED <<absent, runner, completion>>
    BY <1>1, <2>1 DEF Claim, signals
  <2>3. Quiet /\ ~ completion
    BY <2>1, <2>2 DEF Quiet
  <2>4. fetcher.free > 0 /\ fetcher.slow # 0
    BY <2>2, <2>3 DEF QuietClaim
  <2>5. fetcher.slow \in Nat
    BY PoolSizeType DEF FetcherInv, Fetcher
  <2>6. Ready = {}
    BY <2>2, <2>4, <2>5, FetcherTakes
  <2>7. Ready' = {} /\ leased' = leased
    BY <2>2, <2>6 DEF Without, Dequeued, Ready
  <2>. QED
    BY <2>2, <2>6, <2>7 DEF Later
<1>2. CASE Load
  <2>1. fetcher'.pc = "wait" => fetcher'.skipped
    BY <1>2 DEF Load, FetcherInv, Fetcher
  <2>. QED
    BY <2>1 DEF QuietWait
<1>3. ASSUME FetcherStep, ~ Claim, ~ Load
      PROVE  fetcher'.pc # "wait"
  BY <1>3 DEF Undisturbed, FetcherStep, ClaimFails, BackoffEnds, Fault, Wake, WakeOnCompletion,
     WakeOnHint, WakeOnAlarm, WakeOnPoll, Woken, FetcherStops, FetcherInv, Fetcher
<1>4. ASSUME NEW r \in Runner, HandOver(r)
      PROVE  ~ Quiet'
  <2>1. runner'[r].pc = "handed"
    BY <1>4 DEF HandOver, RunnerInv
  <2>. QED
    BY <2>1 DEF Quiet
<1>5. ASSUME NEW r \in Runner, RunnerStep(r)
      PROVE  QuietWait'
  <2>1. fetcher' = fetcher /\ stopping' = stopping /\ (completion => completion')
    BY <1>5 DEF RunnerStep, Announce, MarkBusy, Finish, FinishUnreleased, FreeLane, Signal,
                RunnerStops, signals, Buffered, SignalInv
  <2>2. Quiet' => completion' \/ (Quiet /\ (Announce(r) \/ RunnerStops(r)))
    BY <1>5, QuietMoves
  <2>3. CASE Quiet' /\ ~ completion'
    <3>1. Quiet /\ UNCHANGED queue
      BY <2>2, <2>3 DEF Announce, RunnerStops
    <3>2. Ready' \cup Later' = Ready \cup Later
      BY <3>1 DEF queue, Ready, Later
    <3>. QED
      BY <2>1, <3>1, <3>2, QuietWaitFrame
  <2>. QED
    BY <2>3 DEF QuietWait
<1>6. CASE QueueStep
  <2>1. UNCHANGED <<fetcher, runner, completion, stopping>>
    BY <1>6 DEF QueueStep, BecomeReady, Age, LeaseExpires, Create, RunNow, Undisturbed, signals
  <2>. QED
    BY <1>6, <2>1, KnownRowsStay, QuietWaitFrame DEF Quiet
<1>7. CASE ExpressStops \/ Shutdown \/ UNCHANGED vars
  <2>1. UNCHANGED <<fetcher, runner, completion, queue>> /\ (stopping => stopping')
    BY <1>7 DEF ExpressStops, Shutdown, vars, signals
  <2>2. Ready' \cup Later' = Ready \cup Later
    BY <2>1 DEF queue, Ready, Later
  <2>. QED
    BY <2>1, <2>2, QuietWaitFrame DEF Quiet
<1>8. fetcher'.pc # "wait" \/ ~ Quiet' => QuietWait'
  BY DEF QuietWait
<1>. QED
  BY <1>1, <1>2, <1>3, <1>4, <1>5, <1>6, <1>7, <1>8, NoExpressMoves
     DEF Next, Stopped, ExpressStep

LEMMA HintInvAlways ==
    ASSUME Undisturbed
    PROVE  Spec => [](PoolInv /\ HintInv)
<1>1. Init => HintInv
  BY DEF Init, HintInv, QuietClaim, QuietWait, NoExpress, LeasesHeld
<1>2. PoolInv /\ HintInv /\ [Next]_vars => HintInv'
  BY QuietClaimMoves, QuietWaitMoves, NoExpressMoves, LeasesHeldMoves DEF HintInv
<1>. QED
  BY <1>1, <1>2, PoolInvInit, PoolInvStep, PTL DEF Spec

\* An idle pool that knows of a claimable row is about to fetch it: the claim's
\* hint and the completions leave nothing to the flat poll (fetcherLoop,
\* runnerLoop), as long as no express run, run request or failure comes between.
THEOREM NothingLeftToPoll ==
    ASSUME ~ ExpressOn, ~ Failures
    PROVE  Spec => []HintCovers
<1>1. Undisturbed
  BY DEF Undisturbed
<1>2. ASSUME PoolInv, HintInv
      PROVE  HintCovers
  <2>1. SUFFICES ASSUME Asleep, ~ fetcher.skipped, NEW j \in Job, Takeable(j)
                 PROVE  FALSE
    BY DEF HintCovers
  <2>2. Ready \cup Later \subseteq fetcher.alarm
    BY <1>2, <2>1 DEF Asleep, HintInv, QuietWait, Quiet
  <2>3. j \in fetcher.alarm \ Later
    BY <2>1, <2>2 DEF Takeable, Later
  <2>. QED
    BY <2>1, <2>3 DEF Asleep, AlarmRings
<1>. QED
  BY <1>1, <1>2, HintInvAlways, PTL
=============================================================================
