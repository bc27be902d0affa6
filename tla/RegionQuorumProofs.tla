--------------------------- MODULE RegionQuorumProofs ---------------------------
(***************************************************************************)
(* Proofs about the regions of a check: the types of the results in        *)
(* processing, and what a vote decides, for any regions, readings and      *)
(* settings of the quorum.                                                 *)
(***************************************************************************)
EXTENDS RegionQuorum, TLAPS, FiniteSetTheorems, WellFoundedInduction

USE QuorumAssumption

-----------------------------------------------------------------------------
(* The quorum.                                                             *)

\* A quorum of some regions is at least one of them and at most all.
LEMMA QuorumBounds ==
    ASSUME NEW q \in Setting, NEW n \in Nat \ {0}
    PROVE  Quorum(q, n) \in 1 .. n
<1>1. n \div 2 \in Nat /\ n \div 2 + 1 <= n
  <2>1. n \div 2 \in Nat /\ 2 * (n \div 2) <= n /\ n < 2 * (n \div 2) + 2
    OBVIOUS
  <2>. QED
    BY <2>1
<1>2. CASE q.kind = "all"
  BY <1>2 DEF Quorum, Setting
<1>3. CASE q.kind = "majority"
  BY <1>1, <1>3 DEF Quorum, Setting
<1>4. CASE q.kind = "count"
  <2>1. q.count \in Nat \ {0}
    BY <1>4 DEF Setting
  <2>2. Quorum(q, n) = IF q.count < n THEN q.count ELSE n
    BY <1>4 DEF Quorum
  <2>. QED
    BY <2>1, <2>2
<1>5. CASE q.kind = "default"
  <2>1. Quorum(q, n) = IF n < 3 THEN n ELSE n \div 2 + 1
    BY <1>5 DEF Quorum
  <2>. QED
    BY <1>1, <2>1
<1>. QED
  BY <1>2, <1>3, <1>4, <1>5 DEF Setting

\* The numbers that a vote compares.
LEMMA VoteNumbers ==
    ASSUME NEW r \in Region, NEW w, w.regions \in SUBSET Region, w.setting \in Setting
    PROVE  /\ Cardinality(w.regions) \in Nat
           /\ Quorum(w.setting, Cardinality(w.regions)) \in 0 .. Cardinality(w.regions)
           /\ IsFiniteSet(Failing(r, w)) /\ Cardinality(Failing(r, w)) \in Nat
<1>1. IsFiniteSet(w.regions) /\ Cardinality(w.regions) \in Nat
  BY FS_Subset, FS_CardinalityType
<1>2. Failing(r, w) \in SUBSET w.regions
  BY DEF Failing
<1>3. IsFiniteSet(Failing(r, w)) /\ Cardinality(Failing(r, w)) \in Nat
  BY <1>1, <1>2, FS_Subset, FS_CardinalityType
<1>4. Quorum(w.setting, 0) = 0
  BY DEF Quorum, Setting
<1>. QED
  BY <1>1, <1>3, <1>4, QuorumBounds

\* What a vote says, where some of the regions are enough.
LEMMA SignalOfVote ==
    ASSUME NEW r \in Region, NEW w, w.regions \in SUBSET Region, w.setting \in Setting,
           NEW n, n = Cardinality(w.regions), NEW q, q = Quorum(w.setting, n),
           NEW fails, fails = Cardinality(Failing(r, w))
    PROVE  /\ ~ (n >= 2 /\ q >= 1 /\ q < n) => Signal(r, w) = w.status
           /\ n >= 2 /\ q >= 1 /\ q < n =>
                Signal(r, w) = IF fails >= q
                               THEN IF w.status = "down" THEN "down" ELSE "quorum"
                               ELSE IF fails >= 1 THEN "regional"
                               ELSE IF w.status = "warning" THEN "warning" ELSE "up"
<1>. DEFINE few == n >= 2 /\ q >= 1 /\ q < n
<1>1. n \in Nat /\ q \in Nat /\ fails \in Nat
  BY VoteNumbers
<1>2. Signal(r, w) =
        CASE ~few -> w.status
          [] few /\ fails >= q -> IF w.status = "down" THEN "down" ELSE "quorum"
          [] few /\ fails \in 1 .. q - 1 -> "regional"
          [] few /\ fails = 0 -> IF w.status = "warning" THEN "warning" ELSE "up"
  BY DEF Signal, UsesQuorum
<1>. HIDE DEF few
<1>3. CASE ~few
  <2>1. Signal(r, w) = w.status
    BY <1>2, <1>3
  <2>. QED
    BY <1>3, <2>1 DEF few
<1>4. CASE few /\ fails >= q
  <2>1. ~ (fails \in 1 .. q - 1) /\ fails # 0
    BY <1>1, <1>4 DEF few
  <2>2. Signal(r, w) = IF w.status = "down" THEN "down" ELSE "quorum"
    BY <1>2, <1>4, <2>1
  <2>. QED
    BY <1>4, <2>2 DEF few
<1>5. CASE few /\ ~ (fails >= q) /\ fails >= 1
  <2>1. fails \in 1 .. q - 1 /\ fails # 0
    BY <1>1, <1>5
  <2>2. Signal(r, w) = "regional"
    BY <1>2, <1>5, <2>1
  <2>. QED
    BY <1>5, <2>2 DEF few
<1>6. CASE few /\ ~ (fails >= q) /\ ~ (fails >= 1)
  <2>1. fails = 0 /\ ~ (fails \in 1 .. q - 1)
    BY <1>1, <1>6
  <2>2. Signal(r, w) = IF w.status = "warning" THEN "warning" ELSE "up"
    BY <1>2, <1>6, <2>1
  <2>. QED
    BY <1>6, <2>2 DEF few
<1>. QED
  BY <1>3, <1>4, <1>5, <1>6

Says == {"down", "quorum", "up", "regional", "warning"}

LEMMA SignalType ==
    ASSUME NEW r \in Region, NEW w, w.regions \in SUBSET Region, w.setting \in Setting,
           w.status \in Statuses
    PROVE  Signal(r, w) \in Says
<1>. DEFINE n == Cardinality(w.regions)
            q == Quorum(w.setting, n)
            fails == Cardinality(Failing(r, w))
            few == n >= 2 /\ q >= 1 /\ q < n
<1>1. /\ ~few => Signal(r, w) = w.status
      /\ few => Signal(r, w) = IF fails >= q
                               THEN IF w.status = "down" THEN "down" ELSE "quorum"
                               ELSE IF fails >= 1 THEN "regional"
                               ELSE IF w.status = "warning" THEN "warning" ELSE "up"
  BY SignalOfVote
<1>2. w.status \in Says
  BY DEF Says
<1>. HIDE DEF few, n, q, fails
<1>. QED
  BY <1>1, <1>2 DEF Says

\* Some of the regions are enough.
VotesTogether(w) ==
    LET n == Cardinality(w.regions)
    IN  UsesQuorum(Quorum(w.setting, n), n)

\* Regions that are a quorum and fail are seen to fail, whatever the others say
\* and whoever of them all reports last: the result at hand stands for its own
\* region, and where no quorum is used it speaks for itself (deriveSignal, Evaluate).
THEOREM OutageSeen ==
    ASSUME NEW r \in Region, NEW w, w.regions \in SUBSET Region, w.setting \in Setting,
           w.status \in Statuses,
           NEW S, S \subseteq w.regions, S \ {r} \subseteq failing,
           r \in S => w.status = "down",
           Cardinality(S) >= Quorum(w.setting, Cardinality(w.regions)),
           r \in S \/ VotesTogether(w)
    PROVE  Signal(r, w) \in Failure
<1>. DEFINE n == Cardinality(w.regions)
            q == Quorum(w.setting, n)
            fails == Cardinality(Failing(r, w))
<1>1. S \in SUBSET Failing(r, w)
  BY DEF Failing, WithReading
<1>2. IsFiniteSet(Failing(r, w)) /\ fails \in Nat /\ q \in Nat /\ n \in Nat
  BY VoteNumbers
<1>3. Cardinality(S) <= fails /\ Cardinality(S) \in Nat
  BY <1>1, <1>2, FS_Subset, FS_CardinalityType
<1>4. fails >= q
  BY <1>2, <1>3
<1>5. CASE n >= 2 /\ q >= 1 /\ q < n
  <2>1. Signal(r, w) = IF w.status = "down" THEN "down" ELSE "quorum"
    BY <1>4, <1>5, SignalOfVote
  <2>. QED
    BY <2>1 DEF Failure
<1>6. CASE ~ (n >= 2 /\ q >= 1 /\ q < n)
  <2>1. Signal(r, w) = w.status
    BY <1>6, SignalOfVote
  <2>2. r \in S
    BY <1>6 DEF UsesQuorum, VotesTogether
  <2>. QED
    BY <2>1, <2>2 DEF Failure
<1>. QED
  BY <1>5, <1>6

\* Once the regions that may still fail are no quorum, no result is a failure, not
\* even one that fails in its own region (deriveSignal, Evaluate).
THEOREM RecoverySeen ==
    ASSUME NEW r \in Region, NEW w, w.regions \in SUBSET Region, w.setting \in Setting,
           w.status \in Statuses,
           NEW S, S \subseteq w.regions, S \cap failing \subseteq {r},
           r \in S => w.status # "down",
           Cardinality(w.regions \ S) < Quorum(w.setting, Cardinality(w.regions)),
           VotesTogether(w)
    PROVE  Signal(r, w) \notin Failure
<1>. DEFINE n == Cardinality(w.regions)
            q == Quorum(w.setting, n)
            fails == Cardinality(Failing(r, w))
<1>1. Failing(r, w) \in SUBSET (w.regions \ S)
  BY DEF Failing, WithReading
<1>2. fails \in Nat /\ q \in Nat /\ n \in Nat
  BY VoteNumbers
<1>3. IsFiniteSet(w.regions \ S)
  BY FS_Subset
<1>4. fails <= Cardinality(w.regions \ S) /\ Cardinality(w.regions \ S) \in Nat
  BY <1>1, <1>3, FS_Subset, FS_CardinalityType
<1>5. ~ (fails >= q)
  BY <1>2, <1>4
<1>6. n >= 2 /\ q >= 1 /\ q < n
  BY DEF UsesQuorum, VotesTogether
<1>7. Signal(r, w) = IF fails >= 1 THEN "regional"
                     ELSE IF w.status = "warning" THEN "warning" ELSE "up"
  BY <1>5, <1>6, SignalOfVote
<1>. QED
  BY <1>7 DEF Failure

\* Every nonempty set of numbers has a least one.
LEMMA LeastNumber ==
    ASSUME NEW T \in SUBSET Nat, T # {}
    PROVE  \E x \in T : \A y \in T : x <= y
<1>. DEFINE R == OpToRel(<, Nat)
<1>0. IsWellFoundedOn(R, Nat)
  BY NatLessThanWellFounded
<1>1. PICK x \in T : \A y \in T : ~ (<<y, x>> \in R)
  <2>. HIDE DEF R
  <2>. QED
    BY <1>0, WFMin
<1>2. \A y \in T : y \in Nat
  OBVIOUS
<1>3. \A y \in T : ~ (y < x)
  BY <1>1, <1>2 DEF OpToRel
<1>. QED
  BY <1>2, <1>3

-----------------------------------------------------------------------------
(* The clocks keep their type.                                             *)

LEMMA ClockSteps ==
    ASSUME NEW clock \in MaybeClock, NEW r \in Region
    PROVE  /\ Without(clock, r) \in MaybeClock
           /\ RunOut(clock) \in MaybeClock
           /\ \A i \in Incident : Began(clock, r, i) \in MaybeClock
BY DEF MaybeClock, Clock, Without, Began, RunOut

LEMMA ColumnType ==
    ASSUME NEW w \in Work, NEW old \in MaybeClock
    PROVE  FF(w, old) \in MaybeClock /\ FS(w, old) \in MaybeClock
<1>1. Armed \in MaybeClock /\ NULL \in MaybeClock
  BY DEF Armed, Busy, MaybeClock, Clock
<1>. QED
  BY <1>1 DEF FF, FS, Column

-----------------------------------------------------------------------------
(* The inductive invariant.                                                *)

\* A result that was not yet counted knows its status and what its check was.
Counting(w) ==
    w.pc \in {"record", "derive"} => w.status \in Statuses /\ w.setting \in Settings

Handling(w) ==
    /\ w.pc = "open" => w.inc = NULL
    /\ w.pc = "resolve" => w.inc # NULL

WorkOK(w) == w \in Work /\ Handling(w) /\ Counting(w)

RowInv ==
    /\ current \in (SUBSET Region) \ {{}} /\ setting \in Settings
    /\ failing \subseteq Region
    /\ ff \in MaybeClock /\ fs \in MaybeClock
    /\ open \subseteq Incident
    /\ faults \in 0 .. MaxFaults

WorkInv ==
    /\ work \in [Region -> Work]
    /\ \A r \in Region : Handling(work[r]) /\ Counting(work[r])

TypeInv == RowInv /\ WorkInv

LEMMA IdleOK == WorkOK(Idle)
BY DEF WorkOK, Work, Idle, MaybeClock, Handling, Counting

\* The results in processing, one of which changed.
LEMMA OneWork ==
    ASSUME WorkInv, NEW r \in Region, NEW w, WorkOK(w), work' = [work EXCEPT ![r] = w]
    PROVE  WorkInv'
BY DEF WorkInv, WorkOK

\* The clocks that a result has read change with those of the check.
LEMMA ClocksOfWork ==
    ASSUME NEW w, WorkOK(w), NEW a \in MaybeClock, NEW b \in MaybeClock
    PROVE  /\ WorkOK([w EXCEPT !.ff = a, !.fs = b])
           /\ WorkOK([w EXCEPT !.ff = a])
           /\ WorkOK([w EXCEPT !.fs = b])
<1>1. ASSUME NEW v, v \in Work, v.pc = w.pc, v.inc = w.inc, v.status = w.status,
             v.setting = w.setting
      PROVE  WorkOK(v)
  BY <1>1 DEF WorkOK, Handling, Counting
<1>2. ASSUME NEW v, v \in {[w EXCEPT !.ff = a, !.fs = b], [w EXCEPT !.ff = a],
                           [w EXCEPT !.fs = b]}
      PROVE  WorkOK(v)
  <2>. DEFINE Same == /\ v \in Work /\ v.pc = w.pc /\ v.inc = w.inc
                      /\ v.status = w.status /\ v.setting = w.setting
  <2>1. w \in Work
    BY DEF WorkOK
  <2>2. ASSUME v = [w EXCEPT !.ff = a, !.fs = b]
       PROVE  Same
    BY <2>1, <2>2 DEF Work
  <2>3. ASSUME v = [w EXCEPT !.ff = a]
       PROVE  Same
    BY <2>1, <2>3 DEF Work
  <2>4. ASSUME v = [w EXCEPT !.fs = b]
       PROVE  Same
    BY <2>1, <2>4 DEF Work
  <2>5. Same
    <3>. HIDE DEF Same
    <3>. QED
      BY <1>2, <2>2, <2>3, <2>4
  <2>. QED
    BY <1>1, <2>5
<1>. QED
  BY <1>2

LEMMA FinishKeeps ==
    ASSUME TypeInv, NEW r \in Region, Finish(r)
    PROVE  WorkInv' /\ ff' \in MaybeClock /\ fs' \in MaybeClock
<1>. DEFINE W(x) == IF x = r THEN Idle
                    ELSE [work[x] EXCEPT !.ff = Without(@, r), !.fs = Without(@, r)]
<1>1. ASSUME NEW x \in Region
      PROVE  WorkOK(W(x))
  <2>1. WorkOK(work[x]) /\ work[x].ff \in MaybeClock /\ work[x].fs \in MaybeClock
    BY DEF TypeInv, WorkInv, WorkOK, Work
  <2>2. Without(work[x].ff, r) \in MaybeClock /\ Without(work[x].fs, r) \in MaybeClock
    BY <2>1, ClockSteps
  <2>3. WorkOK([work[x] EXCEPT !.ff = Without(work[x].ff, r), !.fs = Without(work[x].fs, r)])
    BY <2>1, <2>2, ClocksOfWork
  <2>. QED
    BY <2>3, IdleOK
<1>2. work' = [x \in Region |-> W(x)]
  BY DEF Finish
<1>3. WorkInv'
  <2>. HIDE DEF W
  <2>. QED
    BY <1>1, <1>2 DEF WorkInv, WorkOK
<1>. QED
  BY <1>3, ClockSteps DEF Finish, TypeInv, RowInv

-----------------------------------------------------------------------------
(* Every step keeps the types.                                             *)

\* A step of one result that leaves the check alone.
LEMMA OneStep ==
    ASSUME TypeInv, NEW r \in Region, NEW w, WorkOK(w), work' = [work EXCEPT ![r] = w],
           UNCHANGED <<current, setting, ff, fs, open>>,
           failing' \subseteq Region, faults' \in 0 .. MaxFaults
    PROVE  TypeInv'
BY OneWork DEF TypeInv, RowInv

LEMMA WorkOfRegion ==
    ASSUME TypeInv, NEW r \in Region
    PROVE  /\ WorkOK(work[r])
           /\ work[r].ff \in MaybeClock /\ work[r].fs \in MaybeClock
           /\ work[r].inc \in Incident \cup {NULL}
BY DEF TypeInv, WorkInv, WorkOK, Work

LEMMA FaultKeeps ==
    ASSUME TypeInv, Fault
    PROVE  faults' \in 0 .. MaxFaults
BY DEF TypeInv, RowInv, Fault

LEMMA ReadKeeps ==
    ASSUME TypeInv, NEW r \in Region, Read(r)
    PROVE  TypeInv'
<1>1. PICK s \in Statuses :
        work' = [work EXCEPT ![r] = [Idle EXCEPT !.pc = "record", !.status = s,
                                                 !.regions = current, !.setting = setting,
                                                 !.ff = ff, !.fs = fs]]
  BY DEF Read
<1>. DEFINE w == [Idle EXCEPT !.pc = "record", !.status = s, !.regions = current,
                              !.setting = setting, !.ff = ff, !.fs = fs]
<1>2. WorkOK(w)
  BY DEF TypeInv, RowInv, WorkOK, Work, Handling, Counting, Idle
<1>. HIDE DEF w
<1>. QED
  BY <1>1, <1>2, OneStep DEF Read, w, TypeInv, RowInv

LEMMA RecordKeeps ==
    ASSUME TypeInv, NEW r \in Region, Record(r) \/ LoseReading(r)
    PROVE  TypeInv'
<1>. DEFINE w == [work[r] EXCEPT !.pc = "derive"]
<1>1. WorkOK(work[r]) /\ work[r].pc = "record"
  BY WorkOfRegion DEF Record, LoseReading
<1>2. WorkOK(w)
  BY <1>1 DEF WorkOK, Work, Handling, Counting
<1>3. work' = [work EXCEPT ![r] = w]
  BY DEF Record, LoseReading, TypeInv, WorkInv
<1>4. failing' \subseteq Region /\ faults' \in 0 .. MaxFaults
  BY FaultKeeps DEF Record, LoseReading, WithReading, TypeInv, RowInv
<1>. HIDE DEF w
<1>. QED
  BY <1>2, <1>3, <1>4, OneStep DEF Record, LoseReading

LEMMA DeriveKeeps ==
    ASSUME TypeInv, NEW r \in Region, Derive(r)
    PROVE  TypeInv'
<1>1. PICK i \in IF open = {} THEN {NULL} ELSE open :
        work' = [work EXCEPT ![r].pc = "write", ![r].sig = Signal(r, work[r]), ![r].inc = i,
                             ![r].status = NULL, ![r].regions = {}, ![r].setting = NULL]
  BY DEF Derive
<1>2. WorkOK(work[r]) /\ work[r].pc = "derive"
  BY WorkOfRegion DEF Derive
<1>3. Signal(r, work[r]) \in Says
  BY <1>2, SignalType DEF WorkOK, Work, Counting
<1>4. i \in Incident \cup {NULL}
  BY <1>1 DEF TypeInv, RowInv
<1>. DEFINE w == [work[r] EXCEPT !.pc = "write", !.sig = Signal(r, work[r]), !.inc = i,
                                 !.status = NULL, !.regions = {}, !.setting = NULL]
<1>5. WorkOK(w)
  BY <1>2, <1>3, <1>4 DEF WorkOK, Work, Handling, Counting, Says
<1>6. work' = [work EXCEPT ![r] = w]
  BY <1>1 DEF TypeInv, WorkInv
<1>. HIDE DEF w
<1>. QED
  BY <1>5, <1>6, OneStep DEF Derive, TypeInv, RowInv

LEMMA WriteKeeps ==
    ASSUME TypeInv, NEW r \in Region, Write(r)
    PROVE  TypeInv'
<1>. DEFINE next == Route(work[r])
            after(clock) == IF next = "idle" THEN Without(clock, r) ELSE clock
            W(x) == IF x = r
                    THEN [Idle EXCEPT !.pc = next,
                                      !.inc = IF next = "idle" THEN NULL ELSE work[r].inc]
                    ELSE [work[x] EXCEPT !.ff = after(@), !.fs = after(@)]
<1>1. /\ ff' = after(FF(work[r], ff)) /\ fs' = after(FS(work[r], fs))
      /\ work' = [x \in Region |-> W(x)]
      /\ UNCHANGED <<current, setting, failing, open, faults>>
  BY DEF Write
<1>2. /\ next \in {"open", "resolve", "idle"}
      /\ next = "open" => work[r].inc = NULL
      /\ next = "resolve" => work[r].inc # NULL
  BY DEF Route
<1>. HIDE DEF next
<1>3. \A clock \in MaybeClock : after(clock) \in MaybeClock
  BY ClockSteps
<1>4. WorkOK(W(r))
  BY <1>2, WorkOfRegion DEF WorkOK, Work, Idle, MaybeClock, Handling, Counting
<1>5. ASSUME NEW x \in Region \ {r}
      PROVE  WorkOK(W(x))
  <2>1. WorkOK(work[x]) /\ after(work[x].ff) \in MaybeClock /\ after(work[x].fs) \in MaybeClock
    BY <1>3, WorkOfRegion
  <2>. HIDE DEF after
  <2>2. WorkOK([work[x] EXCEPT !.ff = after(work[x].ff), !.fs = after(work[x].fs)])
    BY <2>1, ClocksOfWork
  <2>. QED
    BY <2>2
<1>6. ff' \in MaybeClock /\ fs' \in MaybeClock
  <2>1. FF(work[r], ff) \in MaybeClock /\ FS(work[r], fs) \in MaybeClock
    BY WorkOfRegion, ColumnType DEF WorkOK, TypeInv, RowInv
  <2>. QED
    BY <1>1, <1>3, <2>1
<1>7. WorkInv'
  <2>. HIDE DEF W
  <2>. QED
    BY <1>1, <1>4, <1>5 DEF WorkInv, WorkOK
<1>. QED
  BY <1>1, <1>6, <1>7 DEF TypeInv, RowInv

LEMMA OpenKeeps ==
    ASSUME TypeInv, NEW r \in Region, Open(r)
    PROVE  TypeInv'
<1>. DEFINE free == Incident \ (open \cup {work[x].inc : x \in Region})
            i == Min(free)
            since(clock) == Without(Began(clock, r, i), r)
            W(x) == IF x = r THEN Idle
                    ELSE [work[x] EXCEPT !.ff = Without(@, r), !.fs = since(@)]
<1>1. /\ free # {} /\ open' = open \cup {i}
      /\ ff' = Without(ff, r) /\ fs' = since(fs)
      /\ work' = [x \in Region |-> W(x)]
      /\ UNCHANGED <<current, setting, failing, faults>>
  BY DEF Open
<1>2. i \in Incident
  <2>1. free \in SUBSET Nat
    BY DEF Incident
  <2>. HIDE DEF free
  <2>2. \E n \in free : \A m \in free : n <= m
    BY <1>1, <2>1, LeastNumber
  <2>3. i \in free
    BY <2>2 DEF Min
  <2>. QED
    BY <2>3 DEF free
<1>. HIDE DEF i
<1>3. \A clock \in MaybeClock : since(clock) \in MaybeClock
  BY <1>2, ClockSteps
<1>. HIDE DEF since
<1>4. ASSUME NEW x \in Region
      PROVE  WorkOK(W(x))
  <2>1. /\ WorkOK(work[x]) /\ Without(work[x].ff, r) \in MaybeClock
        /\ since(work[x].fs) \in MaybeClock
    BY <1>3, WorkOfRegion, ClockSteps
  <2>2. WorkOK([work[x] EXCEPT !.ff = Without(work[x].ff, r), !.fs = since(work[x].fs)])
    BY <2>1, ClocksOfWork
  <2>. QED
    BY <2>2, IdleOK
<1>5. WorkInv'
  <2>. HIDE DEF W
  <2>. QED
    BY <1>1, <1>4 DEF WorkInv, WorkOK
<1>6. ff' \in MaybeClock /\ fs' \in MaybeClock
  BY <1>1, <1>3, ClockSteps DEF TypeInv, RowInv
<1>. QED
  BY <1>1, <1>2, <1>5, <1>6 DEF TypeInv, RowInv

\* The clocks that run out, of the check and of the results that have read it.
LEMMA ClockKeeps ==
    ASSUME TypeInv, Confirm \/ Recover
    PROVE  TypeInv'
<1>1. \A x \in Region : /\ WorkOK(work[x]) /\ RunOut(work[x].ff) \in MaybeClock
                        /\ RunOut(work[x].fs) \in MaybeClock
  BY WorkOfRegion, ClockSteps
<1>2. RunOut(ff) \in MaybeClock /\ RunOut(fs) \in MaybeClock
  <2>1. Region # {}
    OBVIOUS
  <2>. QED
    BY <2>1, ClockSteps DEF TypeInv, RowInv
<1>3. CASE Confirm
  <2>. DEFINE W(x) == [work[x] EXCEPT !.ff = RunOut(@)]
  <2>1. \A x \in Region : WorkOK(W(x))
    BY <1>1, ClocksOfWork
  <2>2. work' = [x \in Region |-> W(x)]
    BY <1>3 DEF Confirm
  <2>. HIDE DEF W
  <2>3. WorkInv'
    BY <2>1, <2>2 DEF WorkInv, WorkOK
  <2>. QED
    BY <1>2, <1>3, <2>3 DEF Confirm, TypeInv, RowInv
<1>4. CASE Recover
  <2>. DEFINE W(x) == [work[x] EXCEPT !.fs = RunOut(@)]
  <2>1. \A x \in Region : WorkOK(W(x))
    BY <1>1, ClocksOfWork
  <2>2. work' = [x \in Region |-> W(x)]
    BY <1>4 DEF Recover
  <2>. HIDE DEF W
  <2>3. WorkInv'
    BY <2>1, <2>2 DEF WorkInv, WorkOK
  <2>. QED
    BY <1>2, <1>4, <2>3 DEF Recover, TypeInv, RowInv
<1>. QED
  BY <1>3, <1>4

LEMMA TypeInvStep ==
    ASSUME TypeInv, [Next]_vars
    PROVE  TypeInv'
<1>1. ASSUME NEW r \in Region, Abort(r)
      PROVE  TypeInv'
  BY <1>1, FinishKeeps, FaultKeeps DEF Abort, TypeInv, RowInv
<1>2. ASSUME NEW r \in Region, Resolve(r)
      PROVE  TypeInv'
  BY <1>2, FinishKeeps DEF Resolve, TypeInv, RowInv
<1>3. ASSUME NEW r \in Region, Expire(r)
      PROVE  TypeInv'
  BY <1>3 DEF Expire, TypeInv, RowInv, WorkInv
<1>4. CASE Edit
  <2>1. current' \in (SUBSET Region) \ {{}}
    BY <1>4 DEF Edit
  <2>. QED
    BY <1>4, <2>1, FaultKeeps DEF Edit, TypeInv, RowInv, WorkInv
<1>5. CASE UNCHANGED vars
  BY <1>5 DEF vars, TypeInv, RowInv, WorkInv
<1>. QED
  BY <1>1, <1>2, <1>3, <1>4, <1>5, ReadKeeps, RecordKeeps, DeriveKeeps, WriteKeeps, OpenKeeps,
     ClockKeeps DEF Next, Process

\* The check and the results in processing keep their types: in particular a
\* result that is to open an incident has found none, and one that is to resolve
\* an incident has (handleFailure, handleSuccess).
THEOREM QuorumTypes == Spec => []TypeOK
<1>1. ASSUME Init
      PROVE  TypeInv
  <2>1. RowInv
    BY <1>1 DEF Init, RowInv, MaybeClock
  <2>2. WorkInv
    BY <1>1, IdleOK DEF Init, WorkInv, WorkOK
  <2>. QED
    BY <2>1, <2>2 DEF TypeInv
<1>2. TypeInv /\ [Next]_vars => TypeInv'
  BY TypeInvStep
<1>3. TypeInv => TypeOK
  BY DEF TypeInv, RowInv, WorkInv, Handling, TypeOK
<1>. QED
  BY <1>1, <1>2, <1>3, PTL DEF Spec
=============================================================================
