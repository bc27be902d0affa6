--------------------------- MODULE JobQueueProofs ---------------------------
(***************************************************************************)
(* Proofs about the background job queue: its types, that a row is retried *)
(* at most once, that an outcome is overwritten only by a late rejection,  *)
(* and that the sweeps do not stack up, for any number of processes and of *)
(* runners in each.                                                        *)
(*                                                                         *)
(* Every step of a runner replaces its record and the table, so the proofs *)
(* have a lemma for the step (StepKeeps, HolderStep, QuietStep) and then *)
(* one for each action, which says what the action makes of the table.     *)
(***************************************************************************)
EXTENDS JobQueue, TLAPS, FiniteSetTheorems, SequenceTheorems, WellFoundedInduction

USE JobQueueAssumption

-----------------------------------------------------------------------------
(* The inductive invariant.                                                *)

DueIn(d, t) ==
    \A i \in DOMAIN d : i \in DOMAIN t /\ t[i].status = "pending" /\ ~t[i].deleted

\* A rejection may come after the flip to retried.
Retried == {"retried", "failed"}

\* Only a row that was flipped to retried has a clone.
Table(t) ==
    /\ DOMAIN t \subseteq Row
    /\ t \in [DOMAIN t -> JobRow]
    /\ \A i \in DOMAIN t : t[i].cloned => t[i].status \in Retried

\* A process that creates for a run, or is at any later point of it, has one.
HasJob(p) ==
    p.pc \in {"run", "reap", "done", "clone"} \/ (p.pc \in {"find", "store"} /\ p.seeds = <<>>)
        => p.job # NULL

OriginalOf(p) == IF p.victim = NULL THEN p.job ELSE p.victim

\* A process that is about to insert a clone flipped the row to retried itself,
\* and nobody has cloned that row.
OwesClone(p, t) ==
    LET i == OriginalOf(p)
    IN  t[i].status \in Retried /\ ~t[i].cloned /\ t[i].retry < MaxRetryCount

ProcessOK(p, t) ==
    /\ References(p) \subseteq DOMAIN t
    /\ HasJob(p)
    /\ p.victim # NULL => p.pc = "clone"
    /\ p.pc = "clone" => OwesClone(p, t)

Cloning(r) == runner[r].pc = "clone"

JobInv ==
    /\ Table(rows)
    /\ IsOrder(due)
    /\ DueIn(due, rows)
    /\ runner \in [Runner -> Process]
    /\ \A r \in Runner : ProcessOK(runner[r], rows)
    /\ \A r, s \in Runner : Cloning(r) /\ Cloning(s) /\ Original(r) = Original(s) => r = s
    /\ submits \in 0 .. MaxSubmits
    /\ faults \in 0 .. MaxFaults

\* A claimed row has one runner, is not pending any more, and has not succeeded:
\* success is what its runner writes last.
HolderInv ==
    /\ \A r, s \in Runner : runner[r].job # NULL /\ runner[r].job = runner[s].job => r = s
    /\ \A r \in Runner : runner[r].job # NULL =>
           rows[runner[r].job].status \notin {"pending", "success"}

\* What most steps do, and OutcomeStays for the one that may do otherwise.
OutcomesKept ==
    \A i \in DOMAIN rows \cap DOMAIN rows' :
        rows[i].status \in Final => rows'[i].status = rows[i].status

OutcomesRejected ==
    \A i \in DOMAIN rows \cap DOMAIN rows' :
        rows[i].status \in Final =>
            \/ rows'[i].status = rows[i].status
            \/ /\ rows[i].status = "retried" /\ rows'[i].status = "failed"
               /\ \E r \in Runner : runner[r].job = i /\ Reject(r)

LEMMA JobInvTypes == JobInv => TypeOK
BY DEF JobInv, TypeOK, Table, DueIn

-----------------------------------------------------------------------------
(* Rows and their numbers.                                                 *)

\* Every nonempty set of numbers has a least one.
LEMMA LeastNumber ==
    ASSUME NEW T \in SUBSET Nat, T # {}
    PROVE  \E x \in T : \A y \in T : x <= y
<1>1. PICK x \in T : \A y \in T : ~ (<<y, x>> \in OpToRel(<, Nat))
  BY WFMin, NatLessThanWellFounded
<1>2. \A y \in T : y \in Nat
  OBVIOUS
<1>3. \A y \in T : ~ (y < x)
  BY <1>1, <1>2 DEF OpToRel
<1>. QED
  BY <1>2, <1>3

\* A new row gets a number that no row has.
LEMMA NewIdIsFree ==
    ASSUME Free # {}
    PROVE  NewId \in Row /\ NewId \notin DOMAIN rows
<1>1. Free \in SUBSET Nat
  BY DEF Free, Row
<1>2. \E i \in Free : \A j \in Free : i <= j
  BY <1>1, LeastNumber
<1>3. NewId \in Free
  BY <1>2 DEF NewId
<1>. QED
  BY <1>3 DEF Free

LEMMA NewJobType == \A key \in Key : NewJob(key) \in JobRow
BY DEF NewJob, JobRow

\* A table with one more row.
LEMMA WithRow ==
    ASSUME NEW t, Table(t), DOMAIN t = DOMAIN rows, Free # {},
           NEW row \in JobRow, ~row.cloned
    PROVE  /\ Table(With(t, row))
           /\ DOMAIN With(t, row) = DOMAIN rows \cup {NewId}
           /\ With(t, row)[NewId] = row
           /\ \A i \in DOMAIN rows : With(t, row)[i] = t[i]
<1>1. NewId \in Row /\ NewId \notin DOMAIN rows
  BY NewIdIsFree
<1>. QED
  BY <1>1 DEF With, Table

LEMMA WithNewJob ==
    ASSUME Table(rows), Free # {}, NEW row \in JobRow, ~row.cloned
    PROVE  /\ Table(With(rows, row))
           /\ DOMAIN With(rows, row) = DOMAIN rows \cup {NewId}
           /\ With(rows, row)[NewId] = row
           /\ \A i \in DOMAIN rows : With(rows, row)[i] = rows[i]
BY WithRow

-----------------------------------------------------------------------------
(* The order of the due rows.                                              *)

LEMMA EnqueuedOrder ==
    ASSUME NEW d, IsOrder(d), NEW i, i \notin DOMAIN d
    PROVE  IsOrder(Enqueued(d, i)) /\ DOMAIN Enqueued(d, i) = DOMAIN d \cup {i}
BY DEF IsOrder, Enqueued, Inserted

LEMMA DequeuedOrder ==
    ASSUME NEW d, IsOrder(d), NEW S
    PROVE  IsOrder(Dequeued(d, S)) /\ DOMAIN Dequeued(d, S) = DOMAIN d \ S
BY DEF IsOrder, Dequeued

-----------------------------------------------------------------------------
(* The table after a step.                                                 *)

\* What no statement does to a table: take a row out, bring a row that is final
\* back, or add a retry to a row.
Follows(t) ==
    \A i \in DOMAIN rows :
        /\ i \in DOMAIN t
        /\ rows[i].status \in Retried => t[i].status \in Retried
        /\ t[i].retry = rows[i].retry

\* What only the rejection does: change a row that is final, except for its
\* clone mark.
Later(t) ==
    \A i \in DOMAIN rows :
        /\ i \in DOMAIN t
        /\ rows[i].status \in Final => t[i].status = rows[i].status
        /\ t[i].retry = rows[i].retry

LEMMA LaterFollows ==
    ASSUME NEW t, Later(t)
    PROVE  Follows(t)
BY DEF Later, Follows, Final, Retried

SameClones(t) == \A i \in DOMAIN rows : t[i].cloned = rows[i].cloned

\* Rows that a statement can match or a process refers to stay in the table.
LEMMA TableKept ==
    ASSUME NEW t, NEW procs
    PROVE  /\ DOMAIN Kept(t, procs) \subseteq DOMAIN t
           /\ \A i \in DOMAIN Kept(t, procs) : Kept(t, procs)[i] = t[i]
           /\ \A i \in DOMAIN t : t[i].status \notin Final /\ ~t[i].deleted
                => i \in DOMAIN Kept(t, procs)
           /\ \A r \in Runner : References(procs[r]) \cap DOMAIN t \subseteq DOMAIN Kept(t, procs)
BY DEF Kept

\* A table that a statement leaves keeps the invariant of the table, of the
\* due rows and of a process, whatever leaves with it.
LEMMA KeptIsTable ==
    ASSUME NEW t, Table(t), NEW procs, NEW d, DueIn(d, t)
    PROVE  Table(Kept(t, procs)) /\ DueIn(d, Kept(t, procs))
<1>1. Table(Kept(t, procs))
  BY DEF Table, Kept
<1>2. DueIn(d, Kept(t, procs))
  BY TableKept DEF DueIn, Final
<1>. QED
  BY <1>1, <1>2

LEMMA OriginalIsReferred ==
    ASSUME NEW p, HasJob(p), p.pc = "clone"
    PROVE  OriginalOf(p) \in References(p)
BY DEF HasJob, OriginalOf, References

LEMMA KeptProcess ==
    ASSUME NEW t, NEW procs, NEW r \in Runner, ProcessOK(procs[r], t)
    PROVE  ProcessOK(procs[r], Kept(t, procs))
<1>1. References(procs[r]) \subseteq DOMAIN Kept(t, procs)
  BY TableKept DEF ProcessOK
<1>2. ASSUME procs[r].pc = "clone"
      PROVE  OwesClone(procs[r], Kept(t, procs))
  <2>1. OriginalOf(procs[r]) \in DOMAIN Kept(t, procs)
    BY <1>1, <1>2, OriginalIsReferred DEF ProcessOK
  <2>. QED
    BY <1>2, <2>1, TableKept DEF ProcessOK, OwesClone
<1>. QED
  BY <1>1, <1>2 DEF ProcessOK

\* A process is not disturbed by what the others do to the table.
LEMMA ProcessLater ==
    ASSUME NEW p, ProcessOK(p, rows), NEW t, Follows(t),
           p.pc = "clone" => t[OriginalOf(p)].cloned = rows[OriginalOf(p)].cloned
    PROVE  ProcessOK(p, t)
<1>1. References(p) \subseteq DOMAIN t
  BY DEF ProcessOK, Follows
<1>2. ASSUME p.pc = "clone"
      PROVE  OwesClone(p, t)
  <2>1. OriginalOf(p) \in DOMAIN rows
    BY <1>2, OriginalIsReferred DEF ProcessOK
  <2>. QED
    BY <1>2, <2>1 DEF ProcessOK, OwesClone, Follows
<1>. QED
  BY <1>1, <1>2 DEF ProcessOK

\* A step of a runner, for every action: what is to be shown of the table
\* and of the runner that moved.
LEMMA StepFollows ==
    ASSUME JobInv, NEW r \in Runner, NEW p \in Process, NEW t, Step(r, p, t),
           Table(t), Follows(t), IsOrder(due'), DueIn(due', t), ProcessOK(p, t),
           \A s \in Runner \ {r} :
               Cloning(s) => t[Original(s)].cloned = rows[Original(s)].cloned,
           p.pc = "clone" => \A s \in Runner \ {r} : Cloning(s) => Original(s) # OriginalOf(p),
           submits' \in 0 .. MaxSubmits, faults' \in 0 .. MaxFaults
    PROVE  JobInv'
<1>1. /\ runner' \in [Runner -> Process]
      /\ runner'[r] = p
      /\ \A s \in Runner \ {r} : runner'[s] = runner[s]
  BY DEF JobInv, Step
<1>2. rows' = Kept(t, runner')
  BY DEF Step
<1>3. Table(rows') /\ DueIn(due', rows')
  BY <1>2, KeptIsTable
<1>4. ASSUME NEW s \in Runner
      PROVE  ProcessOK(runner'[s], rows')
  <2>1. ProcessOK(runner'[s], t)
    <3>1. CASE s = r
      BY <1>1, <3>1
    <3>2. CASE s # r
      BY <1>1, <3>2, ProcessLater DEF JobInv, Cloning, Original, OriginalOf
    <3>. QED
      BY <3>1, <3>2
  <2>. QED
    BY <1>2, <2>1, KeptProcess
<1>5. ASSUME NEW s \in Runner, NEW q \in Runner,
             Cloning(s)', Cloning(q)', Original(s)' = Original(q)'
      PROVE  s = q
  BY <1>1, <1>5 DEF JobInv, Cloning, Original, OriginalOf
<1>. QED
  BY <1>1, <1>3, <1>4, <1>5 DEF JobInv

\* The same for the actions that change no final row.
LEMMA StepKeeps ==
    ASSUME JobInv, NEW r \in Runner, NEW p \in Process, NEW t, Step(r, p, t),
           Table(t), Later(t), IsOrder(due'), DueIn(due', t), ProcessOK(p, t),
           \A s \in Runner \ {r} :
               Cloning(s) => t[Original(s)].cloned = rows[Original(s)].cloned,
           p.pc = "clone" => \A s \in Runner \ {r} : Cloning(s) => Original(s) # OriginalOf(p),
           submits' \in 0 .. MaxSubmits, faults' \in 0 .. MaxFaults
    PROVE  JobInv' /\ OutcomesKept
<1>1. JobInv'
  BY StepFollows, LaterFollows
<1>2. OutcomesKept
  BY TableKept DEF Step, OutcomesKept, Later
<1>. QED
  BY <1>1, <1>2

\* The steps that change no table and start no clone.
LEMMA StepOfOne ==
    ASSUME JobInv, NEW r \in Runner, NEW p \in Process, NEW t, Step(r, p, t),
           Table(t), Later(t), SameClones(t), IsOrder(due'), DueIn(due', t),
           References(p) \subseteq DOMAIN t, HasJob(p), p.victim = NULL, p.pc # "clone",
           UNCHANGED submits, faults' \in 0 .. MaxFaults
    PROVE  JobInv' /\ OutcomesKept
<1>1. ProcessOK(p, t)
  BY DEF ProcessOK
<1>2. ASSUME NEW s \in Runner, Cloning(s)
      PROVE  Original(s) \in DOMAIN rows
  BY <1>2, OriginalIsReferred DEF JobInv, ProcessOK, Cloning, Original, OriginalOf
<1>. QED
  BY <1>1, <1>2, StepKeeps DEF JobInv, SameClones

\* The steps that leave the table alone.
LEMMA SameTable ==
    ASSUME JobInv
    PROVE  Table(rows) /\ Later(rows) /\ SameClones(rows) /\ IsOrder(due) /\ DueIn(due, rows)
BY DEF JobInv, Later, SameClones

\* A statement that updates one row, and neither ends nor clones nor retries it
\* a second time.
LEMMA UpdatedRow ==
    ASSUME JobInv, NEW i \in DOMAIN rows, NEW t,
           DOMAIN t = DOMAIN rows, \A k \in DOMAIN rows \ {i} : t[k] = rows[k],
           t \in [DOMAIN rows -> JobRow],
           rows[i].status \in Final => t[i].status = rows[i].status,
           t[i].cloned = rows[i].cloned, t[i].retry = rows[i].retry
    PROVE  Table(t) /\ Later(t) /\ SameClones(t)
BY DEF JobInv, Table, Later, SameClones, Final, Retried

\* One that sets updated_at, or the time that passes for a row.
LEMMA StaleTable ==
    ASSUME JobInv, NEW i \in DOMAIN rows, NEW b \in BOOLEAN
    PROVE  LET t == [rows EXCEPT ![i].stale = b]
           IN  /\ Table(t) /\ Later(t) /\ SameClones(t) /\ DOMAIN t = DOMAIN rows
               /\ \A d : DueIn(d, rows) => DueIn(d, t)
<1>. DEFINE t == [rows EXCEPT ![i].stale = b]
<1>1. rows[i] \in JobRow
  BY DEF JobInv, Table
<1>2. /\ DOMAIN t = DOMAIN rows
      /\ t[i] = [rows[i] EXCEPT !.stale = b]
      /\ \A k \in DOMAIN rows \ {i} : t[k] = rows[k]
  BY DEF JobInv, Table
<1>3. t \in [DOMAIN rows -> JobRow]
  BY <1>1 DEF JobInv, Table, JobRow
<1>4. /\ t[i].status = rows[i].status /\ t[i].cloned = rows[i].cloned
      /\ t[i].retry = rows[i].retry /\ t[i].deleted = rows[i].deleted
  BY <1>1, <1>2 DEF JobRow
<1>5. \A d : DueIn(d, rows) => DueIn(d, t)
  BY <1>2, <1>4 DEF DueIn
<1>. QED
  BY <1>2, <1>3, <1>4, <1>5, UpdatedRow

-----------------------------------------------------------------------------
(* A run or a process that starts creates a row.                           *)

LEMMA RunnerProcess ==
    ASSUME JobInv, NEW r \in Runner
    PROVE  runner[r] \in Process /\ ProcessOK(runner[r], rows)
BY DEF JobInv

\* A creation is of a key of the model, and the process has its run's row.
LEMMA WantedIsKey ==
    ASSUME JobInv, NEW r \in Runner, runner[r].pc \in {"find", "store"}
    PROVE  Wanted(r) \in Key
<1>1. CASE Seeding(r)
  <2>1. runner[r].seeds \in Seq({Reaper, Sweep}) /\ runner[r].seeds # <<>>
    BY <1>1, RunnerProcess DEF Process, Seeding
  <2>2. Head(runner[r].seeds) \in {Reaper, Sweep}
    BY <2>1
  <2>. QED
    BY <1>1, <2>2 DEF Wanted, Key
<1>2. CASE ~ Seeding(r)
  <2>1. runner[r].job \in DOMAIN rows
    BY <1>2, RunnerProcess DEF Seeding, ProcessOK, HasJob, References
  <2>. QED
    BY <1>2, <2>1 DEF Wanted, JobInv, Table, JobRow
<1>. QED
  BY <1>1, <1>2

\* What follows the first of several jobs is not empty.
LEMMA MoreThanOne ==
    ASSUME NEW S, NEW s \in Seq(S), s # <<>>, Len(s) # 1
    PROVE  Tail(s) # <<>>
<1>1. Len(s) \in Nat /\ Len(Tail(s)) = Len(s) - 1
  OBVIOUS
<1>2. Len(Tail(s)) # 0
  BY <1>1
<1>3. ASSUME Tail(s) = <<>>
      PROVE  FALSE
  <2>1. Len(Tail(s)) = Len(<<>>)
    BY <1>3
  <2>2. Len(<<>>) = 0
    OBVIOUS
  <2>. QED
    BY <1>2, <2>1, <2>2, Zenon
<1>. QED
  BY <1>3

LEMMA AfterCreateIsProcess ==
    ASSUME JobInv, NEW r \in Runner, runner[r].pc = "store"
    PROVE  LET p == AfterCreate(r) IN
           /\ p \in Process
           /\ p.victim = NULL /\ p.pc # "clone" /\ HasJob(p)
           /\ References(p) \subseteq References(runner[r])
<1>. DEFINE q == runner[r]
<1>0. q \in Process /\ q.victim = NULL /\ HasJob(q)
  BY RunnerProcess DEF ProcessOK
<1>1. CASE ~ Seeding(r)
  <2>1. AfterCreate(r) = [[q EXCEPT !.found = NULL] EXCEPT !.pc = "done"]
    BY <1>1 DEF AfterCreate
  <2>2. q.job # NULL
    BY <1>0, <1>1 DEF Seeding, HasJob
  <2>3. /\ AfterCreate(r) \in Process
        /\ AfterCreate(r).pc = "done" /\ AfterCreate(r).job = q.job
        /\ AfterCreate(r).victim = NULL /\ AfterCreate(r).found = NULL
        /\ AfterCreate(r).stuck = q.stuck
    BY <1>0, <2>1 DEF Process
  <2>. QED
    BY <2>2, <2>3 DEF HasJob, References
<1>2. CASE Seeding(r)
  <2>1. q.seeds \in Seq({Reaper, Sweep}) /\ q.seeds # <<>>
    BY <1>0, <1>2 DEF Process, Seeding
  <2>2. Tail(q.seeds) \in Seq({Reaper, Sweep})
    BY <2>1
  <2>3. Len(q.seeds) # 1 => Tail(q.seeds) # <<>>
    BY <2>1, MoreThanOne
  <2>4. PICK c \in {"loop", "find"} :
          /\ AfterCreate(r) = [[q EXCEPT !.found = NULL] EXCEPT !.seeds = Tail(q.seeds), !.pc = c]
          /\ c = "loop" <=> Len(q.seeds) = 1
    BY <1>0, <1>2 DEF AfterCreate, Process
  <2>5. AfterCreate(r) \in Process
    BY <1>0, <2>2, <2>4 DEF Process
  <2>6. AfterCreate(r).victim = NULL /\ AfterCreate(r).pc = c /\ AfterCreate(r).seeds = Tail(q.seeds)
    BY <1>0, <2>4 DEF Process
  <2>7. HasJob(AfterCreate(r))
    BY <2>3, <2>4, <2>6 DEF HasJob
  <2>8. References(AfterCreate(r)) \subseteq References(q)
    BY <1>0, <2>4 DEF Process, References
  <2>. QED
    BY <2>4, <2>5, <2>6, <2>7, <2>8
<1>. QED
  BY <1>1, <1>2

LEMMA FindKeeps ==
    ASSUME JobInv, NEW r \in Runner, Find(r)
    PROVE  JobInv' /\ OutcomesKept
<1>1. PICK i \in Pending(Wanted(r)) \cup {NULL} :
        Step(r, [runner[r] EXCEPT !.pc = "store", !.found = i], rows)
  BY DEF Find
<1>. DEFINE p == [runner[r] EXCEPT !.pc = "store", !.found = i]
<1>2. runner[r] \in Process /\ ProcessOK(runner[r], rows) /\ runner[r].pc = "find"
  BY RunnerProcess DEF Find
<1>3. i \in DOMAIN rows \cup {NULL} /\ i \in Row \cup {NULL}
  BY DEF Pending, JobInv, Table
<1>4. p \in Process /\ p.victim = NULL /\ p.pc # "clone" /\ HasJob(p)
  BY <1>2, <1>3 DEF Process, ProcessOK, HasJob
<1>5. References(p) \subseteq DOMAIN rows
  BY <1>2, <1>3 DEF Process, ProcessOK, References
<1>. QED
  BY <1>1, <1>4, <1>5, SameTable, StepOfOne DEF Find, JobInv

\* The UPDATE touches one row, and leaves its status.
LEMMA MoveKeeps ==
    ASSUME JobInv, NEW r \in Runner, runner[r].pc = "store", Move(r), UNCHANGED <<submits, faults>>
    PROVE  JobInv' /\ OutcomesKept
<1>. DEFINE i == runner[r].found
            t == [rows EXCEPT ![i].stale = FALSE]
            p == AfterCreate(r)
<1>1. i \in DOMAIN rows
  BY RunnerProcess DEF ProcessOK, References, Move
<1>2. Table(t) /\ Later(t) /\ SameClones(t)
  BY <1>1, StaleTable
<1>3. IsOrder(Dequeued(due, {i})) /\ DOMAIN Dequeued(due, {i}) = DOMAIN due \ {i}
  BY DequeuedOrder DEF JobInv
<1>4. IsOrder(due') /\ DueIn(due', t)
  <2>1. CASE Seeding(r) /\ i \in Pending(Wanted(r))
    <3>1. due' = Enqueued(Dequeued(due, {i}), i)
      BY <2>1 DEF Move
    <3>2. i \notin DOMAIN Dequeued(due, {i})
      BY <1>3
    <3>3. IsOrder(due') /\ DOMAIN due' = (DOMAIN due \ {i}) \cup {i}
      <4>. DEFINE d == Dequeued(due, {i})
      <4>1. IsOrder(d) /\ DOMAIN d = DOMAIN due \ {i} /\ i \notin DOMAIN d
        BY <1>3
      <4>2. due' = Enqueued(d, i)
        BY <3>1
      <4>3. IsOrder(Enqueued(d, i)) /\ DOMAIN Enqueued(d, i) = DOMAIN d \cup {i}
        <5>. HIDE DEF d, i
        <5>. QED
          BY <4>1, EnqueuedOrder, Zenon
      <4>. HIDE DEF d, i
      <4>. QED
        BY <4>1, <4>2, <4>3
    <3>4. rows[i].status = "pending" /\ ~ rows[i].deleted
      BY <2>1 DEF Pending
    <3>. QED
      BY <1>1, <3>3, <3>4 DEF DueIn, JobInv, Table, JobRow
  <2>2. CASE ~ (Seeding(r) /\ i \in Pending(Wanted(r)))
    <3>1. due' = Dequeued(due, {i})
      BY <2>2 DEF Move
    <3>. QED
      BY <1>1, <1>3, <3>1 DEF DueIn, JobInv, Table, JobRow
  <2>. QED
    BY <2>1, <2>2
<1>5. References(p) \subseteq DOMAIN t
  BY AfterCreateIsProcess, RunnerProcess DEF ProcessOK
<1>. QED
  BY <1>2, <1>4, <1>5, AfterCreateIsProcess, StepOfOne DEF Move, JobInv

LEMMA InsertKeeps ==
    ASSUME JobInv, NEW r \in Runner, runner[r].pc = "store", Insert(r), UNCHANGED <<submits, faults>>
    PROVE  JobInv' /\ OutcomesKept
<1>. DEFINE row == NewJob(Wanted(r))
            t == With(rows, row)
            p == AfterCreate(r)
<1>1. row \in JobRow /\ ~ row.cloned /\ row.status = "pending" /\ ~ row.deleted
  BY WantedIsKey, NewJobType DEF NewJob
<1>2. NewId \in Row /\ NewId \notin DOMAIN rows
  BY NewIdIsFree DEF Insert
<1>3. /\ Table(t) /\ DOMAIN t = DOMAIN rows \cup {NewId} /\ t[NewId] = row
      /\ \A i \in DOMAIN rows : t[i] = rows[i]
  <2>1. Table(rows) /\ Free # {}
    BY DEF JobInv, Insert
  <2>. HIDE DEF row
  <2>. QED
    BY <1>1, <2>1, WithNewJob
<1>4. Later(t) /\ SameClones(t)
  BY <1>3 DEF Later, SameClones
<1>5. IsOrder(due') /\ DueIn(due', t)
  <2>1. NewId \notin DOMAIN due
    BY <1>2 DEF JobInv, DueIn
  <2>2. IsOrder(due') /\ DOMAIN due' \subseteq DOMAIN due \cup {NewId}
    <3>1. due' = Enqueued(due, NewId) \/ due' = due
      BY DEF Insert
    <3>2. IsOrder(due)
      BY DEF JobInv
    <3>3. IsOrder(Enqueued(due, NewId)) /\ DOMAIN Enqueued(due, NewId) = DOMAIN due \cup {NewId}
      BY <2>1, <3>2, EnqueuedOrder
    <3>. QED
      BY <3>1, <3>2, <3>3
  <2>3. t[NewId].status = "pending" /\ ~ t[NewId].deleted
    BY <1>1, <1>3
  <2>4. DueIn(due, rows)
    BY DEF JobInv
  <2>. HIDE DEF t, row
  <2>. QED
    BY <1>3, <2>2, <2>3, <2>4 DEF DueIn
<1>6. References(p) \subseteq DOMAIN t
  BY <1>3, AfterCreateIsProcess, RunnerProcess DEF ProcessOK
<1>. QED
  BY <1>3, <1>4, <1>5, <1>6, AfterCreateIsProcess, StepOfOne DEF Insert, JobInv

-----------------------------------------------------------------------------
(* A runner.                                                               *)

\* What a change of the status of a row does to the table.
LEMMA WithStatusTable ==
    ASSUME JobInv, NEW i \in DOMAIN rows, rows[i].status \notin Final,
           NEW status \in {"pending", "running"} \cup Final
    PROVE  LET t == WithStatus(i, status) IN
           /\ Table(t) /\ Later(t) /\ SameClones(t) /\ DOMAIN t = DOMAIN rows
           /\ t[i].status = status /\ t[i].cloned = rows[i].cloned /\ t[i].retry = rows[i].retry
           /\ \A k \in DOMAIN rows \ {i} : t[k] = rows[k]
           /\ ~ rows[i].cloned
<1>. DEFINE t == WithStatus(i, status)
<1>1. rows[i] \in JobRow
  BY DEF JobInv, Table
<1>2. /\ DOMAIN t = DOMAIN rows
      /\ t[i] = [[rows[i] EXCEPT !.status = status] EXCEPT !.stale = FALSE]
      /\ \A k \in DOMAIN rows \ {i} : t[k] = rows[k]
  BY <1>1 DEF WithStatus, JobInv, Table
<1>3. /\ t \in [DOMAIN rows -> JobRow]
      /\ t[i].status = status /\ t[i].cloned = rows[i].cloned /\ t[i].retry = rows[i].retry
  BY <1>1, <1>2 DEF WithStatus, JobInv, Table, JobRow, Final
<1>4. ~ rows[i].cloned
  BY DEF JobInv, Table, Final, Retried
<1>. QED
  BY <1>2, <1>3, <1>4, UpdatedRow

LEMMA NotDue ==
    ASSUME JobInv, NEW i, rows[i].status # "pending", NEW t,
           \A k \in DOMAIN rows \ {i} : k \in DOMAIN t /\ t[k] = rows[k]
    PROVE  DueIn(due, t)
BY DEF JobInv, DueIn

\* The first due row is taken off the queue.
LEMMA TakenOffQueue ==
    ASSUME JobInv, NEW i \in DOMAIN due
    PROVE  /\ i \in DOMAIN rows /\ rows[i].status = "pending"
           /\ IsOrder(Dequeued(due, {i})) /\ DueIn(Dequeued(due, {i}), WithStatus(i, "running"))
<1>1. i \in DOMAIN rows /\ rows[i].status = "pending"
  BY DEF JobInv, DueIn
<1>2. IsOrder(Dequeued(due, {i})) /\ DOMAIN Dequeued(due, {i}) = DOMAIN due \ {i}
  BY DequeuedOrder DEF JobInv
<1>3. \A k \in DOMAIN rows \ {i} : /\ k \in DOMAIN WithStatus(i, "running")
                                   /\ WithStatus(i, "running")[k] = rows[k]
  BY <1>1, WithStatusTable DEF Final
<1>. QED
  BY <1>1, <1>2, <1>3 DEF JobInv, DueIn

LEMMA ClaimKeeps ==
    ASSUME JobInv, NEW r \in Runner, Claim(r)
    PROVE  JobInv' /\ OutcomesKept
<1>1. PICK i \in DOMAIN due :
        /\ due' = Dequeued(due, {i})
        /\ Step(r, [runner[r] EXCEPT !.pc = "run", !.job = i], WithStatus(i, "running"))
  BY DEF Claim, First
<1>. DEFINE p == [runner[r] EXCEPT !.pc = "run", !.job = i]
            t == WithStatus(i, "running")
<1>2. i \in DOMAIN rows /\ rows[i].status \notin Final
  BY TakenOffQueue DEF Final
<1>3. Table(t) /\ Later(t) /\ SameClones(t) /\ DOMAIN t = DOMAIN rows
  BY <1>2, WithStatusTable
<1>4. IsOrder(due') /\ DueIn(due', t)
  BY <1>1, TakenOffQueue
<1>5. runner[r] \in Process /\ ProcessOK(runner[r], rows) /\ runner[r].pc = "loop"
  BY RunnerProcess DEF Claim
<1>6. p \in Process /\ p.victim = NULL /\ p.pc # "clone" /\ HasJob(p)
  <2>1. i \in Row /\ i # NULL
    BY <1>2 DEF JobInv, Table
  <2>2. runner[r].victim = NULL
    BY <1>5 DEF ProcessOK
  <2>. QED
    BY <1>5, <2>1, <2>2 DEF Process, HasJob
<1>7. References(p) \subseteq DOMAIN t
  BY <1>2, <1>3, <1>5 DEF Process, ProcessOK, References
<1>. QED
  BY <1>1, <1>3, <1>4, <1>6, <1>7, StepOfOne DEF Claim, JobInv

\* A step that leaves the table and gives the process another record.
LEMMA StepOnly ==
    ASSUME JobInv, NEW r \in Runner, NEW p \in Process, Step(r, p, rows), UNCHANGED <<due, submits>>,
           faults' \in 0 .. MaxFaults,
           References(p) \subseteq DOMAIN rows, HasJob(p), p.victim = NULL, p.pc # "clone"
    PROVE  JobInv' /\ OutcomesKept
BY SameTable, StepOfOne

LEMMA StartingIsProcess ==
    /\ Starting \in Process /\ Starting.victim = NULL /\ Starting.pc # "clone"
    /\ References(Starting) = {} /\ HasJob(Starting)
BY DEF Starting, Process, References, HasJob

LEMMA IdleIsProcess ==
    /\ Idle \in Process /\ Idle.victim = NULL /\ Idle.pc # "clone"
    /\ References(Idle) = {} /\ HasJob(Idle)
<1>1. <<>> \in Seq({Reaper, Sweep})
  OBVIOUS
<1>. QED
  BY <1>1, StartingIsProcess DEF Idle, Starting, Process, References, HasJob

\* What a runner is when its process starts.
LEMMA AtStartIsProcess ==
    ASSUME NEW r \in Runner
    PROVE  /\ AtStart(r) \in Process /\ AtStart(r).victim = NULL /\ AtStart(r).pc # "clone"
           /\ References(AtStart(r)) = {} /\ HasJob(AtStart(r))
           /\ AtStart(r).job = NULL /\ AtStart(r).pc # "store"
<1>1. Starting.job = NULL /\ Starting.pc # "store" /\ Idle.job = NULL /\ Idle.pc # "store"
  BY DEF Starting, Idle
<1>. QED
  BY <1>1, StartingIsProcess, IdleIsProcess DEF AtStart

LEMMA RunKeeps ==
    ASSUME JobInv, NEW r \in Runner, Run(r)
    PROVE  JobInv' /\ OutcomesKept
<1>0. runner[r] \in Process /\ ProcessOK(runner[r], rows) /\ runner[r].pc = "run"
  BY RunnerProcess DEF Run
<1>1. runner[r].victim = NULL /\ runner[r].job # NULL
  BY <1>0 DEF ProcessOK, HasJob
<1>2. CASE RunTask(r)
  <2>1. PICK o \in {"success", "retry", "failed"} :
          Step(r, [runner[r] EXCEPT !.pc = "done", !.outcome = o], rows)
    BY <1>2 DEF RunTask, Outcomes
  <2>. DEFINE p == [runner[r] EXCEPT !.pc = "done", !.outcome = o]
  <2>2. p \in Process /\ p.victim = NULL /\ p.pc # "clone" /\ HasJob(p)
    BY <1>0, <1>1 DEF Process, HasJob
  <2>3. References(p) \subseteq DOMAIN rows
    BY <1>0 DEF Process, ProcessOK, References
  <2>. HIDE DEF p
  <2>. QED
    BY <2>1, <2>2, <2>3, StepOnly DEF Run, JobInv, p
<1>3. CASE RunSweep(r)
  <2>1. PICK o \in {"success", "retry"} :
          Step(r, [runner[r] EXCEPT !.pc = "find", !.outcome = o], rows)
    BY <1>3 DEF RunSweep, SweepThenRearm, Outcomes
  <2>. DEFINE p == [runner[r] EXCEPT !.pc = "find", !.outcome = o]
  <2>2. p \in Process /\ p.victim = NULL /\ p.pc # "clone" /\ HasJob(p)
    BY <1>0, <1>1 DEF Process, HasJob
  <2>3. References(p) \subseteq DOMAIN rows
    BY <1>0 DEF Process, ProcessOK, References
  <2>. HIDE DEF p
  <2>. QED
    BY <2>1, <2>2, <2>3, StepOnly DEF Run, JobInv, p
<1>4. CASE RunReaper(r)
  <2>. DEFINE p == [runner[r] EXCEPT !.pc = "reap", !.stuck = Stuck]
  <2>1. Stuck \subseteq DOMAIN rows /\ Stuck \in SUBSET Row
    BY DEF Stuck, JobInv, Table
  <2>2. p \in Process /\ p.victim = NULL /\ p.pc # "clone" /\ HasJob(p)
    BY <1>0, <1>1, <2>1 DEF Process, HasJob
  <2>3. References(p) \subseteq DOMAIN rows
    BY <1>0, <2>1 DEF Process, ProcessOK, References
  <2>. QED
    BY <1>4, <2>2, <2>3, StepOnly DEF RunReaper, Run, JobInv
<1>. QED
  BY <1>2, <1>3, <1>4 DEF Run

LEMMA NoticeCancelKeeps ==
    ASSUME JobInv, NEW r \in Runner, NoticeCancel(r)
    PROVE  JobInv' /\ OutcomesKept
BY IdleIsProcess, StepOnly DEF NoticeCancel, JobInv

\* A rejection writes over whatever became of its row: a row that is running,
\* or one the reaper has flipped, with its clone still to come or not.
LEMMA RejectKeeps ==
    ASSUME JobInv, HolderInv, NEW r \in Runner, Reject(r)
    PROVE  JobInv' /\ OutcomesRejected
<1>. DEFINE i == runner[r].job
            t == WithStatus(i, "failed")
<1>0. runner[r] \in Process /\ ProcessOK(runner[r], rows) /\ runner[r].pc = "run"
  BY RunnerProcess DEF Reject
<1>1. i # NULL /\ i \in DOMAIN rows /\ rows[i] \in JobRow
  BY <1>0 DEF ProcessOK, HasJob, References, JobInv, Table
<1>2. rows[i].status \notin {"pending", "success"}
  BY <1>1 DEF HolderInv
<1>3. /\ DOMAIN t = DOMAIN rows
      /\ t[i] = [[rows[i] EXCEPT !.status = "failed"] EXCEPT !.stale = FALSE]
      /\ \A k \in DOMAIN rows \ {i} : t[k] = rows[k]
  BY <1>1 DEF WithStatus, JobInv, Table
<1>4. /\ t[i] \in JobRow /\ t[i].status = "failed"
      /\ t[i].cloned = rows[i].cloned /\ t[i].retry = rows[i].retry
  BY <1>1, <1>3 DEF JobRow, Final
<1>5. Table(t)
  <2>1. t \in [DOMAIN rows -> JobRow]
    BY <1>1, <1>4 DEF WithStatus, JobInv, Table, JobRow, Final
  <2>. QED
    BY <1>3, <1>4, <2>1 DEF JobInv, Table, Retried
<1>. HIDE DEF t
<1>6. Follows(t) /\ SameClones(t)
  BY <1>3, <1>4 DEF Follows, SameClones, Retried
<1>7. DueIn(due, t)
  BY <1>2, <1>3, NotDue
<1>8. Step(r, Idle, t) /\ UNCHANGED <<due, submits, faults>>
  BY DEF Reject, t
<1>9. JobInv'
  <2>1. ProcessOK(Idle, t)
    BY IdleIsProcess DEF ProcessOK
  <2>2. ASSUME NEW s \in Runner, Cloning(s)
        PROVE  Original(s) \in DOMAIN rows
    BY <2>2, OriginalIsReferred DEF JobInv, ProcessOK, Cloning, Original, OriginalOf
  <2>. QED
    BY <1>5, <1>6, <1>7, <1>8, <2>1, <2>2, IdleIsProcess, StepFollows DEF JobInv, SameClones
<1>10. ASSUME NEW k \in DOMAIN rows \cap DOMAIN rows', rows[k].status \in Final
       PROVE  \/ rows'[k].status = rows[k].status
              \/ rows[k].status = "retried" /\ rows'[k].status = "failed" /\ k = i
  <2>1. rows'[k] = t[k]
    BY <1>8, <1>10, TableKept DEF Step
  <2>2. CASE k = i
    BY <1>2, <1>4, <1>10, <2>1, <2>2 DEF Final
  <2>3. CASE k # i
    BY <1>3, <2>1, <2>3
  <2>. QED
    BY <2>2, <2>3
<1>11. OutcomesRejected
  BY <1>10 DEF OutcomesRejected
<1>. QED
  BY <1>9, <1>11

\* A process flips a row that is running to retried: no other process can be
\* about to clone it, and nobody has.
LEMMA FlipKeeps ==
    ASSUME JobInv, NEW r \in Runner, NEW p \in Process, NEW i \in DOMAIN rows,
           rows[i].status = "running", rows[i].retry < MaxRetryCount,
           p.pc = "clone", HasJob(p), OriginalOf(p) = i, References(p) \subseteq DOMAIN rows,
           Step(r, p, WithStatus(i, "retried")), UNCHANGED <<due, submits, faults>>
    PROVE  JobInv' /\ OutcomesKept
<1>. DEFINE t == WithStatus(i, "retried")
<1>1. /\ Table(t) /\ Later(t) /\ SameClones(t) /\ DOMAIN t = DOMAIN rows
      /\ t[i].status = "retried" /\ t[i].cloned = rows[i].cloned /\ t[i].retry = rows[i].retry
      /\ \A k \in DOMAIN rows \ {i} : t[k] = rows[k]
      /\ ~ rows[i].cloned
  BY WithStatusTable DEF Final
<1>2. DueIn(due, t)
  BY <1>1, NotDue
<1>3. ProcessOK(p, t)
  BY <1>1 DEF ProcessOK, OwesClone, Retried
<1>4. ASSUME NEW s \in Runner, Cloning(s)
      PROVE  /\ Original(s) \in DOMAIN rows /\ Original(s) # i
             /\ t[Original(s)].cloned = rows[Original(s)].cloned
  <2>1. ProcessOK(runner[s], rows) /\ Original(s) = OriginalOf(runner[s])
    BY RunnerProcess DEF Original, OriginalOf
  <2>2. Original(s) \in DOMAIN rows /\ rows[Original(s)].status \in Retried
    BY <1>4, <2>1, OriginalIsReferred DEF Cloning, ProcessOK, OwesClone
  <2>. QED
    BY <1>1, <2>2 DEF SameClones, Retried
<1>. QED
  BY <1>1, <1>2, <1>3, <1>4, StepKeeps DEF JobInv

\* A process ends a row that is running for good.
LEMMA EndKeeps ==
    ASSUME JobInv, NEW r \in Runner, NEW p \in Process, NEW i \in DOMAIN rows,
           rows[i].status = "running", NEW status \in {"success", "failed"},
           HasJob(p), p.victim = NULL, p.pc # "clone", References(p) \subseteq DOMAIN rows,
           Step(r, p, WithStatus(i, status)), UNCHANGED <<due, submits, faults>>
    PROVE  JobInv' /\ OutcomesKept
<1>. DEFINE t == WithStatus(i, status)
<1>1. /\ Table(t) /\ Later(t) /\ SameClones(t) /\ DOMAIN t = DOMAIN rows
      /\ \A k \in DOMAIN rows \ {i} : t[k] = rows[k]
  BY WithStatusTable DEF Final
<1>2. DueIn(due, t)
  BY <1>1, NotDue
<1>. QED
  BY <1>1, <1>2, StepOfOne DEF JobInv

LEMMA CompleteKeeps ==
    ASSUME JobInv, NEW r \in Runner, Complete(r)
    PROVE  JobInv' /\ OutcomesKept
<1>. DEFINE i == runner[r].job
            p == [runner[r] EXCEPT !.pc = "clone"]
<1>0. runner[r] \in Process /\ ProcessOK(runner[r], rows) /\ runner[r].pc = "done"
  BY RunnerProcess DEF Complete
<1>1. i \in DOMAIN rows /\ runner[r].victim = NULL
  BY <1>0 DEF ProcessOK, HasJob, References
<1>2. CASE ~ RunnerMayFlip(i)
  <2>1. Step(r, Idle, rows)
    BY <1>2 DEF Complete
  <2>. QED
    BY <2>1, IdleIsProcess, StepOnly DEF Complete, JobInv
<1>3. CASE RunnerMayFlip(i) /\ Retries(i, runner[r].outcome)
  <2>1. Step(r, p, WithStatus(i, "retried"))
    BY <1>3 DEF Complete
  <2>2. /\ p \in Process /\ p.pc = "clone" /\ HasJob(p) /\ OriginalOf(p) = i
        /\ References(p) = References(runner[r])
    BY <1>0, <1>1 DEF Process, ProcessOK, HasJob, OriginalOf, References
  <2>. QED
    BY <1>0, <1>1, <1>3, <2>1, <2>2, FlipKeeps DEF RunnerMayFlip, Retries, ProcessOK, Complete
<1>4. CASE RunnerMayFlip(i) /\ ~ Retries(i, runner[r].outcome)
  <2>1. PICK status \in {"success", "failed"} : Step(r, Idle, WithStatus(i, status))
    BY <1>4 DEF Complete
  <2>. QED
    BY <1>1, <1>4, <2>1, IdleIsProcess, EndKeeps DEF RunnerMayFlip, Complete
<1>. QED
  BY <1>2, <1>3, <1>4

LEMMA AfterCloneIsProcess ==
    ASSUME JobInv, NEW r \in Runner, runner[r].pc = "clone"
    PROVE  LET p == AfterClone(r) IN
           /\ p \in Process /\ p.victim = NULL /\ p.pc # "clone" /\ HasJob(p)
           /\ References(p) \subseteq References(runner[r])
<1>. DEFINE q == runner[r]
<1>0. q \in Process /\ HasJob(q) /\ q.job # NULL
  BY RunnerProcess DEF ProcessOK, HasJob
<1>1. CASE q.victim = NULL
  BY <1>1, IdleIsProcess DEF AfterClone
<1>2. CASE q.victim # NULL
  <2>1. AfterClone(r) = [q EXCEPT !.pc = "reap", !.victim = NULL]
    BY <1>2 DEF AfterClone
  <2>. QED
    BY <1>0, <2>1 DEF Process, HasJob, References
<1>. QED
  BY <1>1, <1>2

\* The clone of a row: the first one, by the process that flipped the row.
LEMMA CloneKeeps ==
    ASSUME JobInv, NEW r \in Runner, Clone(r)
    PROVE  JobInv' /\ OutcomesKept
<1>. DEFINE i == Original(r)
            row == RetryClone(i)
            marked == [rows EXCEPT ![i].cloned = TRUE]
            t == With(marked, row)
            p == AfterClone(r)
<1>0. /\ ProcessOK(runner[r], rows) /\ runner[r].pc = "clone"
      /\ i = OriginalOf(runner[r])
  BY RunnerProcess DEF Clone, Original, OriginalOf
<1>1. /\ i \in DOMAIN rows /\ rows[i] \in JobRow
      /\ rows[i].status \in Retried /\ rows[i].retry < MaxRetryCount
  BY <1>0, OriginalIsReferred DEF ProcessOK, OwesClone, JobInv, Table
<1>2. row \in JobRow /\ ~ row.cloned
  <2>1. NewJob(rows[i].key) \in JobRow /\ ~ NewJob(rows[i].key).cloned
    BY <1>1, NewJobType DEF JobRow, NewJob
  <2>2. rows[i].retry + 1 \in 0 .. MaxRetryCount
    BY <1>1 DEF JobRow
  <2>. QED
    BY <2>1, <2>2 DEF RetryClone, JobRow
<1>3. /\ DOMAIN marked = DOMAIN rows
      /\ marked[i] = [rows[i] EXCEPT !.cloned = TRUE]
      /\ \A k \in DOMAIN rows \ {i} : marked[k] = rows[k]
  BY <1>1 DEF JobInv, Table
<1>4. /\ marked[i] \in JobRow /\ marked[i].status = rows[i].status
      /\ marked[i].retry = rows[i].retry /\ marked[i].deleted = rows[i].deleted
  BY <1>1, <1>3 DEF JobRow
<1>5. Table(marked)
  <2>1. marked \in [DOMAIN rows -> JobRow]
    BY <1>1 DEF JobInv, Table, JobRow
  <2>2. marked[i].status \in Retried
    BY <1>1, <1>4
  <2>. HIDE DEF marked, i
  <2>. QED
    BY <1>3, <2>1, <2>2 DEF JobInv, Table
<1>6. Free # {} /\ Step(r, p, t) /\ UNCHANGED <<due, submits, faults>>
  BY DEF Clone
<1>. HIDE DEF row, marked
<1>7. /\ Table(t) /\ DOMAIN t = DOMAIN rows \cup {NewId}
      /\ \A k \in DOMAIN rows : t[k] = marked[k]
  <2>1. row \in JobRow /\ ~row.cloned /\ DOMAIN marked = DOMAIN rows /\ Free # {}
    BY <1>2, <1>3, <1>6
  <2>. QED
    BY <1>5, <2>1, WithRow
<1>. HIDE DEF t
<1>8. Later(t)
  BY <1>1, <1>3, <1>4, <1>7 DEF Later
<1>9. DueIn(due, t)
  BY <1>1, <1>3, <1>7 DEF JobInv, DueIn, Retried
<1>10. ProcessOK(p, t)
  BY <1>0, <1>7, AfterCloneIsProcess DEF ProcessOK
<1>11. ASSUME NEW s \in Runner \ {r}, Cloning(s)
       PROVE  t[Original(s)].cloned = rows[Original(s)].cloned
  <2>1. Original(s) # i
    BY <1>0, <1>11 DEF JobInv, Cloning
  <2>2. Original(s) \in DOMAIN rows
    BY <1>11, RunnerProcess, OriginalIsReferred DEF ProcessOK, Cloning, Original, OriginalOf
  <2>. QED
    BY <1>3, <1>7, <2>1, <2>2
<1>. QED
  BY <1>0, <1>6, <1>7, <1>8, <1>9, <1>10, <1>11, AfterCloneIsProcess, StepKeeps DEF JobInv

-----------------------------------------------------------------------------
(* The reaper.                                                             *)

LEMMA ReapOneKeeps ==
    ASSUME JobInv, NEW r \in Runner, ReapOne(r)
    PROVE  JobInv' /\ OutcomesKept
<1>0. runner[r] \in Process /\ ProcessOK(runner[r], rows) /\ runner[r].pc = "reap"
  BY RunnerProcess DEF ReapOne
<1>. DEFINE Next1(i) == [runner[r] EXCEPT !.stuck = @ \ {i}]
            Flip(i) == [Next1(i) EXCEPT !.pc = "clone", !.victim = i]
<1>1. PICK i \in runner[r].stuck :
        IF ~ ReaperMayFlip(i) THEN Step(r, Next1(i), rows)
        ELSE IF rows[i].retry < MaxRetryCount
             THEN Step(r, Flip(i), WithStatus(i, "retried"))
             ELSE Step(r, Next1(i), WithStatus(i, "failed"))
  BY DEF ReapOne
<1>2. i \in DOMAIN rows /\ i \in Row /\ i # NULL
  BY <1>0 DEF ProcessOK, References, JobInv, Table
<1>3. /\ Next1(i) \in Process /\ Next1(i).pc = "reap" /\ Next1(i).victim = NULL
      /\ HasJob(Next1(i)) /\ References(Next1(i)) \subseteq DOMAIN rows
  <2>1. /\ Next1(i) \in Process /\ Next1(i).pc = "reap" /\ Next1(i).victim = NULL
        /\ Next1(i).job = runner[r].job /\ Next1(i).found = runner[r].found
        /\ Next1(i).stuck \subseteq runner[r].stuck
    BY <1>0 DEF Process, ProcessOK
  <2>. QED
    BY <1>0, <2>1 DEF ProcessOK, HasJob, References
<1>4. CASE ~ ReaperMayFlip(i)
  BY <1>1, <1>3, <1>4, StepOnly DEF ReapOne, JobInv
<1>5. CASE ReaperMayFlip(i) /\ rows[i].retry < MaxRetryCount
  <2>1. /\ Flip(i) \in Process /\ Flip(i).pc = "clone" /\ Flip(i).victim = i
        /\ Flip(i).job = Next1(i).job /\ Flip(i).found = Next1(i).found
        /\ Flip(i).stuck = Next1(i).stuck
    <3>. HIDE DEF Next1
    <3>. QED
      BY <1>2, <1>3 DEF Process
  <2>2. HasJob(Flip(i)) /\ OriginalOf(Flip(i)) = i /\ References(Flip(i)) \subseteq DOMAIN rows
    BY <1>2, <1>3, <2>1 DEF HasJob, OriginalOf, References
  <2>3. Step(r, Flip(i), WithStatus(i, "retried"))
    BY <1>1, <1>5
  <2>. HIDE DEF Flip
  <2>. QED
    BY <1>2, <1>5, <2>1, <2>2, <2>3, FlipKeeps DEF ReaperMayFlip, ReapOne
<1>6. CASE ReaperMayFlip(i) /\ ~ (rows[i].retry < MaxRetryCount)
  <2>1. Step(r, Next1(i), WithStatus(i, "failed"))
    BY <1>1, <1>6
  <2>. HIDE DEF Next1
  <2>. QED
    BY <1>2, <1>3, <1>6, <2>1, EndKeeps DEF ReaperMayFlip, ReapOne
<1>. QED
  BY <1>4, <1>5, <1>6

LEMMA ReapEndsKeeps ==
    ASSUME JobInv, NEW r \in Runner, ReapEnds(r)
    PROVE  JobInv' /\ OutcomesKept
<1>. DEFINE p == [runner[r] EXCEPT !.pc = "find", !.outcome = "success"]
<1>0. runner[r] \in Process /\ ProcessOK(runner[r], rows) /\ runner[r].pc = "reap"
  BY RunnerProcess DEF ReapEnds
<1>1. /\ p \in Process /\ p.pc = "find" /\ p.victim = NULL /\ p.job # NULL
      /\ References(p) = References(runner[r])
  BY <1>0 DEF Process, ProcessOK, HasJob, References
<1>. QED
  BY <1>0, <1>1, StepOnly DEF ReapEnds, ProcessOK, HasJob, JobInv

-----------------------------------------------------------------------------
(* Faults, the clock and the users.                                        *)

LEMMA FailedStatementKeeps ==
    ASSUME JobInv, NEW r \in Runner, FailedStatement(r), UNCHANGED <<due, submits>>,
           faults' \in 0 .. MaxFaults
    PROVE  JobInv' /\ OutcomesKept
<1>0. runner[r] \in Process /\ ProcessOK(runner[r], rows)
  BY RunnerProcess
<1>1. CASE Step(r, Idle, rows)
  BY <1>1, IdleIsProcess, StepOnly
<1>2. CASE runner[r].pc = "clone" /\ Step(r, AfterClone(r), rows)
  BY <1>0, <1>2, AfterCloneIsProcess, StepOnly DEF ProcessOK
<1>3. CASE /\ runner[r].pc = "run"
           /\ Step(r, [runner[r] EXCEPT !.pc = "done", !.outcome = "retry"], rows)
  <2>. DEFINE p == [runner[r] EXCEPT !.pc = "done", !.outcome = "retry"]
  <2>1. /\ p \in Process /\ p.pc = "done" /\ p.victim = NULL /\ p.job # NULL
        /\ References(p) = References(runner[r])
    BY <1>0, <1>3 DEF Process, ProcessOK, HasJob, References
  <2>. QED
    BY <1>0, <1>3, <2>1, StepOnly DEF ProcessOK, HasJob
<1>. QED
  BY <1>1, <1>2, <1>3 DEF FailedStatement

\* A process takes all its runners down; the table stays, but for the rows that
\* only they referred to.
LEMMA CrashKeeps ==
    ASSUME JobInv, NEW r \in Runner, Crash(r), UNCHANGED <<due, submits>>,
           faults' \in 0 .. MaxFaults
    PROVE  JobInv' /\ OutcomesKept
<1>1. ASSUME NEW s \in Runner
      PROVE  runner'[s] = AtStart(s) \/ runner'[s] = runner[s]
  BY <1>1 DEF Crash
<1>2. runner' \in [Runner -> Process]
  <2>1. \A s \in Runner : AtStart(s) \in Process /\ runner[s] \in Process
    BY RunnerProcess, AtStartIsProcess
  <2>. QED
    BY <2>1 DEF Crash
<1>3. rows' = Kept(rows, runner') /\ Table(rows') /\ DueIn(due', rows')
  BY KeptIsTable DEF JobInv, Crash
<1>4. ASSUME NEW s \in Runner
      PROVE  ProcessOK(runner'[s], rows')
  <2>1. ProcessOK(AtStart(s), rows) /\ ProcessOK(runner[s], rows)
    BY AtStartIsProcess, RunnerProcess DEF ProcessOK
  <2>2. ProcessOK(runner'[s], rows)
    BY <1>1, <2>1
  <2>. QED
    BY <1>3, <2>2, KeptProcess
<1>5. ASSUME NEW s \in Runner, NEW q \in Runner,
             Cloning(s)', Cloning(q)', Original(s)' = Original(q)'
      PROVE  s = q
  <2>1. runner'[s] = runner[s] /\ runner'[q] = runner[q]
    BY <1>1, <1>5, AtStartIsProcess DEF Cloning
  <2>. QED
    BY <1>5, <2>1 DEF JobInv, Cloning, Original
<1>6. OutcomesKept
  BY <1>3, TableKept DEF OutcomesKept
<1>. QED
  BY <1>2, <1>3, <1>4, <1>5, <1>6 DEF JobInv

LEMMA FaultKeeps ==
    ASSUME JobInv, NEW r \in Runner, Fault(r)
    PROVE  JobInv' /\ OutcomesKept
<1>1. faults' \in 0 .. MaxFaults /\ UNCHANGED <<due, submits>>
  BY DEF Fault, JobInv
<1>2. CASE FailedStatement(r)
  BY <1>1, <1>2, FailedStatementKeeps
<1>3. CASE Crash(r)
  BY <1>1, <1>3, CrashKeeps
<1>. QED
  BY <1>2, <1>3 DEF Fault

\* A step that leaves the processes alone and takes no row that one refers to.
LEMMA TableStepKeeps ==
    ASSUME JobInv, UNCHANGED runner, NEW t, Table(t), Later(t), SameClones(t),
           rows' = t \/ rows' = Kept(t, runner), IsOrder(due'), DueIn(due', t),
           submits' \in 0 .. MaxSubmits, UNCHANGED faults
    PROVE  JobInv' /\ OutcomesKept
<1>1. ASSUME NEW r \in Runner
      PROVE  ProcessOK(runner[r], t)
  <2>1. runner[r].pc = "clone" => OriginalOf(runner[r]) \in DOMAIN rows
    BY RunnerProcess, OriginalIsReferred DEF ProcessOK
  <2>. QED
    BY <2>1, RunnerProcess, ProcessLater, LaterFollows DEF SameClones
<1>2. Table(rows') /\ DueIn(due', rows') /\ \A r \in Runner : ProcessOK(runner[r], rows')
  BY <1>1, KeptIsTable, KeptProcess
<1>3. OutcomesKept
  BY TableKept DEF OutcomesKept, Later
<1>. QED
  BY <1>2, <1>3 DEF JobInv, Cloning, Original

LEMMA BecomeDueKeeps ==
    ASSUME JobInv, NEW i \in Row, BecomeDue(i)
    PROVE  JobInv' /\ OutcomesKept
<1>1. IsOrder(due') /\ DOMAIN due' = DOMAIN due \cup {i}
  BY EnqueuedOrder DEF BecomeDue, JobInv
<1>2. DueIn(due', rows)
  BY <1>1 DEF BecomeDue, JobInv, DueIn
<1>. QED
  BY <1>1, <1>2, SameTable, TableStepKeeps DEF BecomeDue, JobInv

LEMMA GrowStaleKeeps ==
    ASSUME JobInv, NEW i \in Row, GrowStale(i)
    PROVE  JobInv' /\ OutcomesKept
<1>. DEFINE t == [rows EXCEPT ![i].stale = TRUE]
<1>1. Table(t) /\ Later(t) /\ SameClones(t) /\ DueIn(due, t)
  BY StaleTable, SameTable DEF GrowStale
<1>. QED
  BY <1>1, TableStepKeeps DEF GrowStale, JobInv

LEMMA SubmitKeeps ==
    ASSUME JobInv, Submit
    PROVE  JobInv' /\ OutcomesKept
<1>. DEFINE row == NewJob(Task)
            t == With(rows, row)
<1>1. row \in JobRow /\ ~ row.cloned /\ row.status = "pending" /\ ~ row.deleted
  BY NewJobType DEF NewJob, Key
<1>2. NewId \in Row /\ NewId \notin DOMAIN rows
  BY NewIdIsFree DEF Submit
<1>3. /\ Table(t) /\ DOMAIN t = DOMAIN rows \cup {NewId} /\ t[NewId] = row
      /\ \A i \in DOMAIN rows : t[i] = rows[i]
  <2>1. Table(rows) /\ Free # {}
    BY DEF JobInv, Submit
  <2>. HIDE DEF row
  <2>. QED
    BY <1>1, <2>1, WithNewJob
<1>4. Later(t) /\ SameClones(t)
  BY <1>3 DEF Later, SameClones
<1>5. NewId \notin DOMAIN due
  BY <1>2 DEF JobInv, DueIn
<1>6. IsOrder(due') /\ DOMAIN due' = DOMAIN due \cup {NewId}
  BY <1>5, EnqueuedOrder DEF Submit, JobInv
<1>7. DueIn(due', t)
  BY <1>1, <1>3, <1>6 DEF JobInv, DueIn
<1>8. submits' \in 0 .. MaxSubmits
  BY DEF Submit, JobInv
<1>. QED
  BY <1>3, <1>4, <1>6, <1>7, <1>8, TableStepKeeps DEF Submit

LEMMA CancelKeeps ==
    ASSUME JobInv, Cancel
    PROVE  JobInv' /\ OutcomesKept
<1>. DEFINE live == {i \in DOMAIN rows : /\ rows[i].key = Task
                                         /\ rows[i].status \in {"pending", "running"}
                                         /\ ~rows[i].deleted}
            t == [i \in DOMAIN rows |->
                     IF i \in live THEN [rows[i] EXCEPT !.deleted = TRUE, !.stale = FALSE]
                     ELSE rows[i]]
<1>1. rows' = Kept(t, runner) /\ due' = Dequeued(due, live)
  BY DEF Cancel
<1>2. DOMAIN t = DOMAIN rows /\ \A i \in DOMAIN rows \ live : t[i] = rows[i]
  OBVIOUS
<1>3. ASSUME NEW i \in DOMAIN rows
      PROVE  /\ t[i] \in JobRow /\ t[i].status = rows[i].status
             /\ t[i].cloned = rows[i].cloned /\ t[i].retry = rows[i].retry
  <2>1. rows[i] \in JobRow
    BY DEF JobInv, Table
  <2>. QED
    BY <2>1 DEF JobRow
<1>4. t \in [DOMAIN rows -> JobRow]
  BY <1>3
<1>. HIDE DEF live, t
<1>5. Table(t) /\ Later(t) /\ SameClones(t)
  BY <1>2, <1>3, <1>4 DEF JobInv, Table, Later, SameClones
<1>6. IsOrder(due') /\ DOMAIN due' = DOMAIN due \ live
  BY <1>1, DequeuedOrder DEF JobInv
<1>7. DueIn(due', t)
  BY <1>2, <1>6 DEF JobInv, DueIn
<1>. QED
  BY <1>1, <1>5, <1>6, <1>7, TableStepKeeps DEF Cancel, JobInv

-----------------------------------------------------------------------------
(* The invariant.                                                          *)

LEMMA JobInvInit == Init => JobInv
<1>. SUFFICES ASSUME Init
              PROVE  JobInv
  OBVIOUS
<1>1. DOMAIN rows = {} /\ DOMAIN due = {}
  BY DEF Init, Nothing
<1>2. rows \in [{} -> JobRow] /\ due \in [{} -> SUBSET {}]
  BY DEF Init, Nothing
<1>3. Table(rows) /\ IsOrder(due) /\ DueIn(due, rows)
  BY <1>1, <1>2 DEF Table, IsOrder, DueIn
<1>4. runner \in [Runner -> Process] /\ \A r \in Runner : ProcessOK(runner[r], rows)
  BY AtStartIsProcess DEF Init, ProcessOK
<1>5. \A r \in Runner : ~ Cloning(r)
  BY AtStartIsProcess DEF Init, Cloning
<1>. QED
  BY <1>3, <1>4, <1>5 DEF Init, JobInv

LEMMA JobInvStep == JobInv /\ HolderInv /\ [Next]_vars => JobInv' /\ OutcomesRejected
<1>. SUFFICES ASSUME JobInv, HolderInv, [Next]_vars
              PROVE  JobInv' /\ OutcomesRejected
  OBVIOUS
<1>0. OutcomesKept => OutcomesRejected
  BY DEF OutcomesKept, OutcomesRejected
<1>1. ASSUME NEW r \in Runner, RunnerStep(r)
      PROVE  JobInv' /\ OutcomesRejected
  <2>1. CASE Store(r)
    BY <1>0, <2>1, MoveKeeps, InsertKeeps DEF Store
  <2>. QED
    BY <1>0, <1>1, <2>1, FindKeeps, ClaimKeeps, RejectKeeps, RunKeeps, NoticeCancelKeeps,
       CompleteKeeps, CloneKeeps, ReapOneKeeps, ReapEndsKeeps DEF RunnerStep
<1>2. CASE UNCHANGED vars
  <2>1. JobInv'
    BY <1>2 DEF vars, JobInv, Cloning, Original
  <2>. QED
    BY <1>0, <1>2, <2>1 DEF vars, OutcomesKept
<1>. QED
  BY <1>0, <1>1, <1>2, FaultKeeps, BecomeDueKeeps, GrowStaleKeeps, SubmitKeeps, CancelKeeps
     DEF Next

-----------------------------------------------------------------------------
(* Who holds a row.                                                        *)

\* A step of a runner that keeps its row or gives it up, and writes success only
\* on the row it gives up.
LEMMA HolderStep ==
    ASSUME JobInv, HolderInv, NEW r \in Runner, NEW p, NEW t, Step(r, p, t),
           p.job \in {NULL, runner[r].job},
           \A i \in DOMAIN rows :
               /\ i \in DOMAIN t
               /\ \/ t[i].status = rows[i].status
                  \/ t[i].status \notin {"pending", "success"}
                  \/ i = runner[r].job /\ p.job = NULL
    PROVE  HolderInv'
<1>1. runner'[r] = p /\ \A s \in Runner \ {r} : runner'[s] = runner[s]
  BY DEF JobInv, Step
<1>2. \A s \in Runner : runner'[s].job \in {NULL, runner[s].job}
  BY <1>1
<1>3. ASSUME NEW s \in Runner, runner'[s].job # NULL
      PROVE  rows'[runner'[s].job].status \notin {"pending", "success"}
  <2>. DEFINE i == runner[s].job
  <2>1. runner'[s].job = i /\ i # NULL /\ i \in DOMAIN rows
    BY <1>2, <1>3, RunnerProcess DEF ProcessOK, References
  <2>2. i \in DOMAIN t /\ rows' = Kept(t, runner')
    BY <2>1 DEF Step
  <2>3. i \in References(runner'[s])
    BY <2>1 DEF References
  <2>4. rows'[i] = t[i]
    BY <2>2, <2>3, TableKept
  <2>5. ~ (i = runner[r].job /\ p.job = NULL)
    BY <1>1, <1>3, <2>1 DEF HolderInv
  <2>6. rows[i].status \notin {"pending", "success"}
    BY <2>1 DEF HolderInv
  <2>. QED
    BY <2>1, <2>4, <2>5, <2>6
<1>4. ASSUME NEW q \in Runner, NEW s \in Runner,
             runner'[q].job # NULL, runner'[q].job = runner'[s].job
      PROVE  q = s
  BY <1>2, <1>4 DEF HolderInv
<1>. QED
  BY <1>3, <1>4 DEF HolderInv

\* A change of the status of one row.
LEMMA StatusOf ==
    ASSUME JobInv, NEW i \in DOMAIN rows, NEW status, NEW k \in DOMAIN rows
    PROVE  /\ k \in DOMAIN WithStatus(i, status)
           /\ k # i => WithStatus(i, status)[k].status = rows[k].status
           /\ WithStatus(i, status)[i].status = status
<1>1. rows[i] \in JobRow
  BY DEF JobInv, Table
<1>2. WithStatus(i, status)[i] = [[rows[i] EXCEPT !.status = status] EXCEPT !.stale = FALSE]
  BY DEF WithStatus, JobInv, Table
<1>3. WithStatus(i, status)[i].status = status
  BY <1>1, <1>2 DEF JobRow
<1>4. k # i => WithStatus(i, status)[k] = rows[k]
  BY DEF WithStatus, JobInv, Table
<1>5. DOMAIN WithStatus(i, status) = DOMAIN rows
  BY DEF WithStatus, JobInv, Table
<1>. QED
  BY <1>3, <1>4, <1>5

\* A change of status by a runner that keeps its row, or of its row by one that
\* gives it up.
LEMMA HolderWrites ==
    ASSUME JobInv, HolderInv, NEW r \in Runner, NEW p, NEW i \in DOMAIN rows, NEW status,
           Step(r, p, WithStatus(i, status)),
           \/ p.job \in {NULL, runner[r].job} /\ status \notin {"pending", "success"}
           \/ p.job = NULL /\ i = runner[r].job
    PROVE  HolderInv'
BY StatusOf, HolderStep

\* A step that leaves the table.
LEMMA HolderOnly ==
    ASSUME JobInv, HolderInv, NEW r \in Runner, NEW p, Step(r, p, rows),
           p.job \in {NULL, runner[r].job}
    PROVE  HolderInv'
BY HolderStep

LEMMA IdleHasNone == Idle.job = NULL
BY DEF Idle, Starting

LEMMA FindHolder ==
    ASSUME JobInv, HolderInv, NEW r \in Runner, Find(r)
    PROVE  HolderInv'
<1>1. PICK i \in Pending(Wanted(r)) \cup {NULL} :
        Step(r, [runner[r] EXCEPT !.pc = "store", !.found = i], rows)
  BY DEF Find
<1>2. [runner[r] EXCEPT !.pc = "store", !.found = i].job = runner[r].job
  BY RunnerProcess DEF Process
<1>. QED
  BY <1>1, <1>2, HolderOnly

LEMMA StoreHolder ==
    ASSUME JobInv, HolderInv, NEW r \in Runner, Store(r)
    PROVE  HolderInv'
<1>1. AfterCreate(r).job = runner[r].job
  BY RunnerProcess DEF Process, AfterCreate
<1>2. CASE Move(r)
  <2>. DEFINE i == runner[r].found
              t == [rows EXCEPT ![i].stale = FALSE]
  <2>1. i \in DOMAIN rows /\ rows[i] \in JobRow
    BY <1>2, RunnerProcess DEF ProcessOK, References, Move, JobInv, Table
  <2>2. /\ DOMAIN t = DOMAIN rows /\ t[i] = [rows[i] EXCEPT !.stale = FALSE]
        /\ \A k \in DOMAIN rows \ {i} : t[k] = rows[k]
    BY <2>1 DEF JobInv, Table
  <2>3. t[i].status = rows[i].status
    BY <2>1, <2>2 DEF JobRow
  <2>4. Step(r, AfterCreate(r), t)
    BY <1>2 DEF Move
  <2>5. \A k \in DOMAIN rows : k \in DOMAIN t /\ t[k].status = rows[k].status
    <3>. HIDE DEF t, i
    <3>. QED
      BY <2>2, <2>3
  <2>. HIDE DEF t
  <2>. QED
    BY <1>1, <2>4, <2>5, HolderStep
<1>3. CASE Insert(r)
  <2>. DEFINE t == With(rows, NewJob(Wanted(r)))
  <2>1. \A k \in DOMAIN rows : k \in DOMAIN t /\ t[k] = rows[k]
    BY <1>3, NewIdIsFree DEF With, Insert
  <2>2. Step(r, AfterCreate(r), t)
    BY <1>3 DEF Insert
  <2>. HIDE DEF t
  <2>. QED
    BY <1>1, <2>1, <2>2, HolderStep
<1>. QED
  BY <1>2, <1>3 DEF Store

\* A claimed row was pending, so nobody held it.
LEMMA ClaimHolder ==
    ASSUME JobInv, HolderInv, NEW r \in Runner, Claim(r)
    PROVE  HolderInv'
<1>1. PICK i \in DOMAIN due :
        Step(r, [runner[r] EXCEPT !.pc = "run", !.job = i], WithStatus(i, "running"))
  BY DEF Claim, First
<1>. DEFINE t == WithStatus(i, "running")
<1>2. i \in DOMAIN rows /\ rows[i].status = "pending"
  BY TakenOffQueue
<1>3. runner'[r].job = i /\ \A s \in Runner \ {r} : runner'[s] = runner[s]
  BY <1>1, RunnerProcess DEF JobInv, Step, Process
<1>4. ASSUME NEW s \in Runner \ {r}
      PROVE  runner'[s].job # i
  <2>1. i # NULL
    BY <1>2 DEF JobInv, Table
  <2>2. runner[s].job = i => rows[i].status # "pending"
    BY <2>1 DEF HolderInv
  <2>. QED
    BY <1>2, <1>3, <2>2
<1>5. ASSUME NEW s \in Runner, runner'[s].job # NULL
      PROVE  rows'[runner'[s].job].status \notin {"pending", "success"}
  <2>. DEFINE k == runner'[s].job
  <2>1. k \in DOMAIN rows
    BY <1>2, <1>3, <1>5, RunnerProcess DEF ProcessOK, References
  <2>2. k \in DOMAIN t /\ t[k].status \notin {"pending", "success"}
    <3>1. CASE s = r
      BY <1>2, <1>3, <3>1, StatusOf
    <3>2. CASE s # r
      BY <1>2, <1>3, <1>4, <1>5, <2>1, <3>2, StatusOf DEF HolderInv
    <3>. QED
      BY <3>1, <3>2
  <2>3. rows' = Kept(t, runner') /\ k \in References(runner'[s])
    BY <1>1, <1>5 DEF Step, References
  <2>4. rows'[k] = t[k]
    BY <2>2, <2>3, TableKept
  <2>. QED
    BY <2>2, <2>4
<1>6. ASSUME NEW q \in Runner, NEW s \in Runner,
             runner'[q].job # NULL, runner'[q].job = runner'[s].job
      PROVE  q = s
  BY <1>3, <1>4, <1>6 DEF HolderInv
<1>. QED
  BY <1>5, <1>6 DEF HolderInv

LEMMA RunHolder ==
    ASSUME JobInv, HolderInv, NEW r \in Runner, Run(r)
    PROVE  HolderInv'
<1>1. \A pc, o : [runner[r] EXCEPT !.pc = pc, !.outcome = o].job = runner[r].job
  BY RunnerProcess DEF Process
<1>2. [runner[r] EXCEPT !.pc = "reap", !.stuck = Stuck].job = runner[r].job
  BY RunnerProcess DEF Process
<1>3. CASE RunTask(r)
  BY <1>1, <1>3, HolderOnly DEF RunTask
<1>4. CASE RunSweep(r)
  BY <1>1, <1>4, HolderOnly DEF RunSweep, SweepThenRearm
<1>5. CASE RunReaper(r)
  BY <1>2, <1>5, HolderOnly DEF RunReaper
<1>. QED
  BY <1>3, <1>4, <1>5 DEF Run

LEMMA CompleteHolder ==
    ASSUME JobInv, HolderInv, NEW r \in Runner, Complete(r)
    PROVE  HolderInv'
<1>. DEFINE i == runner[r].job
<1>1. i \in DOMAIN rows
  BY RunnerProcess DEF ProcessOK, HasJob, References, Complete
<1>2. [runner[r] EXCEPT !.pc = "clone"].job = i
  BY RunnerProcess DEF Process
<1>3. CASE ~ RunnerMayFlip(i)
  BY <1>3, IdleHasNone, HolderOnly DEF Complete
<1>4. CASE RunnerMayFlip(i) /\ Retries(i, runner[r].outcome)
  <2>1. Step(r, [runner[r] EXCEPT !.pc = "clone"], WithStatus(i, "retried"))
    BY <1>4 DEF Complete
  <2>. QED
    BY <1>1, <1>2, <2>1, HolderWrites
<1>5. CASE RunnerMayFlip(i) /\ ~ Retries(i, runner[r].outcome)
  <2>1. PICK status \in {"success", "failed"} : Step(r, Idle, WithStatus(i, status))
    BY <1>5 DEF Complete
  <2>. QED
    BY <1>1, <2>1, IdleHasNone, HolderWrites
<1>. QED
  BY <1>3, <1>4, <1>5

LEMMA RejectHolder ==
    ASSUME JobInv, HolderInv, NEW r \in Runner, Reject(r)
    PROVE  HolderInv'
<1>1. runner[r].job \in DOMAIN rows
  BY RunnerProcess DEF ProcessOK, HasJob, References, Reject
<1>. QED
  BY <1>1, IdleHasNone, HolderWrites DEF Reject

LEMMA AfterCloneJob ==
    ASSUME JobInv, NEW r \in Runner
    PROVE  AfterClone(r).job \in {NULL, runner[r].job}
BY IdleHasNone, RunnerProcess DEF AfterClone, Process

LEMMA CloneHolder ==
    ASSUME JobInv, HolderInv, NEW r \in Runner, Clone(r)
    PROVE  HolderInv'
<1>. DEFINE i == Original(r)
            marked == [rows EXCEPT ![i].cloned = TRUE]
            t == With(marked, RetryClone(i))
<1>1. i \in DOMAIN rows /\ rows[i] \in JobRow
  <2>1. i \in References(runner[r])
    BY RunnerProcess, OriginalIsReferred DEF ProcessOK, Clone, Original, OriginalOf
  <2>. QED
    BY <2>1, RunnerProcess DEF ProcessOK, JobInv, Table
<1>2. /\ DOMAIN marked = DOMAIN rows /\ marked[i] = [rows[i] EXCEPT !.cloned = TRUE]
      /\ \A k \in DOMAIN rows \ {i} : marked[k] = rows[k]
  BY <1>1 DEF JobInv, Table
<1>3. marked[i].status = rows[i].status
  BY <1>1, <1>2 DEF JobRow
<1>. HIDE DEF marked
<1>4. \A k \in DOMAIN rows : k \in DOMAIN t /\ t[k] = marked[k]
  BY <1>2, NewIdIsFree DEF With, Clone
<1>5. Step(r, AfterClone(r), t)
  BY DEF Clone, marked
<1>. HIDE DEF t, i
<1>6. \A k \in DOMAIN rows : k \in DOMAIN t /\ t[k].status = rows[k].status
  BY <1>2, <1>3, <1>4
<1>. QED
  BY <1>5, <1>6, AfterCloneJob, HolderStep

LEMMA ReapHolder ==
    ASSUME JobInv, HolderInv, NEW r \in Runner, ReapOne(r) \/ ReapEnds(r)
    PROVE  HolderInv'
<1>. DEFINE Rest(i) == [runner[r] EXCEPT !.stuck = @ \ {i}]
            Flip(i) == [Rest(i) EXCEPT !.pc = "clone", !.victim = i]
<1>1. \A i : Rest(i).job = runner[r].job /\ Flip(i).job = runner[r].job
  BY RunnerProcess DEF Process
<1>2. CASE ReapEnds(r)
  <2>1. [runner[r] EXCEPT !.pc = "find", !.outcome = "success"].job = runner[r].job
    BY RunnerProcess DEF Process
  <2>. QED
    BY <1>2, <2>1, HolderOnly DEF ReapEnds
<1>3. CASE ReapOne(r)
  <2>1. PICK i \in runner[r].stuck :
          \/ Step(r, Rest(i), rows)
          \/ Step(r, Flip(i), WithStatus(i, "retried"))
          \/ Step(r, Rest(i), WithStatus(i, "failed"))
    BY <1>3 DEF ReapOne
  <2>2. i \in DOMAIN rows
    BY RunnerProcess DEF ProcessOK, References
  <2>. HIDE DEF Rest, Flip
  <2>. QED
    BY <1>1, <2>1, <2>2, HolderOnly, HolderWrites
<1>. QED
  BY <1>2, <1>3

LEMMA FaultHolder ==
    ASSUME JobInv, HolderInv, NEW r \in Runner, Fault(r)
    PROVE  HolderInv'
<1>1. CASE FailedStatement(r)
  <2>1. [runner[r] EXCEPT !.pc = "done", !.outcome = "retry"].job = runner[r].job
    BY RunnerProcess DEF Process
  <2>. QED
    BY <1>1, <2>1, IdleHasNone, AfterCloneJob, HolderOnly DEF FailedStatement
<1>2. CASE Crash(r)
  <2>1. \A s \in Runner : runner'[s] = runner[s] \/ runner'[s].job = NULL
    BY <1>2, AtStartIsProcess DEF Crash
  <2>2. rows' = Kept(rows, runner')
    BY <1>2 DEF Crash
  <2>3. ASSUME NEW s \in Runner, runner'[s].job # NULL
        PROVE  rows'[runner'[s].job].status \notin {"pending", "success"}
    <3>1. runner'[s] = runner[s] /\ runner[s].job \in DOMAIN rows
      BY <2>1, <2>3, RunnerProcess DEF ProcessOK, References
    <3>2. runner[s].job \in References(runner'[s])
      BY <2>3, <3>1 DEF References
    <3>3. rows'[runner[s].job] = rows[runner[s].job]
      BY <2>2, <3>1, <3>2, TableKept
    <3>. QED
      BY <2>3, <3>1, <3>3 DEF HolderInv
  <2>. QED
    BY <2>1, <2>3 DEF HolderInv
<1>. QED
  BY <1>1, <1>2 DEF Fault

\* The clock and the users leave the runners alone, and make no row pending or
\* successful that was there.
LEMMA OutsideHolder ==
    ASSUME JobInv, HolderInv,
           \/ \E i \in Row : BecomeDue(i) \/ GrowStale(i)
           \/ Submit
           \/ Cancel
    PROVE  HolderInv'
<1>0. runner' = runner
  BY DEF BecomeDue, GrowStale, Submit, Cancel
<1>. SUFFICES ASSUME NEW s \in Runner, runner[s].job # NULL
              PROVE  rows'[runner[s].job].status = rows[runner[s].job].status
  BY <1>0 DEF HolderInv
<1>. DEFINE k == runner[s].job
<1>1. k \in DOMAIN rows /\ rows[k] \in JobRow /\ k \in References(runner[s])
  BY RunnerProcess DEF ProcessOK, References, JobInv, Table
<1>2. CASE \E i \in Row : BecomeDue(i)
  BY <1>2 DEF BecomeDue
<1>3. ASSUME NEW i \in Row, GrowStale(i)
      PROVE  rows'[k].status = rows[k].status
  BY <1>1, <1>3 DEF GrowStale, JobInv, Table, JobRow
<1>4. CASE Submit
  BY <1>1, <1>4, NewIdIsFree DEF Submit, With
<1>5. CASE Cancel
  <2>. DEFINE live == {i \in DOMAIN rows : /\ rows[i].key = Task
                                           /\ rows[i].status \in {"pending", "running"}
                                           /\ ~rows[i].deleted}
              t == [i \in DOMAIN rows |->
                       IF i \in live THEN [rows[i] EXCEPT !.deleted = TRUE, !.stale = FALSE]
                       ELSE rows[i]]
  <2>1. rows' = Kept(t, runner)
    BY <1>5 DEF Cancel
  <2>2. k \in DOMAIN t /\ t[k].status = rows[k].status
    BY <1>1 DEF JobRow
  <2>. HIDE DEF t
  <2>3. rows'[k] = t[k]
    BY <1>1, <2>1, <2>2, TableKept
  <2>. QED
    BY <2>2, <2>3
<1>. QED
  BY <1>2, <1>3, <1>4, <1>5

\* What holds of every execution.
RunnersInv == JobInv /\ HolderInv

LEMMA RunnersInit == Init => RunnersInv
<1>1. Init => HolderInv
  BY AtStartIsProcess DEF Init, HolderInv
<1>. QED
  BY <1>1, JobInvInit DEF RunnersInv

LEMMA RunnersStep == RunnersInv /\ [Next]_vars => RunnersInv' /\ OutcomesRejected
<1>. SUFFICES ASSUME JobInv, HolderInv, [Next]_vars
              PROVE  HolderInv'
  BY JobInvStep DEF RunnersInv
<1>1. ASSUME NEW r \in Runner, RunnerStep(r)
      PROVE  HolderInv'
  <2>1. NoticeCancel(r) => HolderInv'
    BY IdleHasNone, HolderOnly DEF NoticeCancel
  <2>. QED
    BY <1>1, <2>1, FindHolder, StoreHolder, ClaimHolder, RejectHolder, RunHolder,
       CompleteHolder, CloneHolder, ReapHolder DEF RunnerStep
<1>2. CASE UNCHANGED vars
  BY <1>2 DEF vars, HolderInv
<1>. QED
  BY <1>1, <1>2, FaultHolder, OutsideHolder DEF Next

-----------------------------------------------------------------------------
(* The theorems.                                                           *)

\* The invariant holds of every execution, for any number of processes and of
\* runners in each, of rows, retries and faults, and with any seeds.
LEMMA RunnersAlways == Spec => []RunnersInv
BY RunnersInit, RunnersStep, PTL DEF Spec

LEMMA JobInvAlways == Spec => []JobInv
BY RunnersAlways, PTL DEF RunnersInv

\* The jobs table, the queue of due rows and the processes keep their types: a
\* due row is a pending row that nobody deleted, and the due rows are ordered.
THEOREM TypesKept == Spec => []TypeOK
BY JobInvAlways, JobInvTypes, PTL

\* A row is retried at most once, whoever of the runner and the reapers comes
\* first and however late the others are (reapOneStuckJob, handleRetry).
THEOREM RetriedAtMostOnce == Spec => RetriedOnce
<1>1. ASSUME JobInv, NEW r \in Runner, Clone(r)
      PROVE  ~ rows[Original(r)].cloned
  BY <1>1, RunnerProcess DEF Clone, ProcessOK, OwesClone, Original, OriginalOf
<1>2. JobInv => (\A r \in Runner : Clone(r) => ~rows[Original(r)].cloned)
  BY <1>1
<1>. QED
  BY <1>2, JobInvAlways, PTL DEF RetriedOnce

\* A final status is never overwritten by another one: the late result of a run
\* that was recovered is discarded, and a row that ended is not recovered
\* (CompleteRunningJob, claimStuckJob).  The one exception is the late rejection
\* of a row that the reaper has flipped to retried (processNext).
THEOREM OutcomesStay == Spec => OutcomeStays
<1>1. RunnersInv /\ [Next]_vars => OutcomesRejected
  BY RunnersStep
<1>. QED
  BY <1>1, RunnersAlways, PTL DEF Spec, OutcomeStays, OutcomesRejected

-----------------------------------------------------------------------------
(* How many rows of a sweep wait.                                          *)

\* The regular rows of a job that wait, and the runners that are about to insert
\* another because their SELECT found none.
Regular(key, t) == {i \in DOMAIN t : /\ t[i].key = key
                                     /\ t[i].status = "pending"
                                     /\ t[i].retry = 0}

AboutToInsert(p) == p.pc = "store" /\ p.found = NULL

WantedOf(p, t) == IF p.seeds # <<>> THEN Head(p.seeds) ELSE t[p.job].key

Creating(key, procs, t) ==
    {r \in Runner : AboutToInsert(procs[r]) /\ WantedOf(procs[r], t) = key}

\* A SELECT that finds none counts no row, and every runner creates one at most.
Few(key, procs, t) ==
    Cardinality(Regular(key, t)) + Cardinality(Creating(key, procs, t)) <= Cardinality(Runner)

StackInv ==
    /\ \A i \in DOMAIN rows : rows[i].key # Task => ~rows[i].deleted
    /\ \A key \in {Reaper, Sweep} : Few(key, runner, rows)

\* The one-shot jobs are none of the two sweeps.
LEMMA TaskIsNoSweep == Task \notin {Reaper, Sweep}
<1>. SUFFICES ASSUME Task \in {Reaper, Sweep}
              PROVE  FALSE
  OBVIOUS
<1>1. Key = {Reaper} \cup {Sweep} /\ Cardinality(Key) = 3
  BY DEF Key
<1>. DEFINE S == {Reaper}
<1>2. IsFiniteSet(S) /\ Cardinality(S) = 1
  BY FS_Singleton
<1>. HIDE DEF S
<1>3. Cardinality(S \cup {Sweep}) = IF Sweep \in S THEN Cardinality(S) ELSE Cardinality(S) + 1
  BY <1>2, FS_AddElement
<1>4. Cardinality(Key) = Cardinality(S \cup {Sweep})
  BY <1>1 DEF S
<1>. QED
  BY <1>1, <1>2, <1>3, <1>4

LEMMA CountedRows ==
    ASSUME NEW S \in SUBSET Row
    PROVE  IsFiniteSet(S) /\ Cardinality(S) \in Nat
<1>1. IsFiniteSet(Row)
  <2>1. 1 \in Int /\ MaxRows \in Int
    OBVIOUS
  <2>2. IsFiniteSet(1 .. MaxRows)
    BY <2>1, FS_Interval, Zenon
  <2>. QED
    BY <2>2 DEF Row
<1>. QED
  BY <1>1, FS_Subset, FS_CardinalityType

LEMMA CountedRunners ==
    ASSUME NEW S \in SUBSET Runner
    PROVE  /\ IsFiniteSet(S) /\ Cardinality(S) \in Nat
           /\ Cardinality(Runner) \in Nat /\ Cardinality(S) <= Cardinality(Runner)
BY FS_Subset, FS_CardinalityType

\* Nothing waits that did not, and no other runner is about to insert.
LEMMA FewStay ==
    ASSUME JobInv, NEW key, Few(key, runner, rows), NEW procs, NEW t,
           Regular(key, t) \subseteq Regular(key, rows),
           Creating(key, procs, t) \subseteq Creating(key, runner, rows)
    PROVE  Few(key, procs, t)
<1>. DEFINE R == Regular(key, rows)
            C == Creating(key, runner, rows)
<1>1. R \in SUBSET Row /\ C \in SUBSET Runner
  BY DEF Regular, Creating, JobInv, Table
<1>. HIDE DEF R, C
<1>2. \A S \in SUBSET R : Cardinality(S) \in Nat /\ Cardinality(S) <= Cardinality(R)
  BY <1>1, CountedRows, FS_Subset
<1>3. \A S \in SUBSET C : Cardinality(S) \in Nat /\ Cardinality(S) <= Cardinality(C)
  BY <1>1, CountedRunners, FS_Subset
<1>4. Cardinality(R) \in Nat /\ Cardinality(C) \in Nat /\ Cardinality(Runner) \in Nat
  BY <1>1, CountedRows, CountedRunners
<1>5. Cardinality(R) + Cardinality(C) <= Cardinality(Runner)
  BY DEF Few, R, C
<1>6. Regular(key, t) \in SUBSET R /\ Creating(key, procs, t) \in SUBSET C
  BY DEF R, C
<1>. QED
  BY <1>2, <1>3, <1>4, <1>5, <1>6 DEF Few

\* A row is inserted by a runner that was about to.
LEMMA FewAfterInsert ==
    ASSUME JobInv, NEW key, Few(key, runner, rows), NEW procs, NEW t, NEW r, NEW i,
           r \in Creating(key, runner, rows),
           Regular(key, t) \subseteq Regular(key, rows) \cup {i},
           Creating(key, procs, t) \subseteq Creating(key, runner, rows) \ {r}
    PROVE  Few(key, procs, t)
<1>. DEFINE R == Regular(key, rows)
            C == Creating(key, runner, rows)
<1>1. R \in SUBSET Row /\ C \in SUBSET Runner
  BY DEF Regular, Creating, JobInv, Table
<1>. HIDE DEF R, C
<1>2. /\ IsFiniteSet(R) /\ Cardinality(R) \in Nat
      /\ IsFiniteSet(C) /\ Cardinality(C) \in Nat /\ Cardinality(Runner) \in Nat
  BY <1>1, CountedRows, CountedRunners
<1>3. /\ IsFiniteSet(R \cup {i})
      /\ Cardinality(R \cup {i}) \in {Cardinality(R), Cardinality(R) + 1}
  BY <1>2, FS_AddElement
<1>4. IsFiniteSet(C \ {r}) /\ Cardinality(C \ {r}) = Cardinality(C) - 1
  BY <1>2, FS_RemoveElement DEF C
<1>5. /\ Cardinality(Regular(key, t)) \in Nat
      /\ Cardinality(Regular(key, t)) <= Cardinality(R \cup {i})
  BY <1>3, FS_Subset, FS_CardinalityType DEF R
<1>6. /\ Cardinality(Creating(key, procs, t)) \in Nat
      /\ Cardinality(Creating(key, procs, t)) <= Cardinality(C \ {r})
  BY <1>4, FS_Subset, FS_CardinalityType DEF C
<1>7. Cardinality(R) + Cardinality(C) <= Cardinality(Runner)
  BY DEF Few, R, C
<1>. QED
  BY <1>2, <1>3, <1>4, <1>5, <1>6, <1>7 DEF Few

\* A SELECT found none: whoever is about to insert, there is no row yet.
LEMMA FewWhenNone ==
    ASSUME NEW key, NEW procs, NEW t, Regular(key, t) = {}
    PROVE  Few(key, procs, t)
<1>1. Cardinality(Regular(key, t)) = 0
  BY FS_EmptySet
<1>2. /\ Cardinality(Creating(key, procs, t)) \in Nat /\ Cardinality(Runner) \in Nat
      /\ Cardinality(Creating(key, procs, t)) <= Cardinality(Runner)
  BY CountedRunners DEF Creating
<1>. QED
  BY <1>1, <1>2 DEF Few

-----------------------------------------------------------------------------
(* What the statements make of the count.                                  *)

\* No statement changes the job of a row or its retries, makes it wait again, or
\* cancels a sweep.
Carries(t) ==
    \A i \in DOMAIN rows :
        /\ i \in DOMAIN t
        /\ t[i].key = rows[i].key /\ t[i].retry = rows[i].retry
        /\ t[i].status = "pending" => rows[i].status = "pending"
        /\ t[i].deleted => rows[i].deleted \/ rows[i].key = Task

\* A row that is new is a one-shot job or a retry.
Calm(t) ==
    /\ Carries(t)
    /\ \A i \in DOMAIN t \ DOMAIN rows : ~t[i].deleted /\ (t[i].key = Task \/ t[i].retry # 0)

After(t) == rows' = t \/ rows' = Kept(t, runner')

LEMMA RowsAfter ==
    ASSUME NEW t, After(t)
    PROVE  DOMAIN rows' \subseteq DOMAIN t /\ \A i \in DOMAIN rows' : rows'[i] = t[i]
BY TableKept DEF After

\* A runner that did not move creates what it was about to create.
LEMMA CreatingStays ==
    ASSUME JobInv, NEW t, Carries(t), After(t), NEW key, NEW s \in Creating(key, runner', rows'),
           runner'[s] = runner[s]
    PROVE  s \in Creating(key, runner, rows)
<1>1. s \in Runner /\ AboutToInsert(runner[s]) /\ WantedOf(runner[s], rows') = key
  BY DEF Creating
<1>2. CASE runner[s].seeds # <<>>
  BY <1>1, <1>2 DEF Creating, WantedOf
<1>3. CASE runner[s].seeds = <<>>
  <2>. DEFINE i == runner[s].job
  <2>1. i \in DOMAIN rows /\ i \in References(runner'[s])
    BY <1>1, <1>3, RunnerProcess DEF AboutToInsert, ProcessOK, HasJob, References
  <2>2. i \in DOMAIN t /\ t[i].key = rows[i].key
    BY <2>1 DEF Carries
  <2>3. i \in DOMAIN rows'
    BY <1>1, <2>1, <2>2, TableKept DEF After
  <2>4. rows'[i].key = rows[i].key
    BY <2>2, <2>3, RowsAfter
  <2>. QED
    BY <1>1, <1>3, <2>4 DEF Creating, WantedOf
<1>. QED
  BY <1>2, <1>3

LEMMA CalmRows ==
    ASSUME StackInv, NEW t, Calm(t), After(t)
    PROVE  /\ \A i \in DOMAIN rows' : rows'[i].key # Task => ~rows'[i].deleted
           /\ \A key \in {Reaper, Sweep} : Regular(key, rows') \subseteq Regular(key, rows)
<1>1. ASSUME NEW i \in DOMAIN rows', rows'[i].key # Task
      PROVE  ~rows'[i].deleted
  BY <1>1, RowsAfter DEF Calm, Carries, StackInv
<1>2. ASSUME NEW key \in {Reaper, Sweep}, NEW i \in Regular(key, rows')
      PROVE  i \in Regular(key, rows)
  <2>1. i \in DOMAIN t /\ t[i].key = key /\ t[i].status = "pending" /\ t[i].retry = 0
    BY RowsAfter DEF Regular
  <2>2. i \in DOMAIN rows
    BY <2>1, TaskIsNoSweep DEF Calm
  <2>. QED
    BY <2>1, <2>2 DEF Calm, Carries, Regular
<1>. QED
  BY <1>1, <1>2

\* A step after which no other runner is about to insert.
LEMMA CalmStack ==
    ASSUME JobInv, StackInv, NEW t, Calm(t), After(t),
           \A s \in Runner : runner'[s] = runner[s] \/ ~ AboutToInsert(runner'[s])
    PROVE  StackInv'
<1>1. ASSUME NEW key \in {Reaper, Sweep}
      PROVE  Few(key, runner', rows')
  <2>1. Creating(key, runner', rows') \subseteq Creating(key, runner, rows)
    BY CreatingStays DEF Creating, Calm
  <2>2. Regular(key, rows') \subseteq Regular(key, rows)
    BY CalmRows
  <2>. QED
    BY <2>1, <2>2, FewStay DEF StackInv
<1>. QED
  BY <1>1, CalmRows DEF StackInv

LEMMA QuietStep ==
    ASSUME JobInv, StackInv, NEW r \in Runner, NEW p, NEW t, Step(r, p, t), Calm(t),
           ~ AboutToInsert(p)
    PROVE  StackInv'
<1>1. runner'[r] = p /\ \A s \in Runner \ {r} : runner'[s] = runner[s]
  BY DEF JobInv, Step
<1>2. After(t)
  BY DEF After, Step
<1>. QED
  BY <1>1, <1>2, CalmStack

\* The same table, or one row with another status or another time.
LEMMA CalmTables ==
    ASSUME JobInv
    PROVE  /\ Calm(rows)
           /\ \A i \in DOMAIN rows, b \in BOOLEAN : Calm([rows EXCEPT ![i].stale = b])
           /\ \A i \in DOMAIN rows, status \in {"running"} \cup Final : Calm(WithStatus(i, status))
<1>1. Calm(rows)
  BY DEF Calm, Carries
<1>2. ASSUME NEW i \in DOMAIN rows, NEW t, DOMAIN t = DOMAIN rows,
             \A k \in DOMAIN rows \ {i} : t[k] = rows[k],
             t[i].key = rows[i].key, t[i].retry = rows[i].retry, t[i].deleted = rows[i].deleted,
             t[i].status \in {rows[i].status, "running"} \cup Final
      PROVE  Calm(t)
  BY <1>2 DEF Calm, Carries, Final
<1>3. ASSUME NEW i \in DOMAIN rows, NEW b \in BOOLEAN
      PROVE  Calm([rows EXCEPT ![i].stale = b])
  <2>. DEFINE t == [rows EXCEPT ![i].stale = b]
  <2>1. rows[i] \in JobRow
    BY DEF JobInv, Table
  <2>2. /\ DOMAIN t = DOMAIN rows /\ t[i] = [rows[i] EXCEPT !.stale = b]
        /\ \A k \in DOMAIN rows \ {i} : t[k] = rows[k]
    BY DEF JobInv, Table
  <2>3. /\ t[i].key = rows[i].key /\ t[i].retry = rows[i].retry
        /\ t[i].deleted = rows[i].deleted /\ t[i].status = rows[i].status
    BY <2>1, <2>2 DEF JobRow
  <2>. HIDE DEF t
  <2>4. Calm(t)
    BY <1>2, <2>2, <2>3
  <2>. QED
    BY <2>4 DEF t
<1>4. ASSUME NEW i \in DOMAIN rows, NEW status \in {"running"} \cup Final
      PROVE  Calm(WithStatus(i, status))
  <2>. DEFINE t == WithStatus(i, status)
  <2>1. rows[i] \in JobRow
    BY DEF JobInv, Table
  <2>2. /\ DOMAIN t = DOMAIN rows
        /\ t[i] = [[rows[i] EXCEPT !.status = status] EXCEPT !.stale = FALSE]
        /\ \A k \in DOMAIN rows \ {i} : t[k] = rows[k]
    BY DEF WithStatus, JobInv, Table
  <2>3. /\ t[i].key = rows[i].key /\ t[i].retry = rows[i].retry
        /\ t[i].deleted = rows[i].deleted /\ t[i].status = status
    BY <2>1, <2>2 DEF JobRow
  <2>. HIDE DEF t
  <2>4. Calm(t)
    BY <1>2, <2>2, <2>3
  <2>. QED
    BY <2>4 DEF t
<1>. QED
  BY <1>1, <1>3, <1>4

LEMMA QuietOnly ==
    ASSUME JobInv, StackInv, NEW r \in Runner, NEW p, Step(r, p, rows), ~ AboutToInsert(p)
    PROVE  StackInv'
BY CalmTables, QuietStep

LEMMA QuietStatus ==
    ASSUME JobInv, StackInv, NEW r \in Runner, NEW p, NEW i \in DOMAIN rows,
           NEW status \in {"running"} \cup Final, Step(r, p, WithStatus(i, status)),
           ~ AboutToInsert(p)
    PROVE  StackInv'
BY CalmTables, QuietStep

LEMMA IdleInsertsNone == ~ AboutToInsert(Idle)
BY DEF AboutToInsert, Idle, Starting

\* The SELECT of a creation: a runner that finds none counts none.
LEMMA FindStack ==
    ASSUME JobInv, StackInv, NEW r \in Runner, Find(r)
    PROVE  StackInv'
<1>1. PICK i \in IF Pending(Wanted(r)) = {} THEN {NULL} ELSE Pending(Wanted(r)) :
          Step(r, [runner[r] EXCEPT !.pc = "store", !.found = i], rows)
  BY DEF Find
<1>. DEFINE p == [runner[r] EXCEPT !.pc = "store", !.found = i]
<1>2. p.pc = "store" /\ p.found = i /\ p.job = runner[r].job /\ p.seeds = runner[r].seeds
  BY RunnerProcess DEF Process
<1>3. \A k \in Pending(Wanted(r)) : k # NULL
  BY DEF Pending, JobInv, Table
<1>4. Step(r, p, rows)
  BY <1>1
<1>. HIDE DEF p
<1>5. CASE i # NULL
  BY <1>2, <1>4, <1>5, QuietOnly DEF AboutToInsert
<1>6. CASE i = NULL
  <2>1. Pending(Wanted(r)) = {}
    BY <1>1, <1>3, <1>6
  <2>2. Calm(rows) /\ After(rows) /\ Carries(rows)
    BY <1>4, CalmTables DEF After, Step, Calm
  <2>3. runner'[r] = p /\ \A s \in Runner \ {r} : runner'[s] = runner[s]
    BY <1>4 DEF JobInv, Step
  <2>4. ASSUME NEW key \in {Reaper, Sweep}
        PROVE  Few(key, runner', rows')
    <3>1. Regular(key, rows') \subseteq Regular(key, rows)
      BY <2>2, CalmRows
    <3>2. CASE key = Wanted(r)
      <4>1. Regular(key, rows) = {}
        BY <2>1, <3>2, TaskIsNoSweep DEF Regular, Pending, StackInv
      <4>. QED
        BY <3>1, <4>1, FewWhenNone
    <3>3. CASE key # Wanted(r)
      <4>1. ASSUME r \in Creating(key, runner', rows')
            PROVE  FALSE
        <5>1. WantedOf(p, rows') = key
          BY <2>3, <4>1 DEF Creating
        <5>2. WantedOf(p, rows') = Wanted(r)
          <6>1. CASE Seeding(r)
            BY <1>2, <6>1 DEF WantedOf, Wanted, Seeding
          <6>2. CASE ~ Seeding(r)
            <7>0. runner[r].pc = "find" /\ runner[r].seeds = <<>> /\ ProcessOK(runner[r], rows)
              BY <6>2, RunnerProcess DEF Find, Seeding
            <7>1. p.job \in DOMAIN rows /\ p.job # NULL
              BY <1>2, <7>0 DEF ProcessOK, HasJob, References
            <7>2. p.job \in References(runner'[r])
              BY <2>3, <7>1 DEF References
            <7>3. rows'[p.job] = rows[p.job]
              <8>1. rows' = Kept(rows, runner')
                BY <1>4 DEF Step
              <8>2. p.job \in DOMAIN rows'
                BY <7>1, <7>2, <8>1, TableKept
              <8>. QED
                BY <2>2, <8>2, RowsAfter
            <7>. QED
              BY <1>2, <6>2, <7>3 DEF WantedOf, Wanted, Seeding
          <6>. QED
            BY <6>1, <6>2
        <5>. QED
          BY <3>3, <5>1, <5>2
      <4>2. Creating(key, runner', rows') \subseteq Creating(key, runner, rows)
        <5>1. ASSUME NEW s \in Creating(key, runner', rows')
              PROVE  s \in Creating(key, runner, rows)
          <6>1. s \in Runner \ {r}
            BY <4>1, <5>1 DEF Creating
          <6>. QED
            BY <2>2, <2>3, <5>1, <6>1, CreatingStays
        <5>. QED
          BY <5>1
      <4>. QED
        BY <3>1, <4>2, FewStay DEF StackInv
    <3>. QED
      BY <3>2, <3>3
  <2>. QED
    BY <2>2, <2>4, CalmRows DEF StackInv
<1>. QED
  BY <1>5, <1>6

\* Where a creation ends, its runner is not about to insert.
LEMMA AfterCreateInsertsNone ==
    ASSUME JobInv, NEW r \in Runner
    PROVE  ~ AboutToInsert(AfterCreate(r))
<1>1. \A c : [[runner[r] EXCEPT !.found = NULL] EXCEPT !.pc = c].pc = c
  BY RunnerProcess DEF Process
<1>2. \A s, c : [[runner[r] EXCEPT !.found = NULL] EXCEPT !.seeds = s, !.pc = c].pc = c
  BY RunnerProcess DEF Process
<1>3. AfterCreate(r).pc \in {"done", "loop", "find"}
  BY <1>1, <1>2 DEF AfterCreate
<1>. QED
  BY <1>3 DEF AboutToInsert

\* The INSERT: one row more, one runner less that is about to add one.
LEMMA InsertStack ==
    ASSUME JobInv, StackInv, NEW r \in Runner, runner[r].pc = "store", Insert(r)
    PROVE  StackInv'
<1>. DEFINE row == NewJob(Wanted(r))
            t == With(rows, row)
            p == AfterCreate(r)
<1>1. Step(r, p, t) /\ AboutToInsert(runner[r]) /\ ~ AboutToInsert(p)
  BY AfterCreateInsertsNone DEF Insert, AboutToInsert
<1>2. /\ NewId \notin DOMAIN rows /\ DOMAIN t = DOMAIN rows \cup {NewId}
      /\ t[NewId] = row /\ \A i \in DOMAIN rows : t[i] = rows[i]
  BY NewIdIsFree DEF Insert, With
<1>3. row.key = Wanted(r) /\ ~ row.deleted
  BY DEF NewJob
<1>. HIDE DEF row, t, p
<1>4. Carries(t) /\ After(t)
  BY <1>1, <1>2 DEF Carries, After, Step
<1>5. runner'[r] = p /\ \A s \in Runner \ {r} : runner'[s] = runner[s]
  BY <1>1 DEF JobInv, Step
<1>6. ASSUME NEW i \in DOMAIN rows', rows'[i].key # Task
      PROVE  ~ rows'[i].deleted
  BY <1>2, <1>3, <1>4, <1>6, RowsAfter DEF StackInv
<1>7. ASSUME NEW key \in {Reaper, Sweep}
      PROVE  Few(key, runner', rows')
  <2>1. Creating(key, runner', rows') \subseteq Creating(key, runner, rows) \ {r}
    <3>1. ASSUME NEW s \in Creating(key, runner', rows')
          PROVE  s \in Creating(key, runner, rows) \ {r}
      <4>1. s \in Runner /\ s # r
        BY <1>1, <1>5, <3>1 DEF Creating
      <4>. QED
        BY <1>4, <1>5, <3>1, <4>1, CreatingStays
    <3>. QED
      BY <3>1
  <2>2. CASE key = Wanted(r)
    <3>1. r \in Creating(key, runner, rows)
      BY <1>1, <2>2 DEF Creating, WantedOf, Wanted, Seeding
    <3>2. Regular(key, rows') \subseteq Regular(key, rows) \cup {NewId}
      BY <1>2, <1>4, RowsAfter DEF Regular
    <3>. QED
      BY <2>1, <3>1, <3>2, FewAfterInsert DEF StackInv
  <2>3. CASE key # Wanted(r)
    <3>1. Regular(key, rows') \subseteq Regular(key, rows)
      BY <1>2, <1>3, <1>4, <2>3, RowsAfter DEF Regular
    <3>. QED
      BY <2>1, <3>1, FewStay DEF StackInv
  <2>. QED
    BY <2>2, <2>3
<1>. QED
  BY <1>6, <1>7 DEF StackInv

LEMMA StoreStack ==
    ASSUME JobInv, StackInv, NEW r \in Runner, Store(r)
    PROVE  StackInv'
<1>1. CASE Move(r)
  <2>1. /\ runner[r].found \in DOMAIN rows
        /\ Step(r, AfterCreate(r), [rows EXCEPT ![runner[r].found].stale = FALSE])
    BY <1>1, RunnerProcess DEF ProcessOK, References, Move
  <2>2. Calm([rows EXCEPT ![runner[r].found].stale = FALSE])
    BY <2>1, CalmTables
  <2>. QED
    BY <2>1, <2>2, QuietStep, AfterCreateInsertsNone
<1>. QED
  BY <1>1, InsertStack DEF Store

LEMMA ClaimStack ==
    ASSUME JobInv, StackInv, NEW r \in Runner, Claim(r)
    PROVE  StackInv'
<1>1. PICK i \in DOMAIN due :
        Step(r, [runner[r] EXCEPT !.pc = "run", !.job = i], WithStatus(i, "running"))
  BY DEF Claim, First
<1>2. [runner[r] EXCEPT !.pc = "run", !.job = i].pc = "run"
  BY RunnerProcess DEF Process
<1>. QED
  BY <1>1, <1>2, TakenOffQueue, QuietStatus DEF AboutToInsert

LEMMA RunStack ==
    ASSUME JobInv, StackInv, NEW r \in Runner, Run(r)
    PROVE  StackInv'
<1>1. \A c, o : [runner[r] EXCEPT !.pc = c, !.outcome = o].pc = c
  BY RunnerProcess DEF Process
<1>2. [runner[r] EXCEPT !.pc = "reap", !.stuck = Stuck].pc = "reap"
  BY RunnerProcess DEF Process
<1>3. CASE RunTask(r)
  <2>1. PICK o : Step(r, [runner[r] EXCEPT !.pc = "done", !.outcome = o], rows)
    BY <1>3 DEF RunTask
  <2>2. ~ AboutToInsert([runner[r] EXCEPT !.pc = "done", !.outcome = o])
    BY <1>1 DEF AboutToInsert
  <2>. QED
    BY <2>1, <2>2, QuietOnly
<1>4. CASE RunSweep(r)
  <2>1. PICK o : Step(r, [runner[r] EXCEPT !.pc = "find", !.outcome = o], rows)
    BY <1>4 DEF RunSweep, SweepThenRearm
  <2>2. ~ AboutToInsert([runner[r] EXCEPT !.pc = "find", !.outcome = o])
    BY <1>1 DEF AboutToInsert
  <2>. QED
    BY <2>1, <2>2, QuietOnly
<1>5. CASE RunReaper(r)
  BY <1>2, <1>5, QuietOnly DEF RunReaper, AboutToInsert
<1>. QED
  BY <1>3, <1>4, <1>5 DEF Run

LEMMA CompleteStack ==
    ASSUME JobInv, StackInv, NEW r \in Runner, Complete(r)
    PROVE  StackInv'
<1>. DEFINE i == runner[r].job
<1>1. i \in DOMAIN rows
  BY RunnerProcess DEF ProcessOK, HasJob, References, Complete
<1>2. [runner[r] EXCEPT !.pc = "clone"].pc = "clone"
  BY RunnerProcess DEF Process
<1>3. CASE ~ RunnerMayFlip(i)
  BY <1>3, IdleInsertsNone, QuietOnly DEF Complete
<1>4. CASE RunnerMayFlip(i) /\ Retries(i, runner[r].outcome)
  <2>1. Step(r, [runner[r] EXCEPT !.pc = "clone"], WithStatus(i, "retried"))
    BY <1>4 DEF Complete
  <2>. QED
    BY <1>1, <1>2, <2>1, QuietStatus DEF AboutToInsert, Final
<1>5. CASE RunnerMayFlip(i) /\ ~ Retries(i, runner[r].outcome)
  <2>1. PICK status \in {"success", "failed"} : Step(r, Idle, WithStatus(i, status))
    BY <1>5 DEF Complete
  <2>. QED
    BY <1>1, <2>1, IdleInsertsNone, QuietStatus DEF Final
<1>. QED
  BY <1>3, <1>4, <1>5

LEMMA RejectStack ==
    ASSUME JobInv, StackInv, NEW r \in Runner, Reject(r)
    PROVE  StackInv'
<1>1. runner[r].job \in DOMAIN rows
  BY RunnerProcess DEF ProcessOK, HasJob, References, Reject
<1>. QED
  BY <1>1, IdleInsertsNone, QuietStatus DEF Reject, Final

LEMMA AfterCloneInsertsNone ==
    ASSUME JobInv, NEW r \in Runner
    PROVE  ~ AboutToInsert(AfterClone(r))
<1>1. [runner[r] EXCEPT !.pc = "reap", !.victim = NULL].pc = "reap"
  BY RunnerProcess DEF Process
<1>. QED
  BY <1>1, IdleInsertsNone DEF AfterClone, AboutToInsert

\* A clone is a retry, and no regular row.
LEMMA CloneStack ==
    ASSUME JobInv, StackInv, NEW r \in Runner, Clone(r)
    PROVE  StackInv'
<1>. DEFINE i == Original(r)
            marked == [rows EXCEPT ![i].cloned = TRUE]
            row == RetryClone(i)
            t == With(marked, row)
<1>1. i \in DOMAIN rows /\ rows[i] \in JobRow
  <2>1. i \in References(runner[r])
    BY RunnerProcess, OriginalIsReferred DEF ProcessOK, Clone, Original, OriginalOf
  <2>. QED
    BY <2>1, RunnerProcess DEF ProcessOK, JobInv, Table
<1>2. ~ row.deleted /\ row.retry # 0
  <2>1. rows[i].retry \in Nat
    BY <1>1 DEF JobRow
  <2>2. row.retry = rows[i].retry + 1 /\ ~ row.deleted
    BY DEF RetryClone, NewJob
  <2>. QED
    BY <2>1, <2>2
<1>3. /\ DOMAIN marked = DOMAIN rows /\ marked[i] = [rows[i] EXCEPT !.cloned = TRUE]
      /\ \A k \in DOMAIN rows \ {i} : marked[k] = rows[k]
  BY <1>1 DEF JobInv, Table
<1>4. /\ marked[i].key = rows[i].key /\ marked[i].status = rows[i].status
      /\ marked[i].deleted = rows[i].deleted /\ marked[i].retry = rows[i].retry
  BY <1>1, <1>3 DEF JobRow
<1>5. Step(r, AfterClone(r), t)
  BY DEF Clone
<1>. HIDE DEF marked, row
<1>6. /\ DOMAIN t = DOMAIN rows \cup {NewId} /\ NewId \notin DOMAIN rows /\ t[NewId] = row
      /\ \A k \in DOMAIN rows : t[k] = marked[k]
  BY <1>3, NewIdIsFree DEF With, Clone
<1>. HIDE DEF t, i
<1>7. Carries(t)
  <2>1. ASSUME NEW k \in DOMAIN rows
        PROVE  /\ t[k].key = rows[k].key /\ t[k].retry = rows[k].retry
               /\ t[k].status = rows[k].status /\ t[k].deleted = rows[k].deleted
    <3>1. t[k] = marked[k]
      BY <1>6
    <3>2. CASE k = i
      BY <1>4, <3>1, <3>2
    <3>3. CASE k # i
      BY <1>3, <3>1, <3>3
    <3>. QED
      BY <3>2, <3>3
  <2>. QED
    BY <1>6, <2>1 DEF Carries
<1>8. Calm(t)
  BY <1>2, <1>6, <1>7 DEF Calm
<1>. QED
  BY <1>5, <1>8, AfterCloneInsertsNone, QuietStep

LEMMA ReapStack ==
    ASSUME JobInv, StackInv, NEW r \in Runner, ReapOne(r) \/ ReapEnds(r)
    PROVE  StackInv'
<1>. DEFINE Rest(i) == [runner[r] EXCEPT !.stuck = @ \ {i}]
            Flip(i) == [Rest(i) EXCEPT !.pc = "clone", !.victim = i]
<1>1. \A i : Rest(i).pc = runner[r].pc /\ Flip(i).pc = "clone"
  BY RunnerProcess DEF Process
<1>2. CASE ReapEnds(r)
  <2>1. [runner[r] EXCEPT !.pc = "find", !.outcome = "success"].pc = "find"
    BY RunnerProcess DEF Process
  <2>. QED
    BY <1>2, <2>1, QuietOnly DEF ReapEnds, AboutToInsert
<1>3. CASE ReapOne(r)
  <2>1. PICK i \in runner[r].stuck :
          \/ Step(r, Rest(i), rows)
          \/ Step(r, Flip(i), WithStatus(i, "retried"))
          \/ Step(r, Rest(i), WithStatus(i, "failed"))
    BY <1>3 DEF ReapOne
  <2>2. i \in DOMAIN rows
    BY RunnerProcess DEF ProcessOK, References
  <2>3. ~ AboutToInsert(Rest(i)) /\ ~ AboutToInsert(Flip(i))
    BY <1>1, <1>3 DEF ReapOne, AboutToInsert
  <2>. HIDE DEF Rest, Flip
  <2>. QED
    BY <2>1, <2>2, <2>3, QuietOnly, QuietStatus DEF Final
<1>. QED
  BY <1>2, <1>3

LEMMA FaultStack ==
    ASSUME JobInv, StackInv, NEW r \in Runner, Fault(r)
    PROVE  StackInv'
<1>1. CASE FailedStatement(r)
  <2>1. [runner[r] EXCEPT !.pc = "done", !.outcome = "retry"].pc = "done"
    BY RunnerProcess DEF Process
  <2>. QED
    BY <1>1, <2>1, IdleInsertsNone, AfterCloneInsertsNone, QuietOnly
       DEF FailedStatement, AboutToInsert
<1>2. CASE Crash(r)
  <2>1. \A s \in Runner : runner'[s] = runner[s] \/ ~ AboutToInsert(runner'[s])
    BY <1>2, AtStartIsProcess DEF Crash, AboutToInsert
  <2>. QED
    BY <1>2, <2>1, CalmTables, CalmStack DEF Crash, After
<1>. QED
  BY <1>1, <1>2 DEF Fault

\* The clock and the users add or cancel one-shot jobs, and no sweep.
LEMMA OutsideStack ==
    ASSUME JobInv, StackInv,
           \/ \E i \in Row : BecomeDue(i) \/ GrowStale(i)
           \/ Submit
           \/ Cancel
    PROVE  StackInv'
<1>0. runner' = runner
  BY DEF BecomeDue, GrowStale, Submit, Cancel
<1>1. CASE \E i \in Row : BecomeDue(i)
  BY <1>0, <1>1, CalmTables, CalmStack DEF BecomeDue, After
<1>2. ASSUME NEW i \in Row, GrowStale(i)
      PROVE  StackInv'
  BY <1>0, <1>2, CalmTables, CalmStack DEF GrowStale, After
<1>3. CASE Submit
  <2>. DEFINE row == NewJob(Task)
              t == With(rows, row)
  <2>1. row.key = Task /\ ~ row.deleted
    BY DEF NewJob
  <2>. HIDE DEF row
  <2>2. /\ DOMAIN t = DOMAIN rows \cup {NewId} /\ NewId \notin DOMAIN rows /\ t[NewId] = row
        /\ \A k \in DOMAIN rows : t[k] = rows[k]
    BY <1>3, NewIdIsFree DEF With, Submit
  <2>3. After(t)
    BY <1>3 DEF Submit, After, row
  <2>. HIDE DEF t
  <2>4. Calm(t)
    BY <2>1, <2>2 DEF Calm, Carries
  <2>. QED
    BY <1>0, <2>3, <2>4, CalmStack
<1>4. CASE Cancel
  <2>. DEFINE live == {i \in DOMAIN rows : /\ rows[i].key = Task
                                           /\ rows[i].status \in {"pending", "running"}
                                           /\ ~rows[i].deleted}
              t == [i \in DOMAIN rows |->
                       IF i \in live THEN [rows[i] EXCEPT !.deleted = TRUE, !.stale = FALSE]
                       ELSE rows[i]]
  <2>1. After(t)
    BY <1>0, <1>4 DEF Cancel, After
  <2>2. DOMAIN t = DOMAIN rows
    OBVIOUS
  <2>3. ASSUME NEW i \in DOMAIN rows
        PROVE  /\ t[i].key = rows[i].key /\ t[i].retry = rows[i].retry
               /\ t[i].status = rows[i].status
               /\ t[i].deleted => rows[i].deleted \/ rows[i].key = Task
    <3>1. rows[i] \in JobRow
      BY DEF JobInv, Table
    <3>. QED
      BY <3>1 DEF JobRow
  <2>. HIDE DEF t
  <2>4. Calm(t)
    BY <2>2, <2>3 DEF Calm, Carries
  <2>. QED
    BY <1>0, <2>1, <2>4, CalmStack
<1>. QED
  BY <1>1, <1>2, <1>3, <1>4

LEMMA StackInit == Init => StackInv
<1>. SUFFICES ASSUME Init
              PROVE  StackInv
  OBVIOUS
<1>1. DOMAIN rows = {}
  BY DEF Init
<1>. QED
  BY <1>1, FewWhenNone DEF StackInv, Regular

LEMMA StackStep == JobInv /\ StackInv /\ [Next]_vars => StackInv'
<1>. SUFFICES ASSUME JobInv, StackInv, [Next]_vars
              PROVE  StackInv'
  OBVIOUS
<1>1. ASSUME NEW r \in Runner, RunnerStep(r)
      PROVE  StackInv'
  <2>1. NoticeCancel(r) => StackInv'
    BY IdleInsertsNone, QuietOnly DEF NoticeCancel
  <2>. QED
    BY <1>1, <2>1, FindStack, StoreStack, ClaimStack, RejectStack, RunStack,
       CompleteStack, CloneStack, ReapStack DEF RunnerStep
<1>2. CASE UNCHANGED vars
  BY <1>2 DEF vars, StackInv
<1>. QED
  BY <1>1, <1>2, FaultStack, OutsideStack DEF Next

LEMMA FewWait == JobInv /\ StackInv => SweepsNotStacked
<1>. SUFFICES ASSUME JobInv, StackInv, NEW key \in {Reaper, Sweep}
              PROVE  Cardinality(Regular(key, rows)) <= Cardinality(Runner)
  BY DEF SweepsNotStacked, Regular
<1>1. Few(key, runner, rows)
  BY DEF StackInv
<1>2. Cardinality(Regular(key, rows)) \in Nat
  BY CountedRows DEF Regular, JobInv, Table
<1>3. /\ Cardinality(Creating(key, runner, rows)) \in Nat /\ Cardinality(Runner) \in Nat
  BY CountedRunners DEF Creating
<1>. QED
  BY <1>1, <1>2, <1>3 DEF Few

\* However often runs fail, are retried, recovered or cut short, and however the
\* creations of the runners fall between each other, no more regular rows of a
\* sweep wait than there are runners: the deduplication cannot prevent a second
\* row, and does prevent that they pile up (CreateJob, StartupJobRun.Run).
THEOREM NotStacked == Spec => []SweepsNotStacked
<1>1. Spec => []StackInv
  BY StackInit, StackStep, JobInvAlways, PTL DEF Spec
<1>. QED
  BY <1>1, JobInvAlways, FewWait, PTL

=============================================================================
