----------------------------- MODULE RegionQuorum -----------------------------
(***************************************************************************)
(* The vote of the regions of one check, and what becomes of it when the   *)
(* results of several regions are processed at once: each result is a      *)
(* worker of its own, and the statements of one interleave with those of   *)
(* the others on the check's row, its readings and its incidents.          *)
(*                                                                         *)
(* Time is not counted: a clock of the check is armed and, some time       *)
(* later, has run out.  What is not about the regions (the status shown,   *)
(* reopening, dependencies, maintenance, users) is in module Incidents.    *)
(***************************************************************************)
EXTENDS Integers, FiniteSets, FiniteSetsExt

CONSTANTS
    Region,
    FirstRegions,   \* the regions the check begins with
    Placements,     \* those it may be moved to
    Settings,       \* the values that failQuorum takes, the first one among them
    FirstSetting,
    Statuses,       \* the statuses of results
    Watched,        \* the sets of regions that the properties are about
    MaxIncidents,   \* bound: incidents that are open or at hand at once
    MaxBusy,        \* bound: results in processing at once
    MaxFaults,      \* bound: edits, lost readings and results that die halfway
    NULL

Incident == 1 .. MaxIncidents
Setting == [kind : {"default", "all", "majority"}, count : {0}]
           \cup [kind : {"count"}, count : Nat \ {0}]

ASSUME QuorumAssumption ==
    /\ IsFiniteSet(Region)
    /\ \A p \in Placements \cup {FirstRegions} : p \subseteq Region /\ p # {}
    /\ FirstSetting \in Settings /\ \A q \in Settings : q \in Setting
    /\ Statuses \subseteq {"up", "down", "warning"}
    /\ Watched \subseteq SUBSET Region
    /\ {MaxIncidents, MaxBusy, MaxFaults} \subseteq Nat
    /\ NULL \notin Incident /\ NULL \notin Statuses

VARIABLES
    current,    \* check.Regions
    setting,    \* check.FailQuorum
    failing,    \* check_region_states: the regions whose reading is a failure
    ff,         \* first_failure_at
    fs,         \* first_success_since_failure_at
    open,       \* the open incidents of the check
    work,       \* the processing of each region's current result
    faults      \* the edits and the faults so far

vars == <<current, setting, failing, ff, fs, open, work, faults>>

\* A clock that was armed, and whether its period has run out since; during: the
\* results in processing that were read before it was armed; before: the incidents
\* that began after it was.
Clock == [elapsed : BOOLEAN, during : SUBSET Region, before : SUBSET Incident]
MaybeClock == Clock \cup {NULL}

Work == [pc : {"idle", "record", "derive", "write", "open", "resolve"},
         status : Statuses \cup {NULL},
         regions : SUBSET Region, setting : Settings \cup {NULL},
         ff : MaybeClock, fs : MaybeClock,
         sig : {"down", "quorum", "up", "regional", "warning", NULL},
         inc : Incident \cup {NULL}]

TypeOK ==
    /\ current \in (SUBSET Region) \ {{}} /\ setting \in Settings
    /\ failing \subseteq Region
    /\ ff \in MaybeClock /\ fs \in MaybeClock
    /\ open \subseteq Incident
    /\ work \in [Region -> Work]
    /\ \A r \in Region :
          /\ work[r].pc = "open" => work[r].inc = NULL
          /\ work[r].pc = "resolve" => work[r].inc # NULL
    /\ faults \in 0 .. MaxFaults

Idle == [pc |-> "idle", status |-> NULL, regions |-> {}, setting |-> NULL,
         ff |-> NULL, fs |-> NULL, sig |-> NULL, inc |-> NULL]

Init ==
    /\ current = FirstRegions /\ setting = FirstSetting
    /\ failing = {}
    /\ ff = NULL /\ fs = NULL
    /\ open = {}
    /\ work = [r \in Region |-> Idle]
    /\ faults = 0

Fault == faults < MaxFaults /\ faults' = faults + 1

Busy == {r \in Region : work[r].pc # "idle"}

-----------------------------------------------------------------------------
(* The quorum.                                                             *)

\* Setting.Resolve.
Quorum(q, n) ==
    CASE n = 0 -> 0
      [] n > 0 /\ q.kind = "all" -> n
      [] n > 0 /\ q.kind = "majority" -> n \div 2 + 1
      [] n > 0 /\ q.kind = "count" -> IF q.count < n THEN q.count ELSE n
      [] n > 0 /\ q.kind = "default" -> IF n < 3 THEN n ELSE n \div 2 + 1

UsesQuorum(q, n) == n >= 2 /\ q >= 1 /\ q < n

\* Stored readings, with status s for the one of r.
WithReading(r, s) == IF s = "down" THEN failing \cup {r} ELSE failing \ {r}

\* Evaluate: the regions of the check that fail; the result at hand stands for
\* its own region, and an unknown one counts as little as a passing one.
Failing(r, w) == w.regions \cap WithReading(r, w.status)

\* Mutant: a passing result counts as a success although the quorum fails.
SignalOfResult(r, w) ==
    LET n == Cardinality(w.regions)
        q == Quorum(w.setting, n)
        fails == Cardinality(Failing(r, w))
    IN  CASE ~UsesQuorum(q, n) -> w.status
          [] UsesQuorum(q, n) /\ fails >= q -> w.status
          [] UsesQuorum(q, n) /\ fails \in 1 .. q - 1 -> "regional"
          [] UsesQuorum(q, n) /\ fails = 0 -> IF w.status = "warning" THEN "warning" ELSE "up"

\* Mutant: a result says nothing while some of the regions fail.
SignalNeutral(r, w) ==
    LET n == Cardinality(w.regions)
        q == Quorum(w.setting, n)
        fails == Cardinality(Failing(r, w))
    IN  CASE ~UsesQuorum(q, n) -> w.status
          [] UsesQuorum(q, n) /\ fails >= q -> IF w.status = "down" THEN "down" ELSE "quorum"
          [] UsesQuorum(q, n) /\ fails \in 1 .. q - 1 -> "warning"
          [] UsesQuorum(q, n) /\ fails = 0 -> IF w.status = "warning" THEN "warning" ELSE "up"

\* deriveSignal: "down" fails and may open an incident, "quorum" is a passing
\* result while the quorum fails, "regional" a success although some regions fail.
Signal(r, w) ==
    LET n == Cardinality(w.regions)
        q == Quorum(w.setting, n)
        fails == Cardinality(Failing(r, w))
    IN  CASE ~UsesQuorum(q, n) -> w.status
          [] UsesQuorum(q, n) /\ fails >= q -> IF w.status = "down" THEN "down" ELSE "quorum"
          [] UsesQuorum(q, n) /\ fails \in 1 .. q - 1 -> "regional"
          [] UsesQuorum(q, n) /\ fails = 0 -> IF w.status = "warning" THEN "warning" ELSE "up"

Failure == {"down", "quorum"}
Success == {"up", "regional"}

-----------------------------------------------------------------------------
(* Clocks.                                                                 *)

Armed == [elapsed |-> FALSE, during |-> Busy, before |-> {}]

\* The result of r is done with.
Without(clock, r) == IF clock = NULL THEN NULL ELSE [clock EXCEPT !.during = @ \ {r}]

\* Incident i began with the result of r.
Began(clock, r, i) ==
    IF clock = NULL THEN NULL
    ELSE [clock EXCEPT !.before = IF r \in clock.during THEN @ \ {i} ELSE @ \cup {i}]

\* The processing of the result of r is over.
Finish(r) ==
    /\ ff' = Without(ff, r) /\ fs' = Without(fs, r)
    /\ work' = [x \in Region |->
           IF x = r THEN Idle
           ELSE [work[x] EXCEPT !.ff = Without(@, r), !.fs = Without(@, r)]]

StaleOrUnarmed(w) == w.fs = NULL \/ (w.fs # NULL /\ w.inc \in w.fs.before)

\* A column of the tri-state update: it is set, cleared or left alone.
Column(old, set, clear) == IF set THEN Armed ELSE IF clear THEN NULL ELSE old

\* deriveIncidentClocks, for the row and for the check in memory alike.
FF(w, old) == Column(old, w.sig \in Failure /\ w.inc = NULL /\ w.ff = NULL,
                          w.sig \in Success /\ w.inc = NULL /\ w.ff # NULL)
FS(w, old) == Column(old, w.sig \in Success /\ w.inc # NULL /\ StaleOrUnarmed(w),
                          w.sig \in Failure /\ w.fs # NULL)

Elapsed(clock) == clock # NULL /\ clock.elapsed

-----------------------------------------------------------------------------
(* A result is processed.                                                  *)

\* The touch, and the row that is read back: a region that the check has left may
\* still deliver a result.
Read(r) ==
    /\ work[r].pc = "idle" /\ Cardinality(Busy) < MaxBusy
    /\ \E s \in Statuses :
           work' = [work EXCEPT ![r] = [Idle EXCEPT !.pc = "record", !.status = s,
                                                    !.regions = current, !.setting = setting,
                                                    !.ff = ff, !.fs = fs]]
    /\ UNCHANGED <<current, setting, failing, ff, fs, open, faults>>

\* recordRegionState: only a check with several regions keeps their readings.
Record(r) ==
    LET w == work[r]
    IN  /\ w.pc = "record"
        /\ failing' = IF Cardinality(w.regions) >= 2 THEN WithReading(r, w.status) ELSE failing
        /\ work' = [work EXCEPT ![r].pc = "derive"]
        /\ UNCHANGED <<current, setting, ff, fs, open, faults>>

\* The write fails: that is logged, and the result goes on.
LoseReading(r) ==
    /\ work[r].pc = "record"
    /\ Fault
    /\ work' = [work EXCEPT ![r].pc = "derive"]
    /\ UNCHANGED <<current, setting, failing, ff, fs, open>>

\* The readings are listed, and the open incident is looked up: any one of them
\* (FindActiveIncidentByCheckUID).
Derive(r) ==
    /\ work[r].pc = "derive"
    /\ \E i \in IF open = {} THEN {NULL} ELSE open :
           work' = [work EXCEPT ![r].pc = "write", ![r].sig = Signal(r, work[r]), ![r].inc = i,
                                ![r].status = NULL, ![r].regions = {}, ![r].setting = NULL]
    /\ UNCHANGED <<current, setting, failing, ff, fs, open, faults>>

\* Mutant: the open incident is not looked at.
RouteUnlooked(w) ==
    CASE w.sig = "down" /\ Elapsed(FF(w, w.ff)) -> "open"
      [] /\ w.sig \in Success /\ w.inc # NULL
         /\ Elapsed(FS(w, w.fs)) /\ w.inc \notin FS(w, w.fs).before -> "resolve"
      [] OTHER -> "idle"

\* handleFailure, handleSuccess: what is left to do after the write.
Route(w) ==
    CASE w.sig = "down" /\ w.inc = NULL /\ Elapsed(FF(w, w.ff)) -> "open"
      [] /\ w.sig \in Success /\ w.inc # NULL
         /\ Elapsed(FS(w, w.fs)) /\ w.inc \notin FS(w, w.fs).before -> "resolve"
      [] OTHER -> "idle"

\* UpdateCheckStatusAndClocks, and the result is routed.
Write(r) ==
    LET w == work[r]
        next == Route(w)
        after(clock) == IF next = "idle" THEN Without(clock, r) ELSE clock
    IN  /\ w.pc = "write"
        /\ ff' = after(FF(w, ff)) /\ fs' = after(FS(w, fs))
        /\ work' = [x \in Region |->
               IF x = r THEN [Idle EXCEPT !.pc = next, !.inc = IF next = "idle" THEN NULL ELSE w.inc]
               ELSE [work[x] EXCEPT !.ff = after(@), !.fs = after(@)]]
        /\ UNCHANGED <<current, setting, failing, open, faults>>

\* createIncident: nothing keeps a second one out.
Open(r) ==
    LET free == Incident \ (open \cup {work[x].inc : x \in Region})
        i == Min(free)
        since(clock) == Without(Began(clock, r, i), r)
    IN  /\ work[r].pc = "open"
        /\ free # {}
        /\ open' = open \cup {i}
        /\ ff' = Without(ff, r) /\ fs' = since(fs)
        /\ work' = [x \in Region |->
               IF x = r THEN Idle
               ELSE [work[x] EXCEPT !.ff = Without(@, r), !.fs = since(@)]]
        /\ UNCHANGED <<current, setting, failing, faults>>

\* resolveIncident, whoever resolved it meanwhile.
Resolve(r) ==
    /\ work[r].pc = "resolve"
    /\ open' = open \ {work[r].inc}
    /\ Finish(r)
    /\ UNCHANGED <<current, setting, failing, faults>>

\* The worker dies, or a statement fails: the rest of the result is dropped.
Abort(r) ==
    /\ work[r].pc # "idle"
    /\ Fault
    /\ Finish(r)
    /\ UNCHANGED <<current, setting, failing, open>>

-----------------------------------------------------------------------------
(* What happens around it.                                                 *)

\* The check is edited, or placed in other regions.
Edit ==
    /\ Fault
    /\ current' \in Placements /\ setting' \in Settings
    /\ UNCHANGED <<failing, ff, fs, open, work>>

\* A region is silent for longer than the staleness threshold.
Expire(r) ==
    /\ r \in failing /\ work[r].pc = "idle"
    /\ failing' = failing \ {r}
    /\ UNCHANGED <<current, setting, ff, fs, open, work, faults>>

Running(clock) == clock # NULL /\ ~clock.elapsed
RunOut(clock) == IF clock = NULL THEN NULL ELSE [clock EXCEPT !.elapsed = TRUE]

\* The confirmation period, or the recovery period, runs out: for the row, and for
\* the results in processing that have read it.  Both are longer than it takes to
\* process a result.
Confirm ==
    LET clocks == {clock \in {ff} \cup {work[r].ff : r \in Region} : Running(clock)}
    IN  /\ clocks # {} /\ \A clock \in clocks : clock.during = {}
        /\ ff' = RunOut(ff)
        /\ work' = [r \in Region |-> [work[r] EXCEPT !.ff = RunOut(@)]]
        /\ UNCHANGED <<current, setting, failing, fs, open, faults>>

Recover ==
    LET clocks == {clock \in {fs} \cup {work[r].fs : r \in Region} : Running(clock)}
    IN  /\ clocks # {} /\ \A clock \in clocks : clock.during = {}
        /\ fs' = RunOut(fs)
        /\ work' = [r \in Region |-> [work[r] EXCEPT !.fs = RunOut(@)]]
        /\ UNCHANGED <<current, setting, failing, ff, open, faults>>

Process(r) == Record(r) \/ Derive(r) \/ Write(r) \/ Open(r) \/ Resolve(r)

Next ==
    \/ \E r \in Region : Read(r) \/ Process(r) \/ LoseReading(r) \/ Abort(r) \/ Expire(r)
    \/ Edit
    \/ Confirm \/ Recover

\* A result that was read is processed, and time goes on.
Fairness ==
    /\ \A r \in Region : WF_work(Process(r))
    /\ WF_vars(Confirm) /\ WF_vars(Recover)

Spec == Init /\ [][Next]_vars /\ Fairness

-----------------------------------------------------------------------------
(* Properties.                                                             *)

\* From some point on the regions of S report, this status only, and are never
\* silent for long; a region that the check has left reports no more.
Settled(S, status) ==
    /\ \A r \in S : []<>(work[r].pc # "idle")
    /\ <>[](\A r \in S : work[r].status \in {status, NULL})
    /\ <>[](Busy \subseteq current)
    /\ <>[][\A r \in S : r \in failing \ failing' => work[r].pc # "idle"]_vars

EnoughFail(S) == S \subseteq current /\ Cardinality(S) >= Quorum(setting, Cardinality(current))

\* An outage that a quorum of the regions keeps seeing opens an incident and keeps
\* one open, whatever the other regions report, and when (deriveSignal,
\* deriveIncidentClocks, handleFailure).
OutageOpens ==
    \A S \in Watched :
        Settled(S, "down") /\ <>[]EnoughFail(S) => <>[](open # {})

\* The regions that are left are no quorum.
TooFewFail(S) ==
    LET n == Cardinality(current)
        q == Quorum(setting, n)
    IN  \/ current \subseteq S
        \/ UsesQuorum(q, n) /\ Cardinality(current \ S) < q

\* Once so many regions recovered for good that the others are no quorum, every
\* incident ends, those that two regions opened at once included, and none opens
\* any more (handleSuccess, staleOrUnarmedRecoveryClock).
RecoveryCloses ==
    \A S \in Watched :
        Settled(S, "up") /\ <>[]TooFewFail(S) => <>[](open = {})
=============================================================================
