------------------------------ MODULE Incidents ------------------------------
(***************************************************************************)
(* The incident pipeline: what a check result does to the check's row and  *)
(* to its incident, the rollup of incidents along hard dependencies, the   *)
(* freshness sweep, and what users do to incidents and checks meanwhile.   *)
(*                                                                         *)
(* The results of one check are processed one at a time, as the lease on   *)
(* the row of a single-region check has it; those of different checks      *)
(* interleave, statement by statement, with each other, with the sweep and *)
(* with the users.  A result is reduced to the signal derived from it:     *)
(*   "down"      a failing result that may open an incident                *)
(*   "quorum"    a passing result while the quorum of regions fails        *)
(*   "up"        a success                                                 *)
(*   "regional"  a success shown as a warning: some regions fail           *)
(*   "warning"   neither                                                   *)
(* Time is a bounded clock; all checks have the same periods.  The backoff *)
(* of flapping checks is off, and what only notifications read is left out.*)
(***************************************************************************)
EXTENDS Integers, Sequences, FiniteSets

CONSTANTS
    Check,
    HardParents,    \* the hard dependencies of each check
    Signals,        \* the signals that the results of each check carry
    Confirmation,   \* confirmation period
    Recovery,       \* recovery period
    HoldCap,        \* how long a failing ancestor holds its descendants
    Cooldown,       \* reopen cooldown, 0 when reopening is disabled
    Window,         \* correlation window of the rollup
    StaleAfter,     \* freshness threshold
    DepthCap,       \* rollupDepthCap
    MaxLag,         \* how long processing one result takes at most
    MaxTime,        \* bound: the clock
    MaxIncidents,   \* bound: incidents
    Operations,     \* what users do
    MaxOps,         \* bound: how often they do it
    NULL

Time == 0 .. MaxTime
Incident == 1 .. MaxIncidents
Signal == {"down", "quorum", "up", "regional", "warning"}

ASSUME IncidentsAssumption ==
    /\ IsFiniteSet(Check)
    /\ HardParents \in [Check -> SUBSET Check]
    /\ Signals \in [Check -> SUBSET Signal]
    /\ {Confirmation, Recovery, HoldCap, Cooldown, Window, DepthCap} \subseteq Nat
    /\ {MaxTime, MaxIncidents, MaxOps} \subseteq Nat
    /\ MaxLag \in Nat /\ StaleAfter \in Nat /\ MaxLag <= StaleAfter
    /\ Operations \subseteq {"acknowledge", "unacknowledge", "resolve", "delete", "window"}
    /\ NULL \notin Time \cup Incident

VARIABLES
    now,        \* the clock
    check,      \* the checks table
    incidents,  \* the incidents table
    work,       \* the processing of each check's current result
    ops,        \* how often users did something
    hist        \* history, for the properties alone: see History

vars == <<now, check, incidents, work, ops, hist>>

MaybeTime == Time \cup {NULL}
MaybeIncident == Incident \cup {NULL}
Status == {"up", "warning", "validating", "down", "stale"}

\* ff: first_failure_at; fs: first_success_since_failure_at; seen: last_result_at.
CheckRow == [status : Status, ff : MaybeTime, fs : MaybeTime, seen : Time,
             deleted : BOOLEAN, window : BOOLEAN]

\* onset: last_reopened_at, or else started_at; muted: paging_suppressed; paged:
\* its channels were told of the outage, by a created or a reopened event.
IncidentRow == [check : Check, active : BOOLEAN, started : Time, onset : Time,
                resolved : MaybeTime, acked : BOOLEAN, byUser : BOOLEAN,
                muted : BOOLEAN, cause : MaybeIncident, paged : BOOLEAN]

\* at: PeriodStart of the result; snap: the row as it was read; inc: the incident
\* at hand; root: the incident to roll up under; onset: that of the incident to
\* store; kids: the rolled-up incidents that are still to be released.
Work == [pc : {"idle", "write", "open", "store", "adopt", "resolve", "release", "children"},
         sig : Signal \cup {NULL}, at : MaybeTime, snap : CheckRow \cup {NULL},
         inc : MaybeIncident, root : MaybeIncident, onset : MaybeTime,
         kids : SUBSET Incident]

\* ok: when the current unbroken run of successes began; bad: the same of failures,
\* those under an open incident begin none; relapse: an incident was resolved, and
\* no success came after it; closed: a user resolved an incident since the check's
\* last result was read; late: the check's last incident was rolled up under one
\* that was resolved by then.
History == [bad : MaybeTime, ok : MaybeTime, relapse : BOOLEAN, closed : BOOLEAN,
            late : BOOLEAN]

TypeOK ==
    /\ now \in Time
    /\ check \in [Check -> CheckRow]
    /\ incidents \in Seq(IncidentRow) /\ Len(incidents) <= MaxIncidents
    /\ \A i \in DOMAIN incidents : /\ incidents[i].active = (incidents[i].resolved = NULL)
                                   /\ incidents[i].muted => incidents[i].cause # NULL
    /\ work \in [Check -> Work]
    /\ \A c \in Check : (work[c].kids # {}) = (work[c].pc = "children")
    /\ ops \in 0 .. MaxOps
    /\ hist \in [Check -> History]

Idle == [pc |-> "idle", sig |-> NULL, at |-> NULL, snap |-> NULL, inc |-> NULL,
         root |-> NULL, onset |-> NULL, kids |-> {}]

Init ==
    /\ now = 0
    /\ check = [c \in Check |-> [status |-> "up", ff |-> NULL, fs |-> NULL, seen |-> 0,
                                 deleted |-> FALSE, window |-> FALSE]]
    /\ incidents = <<>>
    /\ work = [c \in Check |-> Idle]
    /\ ops = 0
    /\ hist = [c \in Check |-> [bad |-> NULL, ok |-> NULL, relapse |-> FALSE,
                                closed |-> FALSE, late |-> FALSE]]

-----------------------------------------------------------------------------
(* The dependency graph: edges of deleted checks are deleted with them.    *)

LiveParents(c) == {a \in HardParents[c] : ~check[a].deleted}

\* Layers(c)[d]: the checks that at most d hard edges lead up to from c.
Layers(c) ==
    LET L[d \in 0 .. DepthCap] ==
            IF d = 0 THEN {c} ELSE L[d - 1] \cup UNION {LiveParents(a) : a \in L[d - 1]}
    IN  L

Ancestors(c) == Layers(c)[DepthCap] \ {c}
Depth(c, a) == CHOOSE d \in 0 .. DepthCap : /\ a \in Layers(c)[d]
                                            /\ \A e \in 0 .. d - 1 : a \notin Layers(c)[e]

\* The open incidents of a check.
Active(c) == {i \in DOMAIN incidents : incidents[i].check = c /\ incidents[i].active}

\* The incidents of a set of checks that correlate with an onset at `at`.
Correlated(cs, at) ==
    {i \in DOMAIN incidents : /\ incidents[i].check \in cs
                              /\ incidents[i].active /\ ~incidents[i].muted
                              /\ incidents[i].started \in at - Window .. at}

\* findRollupRoot: the deepest such incident, the oldest of several.
Roots(c, at) ==
    LET open == Correlated(Ancestors(c), at)
        depth(i) == Depth(c, incidents[i].check)
    IN  {i \in open : \A j \in open :
            \/ depth(j) < depth(i)
            \/ depth(j) = depth(i) /\ incidents[i].started <= incidents[j].started}

\* Mutant: an ancestor that is down holds, too.
HeldByOutage(c) == \E a \in Ancestors(c) : /\ check[a].status \in {"validating", "down"}
                                           /\ check[a].ff # NULL
                                           /\ now < check[a].ff + HoldCap

\* hardAncestorGatesConfirmation.
Held(c) == \E a \in Ancestors(c) : /\ check[a].status = "validating"
                                   /\ check[a].ff # NULL
                                   /\ now < check[a].ff + HoldCap

OneOf(S) == IF S = {} THEN {NULL} ELSE S

-----------------------------------------------------------------------------
(* A result is read.                                                       *)

\* Mutant: an acknowledged incident is not found.
FoundUnlessAcked(c) == {i \in Active(c) : ~incidents[i].acked}

\* FindActiveIncidentByCheckUID: any one of them.
Found(c) == Active(c)

\* The touch of last_result_at, the re-read of the row, and the lookup of the
\* open incident.
Read(c) ==
    /\ work[c].pc = "idle"
    /\ ~check[c].deleted /\ ~check[c].window
    /\ check' = [check EXCEPT ![c].seen = now]
    /\ \E sig \in Signals[c], i \in OneOf(Found(c)) :
           work' = [work EXCEPT ![c] = [Idle EXCEPT !.pc = "write", !.sig = sig, !.at = now,
                                                    !.snap = check'[c], !.inc = i]]
    /\ hist' = [hist EXCEPT ![c].closed = FALSE]
    /\ UNCHANGED <<now, incidents, ops>>

\* Inside a maintenance window a result only ends "stale".  The signal does not
\* count there but the result's own status: that of a regional one is either.
ResumedStatus(c, sig) ==
    CASE sig \in {"up", "quorum"} -> {"up"}
      [] sig = "warning" -> {"warning"}
      [] sig = "down" -> {IF Found(c) = {} THEN "validating" ELSE "down"}
      [] sig = "regional" -> {"up", IF Found(c) = {} THEN "validating" ELSE "down"}

ReadInWindow(c) ==
    /\ work[c].pc = "idle"
    /\ ~check[c].deleted /\ check[c].window
    /\ \E sig \in Signals[c], s \in Status :
           /\ s \in IF check[c].status = "stale" THEN ResumedStatus(c, sig)
                    ELSE {check[c].status}
           /\ check' = [check EXCEPT ![c].seen = now, ![c].status = s]
    /\ UNCHANGED <<now, incidents, work, ops, hist>>

-----------------------------------------------------------------------------
(* Status and clocks are derived and written, and the result is routed.    *)

Failure == {"down", "quorum"}
Success == {"up", "regional"}

Elapsed(since, period) == since # NULL /\ now >= since + period

\* The in-derive variant reads a clock that is not armed as `now`.
ConfirmationElapsed(ff) == IF ff = NULL THEN Confirmation = 0 ELSE Elapsed(ff, Confirmation)

\* Mutant: any failure of the quorum shows, whatever the result itself says.
PickStatusOfQuorum(w, held) ==
    CASE w.sig \in {"regional", "warning"} -> "warning"
      [] w.sig = "up" -> "up"
      [] w.sig \in Failure ->
            IF w.inc # NULL \/ (~held /\ ConfirmationElapsed(w.snap.ff))
            THEN "down" ELSE "validating"

PickStatus(w, held) ==
    CASE w.sig \in {"regional", "warning"} -> "warning"
      [] w.sig = "up" -> "up"
      [] w.sig \in Failure /\ w.inc # NULL -> "down"
      [] w.sig \in Failure /\ w.inc = NULL ->
            IF w.sig = "down" /\ ~held /\ ConfirmationElapsed(w.snap.ff)
            THEN "down" ELSE "validating"

\* Mutant: every success restarts the recovery.
StaleOrUnarmedAlways(w) == TRUE

StaleOrUnarmed(w) == w.snap.fs = NULL \/ w.snap.fs < incidents[w.inc].onset

\* A column of the tri-state update: it is set, cleared or left alone.
Column(old, set, clear) == IF set THEN now ELSE IF clear THEN NULL ELSE old

\* Mutants: a success does not clear the confirmation clock, a failure not that of
\* the recovery.
FFKept(w, old) == Column(old, w.sig \in Failure /\ w.inc = NULL /\ w.snap.ff = NULL, FALSE)
FSKept(w, old) == Column(old, w.sig \in Success /\ w.inc # NULL /\ StaleOrUnarmed(w), FALSE)

\* deriveIncidentClocks, applied to the row and to the check in memory alike.
FF(w, old) == Column(old, w.sig \in Failure /\ w.inc = NULL /\ w.snap.ff = NULL,
                          w.sig \in Success /\ w.inc = NULL)
FS(w, old) == Column(old, w.sig \in Success /\ w.inc # NULL /\ StaleOrUnarmed(w),
                          w.sig \in Failure /\ w.snap.fs # NULL)

RecoveryElapsed(w, fs) == /\ Elapsed(fs, Recovery)
                          /\ fs >= incidents[w.inc].onset

\* handleFailure, handleSuccess: what is left to do after the write.
Route(w, held) ==
    CASE /\ w.sig = "down" /\ w.inc = NULL
         /\ ~held /\ Elapsed(FF(w, w.snap.ff), Confirmation) -> "open"
      [] /\ w.sig \in Success /\ w.inc # NULL
         /\ RecoveryElapsed(w, FS(w, w.snap.fs)) -> "resolve"
      [] OTHER -> "idle"

\* The runs that the result extends or ends.
Observed(h, w) ==
    CASE w.sig \in Failure -> [h EXCEPT !.bad = IF @ = NULL /\ w.inc = NULL THEN now ELSE @,
                                        !.ok = NULL]
      [] w.sig \in Success -> [h EXCEPT !.ok = IF @ = NULL THEN now ELSE @, !.bad = NULL,
                                        !.relapse = @ /\ w.inc # NULL]
      [] w.sig = "warning" -> h

Write(c) ==
    LET w == work[c]
        held == /\ w.sig = "down" /\ w.inc = NULL
                /\ ConfirmationElapsed(w.snap.ff) /\ Held(c)
        next == Route(w, held)
    IN  /\ w.pc = "write"
        /\ check' = IF check[c].deleted THEN check
                    ELSE [check EXCEPT ![c].status = PickStatus(w, held),
                                       ![c].ff = FF(w, @), ![c].fs = FS(w, @)]
        /\ work' = [work EXCEPT ![c] = IF next = "idle" THEN Idle
                                       ELSE [w EXCEPT !.pc = next, !.snap = NULL, !.sig = NULL]]
        /\ hist' = [hist EXCEPT ![c] = Observed(@, w)]
        /\ UNCHANGED <<now, incidents, ops>>

-----------------------------------------------------------------------------
(* An incident opens, or opens again.                                      *)

\* FindRecentlyResolvedIncidentByCheckUID: the one that was resolved last.
RecentlyResolved(c) ==
    LET recent == {i \in DOMAIN incidents : /\ incidents[i].check = c
                                            /\ ~incidents[i].active
                                            /\ incidents[i].resolved >= now - Cooldown}
    IN  IF Cooldown = 0 THEN {}
        ELSE {i \in recent : \A j \in recent : incidents[j].resolved <= incidents[i].resolved}

MayReopen(i) == ~incidents[i].acked

\* checkWasDeleted, tryReopenIncident, applyRollup: all that is read before the
\* incident is stored.
Open(c) ==
    /\ work[c].pc = "open"
    /\ IF check[c].deleted
       THEN work' = [work EXCEPT ![c] = Idle]
       ELSE \E found \in OneOf(RecentlyResolved(c)), r \in OneOf(Roots(c, work[c].at)) :
                LET i == IF found # NULL /\ MayReopen(found) THEN found ELSE NULL
                IN  work' = [work EXCEPT ![c].pc = "store", ![c].inc = i, ![c].root = r,
                                         ![c].onset = IF i = NULL THEN work[c].at ELSE now]
    /\ UNCHANGED <<now, check, incidents, ops, hist>>

\* Mutant: reopening leaves resolved_at alone.
ReopenedResolved(c, w) ==
    [incidents[w.inc] EXCEPT !.active = TRUE, !.onset = w.onset, !.acked = FALSE,
         !.muted = (w.root # NULL), !.cause = w.root, !.paged = (w.root = NULL)]

Reopened(c, w) ==
    [incidents[w.inc] EXCEPT !.active = TRUE, !.onset = w.onset, !.resolved = NULL,
         !.acked = FALSE, !.muted = (w.root # NULL), !.cause = w.root, !.paged = (w.root = NULL)]

Created(c, w) ==
    [check |-> c, active |-> TRUE, started |-> w.at, onset |-> w.onset, resolved |-> NULL,
     acked |-> FALSE, byUser |-> FALSE,
     muted |-> (w.root # NULL), cause |-> w.root, paged |-> (w.root = NULL)]

Store(c) ==
    LET w == work[c]
        i == IF w.inc = NULL THEN Len(incidents) + 1 ELSE w.inc
    IN  /\ w.pc = "store"
        /\ i <= MaxIncidents
        /\ incidents' = IF w.inc = NULL THEN Append(incidents, Created(c, w))
                        ELSE [incidents EXCEPT ![i] = Reopened(c, w)]
        /\ work' = [work EXCEPT ![c] = [w EXCEPT !.pc = "adopt", !.inc = i, !.root = NULL,
                                                 !.onset = NULL]]
        /\ hist' = [hist EXCEPT ![c].late =
                        w.root \in {j \in DOMAIN incidents : ~incidents[j].active}]
        /\ UNCHANGED <<now, check, ops>>

\* rollUpExistingChildren: every attachment is guarded by its own UPDATE.
Adopted(c, i) == Correlated({d \in Check : c \in Ancestors(d)}, work[c].at) \ {i}

Adopt(c) ==
    LET i == work[c].inc
    IN  /\ work[c].pc = "adopt"
        /\ incidents' = [j \in DOMAIN incidents |->
               IF j \in Adopted(c, i) THEN [incidents[j] EXCEPT !.muted = TRUE, !.cause = i]
               ELSE incidents[j]]
        /\ work' = [work EXCEPT ![c] = Idle]
        /\ UNCHANGED <<now, check, ops, hist>>

-----------------------------------------------------------------------------
(* An incident is resolved, and what was rolled up under it is released.   *)

Resolve(c) ==
    LET i == work[c].inc
    IN  /\ work[c].pc = "resolve"
        /\ incidents' = [incidents EXCEPT ![i].active = FALSE, ![i].resolved = work[c].at]
        /\ work' = [work EXCEPT ![c].pc = "release"]
        /\ hist' = [hist EXCEPT ![c].relapse = TRUE]
        /\ UNCHANGED <<now, check, ops>>

\* Mutant: the children that are down alone are looked for.
MutedUnderAndDown(i) == {j \in DOMAIN incidents : /\ incidents[j].active /\ incidents[j].muted
                                                  /\ incidents[j].cause = i
                                                  /\ check[incidents[j].check].status = "down"}

MutedUnder(i) == {j \in DOMAIN incidents : /\ incidents[j].active /\ incidents[j].muted
                                           /\ incidents[j].cause = i}

Release(c) ==
    LET kids == MutedUnder(work[c].inc)
    IN  /\ work[c].pc = "release"
        /\ work' = [work EXCEPT ![c] = IF kids = {} THEN Idle
                                       ELSE [@ EXCEPT !.pc = "children", !.kids = kids]]
        /\ UNCHANGED <<now, check, incidents, ops, hist>>

\* A child that is down, or of which nothing is known, pages; any other one is
\* detached in silence.  That of a deleted check is skipped.
ReleaseChild(c) ==
    /\ work[c].pc = "children"
    /\ \E j \in work[c].kids :
           LET child == check[incidents[j].check]
           IN  /\ incidents' = IF child.deleted THEN incidents
                               ELSE [incidents EXCEPT ![j].muted = FALSE,
                                        ![j].paged = @ \/ child.status \in {"down", "stale"}]
               /\ work' = [work EXCEPT ![c] = IF work[c].kids = {j} THEN Idle
                                       ELSE [work[c] EXCEPT !.kids = @ \ {j}]]
    /\ UNCHANGED <<now, check, ops, hist>>

-----------------------------------------------------------------------------
(* The sweep, the users and the clock.                                     *)

\* The compare-and-set into "stale", for a check outside of maintenance.
Sweep(c) ==
    /\ ~check[c].deleted /\ ~check[c].window
    /\ check[c].status # "stale"
    /\ now - check[c].seen > StaleAfter
    /\ check' = [check EXCEPT ![c].status = "stale", ![c].ff = NULL, ![c].fs = NULL]
    /\ hist' = [hist EXCEPT ![c].bad = NULL, ![c].ok = NULL, ![c].relapse = FALSE]
    /\ UNCHANGED <<now, incidents, work, ops>>

Acknowledge(i) ==
    /\ "acknowledge" \in Operations
    /\ ~incidents[i].acked
    /\ incidents' = [incidents EXCEPT ![i].acked = TRUE]
    /\ UNCHANGED <<check, hist>>

Unacknowledge(i) ==
    /\ "unacknowledge" \in Operations
    /\ incidents[i].acked
    /\ incidents' = [incidents EXCEPT ![i].acked = FALSE]
    /\ UNCHANGED <<check, hist>>

\* resolveIncidentByOrgUID, and resolveForCheckDisable.
ManualResolve(i) ==
    /\ "resolve" \in Operations
    /\ incidents[i].active
    /\ incidents' = [incidents EXCEPT ![i].active = FALSE, ![i].resolved = now,
                                      ![i].byUser = TRUE]
    /\ hist' = [hist EXCEPT ![incidents[i].check].closed = TRUE,
                            ![incidents[i].check].relapse = TRUE]
    /\ UNCHANGED check

\* One transaction deletes the check and resolves its incidents.
DeleteCheck(c) ==
    /\ "delete" \in Operations
    /\ ~check[c].deleted
    /\ check' = [check EXCEPT ![c].deleted = TRUE]
    /\ incidents' = [i \in DOMAIN incidents |->
           IF i \in Active(c) THEN [incidents[i] EXCEPT !.active = FALSE, !.resolved = now]
           ELSE incidents[i]]
    /\ UNCHANGED hist

\* A maintenance window opens or closes.
ToggleWindow(c) ==
    /\ "window" \in Operations
    /\ check' = [check EXCEPT ![c].window = ~@]
    /\ UNCHANGED <<incidents, hist>>

User ==
    /\ ops < MaxOps
    /\ ops' = ops + 1
    /\ \/ \E i \in DOMAIN incidents : Acknowledge(i) \/ Unacknowledge(i) \/ ManualResolve(i)
       \/ \E c \in Check : DeleteCheck(c) \/ ToggleWindow(c)
    /\ UNCHANGED <<now, work>>

Busy == {c \in Check : work[c].pc # "idle"}

Tick ==
    /\ now < MaxTime
    /\ \A c \in Busy : now - work[c].at < MaxLag
    /\ now' = now + 1
    /\ UNCHANGED <<check, incidents, work, ops, hist>>

Process(c) ==
    \/ Read(c) \/ ReadInWindow(c) \/ Write(c)
    \/ Open(c) \/ Store(c) \/ Adopt(c)
    \/ Resolve(c) \/ Release(c) \/ ReleaseChild(c)

Next ==
    \/ \E c \in Check : Process(c) \/ Sweep(c)
    \/ User
    \/ Tick

Spec == Init /\ [][Next]_vars

-----------------------------------------------------------------------------
(* Properties.                                                             *)

\* A check has one open incident at most: the lookup before the write and the
\* insert after it agree (FindActiveIncidentByCheckUID, createIncident).
OneActiveIncident == \A c \in Check : \A i, j \in Active(c) : i = j

\* "The check can never render down with no incident behind it": once its result
\* is processed, a check that reads down has an open incident, unless a user
\* closed it since that result was read (deriveCheckStatus, handleFailure).
DownHasIncident ==
    \A c \in Check :
        (work[c].pc = "idle" /\ check[c].status = "down" /\ ~check[c].deleted)
            => Active(c) # {} \/ hist[c].closed

\* An incident opens after a confirmation period of failures that no success and
\* no gap in the data broke, or else when its check relapses: when it fails right
\* after the end of an incident (deriveIncidentClocks, MarkCheckStale).
ConfirmationObserved ==
    [][\A c \in Check : Store(c) => Elapsed(hist[c].bad, Confirmation) \/ hist[c].relapse]_vars

\* It resolves on its own after a recovery period of successes only, whatever
\* incident, gap or warning came before them (recoveryElapsed).
RecoveryObserved == [][\A c \in Check : Resolve(c) => Elapsed(hist[c].ok, Recovery)]_vars

\* A failing result at the end of the confirmation period opens an incident, as
\* long as no ancestor of the check is confirming an outage itself: no warning
\* and no earlier incident or gap makes it wait any longer (handleFailure).
OpensWhenConfirmed ==
    [][\A c \in Check :
          /\ Write(c) /\ work[c].sig = "down" /\ work[c].inc = NULL
          /\ Elapsed(hist'[c].bad, Confirmation)
          /\ \A a \in Ancestors(c) : check[a].status # "validating"
          => work'[c].pc = "open"]_vars

\* A success at the end of the recovery period resolves the open incident
\* (handleSuccess).
ResolvesWhenRecovered ==
    [][\A c \in Check :
          /\ Write(c) /\ work[c].sig \in Success /\ work[c].inc # NULL
          /\ Elapsed(hist'[c].ok, Recovery)
          => work'[c].pc = "resolve"]_vars

\* No incident stays rolled up under one that recovered: when that is over, so is
\* the muting, except of an incident that was being stored meanwhile, or whose check
\* was deleted (reEvaluateRollupChildren, reopenIncident, attachChildToRollupParent).
MutingEnds ==
    \A i \in DOMAIN incidents :
        LET parent == incidents[incidents[i].cause]
        IN  incidents[i].active /\ incidents[i].muted
            => \/ parent.active \/ parent.byUser
               \/ check[parent.check].deleted
               \/ work[parent.check].pc \in {"release", "children"}
               \/ hist[incidents[i].check].late
               \/ check[incidents[i].check].deleted

\* A check that fails on its own account pages: the outage of a check that is
\* down, and not held back by an open incident of an ancestor, was announced, as
\* soon as no result is being processed.
FailingChildPages ==
    Busy = {}
        => \A i \in DOMAIN incidents :
              LET r == incidents[i]
              IN  /\ r.active /\ check[r.check].status = "down"
                  /\ ~(r.muted /\ incidents[r.cause].active)
                  => r.paged
=============================================================================
