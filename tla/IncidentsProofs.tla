--------------------------- MODULE IncidentsProofs ---------------------------
(***************************************************************************)
(* Proofs about Incidents, for every set of checks and every choice of the *)
(* periods.                                                                *)
(***************************************************************************)
EXTENDS Incidents, TLAPS

USE IncidentsAssumption

-----------------------------------------------------------------------------
(* The invariant.                                                          *)

\* What the processing of a result has at hand once it is under way; t is the table
\* of incidents.
WellFormed(c, w, t) ==
    /\ w.pc # "idle" => w.at \in Time
    /\ w.pc = "write" => w.sig \in Signal /\ w.snap \in CheckRow
    /\ w.pc = "store" => w.onset \in Time
    /\ w.pc \in {"adopt", "resolve", "release"} => w.inc # NULL
    /\ w.inc # NULL => w.inc \in DOMAIN t /\ t[w.inc].check = c
    /\ w.kids \subseteq DOMAIN t

\* The inductive form of TypeOK.
TypeInv == TypeOK /\ \A c \in Check : WellFormed(c, work[c], incidents)

\* No time lies ahead, and no check goes stale while its result is processed.
Past(c) ==
    /\ check[c].ff # NULL => check[c].ff <= now
    /\ check[c].fs # NULL => check[c].fs <= now
    /\ hist[c].bad # NULL => hist[c].bad <= now
    /\ hist[c].ok # NULL => hist[c].ok <= now
    /\ \A i \in Active(c) : incidents[i].onset <= now
    /\ work[c].pc # "idle" => /\ work[c].at <= now
                              /\ now - work[c].at <= MaxLag
                              /\ check[c].seen = work[c].at

\* The row that is being processed is current: nobody else moves its clocks.
SnapCurrent(c) ==
    work[c].pc = "write" => /\ work[c].snap.ff = check[c].ff
                            /\ work[c].snap.fs = check[c].fs

\* The incident at hand is the open one, unless it was closed meanwhile.
AtHand(c) ==
    LET w == work[c] IN
    /\ w.pc = "write" /\ w.inc = NULL => Active(c) = {}
    /\ w.pc = "write" /\ w.inc # NULL =>
           /\ Active(c) \subseteq {w.inc}
           /\ Active(c) # {} \/ check[c].deleted \/ (hist[c].closed /\ hist[c].relapse)
    /\ w.pc \in {"open", "store"} =>
           Active(c) = {} /\ hist[c].ok = NULL /\ (check[c].fs = NULL \/ check[c].deleted)
    /\ w.pc = "store" => w.onset <= now
    /\ w.pc \in {"resolve", "release", "children"} =>
           check[c].deleted \/ check[c].status # "down"
    /\ w.pc \in {"idle", "adopt"} /\ check[c].status = "down" /\ ~check[c].deleted
           => Active(c) # {} \/ hist[c].closed

\* The clock of the confirmation agrees with the failures that were seen ...
Confirming(c) ==
    LET h == hist[c]
        r == check[c]
        w == work[c]
        Since == h.relapse \/ (h.bad # NULL /\ h.bad <= r.ff)
    IN
    /\ h.bad # NULL /\ (~r.deleted \/ w.pc = "write") => r.ff # NULL /\ r.ff <= h.bad
    /\ r.ff # NULL /\ ~r.deleted /\ Active(c) = {} => Since
    /\ r.ff # NULL /\ w.pc = "write" /\ w.inc = NULL => Since
    /\ w.pc \in {"open", "store"} => h.relapse \/ Elapsed(h.bad, Confirmation)

\* ... and that of the recovery, under an open incident, with the successes.
Recovering(c) ==
    LET h == hist[c]
        r == check[c]
        w == work[c]
        Agree(i) == /\ r.fs # NULL => h.ok # NULL /\ h.ok <= r.fs
                    /\ h.ok # NULL => r.fs # NULL /\ r.fs <= h.ok /\ r.fs >= incidents[i].onset
    IN
    /\ ~r.deleted => \A i \in Active(c) : Agree(i)
    /\ w.pc = "write" /\ w.inc # NULL => Agree(w.inc) /\ incidents[w.inc].onset <= now
    /\ w.pc = "resolve" => Elapsed(h.ok, Recovery)

CheckInv(c) ==
    /\ \A i, j \in Active(c) : i = j
    /\ Past(c)
    /\ SnapCurrent(c)
    /\ AtHand(c)
    /\ Confirming(c)
    /\ Recovering(c)

IncidentsInv == TypeInv /\ \A c \in Check : CheckInv(c)

-----------------------------------------------------------------------------
(* Types.                                                                  *)

\* A step that rewrites rows in place leaves a table of incidents.
LEMMA RowsRewritten ==
    ASSUME TypeOK, NEW f \in [DOMAIN incidents -> IncidentRow]
    PROVE  f \in Seq(IncidentRow) /\ Len(f) = Len(incidents) /\ DOMAIN f = DOMAIN incidents
  BY DEF TypeOK

\* Indices of the table are incidents.
LEMMA RowsAreIncidents ==
    ASSUME TypeOK, NEW i \in DOMAIN incidents
    PROVE  i \in Incident /\ i # NULL /\ incidents[i] \in IncidentRow
  BY DEF TypeOK, Incident

\* A row appended to the table: the others keep their place.
LEMMA RowAppended ==
    ASSUME TypeOK, NEW row
    PROVE  /\ DOMAIN Append(incidents, row) = DOMAIN incidents \cup {Len(incidents) + 1}
           /\ Len(incidents) + 1 \notin DOMAIN incidents
           /\ Append(incidents, row)[Len(incidents) + 1] = row
           /\ \A i \in DOMAIN incidents : Append(incidents, row)[i] = incidents[i]
<1>. DEFINE n == Len(incidents)
            longer == Append(incidents, row)
<1>1. incidents \in Seq(IncidentRow)
  BY DEF TypeOK
<1>2. n \in Nat /\ DOMAIN incidents = 1 .. n
  BY <1>1
<1>3. DOMAIN longer = 1 .. n + 1
  BY <1>1
<1>4. longer[n + 1] = row
  BY <1>1
<1>5. \A i \in 1 .. n : longer[i] = incidents[i]
  BY <1>1
<1>. HIDE DEF n, longer
<1>6. 1 .. n + 1 = 1 .. n \cup {n + 1} /\ n + 1 \notin 1 .. n
  BY <1>2
<1>. QED
  BY <1>2, <1>3, <1>4, <1>5, <1>6 DEF n, longer

\* Rows stay, and stay those of their check.
Kept == /\ DOMAIN incidents \subseteq DOMAIN incidents'
        /\ \A i \in DOMAIN incidents : incidents'[i].check = incidents[i].check

\* A step that gives a check other work, and keeps the rows.
LEMMA WorkTypes ==
    ASSUME TypeInv, Kept, NEW c \in Check, NEW w \in Work,
           work' = [work EXCEPT ![c] = w],
           WellFormed(c, w, incidents'), (w.kids # {}) = (w.pc = "children")
    PROVE  /\ work' \in [Check -> Work]
           /\ \A d \in Check : (work'[d].kids # {}) = (work'[d].pc = "children")
           /\ \A d \in Check : WellFormed(d, work'[d], incidents')
<1>. work \in [Check -> Work] /\ \A d \in Check : WellFormed(d, work[d], incidents)
  BY DEF TypeInv, TypeOK
<1>1. \A d \in Check : WellFormed(d, work'[d], incidents')
  <2>. SUFFICES ASSUME NEW d \in Check
                PROVE  WellFormed(d, work'[d], incidents')
    OBVIOUS
  <2>1. CASE d = c
    BY <2>1 DEF WellFormed
  <2>2. CASE d # c
    <3>1. WellFormed(d, work[d], incidents) /\ work'[d] = work[d]
      BY <2>2
    <3>. QED
      BY <3>1 DEF WellFormed, Kept
  <2>. QED
    BY <2>1, <2>2
<1>. QED
  BY <1>1 DEF TypeInv, TypeOK

LEMMA ReadTypes ==
    ASSUME TypeInv, NEW c \in Check, Read(c)
    PROVE  TypeInv'
<1>. TypeOK /\ work[c] \in Work /\ check[c] \in CheckRow /\ hist[c] \in History
  BY DEF TypeInv, TypeOK
<1>1. /\ check' \in [Check -> CheckRow] /\ check'[c] \in CheckRow
      /\ hist' \in [Check -> History]
  <2>1. [check[c] EXCEPT !.seen = now] \in CheckRow
    BY DEF TypeOK, CheckRow
  <2>2. [hist[c] EXCEPT !.closed = FALSE] \in History
    BY DEF History
  <2>3. check' = [check EXCEPT ![c] = [check[c] EXCEPT !.seen = now]]
    BY DEF Read
  <2>4. hist' = [hist EXCEPT ![c] = [hist[c] EXCEPT !.closed = FALSE]]
    BY DEF Read
  <2>5. check \in [Check -> CheckRow] /\ hist \in [Check -> History]
    BY DEF TypeOK
  <2>. QED
    BY <2>1, <2>2, <2>3, <2>4, <2>5
<1>2. PICK sig \in Signals[c], i \in OneOf(Found(c)) :
          work' = [work EXCEPT ![c] = [Idle EXCEPT !.pc = "write", !.sig = sig, !.at = now,
                                                   !.snap = check'[c], !.inc = i]]
  BY DEF Read
<1>. DEFINE w == [Idle EXCEPT !.pc = "write", !.sig = sig, !.at = now,
                              !.snap = check'[c], !.inc = i]
<1>3. i \in MaybeIncident /\ (i # NULL => i \in DOMAIN incidents /\ incidents[i].check = c)
  BY RowsAreIncidents DEF OneOf, Found, Active, MaybeIncident
<1>4. sig \in Signal /\ now \in Time
  BY DEF TypeOK
<1>5. w \in Work /\ w.kids = {} /\ w.pc = "write"
  BY <1>1, <1>3, <1>4 DEF Work, Idle, MaybeTime, MaybeIncident
<1>6. Kept /\ WellFormed(c, w, incidents')
  BY <1>1, <1>3, <1>4 DEF Read, Kept, WellFormed, Idle
<1>7. /\ work' \in [Check -> Work]
      /\ \A d \in Check : (work'[d].kids # {}) = (work'[d].pc = "children")
      /\ \A d \in Check : WellFormed(d, work'[d], incidents')
  BY <1>2, <1>5, <1>6, WorkTypes
<1>. QED
  BY <1>1, <1>7 DEF Read, TypeInv, TypeOK

LEMMA ReadInWindowTypes ==
    ASSUME TypeInv, NEW c \in Check, ReadInWindow(c)
    PROVE  TypeInv'
<1>. TypeOK /\ check[c] \in CheckRow
  BY DEF TypeInv, TypeOK
<1>1. PICK sig \in Signals[c], s \in Status :
          check' = [check EXCEPT ![c].seen = now, ![c].status = s]
  BY DEF ReadInWindow
<1>2. check' \in [Check -> CheckRow]
  BY <1>1 DEF TypeOK, CheckRow
<1>. QED
  BY <1>2 DEF ReadInWindow, TypeInv, TypeOK

\* The columns a result writes.
LEMMA WrittenColumns ==
    ASSUME TypeOK, NEW w \in Work, w.sig \in Signal, NEW old \in MaybeTime,
           NEW held \in BOOLEAN
    PROVE  /\ PickStatus(w, held) \in Status
           /\ FF(w, old) \in MaybeTime
           /\ FS(w, old) \in MaybeTime
<1>1. PickStatus(w, held) \in Status
  <2>1. CASE w.sig \in {"regional", "warning"}
    BY <2>1 DEF PickStatus, Status, Failure
  <2>2. CASE w.sig = "up"
    BY <2>2 DEF PickStatus, Status, Failure
  <2>3. CASE w.sig \in Failure /\ w.inc # NULL
    BY <2>3 DEF PickStatus, Status, Failure
  <2>4. CASE w.sig \in Failure /\ w.inc = NULL
    BY <2>4 DEF PickStatus, Status, Failure
  <2>. QED
    BY <2>1, <2>2, <2>3, <2>4 DEF Signal, Failure
<1>2. \A set, clear \in BOOLEAN : Column(old, set, clear) \in MaybeTime
  BY DEF Column, TypeOK, MaybeTime
<1>. QED
  BY <1>1, <1>2 DEF FF, FS, TypeOK, Column, MaybeTime

\* What the history makes of a result.
LEMMA ObservedTypes ==
    ASSUME TypeOK, NEW h \in History, NEW w \in Work, w.sig \in Signal
    PROVE  Observed(h, w) \in History
<1>1. CASE w.sig \in Failure
  BY <1>1 DEF Observed, History, Failure, Success, TypeOK, MaybeTime
<1>2. CASE w.sig \in Success
  BY <1>2 DEF Observed, History, Failure, Success, TypeOK, MaybeTime
<1>3. CASE w.sig = "warning"
  BY <1>3 DEF Observed, History, Failure, Success
<1>. QED
  BY <1>1, <1>2, <1>3 DEF Signal, Failure, Success

\* Where a result is routed to.
LEMMA RouteTypes ==
    ASSUME NEW w \in Work, NEW held \in BOOLEAN
    PROVE  /\ Route(w, held) \in {"open", "resolve", "idle"}
           /\ Route(w, held) = "resolve" => w.inc # NULL
           /\ Route(w, held) = "open" => w.inc = NULL
  BY DEF Route

LEMMA WriteTypes ==
    ASSUME TypeInv, NEW c \in Check, Write(c)
    PROVE  TypeInv'
<1>. DEFINE w == work[c]
            held == /\ w.sig = "down" /\ w.inc = NULL
                    /\ ConfirmationElapsed(w.snap.ff) /\ Held(c)
            next == Route(w, held)
            v == IF next = "idle" THEN Idle ELSE [w EXCEPT !.pc = next, !.snap = NULL, !.sig = NULL]
<1>. /\ TypeOK /\ w \in Work /\ check[c] \in CheckRow /\ hist[c] \in History
     /\ WellFormed(c, w, incidents)
  BY DEF TypeInv, TypeOK
<1>1. w.pc = "write" /\ w.sig \in Signal /\ w.at \in Time /\ w.kids = {}
  BY DEF Write, WellFormed, TypeOK
<1>. HIDE DEF held
<1>2. held \in BOOLEAN
  BY DEF held
<1>3. /\ work' = [work EXCEPT ![c] = v]
      /\ check' = IF check[c].deleted THEN check
                  ELSE [check EXCEPT ![c].status = PickStatus(w, held),
                                     ![c].ff = FF(w, @), ![c].fs = FS(w, @)]
      /\ hist' = [hist EXCEPT ![c] = Observed(@, w)]
      /\ UNCHANGED <<now, incidents, ops>>
  BY DEF Write, held
<1>. HIDE DEF w
<1>4. check' \in [Check -> CheckRow]
  <2>1. /\ PickStatus(w, held) \in Status
        /\ FF(w, check[c].ff) \in MaybeTime /\ FS(w, check[c].fs) \in MaybeTime
    BY <1>1, <1>2, WrittenColumns DEF CheckRow
  <2>. QED
    BY <1>3, <2>1 DEF TypeOK, CheckRow
<1>5. hist' \in [Check -> History]
  BY <1>1, <1>3, ObservedTypes DEF TypeOK
<1>6. next \in {"open", "resolve", "idle"} /\ (next = "resolve" => w.inc # NULL)
  BY <1>2, RouteTypes
<1>. HIDE DEF next
<1>7. v \in Work /\ v.kids = {} /\ v.pc # "children" /\ WellFormed(c, v, incidents)
  <2>1. CASE next = "idle"
    BY <2>1 DEF Work, Idle, WellFormed, MaybeTime, MaybeIncident
  <2>2. CASE next # "idle"
    BY <1>1, <1>6, <2>2 DEF Work, WellFormed
  <2>. QED
    BY <2>1, <2>2
<1>. HIDE DEF v
<1>8. Kept /\ WellFormed(c, v, incidents')
  BY <1>3, <1>7 DEF Kept
<1>9. /\ work' \in [Check -> Work]
      /\ \A d \in Check : (work'[d].kids # {}) = (work'[d].pc = "children")
      /\ \A d \in Check : WellFormed(d, work'[d], incidents')
  BY <1>3, <1>7, <1>8, WorkTypes
<1>. QED
  BY <1>3, <1>4, <1>5, <1>9 DEF TypeInv, TypeOK

LEMMA OpenTypes ==
    ASSUME TypeInv, NEW c \in Check, Open(c)
    PROVE  TypeInv'
<1>. TypeOK /\ work[c] \in Work /\ WellFormed(c, work[c], incidents)
  BY DEF TypeInv, TypeOK
<1>1. PICK v : /\ work' = [work EXCEPT ![c] = v]
               /\ \/ v = Idle
                  \/ \E i, r \in MaybeIncident, at \in Time :
                        /\ v = [work[c] EXCEPT !.pc = "store", !.inc = i, !.root = r, !.onset = at]
                        /\ i # NULL => i \in DOMAIN incidents /\ incidents[i].check = c
  <2>1. CASE check[c].deleted
    BY <2>1 DEF Open
  <2>2. CASE ~check[c].deleted
    <3>1. PICK found \in OneOf(RecentlyResolved(c)), r \in OneOf(Roots(c, work[c].at)) :
              LET i == IF found # NULL /\ MayReopen(found) THEN found ELSE NULL
              IN  work' = [work EXCEPT ![c].pc = "store", ![c].inc = i, ![c].root = r,
                                       ![c].onset = IF i = NULL THEN work[c].at ELSE now]
      BY <2>2 DEF Open
    <3>2. found \in MaybeIncident /\ (found # NULL => found \in DOMAIN incidents
                                                      /\ incidents[found].check = c)
      <4>1. \A i \in RecentlyResolved(c) : i \in DOMAIN incidents /\ incidents[i].check = c
        BY DEF RecentlyResolved
      <4>. QED
        BY <4>1, RowsAreIncidents DEF OneOf, MaybeIncident
    <3>3. r \in MaybeIncident
      <4>1. \A i \in Roots(c, work[c].at) : i \in DOMAIN incidents
        BY DEF Roots, Correlated
      <4>. QED
        BY <4>1, RowsAreIncidents DEF OneOf, MaybeIncident
    <3>4. work[c].at \in Time /\ now \in Time
      BY DEF Open, WellFormed, TypeOK
    <3>. DEFINE i == IF found # NULL /\ MayReopen(found) THEN found ELSE NULL
                at == IF i = NULL THEN work[c].at ELSE now
    <3>5. i \in MaybeIncident /\ (i # NULL => i \in DOMAIN incidents /\ incidents[i].check = c)
      BY <3>2 DEF MaybeIncident
    <3>6. at \in Time
      BY <3>4
    <3>7. work' = [work EXCEPT ![c] = [work[c] EXCEPT !.pc = "store", !.inc = i, !.root = r,
                                                      !.onset = at]]
      BY <3>1 DEF TypeOK
    <3>. HIDE DEF i, at
    <3>. QED
      BY <3>3, <3>5, <3>6, <3>7
  <2>. QED
    BY <2>1, <2>2
<1>2. v \in Work /\ v.kids = {} /\ v.pc # "children" /\ WellFormed(c, v, incidents)
  <2>1. CASE v = Idle
    BY <2>1 DEF Work, Idle, WellFormed, MaybeTime, MaybeIncident
  <2>2. CASE v # Idle
    <3>1. work[c].pc = "open" /\ work[c].kids = {} /\ work[c].at \in Time
      BY DEF Open, TypeOK, WellFormed
    <3>2. PICK i, r \in MaybeIncident, at \in Time :
              /\ v = [work[c] EXCEPT !.pc = "store", !.inc = i, !.root = r, !.onset = at]
              /\ i # NULL => i \in DOMAIN incidents /\ incidents[i].check = c
      BY <1>1, <2>2
    <3>3. v \in Work
      BY <3>2 DEF Work, MaybeTime
    <3>. QED
      BY <3>1, <3>2, <3>3 DEF WellFormed
  <2>. QED
    BY <2>1, <2>2
<1>3. Kept /\ UNCHANGED <<now, check, incidents, ops, hist>>
  BY DEF Kept, Open
<1>4. /\ work' \in [Check -> Work]
      /\ \A d \in Check : (work'[d].kids # {}) = (work'[d].pc = "children")
      /\ \A d \in Check : WellFormed(d, work'[d], incidents')
  BY <1>1, <1>2, <1>3, WorkTypes
<1>. QED
  BY <1>3, <1>4 DEF TypeInv, TypeOK

\* What is stored is a row of the table.
LEMMA StoredRow ==
    ASSUME TypeInv, NEW c \in Check, work[c].pc = "store"
    PROVE  /\ Created(c, work[c]) \in IncidentRow
           /\ Created(c, work[c]).active = (Created(c, work[c]).resolved = NULL)
           /\ Created(c, work[c]).muted => Created(c, work[c]).cause # NULL
           /\ work[c].inc # NULL =>
                 /\ Reopened(c, work[c]) \in IncidentRow
                 /\ Reopened(c, work[c]).active = (Reopened(c, work[c]).resolved = NULL)
                 /\ Reopened(c, work[c]).muted => Reopened(c, work[c]).cause # NULL
                 /\ Reopened(c, work[c]).check = c
<1>. TypeOK /\ work[c] \in Work /\ WellFormed(c, work[c], incidents)
  BY DEF TypeInv, TypeOK
<1>1. work[c].at \in Time /\ work[c].onset \in Time /\ work[c].root \in MaybeIncident
  BY DEF Work, WellFormed
<1>2. /\ Created(c, work[c]) \in IncidentRow
      /\ Created(c, work[c]).active = (Created(c, work[c]).resolved = NULL)
      /\ Created(c, work[c]).muted => Created(c, work[c]).cause # NULL
  BY <1>1 DEF Created, IncidentRow, MaybeTime
<1>3. ASSUME work[c].inc # NULL
      PROVE  /\ Reopened(c, work[c]) \in IncidentRow
             /\ Reopened(c, work[c]).active = (Reopened(c, work[c]).resolved = NULL)
             /\ Reopened(c, work[c]).muted => Reopened(c, work[c]).cause # NULL
             /\ Reopened(c, work[c]).check = c
  <2>1. incidents[work[c].inc] \in IncidentRow /\ incidents[work[c].inc].check = c
    BY <1>3, RowsAreIncidents DEF WellFormed
  <2>. QED
    BY <1>1, <2>1 DEF Reopened, IncidentRow, MaybeTime
<1>. QED
  BY <1>2, <1>3

LEMMA StoreTypes ==
    ASSUME TypeInv, NEW c \in Check, Store(c)
    PROVE  TypeInv'
<1>. DEFINE w == work[c]
            i == IF w.inc = NULL THEN Len(incidents) + 1 ELSE w.inc
            v == [w EXCEPT !.pc = "adopt", !.inc = i, !.root = NULL, !.onset = NULL]
<1>. TypeOK /\ w \in Work /\ hist[c] \in History /\ WellFormed(c, w, incidents)
  BY DEF TypeInv, TypeOK
<1>1. w.pc = "store" /\ w.kids = {} /\ w.at \in Time
  BY DEF Store, TypeOK, WellFormed
<1>2. /\ i \in Incident
      /\ incidents' \in Seq(IncidentRow) /\ Len(incidents') <= MaxIncidents
      /\ i \in DOMAIN incidents' /\ incidents'[i].check = c
      /\ \A j \in DOMAIN incidents' :
            /\ incidents'[j].active = (incidents'[j].resolved = NULL)
            /\ incidents'[j].muted => incidents'[j].cause # NULL
      /\ Kept
  <2>1. CASE w.inc = NULL
    <3>. DEFINE row == Created(c, w)
    <3>1. incidents' = Append(incidents, row) /\ Len(incidents) + 1 <= MaxIncidents
      BY <2>1 DEF Store
    <3>2. /\ row \in IncidentRow
          /\ row.active = (row.resolved = NULL)
          /\ row.muted => row.cause # NULL
      BY <1>1, StoredRow
    <3>3. row.check = c
      BY DEF Created
    <3>. HIDE DEF row
    <3>4. /\ incidents' \in Seq(IncidentRow) /\ Len(incidents') = Len(incidents) + 1
          /\ \A j \in DOMAIN incidents : incidents'[j] = incidents[j]
          /\ incidents'[Len(incidents) + 1] = row
          /\ DOMAIN incidents' = DOMAIN incidents \cup {Len(incidents) + 1}
      BY <3>1, <3>2 DEF TypeOK
    <3>. QED
      BY <2>1, <3>1, <3>2, <3>3, <3>4 DEF TypeOK, Kept, Incident
  <2>2. CASE w.inc # NULL
    <3>. DEFINE row == Reopened(c, w)
    <3>1. incidents' = [incidents EXCEPT ![w.inc] = row] /\ w.inc \in DOMAIN incidents
      BY <2>2 DEF Store, WellFormed
    <3>2. /\ row \in IncidentRow
          /\ row.active = (row.resolved = NULL)
          /\ row.muted => row.cause # NULL
          /\ row.check = c
      BY <1>1, <2>2, StoredRow
    <3>. HIDE DEF row
    <3>3. /\ incidents' \in Seq(IncidentRow) /\ Len(incidents') = Len(incidents)
          /\ DOMAIN incidents' = DOMAIN incidents
          /\ \A j \in DOMAIN incidents : incidents'[j] = IF j = w.inc THEN row ELSE incidents[j]
      BY <3>1, <3>2 DEF TypeOK
    <3>4. incidents[w.inc].check = c /\ w.inc \in Incident
      BY <2>2, <3>1, RowsAreIncidents DEF WellFormed
    <3>. QED
      BY <2>2, <3>2, <3>3, <3>1, <3>4 DEF TypeOK, Kept
  <2>. QED
    BY <2>1, <2>2
<1>3. /\ work' = [work EXCEPT ![c] = v]
      /\ UNCHANGED <<now, check, ops>>
      /\ hist' \in [Check -> History]
  <2>. DEFINE late == w.root \in {j \in DOMAIN incidents : ~incidents[j].active}
  <2>1. late \in BOOLEAN
    OBVIOUS
  <2>2. hist' = [hist EXCEPT ![c].late = late]
    BY DEF Store
  <2>. HIDE DEF late
  <2>3. hist' \in [Check -> History]
    BY <2>1, <2>2 DEF TypeOK, History
  <2>. QED
    BY <2>3 DEF Store
<1>. HIDE DEF i
<1>4. v \in Work /\ v.kids = {} /\ v.pc = "adopt" /\ WellFormed(c, v, incidents')
  <2>1. v \in Work /\ v.kids = {} /\ v.pc = "adopt" /\ v.at = w.at /\ v.inc = i
    BY <1>1, <1>2 DEF Work, MaybeIncident, MaybeTime
  <2>2. i # NULL
    BY <1>2 DEF Incident
  <2>. HIDE DEF v
  <2>. QED
    BY <1>1, <1>2, <2>1, <2>2 DEF WellFormed
<1>. HIDE DEF v
<1>5. /\ work' \in [Check -> Work]
      /\ \A d \in Check : (work'[d].kids # {}) = (work'[d].pc = "children")
      /\ \A d \in Check : WellFormed(d, work'[d], incidents')
  BY <1>2, <1>3, <1>4, WorkTypes
<1>. QED
  BY <1>2, <1>3, <1>5 DEF TypeInv, TypeOK

\* A step that rewrites the open incidents of the table in place.
LEMMA TableTypes ==
    ASSUME TypeInv, NEW f, DOMAIN f = DOMAIN incidents,
           f = [i \in DOMAIN incidents |-> f[i]],
           \A i \in DOMAIN incidents :
               /\ f[i] \in IncidentRow /\ f[i].check = incidents[i].check
               /\ f[i].active = (f[i].resolved = NULL)
               /\ f[i].muted => f[i].cause # NULL,
           incidents' = f
    PROVE  /\ incidents' \in Seq(IncidentRow) /\ Len(incidents') <= MaxIncidents
           /\ \A i \in DOMAIN incidents' :
                 /\ incidents'[i].active = (incidents'[i].resolved = NULL)
                 /\ incidents'[i].muted => incidents'[i].cause # NULL
           /\ Kept
<1>1. f \in [DOMAIN incidents -> IncidentRow]
  OBVIOUS
<1>2. f \in Seq(IncidentRow) /\ Len(f) = Len(incidents) /\ DOMAIN f = DOMAIN incidents
  BY <1>1, RowsRewritten DEF TypeInv
<1>. QED
  BY <1>2 DEF TypeInv, TypeOK, Kept

LEMMA AdoptTypes ==
    ASSUME TypeInv, NEW c \in Check, Adopt(c)
    PROVE  TypeInv'
<1>. DEFINE w == work[c]
<1>. TypeOK /\ w \in Work /\ WellFormed(c, w, incidents)
  BY DEF TypeInv, TypeOK
<1>1. /\ incidents' \in Seq(IncidentRow) /\ Len(incidents') <= MaxIncidents
      /\ \A i \in DOMAIN incidents' :
            /\ incidents'[i].active = (incidents'[i].resolved = NULL)
            /\ incidents'[i].muted => incidents'[i].cause # NULL
      /\ Kept
  <2>. DEFINE f == [j \in DOMAIN incidents |->
                       IF j \in Adopted(c, w.inc)
                       THEN [incidents[j] EXCEPT !.muted = TRUE, !.cause = w.inc]
                       ELSE incidents[j]]
  <2>1. w.inc \in Incident /\ w.inc # NULL
    BY DEF Adopt, WellFormed, Work, MaybeIncident
  <2>2. ASSUME NEW j \in DOMAIN incidents
        PROVE  /\ f[j] \in IncidentRow /\ f[j].check = incidents[j].check
               /\ f[j].active = (f[j].resolved = NULL)
               /\ f[j].muted => f[j].cause # NULL
    <3>1. incidents[j] \in IncidentRow
      BY RowsAreIncidents
    <3>. QED
      BY <2>1, <3>1 DEF TypeOK, IncidentRow, MaybeIncident
  <2>3. incidents' = f
    BY DEF Adopt
  <2>. HIDE DEF f
  <2>4. DOMAIN f = DOMAIN incidents /\ f = [j \in DOMAIN incidents |-> f[j]]
    BY DEF f
  <2>. QED
    BY <2>2, <2>3, <2>4, TableTypes
<1>2. Idle \in Work /\ Idle.kids = {} /\ Idle.pc = "idle" /\ WellFormed(c, Idle, incidents')
  BY DEF Work, Idle, WellFormed, MaybeTime, MaybeIncident
<1>3. work' = [work EXCEPT ![c] = Idle] /\ UNCHANGED <<now, check, ops, hist>>
  BY DEF Adopt
<1>4. /\ work' \in [Check -> Work]
      /\ \A d \in Check : (work'[d].kids # {}) = (work'[d].pc = "children")
      /\ \A d \in Check : WellFormed(d, work'[d], incidents')
  BY <1>1, <1>2, <1>3, WorkTypes
<1>. QED
  BY <1>1, <1>3, <1>4 DEF TypeInv, TypeOK

LEMMA ResolveTypes ==
    ASSUME TypeInv, NEW c \in Check, Resolve(c)
    PROVE  TypeInv'
<1>. DEFINE w == work[c]
            v == [w EXCEPT !.pc = "release"]
<1>. TypeOK /\ w \in Work /\ WellFormed(c, w, incidents)
  BY DEF TypeInv, TypeOK
<1>1. w.pc = "resolve" /\ w.kids = {} /\ w.at \in Time /\ w.inc # NULL
  BY DEF Resolve, TypeOK, WellFormed
<1>2. /\ incidents' \in Seq(IncidentRow) /\ Len(incidents') <= MaxIncidents
      /\ \A i \in DOMAIN incidents' :
            /\ incidents'[i].active = (incidents'[i].resolved = NULL)
            /\ incidents'[i].muted => incidents'[i].cause # NULL
      /\ Kept
  <2>. DEFINE f == [incidents EXCEPT ![w.inc].active = FALSE, ![w.inc].resolved = w.at]
  <2>1. ASSUME NEW j \in DOMAIN incidents
        PROVE  /\ f[j] \in IncidentRow /\ f[j].check = incidents[j].check
               /\ f[j].active = (f[j].resolved = NULL)
               /\ f[j].muted => f[j].cause # NULL
    <3>1. incidents[j] \in IncidentRow
      BY RowsAreIncidents
    <3>2. f[j] = IF j = w.inc THEN [incidents[j] EXCEPT !.active = FALSE, !.resolved = w.at]
                 ELSE incidents[j]
      OBVIOUS
    <3>. QED
      BY <1>1, <3>1, <3>2 DEF TypeOK, IncidentRow, MaybeTime
  <2>2. incidents' = f
    BY DEF Resolve
  <2>3. DOMAIN f = DOMAIN incidents /\ f = [j \in DOMAIN incidents |-> f[j]]
    OBVIOUS
  <2>. HIDE DEF f
  <2>. QED
    BY <2>1, <2>2, <2>3, TableTypes
<1>3. /\ work' = [work EXCEPT ![c] = v]
      /\ hist' \in [Check -> History]
      /\ UNCHANGED <<now, check, ops>>
  <2>1. hist[c] \in History /\ hist \in [Check -> History]
    BY DEF TypeOK
  <2>2. [hist[c] EXCEPT !.relapse = TRUE] \in History
    BY <2>1 DEF History
  <2>3. hist' = [hist EXCEPT ![c] = [hist[c] EXCEPT !.relapse = TRUE]]
    BY DEF Resolve
  <2>4. hist' \in [Check -> History]
    BY <2>1, <2>2, <2>3
  <2>5. work' = [work EXCEPT ![c] = v] /\ UNCHANGED <<now, check, ops>>
    BY DEF Resolve
  <2>. QED
    BY <2>4, <2>5
<1>4. v \in Work /\ v.kids = {} /\ v.pc = "release" /\ WellFormed(c, v, incidents')
  BY <1>1, <1>2 DEF Work, WellFormed, Kept
<1>5. /\ work' \in [Check -> Work]
      /\ \A d \in Check : (work'[d].kids # {}) = (work'[d].pc = "children")
      /\ \A d \in Check : WellFormed(d, work'[d], incidents')
  BY <1>2, <1>3, <1>4, WorkTypes
<1>. QED
  BY <1>2, <1>3, <1>5 DEF TypeInv, TypeOK

LEMMA ReleaseTypes ==
    ASSUME TypeInv, NEW c \in Check, Release(c)
    PROVE  TypeInv'
<1>. DEFINE w == work[c]
            kids == MutedUnder(w.inc)
            v == IF kids = {} THEN Idle ELSE [w EXCEPT !.pc = "children", !.kids = kids]
<1>. TypeOK /\ w \in Work /\ WellFormed(c, w, incidents)
  BY DEF TypeInv, TypeOK
<1>1. kids \subseteq DOMAIN incidents /\ kids \subseteq Incident
  BY RowsAreIncidents DEF MutedUnder
<1>2. /\ work' = [work EXCEPT ![c] = v]
      /\ UNCHANGED <<now, check, incidents, ops, hist>>
  BY DEF Release
<1>. HIDE DEF kids
<1>3. /\ v \in Work /\ (v.kids # {}) = (v.pc = "children")
      /\ Kept /\ WellFormed(c, v, incidents')
  <2>1. CASE kids = {}
    BY <1>2, <2>1 DEF Work, Idle, WellFormed, MaybeTime, MaybeIncident, Kept
  <2>2. CASE kids # {}
    <3>1. w.pc = "release" /\ w.inc # NULL /\ w.at \in Time
      BY DEF Release, WellFormed
    <3>. QED
      BY <1>1, <1>2, <2>2, <3>1 DEF Work, WellFormed, Kept
  <2>. QED
    BY <2>1, <2>2
<1>4. /\ work' \in [Check -> Work]
      /\ \A d \in Check : (work'[d].kids # {}) = (work'[d].pc = "children")
      /\ \A d \in Check : WellFormed(d, work'[d], incidents')
  BY <1>2, <1>3, WorkTypes
<1>. QED
  BY <1>2, <1>4 DEF TypeInv, TypeOK

LEMMA ReleaseChildTypes ==
    ASSUME TypeInv, NEW c \in Check, ReleaseChild(c)
    PROVE  TypeInv'
<1>. DEFINE w == work[c]
<1>. TypeOK /\ w \in Work /\ WellFormed(c, w, incidents)
  BY DEF TypeInv, TypeOK
<1>1. PICK j \in w.kids :
          LET child == check[incidents[j].check]
          IN  /\ incidents' = IF child.deleted THEN incidents
                              ELSE [incidents EXCEPT ![j].muted = FALSE,
                                       ![j].paged = @ \/ child.status \in {"down", "stale"}]
              /\ work' = [work EXCEPT ![c] = IF w.kids = {j} THEN Idle
                                             ELSE [w EXCEPT !.kids = @ \ {j}]]
  BY DEF ReleaseChild
<1>2. j \in DOMAIN incidents /\ incidents[j] \in IncidentRow
  BY RowsAreIncidents DEF WellFormed
<1>. DEFINE paged == incidents[j].paged \/ check[incidents[j].check].status \in {"down", "stale"}
            f == [incidents EXCEPT ![j] = [@ EXCEPT !.muted = FALSE, !.paged = paged]]
            rest == w.kids \ {j}
            v == IF w.kids = {j} THEN Idle ELSE [w EXCEPT !.kids = rest]
<1>3. /\ incidents' \in Seq(IncidentRow) /\ Len(incidents') <= MaxIncidents
      /\ \A i \in DOMAIN incidents' :
            /\ incidents'[i].active = (incidents'[i].resolved = NULL)
            /\ incidents'[i].muted => incidents'[i].cause # NULL
      /\ Kept
  <2>1. CASE check[incidents[j].check].deleted
    BY <1>1, <2>1 DEF TypeOK, Kept
  <2>2. CASE ~check[incidents[j].check].deleted
    <3>1. paged \in BOOLEAN
      BY <1>2 DEF IncidentRow
    <3>2. incidents' = f
      BY <1>1, <1>2, <2>2
    <3>. HIDE DEF paged
    <3>3. ASSUME NEW i \in DOMAIN incidents
          PROVE  /\ f[i] \in IncidentRow /\ f[i].check = incidents[i].check
                 /\ f[i].active = (f[i].resolved = NULL)
                 /\ f[i].muted => f[i].cause # NULL
      <4>1. incidents[i] \in IncidentRow
        BY RowsAreIncidents
      <4>2. f[i] = IF i # j THEN incidents[i]
                   ELSE [incidents[i] EXCEPT !.muted = FALSE, !.paged = paged]
        OBVIOUS
      <4>3. CASE i # j
        BY <4>1, <4>2, <4>3 DEF TypeOK
      <4>4. CASE i = j
        <5>. DEFINE row == [incidents[i] EXCEPT !.muted = FALSE, !.paged = paged]
        <5>1. /\ row \in IncidentRow /\ row.check = incidents[i].check /\ ~row.muted
              /\ row.active = incidents[i].active /\ row.resolved = incidents[i].resolved
          BY <3>1, <4>1 DEF IncidentRow
        <5>2. f[i] = row
          BY <4>2, <4>4
        <5>. HIDE DEF row, f
        <5>. QED
          BY <5>1, <5>2 DEF TypeOK
      <4>. QED
        BY <4>3, <4>4
    <3>4. DOMAIN f = DOMAIN incidents /\ f = [i \in DOMAIN incidents |-> f[i]]
      OBVIOUS
    <3>. HIDE DEF f
    <3>. QED
      BY <3>2, <3>3, <3>4, TableTypes
  <2>. QED
    BY <2>1, <2>2
<1>4. work' = [work EXCEPT ![c] = v]
  <2>1. CASE w.kids = {j}
    BY <1>1, <2>1
  <2>2. CASE w.kids # {j}
    BY <1>1, <2>2
  <2>. QED
    BY <2>1, <2>2
<1>5. v \in Work /\ (v.kids # {}) = (v.pc = "children") /\ WellFormed(c, v, incidents')
  <2>1. CASE w.kids = {j}
    BY <2>1 DEF Work, Idle, WellFormed, MaybeTime, MaybeIncident
  <2>2. CASE w.kids # {j}
    <3>1. w.pc = "children" /\ rest # {} /\ w.at \in Time
      BY <2>2 DEF ReleaseChild, WellFormed
    <3>2. rest \subseteq Incident /\ rest \subseteq w.kids
      BY DEF Work
    <3>3. v = [w EXCEPT !.kids = rest]
      BY <2>2
    <3>. HIDE DEF v, rest
    <3>4. /\ v \in Work /\ v.kids = rest /\ v.pc = "children"
          /\ v.at = w.at /\ v.inc = w.inc
      BY <3>1, <3>2, <3>3 DEF Work
    <3>5. w.kids \subseteq DOMAIN incidents
          /\ (w.inc # NULL => w.inc \in DOMAIN incidents /\ incidents[w.inc].check = c)
      BY DEF WellFormed
    <3>6. DOMAIN incidents \subseteq DOMAIN incidents'
          /\ \A i \in DOMAIN incidents : incidents'[i].check = incidents[i].check
      BY <1>3 DEF Kept
    <3>. QED
      BY <3>1, <3>2, <3>4, <3>5, <3>6 DEF WellFormed
  <2>. QED
    BY <2>1, <2>2
<1>. HIDE DEF v
<1>6. UNCHANGED <<now, check, ops, hist>>
  BY DEF ReleaseChild
<1>7. /\ work' \in [Check -> Work]
      /\ \A d \in Check : (work'[d].kids # {}) = (work'[d].pc = "children")
      /\ \A d \in Check : WellFormed(d, work'[d], incidents')
  BY <1>3, <1>4, <1>5, WorkTypes
<1>. QED
  BY <1>3, <1>6, <1>7 DEF TypeInv, TypeOK

LEMMA SweepTypes ==
    ASSUME TypeInv, NEW c \in Check, Sweep(c)
    PROVE  TypeInv'
<1>. TypeOK /\ check[c] \in CheckRow /\ hist[c] \in History
  BY DEF TypeInv, TypeOK
<1>1. check' \in [Check -> CheckRow]
  BY DEF Sweep, TypeOK, CheckRow, Status, MaybeTime
<1>2. hist' \in [Check -> History]
  BY DEF Sweep, TypeOK, History, MaybeTime
<1>. QED
  BY <1>1, <1>2 DEF Sweep, TypeInv, TypeOK

\* A step that gives no check other work, and keeps the rows.
LEMMA WorkStays ==
    ASSUME TypeInv, Kept, UNCHANGED work
    PROVE  \A d \in Check : WellFormed(d, work'[d], incidents')
  BY DEF TypeInv, Kept, WellFormed

\* A user's step rewrites one incident, or those of one check.
LEMMA UserTypes ==
    ASSUME TypeInv, User
    PROVE  TypeInv'
<1>. TypeOK
  BY DEF TypeInv
<1>. DEFINE Table == /\ incidents' \in Seq(IncidentRow) /\ Len(incidents') <= MaxIncidents
                     /\ \A i \in DOMAIN incidents' :
                           /\ incidents'[i].active = (incidents'[i].resolved = NULL)
                           /\ incidents'[i].muted => incidents'[i].cause # NULL
                     /\ Kept
<1>1. ops' \in 0 .. MaxOps /\ UNCHANGED <<now, work>>
  BY DEF User, TypeOK
<1>2. ASSUME Table, check' \in [Check -> CheckRow], hist' \in [Check -> History]
      PROVE  TypeInv'
  <2>1. \A d \in Check : WellFormed(d, work'[d], incidents')
    BY <1>1, <1>2, WorkStays
  <2>. QED
    BY <1>1, <1>2, <2>1 DEF TypeInv, TypeOK
<1>3. ASSUME NEW i \in DOMAIN incidents, NEW row \in IncidentRow,
             row.check = incidents[i].check, row.active = (row.resolved = NULL),
             row.muted => row.cause # NULL,
             incidents' = [incidents EXCEPT ![i] = row]
      PROVE  Table
  <2>. DEFINE f == [incidents EXCEPT ![i] = row]
  <2>1. ASSUME NEW j \in DOMAIN incidents
        PROVE  /\ f[j] \in IncidentRow /\ f[j].check = incidents[j].check
               /\ f[j].active = (f[j].resolved = NULL)
               /\ f[j].muted => f[j].cause # NULL
    <3>1. incidents[j] \in IncidentRow /\ f[j] = IF j = i THEN row ELSE incidents[j]
      BY RowsAreIncidents
    <3>. QED
      BY <1>3, <3>1 DEF TypeOK
  <2>2. DOMAIN f = DOMAIN incidents /\ f = [j \in DOMAIN incidents |-> f[j]]
    OBVIOUS
  <2>. HIDE DEF f
  <2>3. incidents' = f
    BY <1>3 DEF f
  <2>. QED
    BY <2>1, <2>2, <2>3, TableTypes
<1>. HIDE DEF Table
<1>4. ASSUME NEW i \in DOMAIN incidents, Acknowledge(i) \/ Unacknowledge(i)
      PROVE  TypeInv'
  <2>1. PICK a \in BOOLEAN : incidents' = [incidents EXCEPT ![i].acked = a]
    BY <1>4 DEF Acknowledge, Unacknowledge
  <2>. DEFINE row == [incidents[i] EXCEPT !.acked = a]
  <2>2. incidents[i] \in IncidentRow /\ incidents' = [incidents EXCEPT ![i] = row]
    BY <2>1, RowsAreIncidents
  <2>3. /\ row \in IncidentRow /\ row.check = incidents[i].check
        /\ row.active = (row.resolved = NULL) /\ (row.muted => row.cause # NULL)
    BY <2>2 DEF IncidentRow, TypeOK
  <2>. HIDE DEF row
  <2>4. Table
    BY <1>3, <2>2, <2>3
  <2>. QED
    BY <1>2, <1>4, <2>4 DEF Acknowledge, Unacknowledge, TypeOK
<1>5. ASSUME NEW i \in DOMAIN incidents, ManualResolve(i)
      PROVE  TypeInv'
  <2>. DEFINE row == [incidents[i] EXCEPT !.active = FALSE, !.resolved = now, !.byUser = TRUE]
  <2>1. incidents[i] \in IncidentRow /\ incidents' = [incidents EXCEPT ![i] = row]
    BY <1>5, RowsAreIncidents DEF ManualResolve
  <2>2. /\ row \in IncidentRow /\ row.check = incidents[i].check
        /\ row.active = (row.resolved = NULL) /\ (row.muted => row.cause # NULL)
    BY <2>1 DEF IncidentRow, TypeOK, MaybeTime
  <2>. HIDE DEF row
  <2>3. Table
    BY <1>3, <2>1, <2>2
  <2>4. hist' \in [Check -> History]
    <3>. DEFINE c == incidents[i].check
    <3>1. c \in Check /\ hist[c] \in History
      BY <2>1 DEF IncidentRow, TypeOK
    <3>2. hist' = [hist EXCEPT ![c] = [hist[c] EXCEPT !.closed = TRUE, !.relapse = TRUE]]
      BY <1>5, <3>1 DEF ManualResolve, TypeOK
    <3>. HIDE DEF c
    <3>. QED
      BY <3>1, <3>2 DEF TypeOK, History
  <2>. QED
    BY <1>2, <1>5, <2>3, <2>4 DEF ManualResolve, TypeOK
<1>6. ASSUME NEW c \in Check, DeleteCheck(c)
      PROVE  TypeInv'
  <2>. DEFINE f == [i \in DOMAIN incidents |->
                       IF i \in Active(c) THEN [incidents[i] EXCEPT !.active = FALSE, !.resolved = now]
                       ELSE incidents[i]]
  <2>1. incidents' = f /\ DOMAIN f = DOMAIN incidents /\ f = [j \in DOMAIN incidents |-> f[j]]
    BY <1>6 DEF DeleteCheck
  <2>2. ASSUME NEW j \in DOMAIN incidents
        PROVE  /\ f[j] \in IncidentRow /\ f[j].check = incidents[j].check
               /\ f[j].active = (f[j].resolved = NULL)
               /\ f[j].muted => f[j].cause # NULL
    <3>1. incidents[j] \in IncidentRow
      BY RowsAreIncidents
    <3>. QED
      BY <3>1 DEF TypeOK, IncidentRow, MaybeTime
  <2>. HIDE DEF f
  <2>3. Table
    BY <2>1, <2>2, TableTypes DEF Table
  <2>4. check' \in [Check -> CheckRow]
    <3>1. check \in [Check -> CheckRow]
      BY DEF TypeOK
    <3>2. [check[c] EXCEPT !.deleted = TRUE] \in CheckRow
      BY <3>1 DEF CheckRow
    <3>3. check' = [check EXCEPT ![c] = [check[c] EXCEPT !.deleted = TRUE]]
      BY <1>6 DEF DeleteCheck
    <3>. QED
      BY <3>1, <3>2, <3>3
  <2>. QED
    BY <1>2, <1>6, <2>3, <2>4 DEF DeleteCheck, TypeOK
<1>7. ASSUME NEW c \in Check, ToggleWindow(c)
      PROVE  TypeInv'
  <2>1. Table
    BY <1>7 DEF ToggleWindow, Table, TypeOK, Kept
  <2>2. check' \in [Check -> CheckRow]
    <3>1. check[c] \in CheckRow /\ check' = [check EXCEPT ![c].window = ~check[c].window]
      BY <1>7 DEF ToggleWindow, TypeOK
    <3>. QED
      BY <3>1 DEF TypeOK, CheckRow
  <2>. QED
    BY <1>2, <1>7, <2>1, <2>2 DEF ToggleWindow, TypeOK
<1>. QED
  BY <1>4, <1>5, <1>6, <1>7 DEF User

\* Every step keeps the types.
LEMMA TypeStep ==
    ASSUME TypeInv, [Next]_vars
    PROVE  TypeInv'
<1>1. ASSUME NEW c \in Check, Process(c)
      PROVE  TypeInv'
  BY <1>1, ReadTypes, ReadInWindowTypes, WriteTypes, OpenTypes, StoreTypes, AdoptTypes,
     ResolveTypes, ReleaseTypes, ReleaseChildTypes DEF Process
<1>2. ASSUME NEW c \in Check, Sweep(c)
      PROVE  TypeInv'
  BY <1>2, SweepTypes
<1>3. CASE User
  BY <1>3, UserTypes
<1>4. CASE Tick
  <2>1. now' \in Time
    BY <1>4 DEF Tick, TypeInv, TypeOK, Time
  <2>. QED
    BY <1>4, <2>1 DEF Tick, TypeInv, TypeOK
<1>5. CASE UNCHANGED vars
  BY <1>5 DEF vars, TypeInv, TypeOK
<1>. QED
  BY <1>1, <1>2, <1>3, <1>4, <1>5 DEF Next

\* The initial states have the types.
LEMMA TypeInit ==
    ASSUME Init
    PROVE  TypeInv
<1>1. 0 \in Time /\ 0 \in 0 .. MaxOps
  BY DEF Time
<1>2. check \in [Check -> CheckRow] /\ hist \in [Check -> History]
  BY <1>1 DEF Init, CheckRow, History, Status, MaybeTime
<1>3. work = [c \in Check |-> Idle]
  BY DEF Init
<1>4. Idle \in Work /\ Idle.kids = {} /\ Idle.pc = "idle" /\ Idle.inc = NULL
  BY DEF Idle, Work, MaybeTime, MaybeIncident
<1>5. \A c \in Check : WellFormed(c, Idle, incidents)
  BY <1>4 DEF WellFormed
<1>6. incidents \in Seq(IncidentRow) /\ Len(incidents) = 0 /\ DOMAIN incidents = {}
  BY DEF Init
<1>7. /\ work \in [Check -> Work]
      /\ \A c \in Check : (work[c].kids # {}) = (work[c].pc = "children")
      /\ \A c \in Check : WellFormed(c, work[c], incidents)
  BY <1>3, <1>4, <1>5
<1>8. /\ Len(incidents) <= MaxIncidents
      /\ \A i \in DOMAIN incidents : /\ incidents[i].active = (incidents[i].resolved = NULL)
                                     /\ incidents[i].muted => incidents[i].cause # NULL
  BY <1>6
<1>9. now \in Time /\ ops \in 0 .. MaxOps
  BY <1>1 DEF Init
<1>. QED
  BY <1>2, <1>6, <1>7, <1>8, <1>9 DEF TypeInv, TypeOK

\* Every state of every behaviour is well typed: an incident is open exactly as
\* long as it has no resolution time, and a muted one names what mutes it.
THEOREM TypesCorrect == Spec => []TypeOK
<1>1. Init => TypeInv
  BY TypeInit
<1>2. TypeInv /\ [Next]_vars => TypeInv'
  BY TypeStep
<1>3. TypeInv => TypeOK
  BY DEF TypeInv
<1>. QED
  BY <1>1, <1>2, <1>3, PTL DEF Spec

-----------------------------------------------------------------------------
(* What a step leaves to the other checks.                                 *)

\* The incidents of a check, as far as its processing looks at them.
SameRows(c) ==
    /\ \A i \in DOMAIN incidents :
          /\ i \in DOMAIN incidents' /\ incidents'[i].check = incidents[i].check
          /\ incidents[i].check = c => /\ incidents'[i].active = incidents[i].active
                                       /\ incidents'[i].onset = incidents[i].onset
    /\ \A i \in DOMAIN incidents' : i \notin DOMAIN incidents => incidents'[i].check # c

\* Nothing that the invariant says of a check changes.
Untouched(c) ==
    /\ now' = now
    /\ check'[c] = check[c]
    /\ hist'[c] = hist[c]
    /\ work'[c] = work[c]
    /\ SameRows(c)

LEMMA SameActive ==
    ASSUME NEW c, SameRows(c)
    PROVE  Active(c)' = Active(c)
<1>1. \A i : i \in Active(c)' <=> i \in Active(c)
  BY DEF Active, SameRows
<1>. QED
  BY <1>1 DEF Active

LEMMA UntouchedKept ==
    ASSUME TypeInv, NEW c \in Check, CheckInv(c), Untouched(c)
    PROVE  CheckInv(c)'
<1>1. Active(c)' = Active(c) /\ \A i \in Active(c) : incidents'[i].onset = incidents[i].onset
  BY SameActive DEF Untouched, SameRows, Active
<1>2. work[c].inc # NULL => incidents'[work[c].inc].onset = incidents[work[c].inc].onset
  BY DEF TypeInv, WellFormed, Untouched, SameRows
<1>. /\ now' = now /\ check'[c] = check[c] /\ hist'[c] = hist[c] /\ work'[c] = work[c]
     /\ CheckInv(c)
  BY DEF Untouched
<1>3. Past(c)'
  BY <1>1 DEF CheckInv, Past
<1>4. SnapCurrent(c)' /\ AtHand(c)'
  BY <1>1 DEF CheckInv, SnapCurrent, AtHand
<1>5. Confirming(c)'
  BY <1>1 DEF CheckInv, Confirming, Elapsed
<1>6. Recovering(c)'
  BY <1>1, <1>2 DEF CheckInv, Recovering, Elapsed
<1>7. (\A i, j \in Active(c) : i = j)'
  BY <1>1 DEF CheckInv
<1>. QED
  BY <1>3, <1>4, <1>5, <1>6, <1>7 DEF CheckInv

\* Muting and its end touch nothing else of an incident.
LEMMA MutingSame ==
    ASSUME TypeInv, NEW c \in Check, NEW d \in Check, Adopt(d) \/ ReleaseChild(d)
    PROVE  SameRows(c)
<1>. TypeOK
  BY DEF TypeInv
<1>1. CASE Adopt(d)
  <2>1. ASSUME NEW j \in DOMAIN incidents
        PROVE  /\ incidents'[j].check = incidents[j].check
               /\ incidents'[j].active = incidents[j].active
               /\ incidents'[j].onset = incidents[j].onset
    <3>1. incidents[j] \in IncidentRow
      BY RowsAreIncidents
    <3>. QED
      BY <1>1, <3>1 DEF Adopt, IncidentRow
  <2>2. DOMAIN incidents' = DOMAIN incidents
    BY <1>1 DEF Adopt
  <2>. QED
    BY <2>1, <2>2 DEF SameRows
<1>2. CASE ReleaseChild(d)
  <2>1. PICK j \in work[d].kids :
            \E paged : incidents' \in {incidents,
                            [incidents EXCEPT ![j].muted = FALSE, ![j].paged = paged]}
    BY <1>2 DEF ReleaseChild
  <2>2. ASSUME NEW i \in DOMAIN incidents
        PROVE  /\ incidents'[i].check = incidents[i].check
               /\ incidents'[i].active = incidents[i].active
               /\ incidents'[i].onset = incidents[i].onset
    <3>1. incidents[i] \in IncidentRow
      BY RowsAreIncidents
    <3>. QED
      BY <2>1, <3>1 DEF IncidentRow
  <2>3. DOMAIN incidents' = DOMAIN incidents
    BY <2>1
  <2>. QED
    BY <2>2, <2>3 DEF SameRows
<1>. QED
  BY <1>1, <1>2

\* What the end of an incident does to the table.
LEMMA ResolvedRows ==
    ASSUME TypeInv, NEW d \in Check, Resolve(d)
    PROVE  /\ DOMAIN incidents' = DOMAIN incidents
           /\ work[d].inc \in DOMAIN incidents /\ incidents[work[d].inc].check = d
           /\ \A i \in DOMAIN incidents :
                 /\ incidents'[i].check = incidents[i].check
                 /\ incidents'[i].onset = incidents[i].onset
                 /\ i = work[d].inc => incidents'[i].active = FALSE
                 /\ i # work[d].inc => incidents'[i].active = incidents[i].active
<1>. TypeOK /\ WellFormed(d, work[d], incidents)
  BY DEF TypeInv
<1>1. work[d].inc \in DOMAIN incidents /\ incidents[work[d].inc].check = d
  BY DEF Resolve, WellFormed
<1>2. ASSUME NEW i \in DOMAIN incidents
      PROVE  /\ incidents'[i].check = incidents[i].check
             /\ incidents'[i].onset = incidents[i].onset
             /\ i = work[d].inc => incidents'[i].active = FALSE
             /\ i # work[d].inc => incidents'[i].active = incidents[i].active
  <2>1. incidents[i] \in IncidentRow
    BY RowsAreIncidents
  <2>2. incidents'[i] = IF i = work[d].inc
                        THEN [incidents[i] EXCEPT !.active = FALSE, !.resolved = work[d].at]
                        ELSE incidents[i]
    BY DEF Resolve
  <2>. QED
    BY <2>1, <2>2 DEF IncidentRow
<1>. QED
  BY <1>1, <1>2 DEF Resolve

\* The processing of one check leaves the others alone.
LEMMA OthersUntouched ==
    ASSUME TypeInv, NEW c \in Check, NEW d \in Check, c # d, Process(d) \/ Sweep(d)
    PROVE  Untouched(c)
<1>. TypeOK /\ WellFormed(d, work[d], incidents)
  BY DEF TypeInv
<1>1. CASE UNCHANGED incidents /\ (Read(d) \/ ReadInWindow(d) \/ Write(d) \/ Open(d)
                                   \/ Release(d) \/ Sweep(d))
  <2>1. SameRows(c)
    BY <1>1 DEF SameRows
  <2>2. now' = now /\ check'[c] = check[c] /\ hist'[c] = hist[c] /\ work'[c] = work[c]
    BY <1>1 DEF Read, ReadInWindow, Write, Open, Release, Sweep, TypeOK
  <2>. QED
    BY <2>1, <2>2 DEF Untouched
<1>2. CASE Store(d)
  <2>1. now' = now /\ check'[c] = check[c] /\ hist'[c] = hist[c] /\ work'[c] = work[c]
    BY <1>2 DEF Store, TypeOK
  <2>2. SameRows(c)
    <3>1. CASE work[d].inc = NULL
      <4>1. incidents' = Append(incidents, Created(d, work[d]))
        BY <1>2, <3>1 DEF Store
      <4>2. Created(d, work[d]).check = d
        BY DEF Created
      <4>. HIDE DEF Created
      <4>3. /\ DOMAIN incidents' = DOMAIN incidents \cup {Len(incidents) + 1}
            /\ incidents'[Len(incidents) + 1] = Created(d, work[d])
            /\ \A i \in DOMAIN incidents : incidents'[i] = incidents[i]
        BY <4>1, RowAppended
      <4>. QED
        BY <4>2, <4>3 DEF SameRows
    <3>2. CASE work[d].inc # NULL
      <4>1. /\ incidents' = [incidents EXCEPT ![work[d].inc] = Reopened(d, work[d])]
            /\ incidents[work[d].inc].check = d /\ work[d].inc \in DOMAIN incidents
        BY <1>2, <3>2 DEF Store, WellFormed
      <4>2. Reopened(d, work[d]).check = d
        BY <1>2, <3>2, StoredRow DEF Store
      <4>. QED
        BY <4>1, <4>2 DEF SameRows, TypeOK
    <3>. QED
      BY <3>1, <3>2
  <2>. QED
    BY <2>1, <2>2 DEF Untouched
<1>3. CASE Adopt(d) \/ ReleaseChild(d)
  <2>1. now' = now /\ check'[c] = check[c] /\ hist'[c] = hist[c] /\ work'[c] = work[c]
    BY <1>3 DEF Adopt, ReleaseChild, TypeOK
  <2>2. SameRows(c)
    BY <1>3, MutingSame
  <2>. QED
    BY <2>1, <2>2 DEF Untouched
<1>4. CASE Resolve(d)
  <2>1. now' = now /\ check'[c] = check[c] /\ hist'[c] = hist[c] /\ work'[c] = work[c]
    BY <1>4 DEF Resolve, TypeOK
  <2>2. SameRows(c)
    <3>1. /\ DOMAIN incidents' = DOMAIN incidents
          /\ work[d].inc \in DOMAIN incidents /\ incidents[work[d].inc].check = d
          /\ \A i \in DOMAIN incidents :
                /\ incidents'[i].check = incidents[i].check
                /\ incidents'[i].onset = incidents[i].onset
                /\ i = work[d].inc => incidents'[i].active = FALSE
                /\ i # work[d].inc => incidents'[i].active = incidents[i].active
      BY <1>4, ResolvedRows, Zenon
    <3>. QED
      BY <3>1 DEF SameRows
  <2>. QED
    BY <2>1, <2>2 DEF Untouched
<1>. QED
  BY <1>1, <1>2, <1>3, <1>4 DEF Process, Read, ReadInWindow, Write, Open, Release, Sweep

-----------------------------------------------------------------------------
(* What the processing of a check does to that check.                      *)

LEMMA Typed ==
    ASSUME TypeInv, NEW c \in Check
    PROVE  /\ now \in Nat /\ Time \subseteq Nat /\ NULL \notin Time
           /\ check[c] \in CheckRow /\ hist[c] \in History /\ work[c] \in Work
           /\ WellFormed(c, work[c], incidents)
           /\ {check[c].ff, check[c].fs, hist[c].bad, hist[c].ok} \subseteq Time \cup {NULL}
           /\ \A i \in DOMAIN incidents : incidents[i].onset \in Nat
<1>1. \A i \in DOMAIN incidents : incidents[i].onset \in Nat
  BY RowsAreIncidents DEF TypeInv, IncidentRow, Time
<1>. QED
  BY <1>1 DEF TypeInv, TypeOK, CheckRow, History, MaybeTime, Time

LEMMA ReadOwn ==
    ASSUME TypeInv, NEW c \in Check, CheckInv(c), Read(c)
    PROVE  CheckInv(c)'
<1>. TypeOK
  BY DEF TypeInv
<1>1. PICK sig \in Signals[c], i \in OneOf(Active(c)) :
          work' = [work EXCEPT ![c] = [Idle EXCEPT !.pc = "write", !.sig = sig, !.at = now,
                                                   !.snap = check'[c], !.inc = i]]
  BY DEF Read, Found
<1>2. /\ check'[c].ff = check[c].ff /\ check'[c].fs = check[c].fs /\ check'[c].seen = now
      /\ check'[c].status = check[c].status /\ check'[c].deleted = check[c].deleted
      /\ ~check[c].deleted
  BY DEF Read, TypeOK, CheckRow
<1>3. /\ hist'[c].bad = hist[c].bad /\ hist'[c].ok = hist[c].ok
      /\ hist'[c].relapse = hist[c].relapse
  BY DEF Read, TypeOK, History
<1>4. /\ work'[c].pc = "write" /\ work'[c].at = now /\ work'[c].inc = i
      /\ work'[c].snap = check'[c]
  BY <1>1 DEF Idle, TypeOK
<1>5. /\ incidents' = incidents /\ now' = now /\ Active(c)' = Active(c)
      /\ work[c].pc = "idle"
  BY DEF Read, Active
<1>6. \/ i = NULL /\ Active(c) = {}
      \/ i # NULL /\ i \in Active(c) /\ Active(c) = {i}
  <2>1. \A j \in Active(c) : j # NULL
    BY RowsAreIncidents DEF Active
  <2>. QED
    BY <2>1 DEF OneOf, CheckInv
<1>7. Past(c)'
  BY <1>2, <1>3, <1>4, <1>5, Typed DEF CheckInv, Past
<1>8. SnapCurrent(c)'
  BY <1>4 DEF SnapCurrent
<1>9. AtHand(c)'
  BY <1>4, <1>5, <1>6 DEF AtHand
<1>10. Confirming(c)'
  BY <1>2, <1>3, <1>4, <1>5, <1>6 DEF CheckInv, Confirming
<1>11. Recovering(c)'
  <2>1. \A j \in Active(c) : incidents[j].onset <= now
    BY DEF CheckInv, Past
  <2>. QED
    BY <1>2, <1>3, <1>4, <1>5, <1>6, <2>1 DEF CheckInv, Recovering
<1>12. (\A k, j \in Active(c) : k = j)'
  BY <1>5 DEF CheckInv
<1>. QED
  BY <1>7, <1>8, <1>9, <1>10, <1>11, <1>12 DEF CheckInv

LEMMA ReadInWindowOwn ==
    ASSUME TypeInv, NEW c \in Check, CheckInv(c), ReadInWindow(c)
    PROVE  CheckInv(c)'
<1>. TypeOK
  BY DEF TypeInv
<1>1. PICK sig \in Signals[c], s \in Status :
          /\ s \in IF check[c].status = "stale" THEN ResumedStatus(c, sig)
                   ELSE {check[c].status}
          /\ check' = [check EXCEPT ![c].seen = now, ![c].status = s]
  BY DEF ReadInWindow
<1>2. s = "down" => check[c].status = "down" \/ Active(c) # {}
  <2>1. \A x : x \in ResumedStatus(c, sig) /\ x = "down" => Active(c) # {}
    <3>1. sig \in Signal
      OBVIOUS
    <3>. QED
      BY <3>1 DEF ResumedStatus, Found, Signal
  <2>. QED
    BY <1>1, <2>1
<1>3. /\ check'[c].ff = check[c].ff /\ check'[c].fs = check[c].fs
      /\ check'[c].status = s /\ check'[c].deleted = check[c].deleted
  BY <1>1 DEF TypeOK, CheckRow
<1>4. /\ work' = work /\ hist' = hist /\ incidents' = incidents /\ now' = now
      /\ Active(c)' = Active(c) /\ work[c].pc = "idle"
  BY DEF ReadInWindow, Active
<1>5. Past(c)' /\ SnapCurrent(c)'
  BY <1>3, <1>4 DEF CheckInv, Past, SnapCurrent
<1>6. AtHand(c)'
  BY <1>2, <1>3, <1>4 DEF CheckInv, AtHand
<1>7. Confirming(c)' /\ Recovering(c)'
  BY <1>3, <1>4 DEF CheckInv, Confirming, Recovering
<1>. QED
  BY <1>4, <1>5, <1>6, <1>7 DEF CheckInv

LEMMA OpenOwn ==
    ASSUME TypeInv, NEW c \in Check, CheckInv(c), Open(c)
    PROVE  CheckInv(c)'
<1>. TypeOK
  BY DEF TypeInv
<1>1. /\ check' = check /\ hist' = hist /\ incidents' = incidents /\ now' = now
      /\ Active(c)' = Active(c) /\ work[c].pc = "open"
  BY DEF Open, Active
<1>2. \/ work'[c] = Idle /\ check[c].deleted
      \/ /\ work'[c].pc = "store" /\ work'[c].at = work[c].at
         /\ work'[c].onset \in {work[c].at, now}
  <2>1. CASE check[c].deleted
    BY <2>1 DEF Open, TypeOK
  <2>2. CASE ~check[c].deleted
    <3>1. PICK found \in OneOf(RecentlyResolved(c)), r \in OneOf(Roots(c, work[c].at)) :
              LET i == IF found # NULL /\ MayReopen(found) THEN found ELSE NULL
              IN  work' = [work EXCEPT ![c].pc = "store", ![c].inc = i, ![c].root = r,
                                       ![c].onset = IF i = NULL THEN work[c].at ELSE now]
      BY <2>2 DEF Open
    <3>. DEFINE i == IF found # NULL /\ MayReopen(found) THEN found ELSE NULL
                at == IF i = NULL THEN work[c].at ELSE now
    <3>2. work'[c] = [work[c] EXCEPT !.pc = "store", !.inc = i, !.root = r, !.onset = at]
      BY <3>1 DEF TypeOK
    <3>3. at \in {work[c].at, now}
      OBVIOUS
    <3>. HIDE DEF i, at
    <3>. QED
      BY <3>2, <3>3, Typed DEF Work
  <2>. QED
    BY <2>1, <2>2
<1>3. work'[c].pc \in {"idle", "store"}
  BY <1>2 DEF Idle
<1>4. work[c].at <= now
  BY <1>1 DEF CheckInv, Past
<1>5. Past(c)' /\ SnapCurrent(c)'
  BY <1>1, <1>2 DEF CheckInv, Past, SnapCurrent, Idle
<1>6. AtHand(c)'
  BY <1>1, <1>2, <1>4, Typed DEF CheckInv, AtHand, Idle
<1>7. Confirming(c)' /\ Recovering(c)'
  BY <1>1, <1>2, <1>3 DEF CheckInv, Confirming, Recovering, Elapsed, Idle
<1>. QED
  BY <1>1, <1>5, <1>6, <1>7 DEF CheckInv

\* What a write makes of the clocks and of the history.
LEMMA Written ==
    ASSUME TypeInv, NEW c \in Check, Write(c)
    PROVE  LET w == work[c]
               h == hist[c]
           IN
           /\ w.pc = "write" /\ w.sig \in Signal /\ now' = now /\ incidents' = incidents
           /\ check'[c].deleted = check[c].deleted /\ check'[c].seen = check[c].seen
           /\ check[c].deleted => check'[c] = check[c]
           /\ ~check[c].deleted => /\ check'[c].ff = FF(w, check[c].ff)
                                   /\ check'[c].fs = FS(w, check[c].fs)
           /\ hist'[c].closed = h.closed
           /\ w.sig \in Failure =>
                 /\ hist'[c].bad = IF h.bad = NULL /\ w.inc = NULL THEN now ELSE h.bad
                 /\ hist'[c].ok = NULL /\ hist'[c].relapse = h.relapse
           /\ w.sig \in Success =>
                 /\ hist'[c].ok = IF h.ok = NULL THEN now ELSE h.ok
                 /\ hist'[c].bad = NULL
                 /\ hist'[c].relapse <=> h.relapse /\ w.inc # NULL
           /\ w.sig = "warning" => hist'[c] = h
<1>. DEFINE w == work[c]
            h == hist[c]
<1>. TypeOK /\ w \in Work /\ h \in History /\ check[c] \in CheckRow /\ w.pc = "write"
  BY Typed DEF TypeInv, Write
<1>1. w.sig \in Signal
  BY DEF TypeInv, WellFormed
<1>2. hist'[c] = Observed(h, w)
  BY DEF Write, TypeOK
<1>3. check'[c] = IF check[c].deleted THEN check[c]
                  ELSE [check[c] EXCEPT !.status = check'[c].status,
                                        !.ff = FF(w, check[c].ff), !.fs = FS(w, check[c].fs)]
  BY DEF Write, TypeOK, CheckRow
<1>4. /\ check'[c].deleted = check[c].deleted /\ check'[c].seen = check[c].seen
      /\ check[c].deleted => check'[c] = check[c]
      /\ ~check[c].deleted => /\ check'[c].ff = FF(w, check[c].ff)
                              /\ check'[c].fs = FS(w, check[c].fs)
  BY <1>3 DEF CheckRow
<1>5. CASE w.sig \in Failure
  <2>. DEFINE bad == IF h.bad = NULL /\ w.inc = NULL THEN now ELSE h.bad
  <2>1. hist'[c] = [h EXCEPT !.bad = bad, !.ok = NULL]
    BY <1>2, <1>5 DEF Observed, Failure, Success
  <2>. HIDE DEF bad
  <2>2. /\ hist'[c].bad = bad /\ hist'[c].ok = NULL
        /\ hist'[c].relapse = h.relapse /\ hist'[c].closed = h.closed
    BY <2>1 DEF History
  <2>. QED
    BY <1>1, <1>4, <1>5, <2>2 DEF Write, Failure, Success, bad
<1>6. CASE w.sig \in Success
  <2>1. hist'[c] = [h EXCEPT !.ok = IF h.ok = NULL THEN now ELSE h.ok, !.bad = NULL,
                             !.relapse = h.relapse /\ w.inc # NULL]
    BY <1>2, <1>6 DEF Observed, Failure, Success
  <2>2. hist'[c].relapse <=> h.relapse /\ w.inc # NULL
    BY <2>1 DEF History
  <2>3. /\ hist'[c].ok = IF h.ok = NULL THEN now ELSE h.ok
        /\ hist'[c].bad = NULL /\ hist'[c].closed = h.closed
    BY <2>1 DEF History
  <2>. QED
    BY <1>1, <1>4, <1>6, <2>2, <2>3 DEF Write, Failure, Success
<1>7. CASE w.sig = "warning"
  BY <1>1, <1>2, <1>4, <1>7 DEF Write, Observed, Failure, Success
<1>. QED
  BY <1>1, <1>5, <1>6, <1>7 DEF Signal, Failure, Success

\* Where a result goes, and the clock that sends it there.
LEMMA Routed ==
    ASSUME TypeInv, NEW c \in Check, Write(c)
    PROVE  LET w == work[c]
               next == work'[c]
           IN
           \/ next = Idle
           \/ /\ next.pc = "open" /\ next.at = w.at /\ next.inc = NULL
              /\ w.sig = "down" /\ w.inc = NULL
              /\ Elapsed(FF(w, w.snap.ff), Confirmation)
           \/ /\ next.pc = "resolve" /\ next.at = w.at /\ next.inc = w.inc
              /\ w.sig \in Success /\ w.inc # NULL
              /\ Elapsed(FS(w, w.snap.fs), Recovery)
<1>. DEFINE w == work[c]
            held == /\ w.sig = "down" /\ w.inc = NULL
                    /\ ConfirmationElapsed(w.snap.ff) /\ Held(c)
            next == Route(w, held)
<1>. TypeOK /\ w \in Work
  BY DEF TypeInv, TypeOK
<1>1. work'[c] = IF next = "idle" THEN Idle ELSE [w EXCEPT !.pc = next, !.snap = NULL, !.sig = NULL]
  BY DEF Write, TypeOK
<1>2. \/ next = "idle"
      \/ next = "open" /\ w.sig = "down" /\ w.inc = NULL /\ Elapsed(FF(w, w.snap.ff), Confirmation)
      \/ next = "resolve" /\ w.sig \in Success /\ w.inc # NULL
                          /\ RecoveryElapsed(w, FS(w, w.snap.fs))
  BY DEF Route
<1>. HIDE DEF next
<1>. QED
  BY <1>1, <1>2 DEF Work, RecoveryElapsed

\* A check that shows down has an incident, or is on its way to one.
LEMMA StatusWritten ==
    ASSUME TypeInv, NEW c \in Check, Write(c), ~check[c].deleted, check'[c].status = "down"
    PROVE  work[c].inc # NULL \/ work'[c].pc = "open"
<1>. DEFINE w == work[c]
            held == /\ w.sig = "down" /\ w.inc = NULL
                    /\ ConfirmationElapsed(w.snap.ff) /\ Held(c)
<1>. TypeOK /\ w \in Work /\ w.sig \in Signal /\ w.snap \in CheckRow /\ now \in Nat
  BY Typed DEF TypeInv, TypeOK, Write, WellFormed
<1>. SUFFICES ASSUME w.inc = NULL
              PROVE  work'[c].pc = "open"
  OBVIOUS
<1>1. PickStatus(w, held) = "down"
  BY DEF Write, TypeOK, CheckRow
<1>2. w.sig = "down" /\ ~held /\ ConfirmationElapsed(w.snap.ff)
  BY <1>1 DEF PickStatus, Failure, Signal
<1>3. Elapsed(FF(w, w.snap.ff), Confirmation)
  <2>1. now # NULL /\ Confirmation \in Nat
    BY DEF TypeOK
  <2>2. CASE w.snap.ff = NULL
    BY <1>2, <2>1, <2>2 DEF ConfirmationElapsed, Elapsed, FF, Column, Failure
  <2>3. CASE w.snap.ff # NULL
    BY <1>2, <2>3 DEF ConfirmationElapsed, Elapsed, FF, Column, Failure, Success
  <2>. QED
    BY <2>2, <2>3
<1>. HIDE DEF held
<1>4. Route(w, held) = "open"
  BY <1>2, <1>3 DEF Route
<1>5. work'[c] = [w EXCEPT !.pc = "open", !.snap = NULL, !.sig = NULL]
  BY <1>4 DEF Write, TypeOK, held
<1>. QED
  BY <1>5 DEF Work

\* Resolving begins with a status that is not down.
LEMMA RecoveredStatus ==
    ASSUME TypeInv, NEW c \in Check, Write(c), work[c].sig \notin Failure, ~check[c].deleted
    PROVE  check'[c].status # "down"
<1>. DEFINE w == work[c]
            held == /\ w.sig = "down" /\ w.inc = NULL
                    /\ ConfirmationElapsed(w.snap.ff) /\ Held(c)
<1>. TypeOK /\ check[c] \in CheckRow
  BY DEF TypeInv, TypeOK
<1>1. w.sig \in {"up", "regional", "warning"}
  BY DEF TypeInv, WellFormed, Write, Signal, Failure
<1>2. PickStatus(w, held) # "down"
  BY <1>1 DEF PickStatus, Failure
<1>3. check'[c].status = PickStatus(w, held)
  BY DEF Write, TypeOK, CheckRow
<1>. QED
  BY <1>2, <1>3

LEMMA WriteOwn ==
    ASSUME TypeInv, NEW c \in Check, CheckInv(c), Write(c)
    PROVE  CheckInv(c)'
<1>. DEFINE w == work[c]
            h == hist[c]
            r == check[c]
<1>. TypeOK
  BY DEF TypeInv
<1>1. /\ w.pc = "write" /\ w.sig \in Signal /\ now' = now /\ incidents' = incidents
      /\ r.deleted \in BOOLEAN /\ check'[c].deleted = r.deleted /\ check'[c].seen = r.seen
      /\ r.deleted => check'[c] = r
      /\ ~r.deleted => check'[c].ff = FF(w, r.ff) /\ check'[c].fs = FS(w, r.fs)
      /\ hist'[c].closed = h.closed
  BY Written, Typed DEF CheckRow
<1>2. w.sig \in Failure =>
         /\ hist'[c].bad = IF h.bad = NULL /\ w.inc = NULL THEN now ELSE h.bad
         /\ hist'[c].ok = NULL /\ hist'[c].relapse = h.relapse
  BY Written
<1>3. w.sig \in Success =>
         /\ hist'[c].ok = IF h.ok = NULL THEN now ELSE h.ok
         /\ hist'[c].bad = NULL
         /\ hist'[c].relapse <=> h.relapse /\ w.inc # NULL
  BY Written
<1>4. w.sig = "warning" => hist'[c] = h
  BY Written
<1>5. /\ now \in Nat /\ now # NULL /\ Confirmation \in Nat /\ Recovery \in Nat
      /\ {r.ff, r.fs, h.bad, h.ok} \subseteq Nat \cup {NULL}
      /\ w.inc # NULL => w.inc \in DOMAIN incidents /\ incidents[w.inc].onset \in Nat
      /\ \A i \in Active(c) : incidents[i].onset \in Nat
  BY Typed DEF TypeOK, WellFormed, Active
<1>6. w.snap.ff = r.ff /\ w.snap.fs = r.fs
  BY <1>1 DEF CheckInv, SnapCurrent
<1>7. \/ w.sig \in Failure /\ w.sig \notin Success
      \/ w.sig \in Success /\ w.sig \notin Failure
      \/ w.sig = "warning" /\ w.sig \notin Success \cup Failure
  BY <1>1 DEF Signal, Failure, Success
<1>8. /\ FF(w, r.ff) = IF w.sig \in Failure /\ w.inc = NULL /\ r.ff = NULL THEN now
                       ELSE IF w.sig \in Success /\ w.inc = NULL THEN NULL ELSE r.ff
      /\ FS(w, r.fs) = IF /\ w.sig \in Success /\ w.inc # NULL
                          /\ r.fs = NULL \/ r.fs < incidents[w.inc].onset THEN now
                       ELSE IF w.sig \in Failure /\ r.fs # NULL THEN NULL ELSE r.fs
  BY <1>6 DEF FF, FS, Column, StaleOrUnarmed
<1>9. \/ work'[c] = Idle
      \/ /\ work'[c].pc = "open" /\ work'[c].at = w.at /\ work'[c].inc = NULL
         /\ w.sig = "down" /\ w.inc = NULL
         /\ Elapsed(FF(w, r.ff), Confirmation)
      \/ /\ work'[c].pc = "resolve" /\ work'[c].at = w.at /\ work'[c].inc = w.inc
         /\ w.sig \in Success /\ w.inc # NULL
         /\ Elapsed(FS(w, r.fs), Recovery)
  BY <1>6, Routed
<1>10. work'[c].pc \in {"idle", "open", "resolve"}
  BY <1>9 DEF Idle
<1>11. Active(c)' = Active(c)
  BY <1>1 DEF Active
<1>12. /\ w.inc = NULL => Active(c) = {}
       /\ w.inc # NULL => /\ Active(c) \subseteq {w.inc}
                          /\ Active(c) # {} \/ r.deleted \/ (h.closed /\ h.relapse)
  BY <1>1 DEF CheckInv, AtHand
<1>13. /\ h.bad # NULL => r.ff # NULL /\ r.ff <= h.bad
       /\ r.ff # NULL /\ w.inc = NULL => h.relapse \/ (h.bad # NULL /\ h.bad <= r.ff)
       /\ r.ff # NULL /\ ~r.deleted /\ Active(c) = {}
             => h.relapse \/ (h.bad # NULL /\ h.bad <= r.ff)
  BY <1>1 DEF CheckInv, Confirming
<1>14. w.inc # NULL =>
          /\ r.fs # NULL => h.ok # NULL /\ h.ok <= r.fs
          /\ h.ok # NULL => r.fs # NULL /\ r.fs <= h.ok /\ r.fs >= incidents[w.inc].onset
  BY <1>1 DEF CheckInv, Recovering
<1>15. /\ r.ff # NULL => r.ff <= now
       /\ r.fs # NULL => r.fs <= now
       /\ h.bad # NULL => h.bad <= now
       /\ h.ok # NULL => h.ok <= now
       /\ \A i \in Active(c) : incidents[i].onset <= now
       /\ w.at <= now /\ now - w.at <= MaxLag /\ r.seen = w.at
  BY <1>1 DEF CheckInv, Past
<1>16. w.sig = "down" => w.sig \in Failure
  BY DEF Failure
<1>. HIDE DEF w, h, r
<1>17. Past(c)'
  <2>1. /\ check'[c].ff # NULL => check'[c].ff <= now
        /\ check'[c].fs # NULL => check'[c].fs <= now
    BY <1>1, <1>5, <1>8, <1>15
  <2>2. /\ hist'[c].bad # NULL => hist'[c].bad <= now
        /\ hist'[c].ok # NULL => hist'[c].ok <= now
    BY <1>2, <1>3, <1>4, <1>5, <1>7, <1>15 DEF h
  <2>. QED
    BY <2>1, <2>2, <1>1, <1>9, <1>11, <1>15 DEF Past, Idle
<1>18. SnapCurrent(c)'
  BY <1>10 DEF SnapCurrent
<1>19. AtHand(c)'
  <2>1. ASSUME work'[c].pc = "open"
        PROVE  /\ Active(c)' = {} /\ hist'[c].ok = NULL
               /\ check'[c].fs = NULL \/ check'[c].deleted
    BY <1>1, <1>2, <1>8, <1>9, <1>11, <1>12, <1>16, <2>1 DEF Idle
  <2>2. ASSUME work'[c].pc = "resolve"
        PROVE  check'[c].deleted \/ check'[c].status # "down"
    <3>1. w.sig \notin Failure
      BY <1>7, <1>9, <2>2 DEF Idle, Success, Failure
    <3>. QED
      BY <1>1, <3>1, RecoveredStatus DEF w, r
  <2>3. ASSUME work'[c].pc = "idle", check'[c].status = "down", ~check'[c].deleted
        PROVE  Active(c)' # {} \/ hist'[c].closed
    <3>1. w.inc # NULL
      BY <1>1, <2>3, StatusWritten DEF w, r
    <3>. QED
      BY <1>1, <1>11, <1>12, <2>3, <3>1
  <2>. QED
    BY <1>10, <2>1, <2>2, <2>3 DEF AtHand
<1>20. Confirming(c)'
  <2>1. hist'[c].bad # NULL /\ ~check'[c].deleted
           => check'[c].ff # NULL /\ check'[c].ff <= hist'[c].bad
    BY <1>1, <1>2, <1>3, <1>4, <1>5, <1>7, <1>8, <1>13, <1>15 DEF h
  <2>2. check'[c].ff # NULL /\ ~check'[c].deleted /\ Active(c)' = {}
           => hist'[c].relapse \/ (hist'[c].bad # NULL /\ hist'[c].bad <= check'[c].ff)
    BY <1>1, <1>2, <1>3, <1>4, <1>5, <1>7, <1>8, <1>11, <1>12, <1>13, <1>15 DEF h
  <2>3. work'[c].pc = "open" => hist'[c].relapse \/ Elapsed(hist'[c].bad, Confirmation)
    BY <1>2, <1>5, <1>7, <1>8, <1>9, <1>13, <1>15, <1>16, <1>1 DEF Idle, Elapsed
  <2>. QED
    BY <1>1, <1>10, <2>1, <2>2, <2>3 DEF Confirming, Elapsed
<1>21. Recovering(c)'
  <2>1. ASSUME ~check'[c].deleted, NEW i \in Active(c)'
        PROVE  /\ check'[c].fs # NULL => hist'[c].ok # NULL /\ hist'[c].ok <= check'[c].fs
               /\ hist'[c].ok # NULL => /\ check'[c].fs # NULL /\ check'[c].fs <= hist'[c].ok
                                        /\ check'[c].fs >= incidents[i].onset
    <3>1. w.inc # NULL /\ i = w.inc /\ i \in Active(c)
      BY <1>11, <1>12, <2>1
    <3>. QED
      BY <1>1, <1>2, <1>3, <1>4, <1>5, <1>7, <1>8, <1>14, <1>15, <2>1, <3>1 DEF h
  <2>2. work'[c].pc = "resolve" => Elapsed(hist'[c].ok, Recovery)
    BY <1>1, <1>3, <1>5, <1>8, <1>9, <1>14, <1>15 DEF Idle, Elapsed
  <2>. QED
    BY <1>1, <1>10, <2>1, <2>2 DEF Recovering, Elapsed
<1>. QED
  BY <1>11, <1>17, <1>18, <1>19, <1>20, <1>21 DEF CheckInv

LEMMA StoreOwn ==
    ASSUME TypeInv, NEW c \in Check, CheckInv(c), Store(c)
    PROVE  CheckInv(c)'
<1>. DEFINE w == work[c]
            i == IF w.inc = NULL THEN Len(incidents) + 1 ELSE w.inc
<1>. TypeOK /\ WellFormed(c, w, incidents)
  BY DEF TypeInv
<1>1. /\ w.pc = "store" /\ work'[c].pc = "adopt" /\ work'[c].at = w.at
      /\ check' = check /\ now' = now
      /\ hist'[c].bad = hist[c].bad /\ hist'[c].ok = hist[c].ok
      /\ hist'[c].relapse = hist[c].relapse /\ hist'[c].closed = hist[c].closed
  BY Typed DEF Store, TypeOK, Work, History
<1>2. Active(c) = {} /\ hist[c].ok = NULL /\ (check[c].fs = NULL \/ check[c].deleted)
      /\ w.onset <= now
  BY <1>1 DEF CheckInv, AtHand
<1>3. Active(c)' = {i} /\ incidents'[i].onset = w.onset
  <2>1. CASE w.inc = NULL
    <3>. DEFINE row == Created(c, w)
    <3>1. incidents' = Append(incidents, row)
      BY <2>1 DEF Store
    <3>2. row.check = c /\ row.active = TRUE /\ row.onset = w.onset
      BY DEF Created
    <3>. HIDE DEF row
    <3>3. /\ DOMAIN incidents' = DOMAIN incidents \cup {Len(incidents) + 1}
          /\ \A j \in DOMAIN incidents : j # Len(incidents) + 1 /\ incidents'[j] = incidents[j]
          /\ incidents'[Len(incidents) + 1] = row
      BY <3>1 DEF TypeOK
    <3>. QED
      BY <1>2, <2>1, <3>2, <3>3 DEF Active
  <2>2. CASE w.inc # NULL
    <3>1. incidents[w.inc] \in IncidentRow
      BY <2>2, RowsAreIncidents DEF WellFormed
    <3>. DEFINE row == Reopened(c, w)
    <3>2. row.check = c /\ row.active = TRUE /\ row.onset = w.onset
      BY <1>1, <2>2, <3>1 DEF Reopened, IncidentRow, WellFormed
    <3>. HIDE DEF row
    <3>3. /\ DOMAIN incidents' = DOMAIN incidents /\ w.inc \in DOMAIN incidents
          /\ \A j \in DOMAIN incidents : incidents'[j] = IF j = w.inc THEN row ELSE incidents[j]
      BY <2>2 DEF Store, row, WellFormed
    <3>. QED
      BY <1>2, <2>2, <3>2, <3>3 DEF Active
  <2>. QED
    BY <2>1, <2>2
<1>. HIDE DEF i
<1>4. Past(c)' /\ SnapCurrent(c)' /\ AtHand(c)'
  BY <1>1, <1>2, <1>3 DEF CheckInv, Past, SnapCurrent, AtHand
<1>5. Confirming(c)' /\ Recovering(c)'
  BY <1>1, <1>2, <1>3 DEF CheckInv, Confirming, Recovering
<1>6. (\A k, j \in Active(c) : k = j)'
  BY <1>3
<1>. QED
  BY <1>4, <1>5, <1>6 DEF CheckInv

\* Adopting, releasing and releasing a child leave the check itself alone.
LEMMA MutingOwn ==
    ASSUME TypeInv, NEW c \in Check, CheckInv(c), Adopt(c) \/ Release(c) \/ ReleaseChild(c)
    PROVE  CheckInv(c)'
<1>. TypeOK /\ work[c] \in Work
  BY DEF TypeInv, TypeOK
<1>1. SameRows(c)
  <2>1. CASE Adopt(c) \/ ReleaseChild(c)
    BY <2>1, MutingSame
  <2>2. CASE Release(c)
    BY <2>2 DEF Release, SameRows
  <2>. QED
    BY <2>1, <2>2
<1>2. Active(c)' = Active(c) /\ \A i \in Active(c) : incidents'[i].onset = incidents[i].onset
  BY <1>1, SameActive DEF SameRows, Active
<1>3. now' = now /\ check' = check /\ hist' = hist
  BY DEF Adopt, Release, ReleaseChild
<1>4. /\ work[c].pc \in {"adopt", "release", "children"}
      /\ \/ work'[c] = Idle
         \/ /\ work[c].pc \in {"release", "children"}
            /\ work'[c].pc = "children" /\ work'[c].at = work[c].at
  <2>1. CASE Adopt(c)
    BY <2>1 DEF Adopt, TypeOK
  <2>2. CASE Release(c)
    <3>. DEFINE kids == MutedUnder(work[c].inc)
    <3>1. work'[c] = IF kids = {} THEN Idle ELSE [work[c] EXCEPT !.pc = "children", !.kids = kids]
      BY <2>2 DEF Release, TypeOK
    <3>. HIDE DEF kids
    <3>2. work[c].pc = "release"
      BY <2>2 DEF Release
    <3>3. CASE kids = {}
      BY <3>1, <3>2, <3>3
    <3>4. CASE kids # {}
      BY <3>1, <3>2, <3>4 DEF Work
    <3>. QED
      BY <3>3, <3>4
  <2>3. CASE ReleaseChild(c)
    <3>1. PICK j \in work[c].kids :
              work'[c] = IF work[c].kids = {j} THEN Idle
                         ELSE [work[c] EXCEPT !.kids = work[c].kids \ {j}]
      BY <2>3 DEF ReleaseChild, TypeOK
    <3>. QED
      BY <2>3, <3>1 DEF ReleaseChild, Work
  <2>. QED
    BY <2>1, <2>2, <2>3
<1>5. work'[c].pc \in {"idle", "children"}
  BY <1>4 DEF Idle
<1>6. Past(c)' /\ SnapCurrent(c)'
  BY <1>2, <1>3, <1>4 DEF CheckInv, Past, SnapCurrent, Idle
<1>7. AtHand(c)'
  <2>1. /\ work[c].pc \in {"release", "children"} => check[c].deleted \/ check[c].status # "down"
        /\ work[c].pc = "adopt" /\ check[c].status = "down" /\ ~check[c].deleted
              => Active(c) # {} \/ hist[c].closed
    BY DEF CheckInv, AtHand
  <2>2. work'[c].pc = "children" => work[c].pc \in {"release", "children"}
    BY <1>4 DEF Idle
  <2>. QED
    BY <1>2, <1>3, <1>4, <1>5, <2>1, <2>2 DEF AtHand
<1>8. Confirming(c)' /\ Recovering(c)'
  BY <1>2, <1>3, <1>5 DEF CheckInv, Confirming, Recovering
<1>9. (\A k, j \in Active(c) : k = j)'
  BY <1>2 DEF CheckInv
<1>. QED
  BY <1>6, <1>7, <1>8, <1>9 DEF CheckInv

LEMMA ResolveOwn ==
    ASSUME TypeInv, NEW c \in Check, CheckInv(c), Resolve(c)
    PROVE  CheckInv(c)'
<1>. TypeOK
  BY DEF TypeInv
<1>1. /\ work[c].pc = "resolve" /\ work'[c].pc = "release" /\ work'[c].at = work[c].at
      /\ check' = check /\ now' = now
      /\ hist'[c].bad = hist[c].bad /\ hist'[c].ok = hist[c].ok
      /\ hist'[c].relapse /\ hist'[c].closed = hist[c].closed
  BY Typed DEF Resolve, TypeOK, Work, History
<1>2. /\ Active(c)' \subseteq Active(c)
      /\ \A i \in Active(c) : incidents'[i].onset = incidents[i].onset
  BY ResolvedRows DEF Active
<1>3. Past(c)' /\ SnapCurrent(c)' /\ AtHand(c)'
  BY <1>1, <1>2 DEF CheckInv, Past, SnapCurrent, AtHand
<1>4. Confirming(c)' /\ Recovering(c)'
  BY <1>1, <1>2 DEF CheckInv, Confirming, Recovering
<1>5. (\A k, j \in Active(c) : k = j)'
  BY <1>2 DEF CheckInv
<1>. QED
  BY <1>3, <1>4, <1>5 DEF CheckInv

\* A check whose result is being processed is too fresh to be swept.
LEMMA SweepOwn ==
    ASSUME TypeInv, NEW c \in Check, CheckInv(c), Sweep(c)
    PROVE  CheckInv(c)'
<1>. TypeOK
  BY DEF TypeInv
<1>1. work[c].pc = "idle"
  <2>1. now - check[c].seen > StaleAfter /\ MaxLag <= StaleAfter
    BY DEF Sweep
  <2>2. check[c].seen \in Nat /\ now \in Nat /\ MaxLag \in Nat /\ StaleAfter \in Nat
    BY Typed DEF CheckRow
  <2>. QED
    BY <2>1, <2>2 DEF CheckInv, Past
<1>2. /\ check'[c].ff = NULL /\ check'[c].fs = NULL /\ check'[c].status = "stale"
      /\ check'[c].deleted = check[c].deleted
  BY DEF Sweep, TypeOK, CheckRow
<1>3. hist'[c].bad = NULL /\ hist'[c].ok = NULL
  BY DEF Sweep, TypeOK, History
<1>4. /\ now' = now /\ work' = work /\ incidents' = incidents
      /\ Active(c)' = Active(c)
  BY DEF Sweep, Active
<1>5. Past(c)' /\ SnapCurrent(c)' /\ AtHand(c)'
  BY <1>1, <1>2, <1>3, <1>4 DEF CheckInv, Past, SnapCurrent, AtHand
<1>6. Confirming(c)' /\ Recovering(c)'
  BY <1>1, <1>2, <1>3, <1>4 DEF Confirming, Recovering
<1>7. (\A k, j \in Active(c) : k = j)'
  BY <1>4 DEF CheckInv
<1>. QED
  BY <1>5, <1>6, <1>7 DEF CheckInv

-----------------------------------------------------------------------------
(* What the users and the clock do to a check.                             *)

\* An incident is edited, but neither opened, closed nor given another onset.
LEMMA EditedUntouched ==
    ASSUME TypeInv, NEW c \in Check, NEW i \in DOMAIN incidents,
           Acknowledge(i) \/ Unacknowledge(i), UNCHANGED <<now, work>>
    PROVE  Untouched(c)
<1>1. PICK a : incidents' = [incidents EXCEPT ![i].acked = a]
  BY DEF Acknowledge, Unacknowledge
<1>2. \A j \in DOMAIN incidents : /\ incidents'[j].check = incidents[j].check
                                  /\ incidents'[j].active = incidents[j].active
                                  /\ incidents'[j].onset = incidents[j].onset
  <2>. SUFFICES ASSUME NEW j \in DOMAIN incidents
                PROVE  /\ incidents'[j].check = incidents[j].check
                       /\ incidents'[j].active = incidents[j].active
                       /\ incidents'[j].onset = incidents[j].onset
    OBVIOUS
  <2>1. incidents[j] \in IncidentRow
    BY RowsAreIncidents DEF TypeInv
  <2>. QED
    BY <1>1, <2>1 DEF IncidentRow
<1>. QED
  BY <1>1, <1>2 DEF Untouched, SameRows, Acknowledge, Unacknowledge

LEMMA ManualResolveOwn ==
    ASSUME TypeInv, NEW c \in Check, CheckInv(c), NEW i \in DOMAIN incidents,
           ManualResolve(i), UNCHANGED <<now, work>>
    PROVE  CheckInv(c)'
<1>. TypeOK
  BY DEF TypeInv
<1>1. incidents[i].check \in Check
  BY RowsAreIncidents DEF IncidentRow
<1>2. ASSUME NEW j \in DOMAIN incidents
      PROVE  /\ incidents'[j].check = incidents[j].check
             /\ incidents'[j].onset = incidents[j].onset
             /\ j = i => incidents'[j].active = FALSE
             /\ j # i => incidents'[j].active = incidents[j].active
  <2>1. incidents[j] \in IncidentRow
    BY RowsAreIncidents
  <2>2. incidents'[j] = IF j = i THEN [incidents[j] EXCEPT !.active = FALSE, !.resolved = now,
                                                           !.byUser = TRUE]
                        ELSE incidents[j]
    BY DEF ManualResolve
  <2>. QED
    BY <2>1, <2>2 DEF IncidentRow
<1>3. DOMAIN incidents' = DOMAIN incidents /\ check' = check /\ now' = now /\ work' = work
  BY DEF ManualResolve
<1>4. CASE incidents[i].check # c
  <2>1. hist'[c] = hist[c]
    BY <1>4 DEF ManualResolve, TypeOK
  <2>2. Untouched(c)
    BY <1>2, <1>3, <1>4, <2>1 DEF Untouched, SameRows
  <2>. QED
    BY <2>2, UntouchedKept
<1>5. CASE incidents[i].check = c
  <2>1. /\ hist'[c].bad = hist[c].bad /\ hist'[c].ok = hist[c].ok
        /\ hist'[c].relapse /\ hist'[c].closed
    BY <1>5 DEF ManualResolve, TypeOK, History
  <2>2. /\ Active(c)' \subseteq Active(c)
        /\ \A j \in Active(c) : incidents'[j].onset = incidents[j].onset
    BY <1>2, <1>3 DEF Active
  <2>3. work[c].inc # NULL => incidents'[work[c].inc].onset = incidents[work[c].inc].onset
    BY <1>2 DEF TypeInv, WellFormed
  <2>4. Past(c)' /\ SnapCurrent(c)'
    BY <1>3, <2>1, <2>2 DEF CheckInv, Past, SnapCurrent
  <2>5. AtHand(c)'
    BY <1>3, <2>1, <2>2 DEF CheckInv, AtHand
  <2>6. Confirming(c)'
    BY <1>3, <2>1, <2>2 DEF CheckInv, Confirming
  <2>7. Recovering(c)'
    BY <1>3, <2>1, <2>2, <2>3 DEF CheckInv, Recovering, Elapsed
  <2>8. (\A k, j \in Active(c) : k = j)'
    BY <2>2 DEF CheckInv
  <2>. QED
    BY <2>4, <2>5, <2>6, <2>7, <2>8 DEF CheckInv
<1>. QED
  BY <1>4, <1>5

LEMMA DeleteCheckOwn ==
    ASSUME TypeInv, NEW c \in Check, CheckInv(c), NEW d \in Check,
           DeleteCheck(d), UNCHANGED <<now, work>>
    PROVE  CheckInv(c)'
<1>. TypeOK
  BY DEF TypeInv
<1>1. ASSUME NEW j \in DOMAIN incidents
      PROVE  /\ incidents'[j].check = incidents[j].check
             /\ incidents'[j].onset = incidents[j].onset
             /\ j \in Active(d) => incidents'[j].active = FALSE
             /\ j \notin Active(d) => incidents'[j].active = incidents[j].active
  <2>1. incidents[j] \in IncidentRow
    BY RowsAreIncidents
  <2>2. incidents'[j] = IF j \in Active(d)
                        THEN [incidents[j] EXCEPT !.active = FALSE, !.resolved = now]
                        ELSE incidents[j]
    BY DEF DeleteCheck
  <2>. QED
    BY <2>1, <2>2 DEF IncidentRow
<1>2. DOMAIN incidents' = DOMAIN incidents /\ hist' = hist /\ now' = now /\ work' = work
  BY DEF DeleteCheck
<1>3. CASE c # d
  <2>1. check'[c] = check[c]
    BY <1>3 DEF DeleteCheck, TypeOK
  <2>2. \A j \in DOMAIN incidents : incidents[j].check = c => j \notin Active(d)
    BY <1>3 DEF Active
  <2>3. Untouched(c)
    BY <1>1, <1>2, <2>1, <2>2 DEF Untouched, SameRows
  <2>. QED
    BY <2>3, UntouchedKept
<1>4. CASE c = d
  <2>1. /\ check'[c].ff = check[c].ff /\ check'[c].fs = check[c].fs
        /\ check'[c].seen = check[c].seen /\ check'[c].status = check[c].status
        /\ check'[c].deleted
    <3>1. check'[d] = [check[d] EXCEPT !.deleted = TRUE]
      BY DEF DeleteCheck, TypeOK
    <3>2. check[d] \in CheckRow
      BY DEF TypeOK
    <3>. QED
      BY <1>4, <3>1, <3>2 DEF CheckRow
  <2>2. Active(c)' = {}
    BY <1>1, <1>2, <1>4 DEF Active
  <2>3. work[c].inc # NULL => incidents'[work[c].inc].onset = incidents[work[c].inc].onset
    BY <1>1 DEF TypeInv, WellFormed
  <2>4. Past(c)' /\ SnapCurrent(c)'
    BY <1>2, <2>1, <2>2 DEF CheckInv, Past, SnapCurrent
  <2>5. AtHand(c)'
    BY <1>2, <2>1, <2>2 DEF CheckInv, AtHand
  <2>6. Confirming(c)'
    BY <1>2, <2>1, <2>2 DEF CheckInv, Confirming, Elapsed
  <2>7. Recovering(c)'
    BY <1>2, <2>1, <2>2, <2>3 DEF CheckInv, Recovering, Elapsed
  <2>. QED
    BY <2>2, <2>4, <2>5, <2>6, <2>7 DEF CheckInv
<1>. QED
  BY <1>3, <1>4

LEMMA ToggleWindowOwn ==
    ASSUME TypeInv, NEW c \in Check, CheckInv(c), NEW d \in Check,
           ToggleWindow(d), UNCHANGED <<now, work>>
    PROVE  CheckInv(c)'
<1>. TypeOK
  BY DEF TypeInv
<1>1. /\ check'[c].ff = check[c].ff /\ check'[c].fs = check[c].fs
      /\ check'[c].seen = check[c].seen /\ check'[c].status = check[c].status
      /\ check'[c].deleted = check[c].deleted
  BY DEF ToggleWindow, TypeOK, CheckRow
<1>2. /\ incidents' = incidents /\ hist' = hist /\ now' = now /\ work' = work
      /\ Active(c)' = Active(c)
  BY DEF ToggleWindow, Active
<1>3. Past(c)' /\ SnapCurrent(c)' /\ AtHand(c)'
  BY <1>1, <1>2 DEF CheckInv, Past, SnapCurrent, AtHand
<1>4. Confirming(c)' /\ Recovering(c)'
  BY <1>1, <1>2 DEF CheckInv, Confirming, Recovering, Elapsed
<1>. QED
  BY <1>2, <1>3, <1>4 DEF CheckInv

LEMMA UserOwn ==
    ASSUME TypeInv, NEW c \in Check, CheckInv(c), User
    PROVE  CheckInv(c)'
<1>. UNCHANGED <<now, work>>
  BY DEF User
<1>1. ASSUME NEW i \in DOMAIN incidents, Acknowledge(i) \/ Unacknowledge(i)
      PROVE  CheckInv(c)'
  BY <1>1, EditedUntouched, UntouchedKept
<1>. QED
  BY <1>1, ManualResolveOwn, DeleteCheckOwn, ToggleWindowOwn DEF User

LEMMA TickOwn ==
    ASSUME TypeInv, NEW c \in Check, CheckInv(c), Tick
    PROVE  CheckInv(c)'
<1>. TypeOK /\ WellFormed(c, work[c], incidents)
  BY DEF TypeInv
<1>1. /\ now' = now + 1 /\ now \in Nat /\ MaxLag \in Nat
      /\ check' = check /\ hist' = hist /\ work' = work /\ incidents' = incidents
      /\ Active(c)' = Active(c)
      /\ work[c].pc # "idle" => now - work[c].at < MaxLag /\ work[c].at \in Nat
  BY Typed DEF Tick, Busy, Active, WellFormed
<1>2. /\ {check[c].ff, check[c].fs, hist[c].bad, hist[c].ok} \subseteq Nat \cup {NULL}
      /\ \A i \in DOMAIN incidents : incidents[i].onset \in Nat
      /\ Recovery \in Nat /\ Confirmation \in Nat
  BY Typed
<1>3. Past(c)'
  BY <1>1, <1>2 DEF CheckInv, Past, Active
<1>4. SnapCurrent(c)'
  BY <1>1 DEF CheckInv, SnapCurrent
<1>5. AtHand(c)'
  <2>1. work[c].pc = "store" => work[c].onset \in Nat
    BY Typed DEF WellFormed
  <2>. QED
    BY <1>1, <2>1 DEF CheckInv, AtHand
<1>6. Confirming(c)'
  <2>1. Elapsed(hist[c].bad, Confirmation) => now' >= hist[c].bad + Confirmation
    BY <1>1, <1>2 DEF Elapsed
  <2>. QED
    BY <1>1, <2>1 DEF CheckInv, Confirming, Elapsed
<1>7. Recovering(c)'
  <2>1. Elapsed(hist[c].ok, Recovery) => now' >= hist[c].ok + Recovery
    BY <1>1, <1>2 DEF Elapsed
  <2>2. work[c].inc # NULL => incidents[work[c].inc].onset \in Nat
    BY <1>2 DEF WellFormed
  <2>. QED
    BY <1>1, <2>1, <2>2 DEF CheckInv, Recovering, Elapsed
<1>. QED
  BY <1>1, <1>3, <1>4, <1>5, <1>6, <1>7 DEF CheckInv

-----------------------------------------------------------------------------
(* The invariant is inductive.                                             *)

LEMMA InvInit ==
    ASSUME Init
    PROVE  IncidentsInv
<1>. SUFFICES ASSUME NEW c \in Check
              PROVE  CheckInv(c)
  BY TypeInit DEF IncidentsInv
<1>1. /\ check[c].ff = NULL /\ check[c].fs = NULL /\ check[c].status = "up"
      /\ hist[c].bad = NULL /\ hist[c].ok = NULL /\ work[c].pc = "idle"
  BY DEF Init, Idle
<1>2. Active(c) = {}
  BY DEF Init, Active
<1>. QED
  BY <1>1, <1>2 DEF CheckInv, Past, SnapCurrent, AtHand, Confirming, Recovering

LEMMA InvStep ==
    ASSUME IncidentsInv, [Next]_vars
    PROVE  IncidentsInv'
<1>1. TypeInv'
  BY TypeStep DEF IncidentsInv
<1>2. ASSUME NEW c \in Check
      PROVE  CheckInv(c)'
  <2>. TypeInv /\ CheckInv(c)
    BY DEF IncidentsInv
  <2>1. CASE Process(c) \/ Sweep(c)
    BY <2>1, ReadOwn, ReadInWindowOwn, WriteOwn, OpenOwn, StoreOwn, MutingOwn, ResolveOwn,
       SweepOwn DEF Process
  <2>2. ASSUME NEW d \in Check, d # c, Process(d) \/ Sweep(d)
        PROVE  CheckInv(c)'
    BY <2>2, OthersUntouched, UntouchedKept
  <2>3. CASE User
    BY <2>3, UserOwn
  <2>4. CASE Tick
    BY <2>4, TickOwn
  <2>5. CASE UNCHANGED vars
    <3>1. Untouched(c)
      BY <2>5 DEF vars, Untouched, SameRows
    <3>. QED
      BY <3>1, UntouchedKept
  <2>. QED
    BY <2>1, <2>2, <2>3, <2>4, <2>5 DEF Next
<1>. QED
  BY <1>1, <1>2 DEF IncidentsInv

LEMMA InvAlways == Spec => []IncidentsInv
  BY InvInit, InvStep, PTL DEF Spec

-----------------------------------------------------------------------------
(* What follows from it.                                                   *)

\* However results, sweeps and users interleave, a check never has two open
\* incidents: the lookup before the write is still right when the incident is stored.
THEOREM OneIncident == Spec => []OneActiveIncident
<1>1. IncidentsInv => OneActiveIncident
  BY DEF IncidentsInv, CheckInv, OneActiveIncident
<1>. QED
  BY <1>1, InvAlways, PTL

\* A check that reads down, and whose result is processed, has an open incident,
\* unless a user closed it meanwhile.
THEOREM DownShows == Spec => []DownHasIncident
<1>1. IncidentsInv => DownHasIncident
  BY DEF IncidentsInv, CheckInv, AtHand, DownHasIncident
<1>. QED
  BY <1>1, InvAlways, PTL

\* No incident opens before its confirmation period of failures was observed.
THEOREM Confirmed == Spec => ConfirmationObserved
<1>1. ASSUME IncidentsInv, NEW c \in Check, Store(c)
      PROVE  Elapsed(hist[c].bad, Confirmation) \/ hist[c].relapse
  BY <1>1 DEF IncidentsInv, CheckInv, Confirming, Store
<1>2. IncidentsInv /\ [Next]_vars
         => [\A c \in Check : Store(c) => Elapsed(hist[c].bad, Confirmation) \/ hist[c].relapse]_vars
  BY <1>1
<1>. QED
  BY <1>2, InvAlways, PTL DEF Spec, ConfirmationObserved

\* No incident resolves on its own before a recovery period of successes was.
THEOREM Recovered == Spec => RecoveryObserved
<1>1. ASSUME IncidentsInv, NEW c \in Check, Resolve(c)
      PROVE  Elapsed(hist[c].ok, Recovery)
  BY <1>1 DEF IncidentsInv, CheckInv, Recovering, Resolve
<1>2. IncidentsInv /\ [Next]_vars
         => [\A c \in Check : Resolve(c) => Elapsed(hist[c].ok, Recovery)]_vars
  BY <1>1
<1>. QED
  BY <1>2, InvAlways, PTL DEF Spec, RecoveryObserved

\* A success at the end of the recovery period resolves the incident at hand.
THEOREM Resolves == Spec => ResolvesWhenRecovered
<1>1. ASSUME IncidentsInv, NEW c \in Check, Write(c), work[c].sig \in Success,
             work[c].inc # NULL, Elapsed(hist'[c].ok, Recovery)
      PROVE  work'[c].pc = "resolve"
  <2>. DEFINE w == work[c]
              h == hist[c]
              r == check[c]
              held == /\ w.sig = "down" /\ w.inc = NULL
                      /\ ConfirmationElapsed(w.snap.ff) /\ Held(c)
  <2>. TypeInv /\ TypeOK /\ w \in Work /\ CheckInv(c)
    BY <1>1 DEF IncidentsInv, TypeInv, TypeOK
  <2>1. hist'[c].ok = IF h.ok = NULL THEN now ELSE h.ok
    BY <1>1, Written
  <2>2. /\ w.pc = "write" /\ w.snap.fs = r.fs
        /\ r.fs # NULL => h.ok # NULL /\ h.ok <= r.fs
        /\ h.ok # NULL => r.fs # NULL /\ r.fs <= h.ok /\ r.fs >= incidents[w.inc].onset
        /\ incidents[w.inc].onset <= now
    <3>1. w.pc = "write"
      BY <1>1 DEF Write
    <3>2. w.snap.fs = r.fs
      BY <3>1 DEF CheckInv, SnapCurrent
    <3>3. /\ r.fs # NULL => h.ok # NULL /\ h.ok <= r.fs
          /\ h.ok # NULL => r.fs # NULL /\ r.fs <= h.ok /\ r.fs >= incidents[w.inc].onset
          /\ incidents[w.inc].onset <= now
      BY <1>1, <3>1 DEF CheckInv, Recovering
    <3>. QED
      BY <3>1, <3>2, <3>3
  <2>3. /\ now \in Nat /\ now # NULL /\ Recovery \in Nat
        /\ {r.fs, h.ok} \subseteq Nat \cup {NULL}
        /\ incidents[w.inc].onset \in Nat
    <3>1. w.inc \in DOMAIN incidents
      BY <1>1 DEF TypeInv, WellFormed
    <3>2. incidents[w.inc].onset \in Nat
      BY <3>1, Typed
    <3>3. r.fs \in Nat \cup {NULL} /\ h.ok \in Nat \cup {NULL}
      BY Typed
    <3>. QED
      BY <3>2, <3>3, Typed DEF TypeOK
  <2>4. FS(w, r.fs) = IF r.fs = NULL THEN now
                      ELSE IF r.fs < incidents[w.inc].onset THEN now ELSE r.fs
    BY <1>1, <2>2 DEF FS, Column, StaleOrUnarmed, Success, Failure
  <2>5. RecoveryElapsed(w, FS(w, r.fs))
    <3>1. CASE h.ok = NULL
      BY <1>1, <2>1, <2>2, <2>3, <2>4, <3>1 DEF RecoveryElapsed, Elapsed
    <3>2. CASE h.ok # NULL
      BY <1>1, <2>1, <2>2, <2>3, <2>4, <3>2 DEF RecoveryElapsed, Elapsed
    <3>. QED
      BY <3>1, <3>2
  <2>. HIDE DEF held
  <2>6. Route(w, held) = "resolve"
    BY <1>1, <2>2, <2>5 DEF Route, Success
  <2>7. work'[c] = [w EXCEPT !.pc = "resolve", !.snap = NULL, !.sig = NULL]
    BY <1>1, <2>6 DEF Write, TypeOK, held
  <2>. QED
    BY <2>7 DEF Work
<1>2. IncidentsInv /\ [Next]_vars
         => [\A c \in Check :
                /\ Write(c) /\ work[c].sig \in Success /\ work[c].inc # NULL
                /\ Elapsed(hist'[c].ok, Recovery)
                => work'[c].pc = "resolve"]_vars
  BY <1>1
<1>. QED
  BY <1>2, InvAlways, PTL DEF Spec, ResolvesWhenRecovered

\* A failing result at the end of the confirmation period opens an incident, unless
\* an ancestor of the check is confirming an outage itself.
THEOREM Opens == Spec => OpensWhenConfirmed
<1>1. ASSUME IncidentsInv, NEW c \in Check, Write(c), work[c].sig = "down",
             work[c].inc = NULL, Elapsed(hist'[c].bad, Confirmation),
             \A a \in Ancestors(c) : check[a].status # "validating"
      PROVE  work'[c].pc = "open"
  <2>. DEFINE w == work[c]
              h == hist[c]
              r == check[c]
              held == /\ w.sig = "down" /\ w.inc = NULL
                      /\ ConfirmationElapsed(w.snap.ff) /\ Held(c)
  <2>. TypeInv /\ TypeOK /\ w \in Work /\ CheckInv(c)
    BY <1>1 DEF IncidentsInv, TypeInv, TypeOK
  <2>1. ~held
    BY <1>1 DEF Held
  <2>2. w.sig \in Failure
    BY <1>1 DEF Failure
  <2>3. hist'[c].bad = IF h.bad = NULL THEN now ELSE h.bad
    BY <1>1, <2>2, Written
  <2>4. /\ w.pc = "write" /\ w.snap.ff = r.ff
        /\ h.bad # NULL => r.ff # NULL /\ r.ff <= h.bad
        /\ r.ff # NULL => r.ff <= now
    BY <1>1 DEF CheckInv, SnapCurrent, Confirming, Past, Write
  <2>5. /\ now \in Nat /\ now # NULL /\ Confirmation \in Nat
        /\ {r.ff, h.bad} \subseteq Nat \cup {NULL}
    BY Typed DEF TypeOK
  <2>6. FF(w, r.ff) = IF r.ff = NULL THEN now ELSE r.ff
    BY <1>1, <2>2, <2>4 DEF FF, Column, Success
  <2>7. Elapsed(FF(w, r.ff), Confirmation)
    BY <1>1, <2>3, <2>4, <2>5, <2>6 DEF Elapsed
  <2>. HIDE DEF held
  <2>8. Route(w, held) = "open"
    BY <1>1, <2>1, <2>4, <2>7 DEF Route
  <2>9. work'[c] = [w EXCEPT !.pc = "open", !.snap = NULL, !.sig = NULL]
    BY <1>1, <2>8 DEF Write, TypeOK, held
  <2>. QED
    BY <2>9 DEF Work
<1>2. IncidentsInv /\ [Next]_vars
         => [\A c \in Check :
                /\ Write(c) /\ work[c].sig = "down" /\ work[c].inc = NULL
                /\ Elapsed(hist'[c].bad, Confirmation)
                /\ \A a \in Ancestors(c) : check[a].status # "validating"
                => work'[c].pc = "open"]_vars
  BY <1>1
<1>. QED
  BY <1>2, InvAlways, PTL DEF Spec, OpensWhenConfirmed

-----------------------------------------------------------------------------
(* The end of a muting.                                                    *)

\* Of a muted incident: what mutes it is open or was closed by a person, or the
\* release of what it mutes has yet to come to this incident.
Attended(i) ==
    LET p == incidents[i].cause
        a == incidents[p].check
    IN  \/ incidents[p].active \/ incidents[p].byUser \/ check[a].deleted
        \/ work[a].pc = "release" /\ work[a].inc = p
        \/ work[a].pc = "children" /\ i \in work[a].kids

Muted(i) == incidents[i].active /\ incidents[i].muted /\ ~check[incidents[i].check].deleted

\* An incident that is about to mute others did not end on its own.
Ongoing(c) ==
    LET i == work[c].inc
    IN  incidents[i].active \/ incidents[i].byUser \/ check[c].deleted

MutingInv ==
    /\ \A i \in DOMAIN incidents : incidents[i].cause \in DOMAIN incidents \cup {NULL}
    /\ \A c \in Check : work[c].root \in DOMAIN incidents \cup {NULL}
    /\ \A c \in Check : work[c].pc = "adopt" => Ongoing(c)
    /\ \A i \in DOMAIN incidents : Muted(i) => hist[incidents[i].check].late \/ Attended(i)

\* What the invariant speaks of has its type.
LEMMA MutingTyped ==
    ASSUME TypeInv, MutingInv, NEW i \in DOMAIN incidents, Muted(i)
    PROVE  /\ incidents[i].check \in Check /\ incidents[i].cause \in DOMAIN incidents
           /\ incidents[incidents[i].cause].check \in Check
<1>1. incidents[i].cause \in DOMAIN incidents
  BY DEF TypeInv, TypeOK, MutingInv, Muted
<1>. QED
  BY <1>1, RowsAreIncidents DEF TypeInv, IncidentRow

\* What a step leaves of the rows and of a check when nothing is muted or released.
RowsGoOn ==
    /\ DOMAIN incidents' = DOMAIN incidents
    /\ \A i \in DOMAIN incidents :
          /\ incidents'[i].check = incidents[i].check
          /\ incidents'[i].cause = incidents[i].cause
          /\ incidents'[i].muted => incidents[i].muted
          /\ incidents'[i].active => incidents[i].active
          /\ incidents[i].byUser => incidents'[i].byUser
          /\ incidents[i].active => \/ incidents'[i].active \/ incidents'[i].byUser
                                    \/ check'[incidents[i].check].deleted

GoesOn(c) ==
    /\ check[c].deleted => check'[c].deleted
    /\ hist[c].late => hist'[c].late
    /\ work[c].pc \in {"release", "children"} => work'[c] = work[c]
    /\ work'[c].pc = "adopt" => work'[c] = work[c]
    /\ work'[c].root \in {work[c].root, NULL} \cup DOMAIN incidents

LEMMA MutingKept ==
    ASSUME TypeInv, MutingInv, RowsGoOn, \A c \in Check : GoesOn(c)
    PROVE  MutingInv'
<1>1. \A i \in DOMAIN incidents' : incidents'[i].cause \in DOMAIN incidents' \cup {NULL}
  BY DEF MutingInv, RowsGoOn
<1>2. \A c \in Check : work'[c].root \in DOMAIN incidents' \cup {NULL}
  BY DEF MutingInv, RowsGoOn, GoesOn
<1>3. ASSUME NEW c \in Check, work'[c].pc = "adopt"
      PROVE  Ongoing(c)'
  <2>1. work'[c] = work[c] /\ Ongoing(c)
    BY <1>3 DEF GoesOn, MutingInv
  <2>2. work[c].inc \in DOMAIN incidents /\ incidents[work[c].inc].check = c
    BY <1>3, <2>1 DEF TypeInv, WellFormed
  <2>. QED
    BY <2>1, <2>2 DEF Ongoing, RowsGoOn, GoesOn
<1>4. ASSUME NEW i \in DOMAIN incidents', Muted(i)'
      PROVE  hist'[incidents'[i].check].late \/ Attended(i)'
  <2>1. i \in DOMAIN incidents /\ incidents'[i].check = incidents[i].check
        /\ incidents'[i].cause = incidents[i].cause
    BY DEF RowsGoOn
  <2>2. incidents[i].check \in Check
    BY <2>1, RowsAreIncidents DEF TypeInv, IncidentRow
  <2>3. Muted(i)
    BY <1>4, <2>1, <2>2 DEF Muted, RowsGoOn, GoesOn
  <2>4. /\ incidents[i].cause \in DOMAIN incidents
        /\ incidents[incidents[i].cause].check \in Check
    BY <2>1, <2>3, MutingTyped
  <2>5. hist[incidents[i].check].late \/ Attended(i)
    BY <2>1, <2>3 DEF MutingInv
  <2>6. CASE hist[incidents[i].check].late
    BY <2>1, <2>2, <2>6 DEF GoesOn
  <2>7. CASE Attended(i)
    BY <2>1, <2>4, <2>7 DEF Attended, RowsGoOn, GoesOn
  <2>. QED
    BY <2>5, <2>6, <2>7
<1>. QED
  BY <1>1, <1>2, <1>3, <1>4 DEF MutingInv

\* The steps before and beside an incident.
LEMMA MutingBeside ==
    ASSUME TypeInv, MutingInv, NEW c \in Check,
           Read(c) \/ ReadInWindow(c) \/ Write(c) \/ Open(c) \/ Sweep(c)
    PROVE  MutingInv'
<1>. TypeOK
  BY DEF TypeInv
<1>1. RowsGoOn
  BY DEF RowsGoOn, Read, ReadInWindow, Write, Open, Sweep
<1>2. Idle.pc = "idle" /\ Idle.root = NULL
  BY DEF Idle
<1>3. ASSUME NEW d \in Check, NEW w, work' = [work EXCEPT ![d] = w],
             work[d].pc \in {"idle", "write", "open"}, w.pc # "adopt",
             w.root \in {work[d].root, NULL} \cup DOMAIN incidents, NEW e \in Check
      PROVE  /\ work[e].pc \in {"release", "children"} => work'[e] = work[e]
             /\ work'[e].pc = "adopt" => work'[e] = work[e]
             /\ work'[e].root \in {work[e].root, NULL} \cup DOMAIN incidents
  BY <1>3 DEF TypeOK
<1>4. ASSUME NEW e \in Check
      PROVE  (check[e].deleted => check'[e].deleted) /\ (hist[e].late => hist'[e].late)
  <2>1. check[e] \in CheckRow /\ hist[e] \in History /\ hist[c] \in History /\ check[c] \in CheckRow
    BY DEF TypeOK
  <2>2. check[e].deleted => check'[e].deleted
    BY <2>1 DEF Read, ReadInWindow, Write, Open, Sweep, TypeOK, CheckRow
  <2>3. hist[e].late => hist'[e].late
    <3>1. CASE Write(c)
      <4>1. Observed(hist[c], work[c]).late = hist[c].late
        <5>1. work[c].sig \in Signal
          BY <3>1 DEF Write, TypeInv, WellFormed
        <5>. QED
          BY <2>1, <5>1 DEF Observed, History, Signal, Failure, Success
      <4>2. hist' = [hist EXCEPT ![c] = Observed(hist[c], work[c])]
        BY <3>1 DEF Write
      <4>3. hist'[e] = IF e = c THEN Observed(hist[c], work[c]) ELSE hist[e]
        BY <4>2 DEF TypeOK
      <4>. QED
        BY <4>1, <4>3
    <3>2. CASE UNCHANGED hist
      BY <3>2
    <3>3. CASE Read(c)
      <4>1. hist' = [hist EXCEPT ![c] = [hist[c] EXCEPT !.closed = FALSE]]
        BY <3>3 DEF Read
      <4>2. hist'[e] = IF e = c THEN [hist[c] EXCEPT !.closed = FALSE] ELSE hist[e]
        BY <4>1 DEF TypeOK
      <4>. QED
        BY <2>1, <4>2 DEF History
    <3>4. CASE Sweep(c)
      <4>1. hist' = [hist EXCEPT ![c] = [hist[c] EXCEPT !.bad = NULL, !.ok = NULL,
                                                        !.relapse = FALSE]]
        BY <3>4 DEF Sweep
      <4>2. hist'[e] = IF e = c THEN [hist[c] EXCEPT !.bad = NULL, !.ok = NULL,
                                                     !.relapse = FALSE]
                       ELSE hist[e]
        BY <4>1 DEF TypeOK
      <4>. QED
        BY <2>1, <4>2 DEF History
    <3>. QED
      BY <3>1, <3>2, <3>3, <3>4 DEF ReadInWindow, Open
  <2>. QED
    BY <2>2, <2>3
<1>5. CASE Read(c)
  <2>1. PICK sig \in Signals[c], i \in OneOf(Found(c)) :
            work' = [work EXCEPT ![c] = [Idle EXCEPT !.pc = "write", !.sig = sig, !.at = now,
                                                     !.snap = check'[c], !.inc = i]]
    BY <1>5 DEF Read
  <2>. DEFINE w == [Idle EXCEPT !.pc = "write", !.sig = sig, !.at = now, !.snap = check'[c],
                                !.inc = i]
  <2>2. w.pc = "write" /\ w.root = NULL /\ work[c].pc = "idle"
    BY <1>5 DEF Read, Idle
  <2>. HIDE DEF w
  <2>3. work' = [work EXCEPT ![c] = w]
    BY <2>1 DEF w
  <2>. QED
    BY <1>1, <1>3, <1>4, <2>2, <2>3, MutingKept DEF GoesOn
<1>6. CASE UNCHANGED work
  BY <1>1, <1>4, <1>6, MutingKept DEF GoesOn, MutingInv
<1>7. CASE Write(c)
  <2>1. PICK next \in {"open", "resolve", "idle"} :
            work' = [work EXCEPT ![c] = IF next = "idle" THEN Idle
                                        ELSE [work[c] EXCEPT !.pc = next, !.snap = NULL,
                                                             !.sig = NULL]]
    BY <1>7 DEF Write, Route
  <2>2. work[c] \in Work /\ work[c].pc = "write"
    BY <1>7 DEF Write, TypeOK
  <2>. DEFINE w == IF next = "idle" THEN Idle
                   ELSE [work[c] EXCEPT !.pc = next, !.snap = NULL, !.sig = NULL]
  <2>3. w.pc # "adopt" /\ w.root \in {work[c].root, NULL}
    BY <1>2, <2>2 DEF Work
  <2>. HIDE DEF w
  <2>4. work' = [work EXCEPT ![c] = w]
    BY <2>1 DEF w
  <2>. QED
    BY <1>1, <1>3, <1>4, <2>2, <2>3, <2>4, MutingKept DEF GoesOn
<1>8. CASE Open(c)
  <2>2. work[c] \in Work /\ work[c].pc = "open"
    BY <1>8 DEF Open, TypeOK
  <2>3. CASE work' = [work EXCEPT ![c] = Idle]
    BY <1>1, <1>2, <1>3, <1>4, <2>2, <2>3, MutingKept DEF GoesOn
  <2>4. CASE work' # [work EXCEPT ![c] = Idle]
    <3>1. PICK r, i, onset :
              /\ r \in OneOf(Roots(c, work[c].at))
              /\ work' = [work EXCEPT ![c].pc = "store", ![c].inc = i, ![c].root = r,
                                      ![c].onset = onset]
      BY <1>8, <2>4 DEF Open
    <3>. DEFINE w == [work[c] EXCEPT !.pc = "store", !.inc = i, !.root = r, !.onset = onset]
    <3>2. w.pc = "store" /\ w.root = r
      BY <2>2 DEF Work
    <3>. HIDE DEF w
    <3>3. work' = [work EXCEPT ![c] = w]
      BY <3>1 DEF w, TypeOK
    <3>4. r \in DOMAIN incidents \cup {NULL}
      BY <3>1 DEF OneOf, Roots, Correlated
    <3>. QED
      BY <1>1, <1>3, <1>4, <2>2, <3>2, <3>3, <3>4, MutingKept DEF GoesOn
  <2>. QED
    BY <2>3, <2>4
<1>. QED
  BY <1>5, <1>6, <1>7, <1>8 DEF ReadInWindow, Sweep

\* An incident is stored: of a check that has none, and under an open one or late.
LEMMA MutingStored ==
    ASSUME TypeInv, MutingInv, NEW c \in Check, CheckInv(c), Store(c)
    PROVE  MutingInv'
<1>. DEFINE w == work[c]
            i == IF w.inc = NULL THEN Len(incidents) + 1 ELSE w.inc
            row == IF w.inc = NULL THEN Created(c, w) ELSE Reopened(c, w)
<1>. TypeOK /\ WellFormed(c, w, incidents)
  BY DEF TypeInv
<1>1. /\ w.pc = "store" /\ check' = check
      /\ w.root \in DOMAIN incidents \cup {NULL}
      /\ hist' = [hist EXCEPT ![c].late =
                      w.root \in {j \in DOMAIN incidents : ~incidents[j].active}]
      /\ work' = [work EXCEPT ![c] = [w EXCEPT !.pc = "adopt", !.inc = i, !.root = NULL,
                                               !.onset = NULL]]
  BY DEF Store, MutingInv
<1>2. /\ DOMAIN incidents \subseteq DOMAIN incidents' /\ DOMAIN incidents' = DOMAIN incidents \cup {i}
      /\ incidents'[i] = row
      /\ \A j \in DOMAIN incidents : j # i => incidents'[j] = incidents[j]
  <2>1. CASE w.inc = NULL
    <3>1. incidents' = Append(incidents, row) /\ i = Len(incidents) + 1
      BY <2>1 DEF Store
    <3>. HIDE DEF row, i
    <3>. QED
      BY <3>1, RowAppended
  <2>2. CASE w.inc # NULL
    <3>1. incidents' = [incidents EXCEPT ![i] = row] /\ i \in DOMAIN incidents
      BY <2>2 DEF Store, WellFormed
    <3>. HIDE DEF row, i
    <3>. QED
      BY <3>1 DEF TypeOK
  <2>. QED
    BY <2>1, <2>2
<1>3. row.check = c /\ row.active /\ row.muted = (w.root # NULL) /\ row.cause = w.root
  <2>1. CASE w.inc = NULL
    BY <2>1 DEF Created
  <2>2. CASE w.inc # NULL
    <3>1. incidents[w.inc] \in IncidentRow /\ incidents[w.inc].check = c
      BY <2>2, RowsAreIncidents DEF WellFormed
    <3>. QED
      BY <2>2, <3>1 DEF Reopened, IncidentRow
  <2>. QED
    BY <2>1, <2>2
<1>4. /\ \A d \in Check : d # c => work'[d] = work[d] /\ hist'[d] = hist[d]
      /\ work'[c].pc = "adopt" /\ work'[c].inc = i /\ work'[c].root = NULL
      /\ hist'[c].late = (w.root \in {j \in DOMAIN incidents : ~incidents[j].active})
  <2>1. w \in Work /\ hist[c] \in History
    BY DEF TypeOK
  <2>. HIDE DEF i, w
  <2>. QED
    BY <1>1, <2>1 DEF TypeOK, Work, History
<1>5. \A j \in DOMAIN incidents : incidents[j].check = c => ~incidents[j].active
  BY <1>1 DEF CheckInv, AtHand, Active
<1>6. i \in DOMAIN incidents => incidents[i].check = c
  <2>1. Len(incidents) + 1 \notin DOMAIN incidents
    BY DEF TypeOK
  <2>. QED
    BY <2>1 DEF WellFormed
<1>. HIDE DEF w, i, row
<1>7. \A j \in DOMAIN incidents' : incidents'[j].cause \in DOMAIN incidents' \cup {NULL}
  BY <1>1, <1>2, <1>3 DEF MutingInv
<1>8. \A d \in Check : work'[d].root \in DOMAIN incidents' \cup {NULL}
  BY <1>2, <1>4 DEF MutingInv
<1>9. ASSUME NEW d \in Check, work'[d].pc = "adopt"
      PROVE  Ongoing(d)'
  <2>1. CASE d = c
    BY <1>2, <1>3, <1>4, <2>1 DEF Ongoing
  <2>2. CASE d # c
    <3>1. work'[d] = work[d] /\ Ongoing(d)
      BY <1>4, <1>9, <2>2 DEF MutingInv
    <3>2. work[d].inc \in DOMAIN incidents /\ incidents[work[d].inc].check = d
      BY <1>9, <3>1 DEF TypeInv, WellFormed
    <3>3. work[d].inc # i
      BY <1>6, <2>2, <3>2
    <3>. QED
      BY <1>1, <1>2, <3>1, <3>2, <3>3 DEF Ongoing
  <2>. QED
    BY <2>1, <2>2
<1>10. ASSUME NEW j \in DOMAIN incidents', Muted(j)'
      PROVE  hist'[incidents'[j].check].late \/ Attended(j)'
  <2>1. CASE j = i
    <3>1. w.root \in DOMAIN incidents /\ incidents'[j].cause = w.root /\ incidents'[j].check = c
      BY <1>1, <1>2, <1>3, <1>10, <2>1 DEF Muted
    <3>2. CASE incidents[w.root].active
      <4>1. incidents'[w.root].active
        BY <1>2, <1>3, <3>1, <3>2
      <4>. QED
        BY <3>1, <4>1 DEF Attended
    <3>3. CASE ~incidents[w.root].active
      BY <1>4, <3>1, <3>3
    <3>. QED
      BY <3>2, <3>3
  <2>2. CASE j # i
    <3>1. j \in DOMAIN incidents /\ incidents'[j] = incidents[j]
      BY <1>2, <2>2
    <3>2. Muted(j) /\ incidents[j].check # c
      BY <1>1, <1>5, <1>10, <3>1 DEF Muted
    <3>3. /\ incidents[j].check \in Check /\ incidents[j].cause \in DOMAIN incidents
          /\ incidents[incidents[j].cause].check \in Check
      BY <3>1, <3>2, MutingTyped
    <3>4. CASE hist[incidents[j].check].late
      BY <1>4, <3>1, <3>2, <3>3, <3>4
    <3>5. CASE Attended(j)
      <4>1. CASE incidents[j].cause = i
        BY <1>2, <1>3, <3>1, <4>1 DEF Attended
      <4>2. CASE incidents[j].cause # i
        <5>1. incidents'[incidents[j].cause] = incidents[incidents[j].cause]
          BY <1>2, <3>3, <4>2
        <5>. QED
          BY <1>1, <1>4, <3>1, <3>3, <3>5, <5>1 DEF Attended, w
      <4>. QED
        BY <4>1, <4>2
    <3>. QED
      BY <3>1, <3>2, <3>4, <3>5 DEF MutingInv
  <2>. QED
    BY <2>1, <2>2
<1>. QED
  BY <1>7, <1>8, <1>9, <1>10 DEF MutingInv

\* Open incidents are rolled up under one that is open or was closed by a person.
LEMMA MutingAdopted ==
    ASSUME TypeInv, MutingInv, NEW c \in Check, Adopt(c)
    PROVE  MutingInv'
<1>. DEFINE i == work[c].inc
<1>. TypeOK /\ WellFormed(c, work[c], incidents)
  BY DEF TypeInv
<1>1. /\ work[c].pc = "adopt" /\ check' = check /\ hist' = hist
      /\ i \in DOMAIN incidents /\ incidents[i].check = c /\ Ongoing(c)
  BY DEF Adopt, WellFormed, MutingInv
<1>2. /\ work'[c].pc = "idle" /\ work'[c].root = NULL
      /\ \A d \in Check : d # c => work'[d] = work[d]
  BY DEF Adopt, TypeOK, Idle
<1>3. /\ DOMAIN incidents' = DOMAIN incidents
      /\ \A j \in DOMAIN incidents :
            /\ incidents'[j].check = incidents[j].check
            /\ incidents'[j].active = incidents[j].active
            /\ incidents'[j].byUser = incidents[j].byUser
            /\ incidents'[j] = incidents[j] \/ incidents'[j].cause = i
  <2>. SUFFICES ASSUME NEW j \in DOMAIN incidents
                PROVE  /\ incidents'[j].check = incidents[j].check
                       /\ incidents'[j].active = incidents[j].active
                       /\ incidents'[j].byUser = incidents[j].byUser
                       /\ incidents'[j] = incidents[j] \/ incidents'[j].cause = i
    BY DEF Adopt
  <2>1. incidents[j] \in IncidentRow
    BY RowsAreIncidents
  <2>2. incidents'[j] = IF j \in Adopted(c, i)
                        THEN [incidents[j] EXCEPT !.muted = TRUE, !.cause = i]
                        ELSE incidents[j]
    BY DEF Adopt
  <2>. HIDE DEF i
  <2>. QED
    BY <2>1, <2>2 DEF IncidentRow
<1>. HIDE DEF i
<1>4. \A j \in DOMAIN incidents' : incidents'[j].cause \in DOMAIN incidents' \cup {NULL}
  BY <1>1, <1>3 DEF MutingInv
<1>5. \A d \in Check : work'[d].root \in DOMAIN incidents' \cup {NULL}
  BY <1>2, <1>3 DEF MutingInv
<1>6. ASSUME NEW d \in Check, work'[d].pc = "adopt"
      PROVE  Ongoing(d)'
  <2>1. work'[d] = work[d] /\ Ongoing(d)
    BY <1>2, <1>6 DEF MutingInv
  <2>2. work[d].inc \in DOMAIN incidents
    BY <1>6, <2>1 DEF TypeInv, WellFormed
  <2>. QED
    BY <1>1, <1>3, <2>1, <2>2 DEF Ongoing
<1>7. ASSUME NEW j \in DOMAIN incidents', Muted(j)'
      PROVE  hist'[incidents'[j].check].late \/ Attended(j)'
  <2>1. CASE incidents'[j].cause = i
    BY <1>1, <1>3, <2>1 DEF Attended, Ongoing, i
  <2>2. CASE incidents'[j].cause # i
    <3>1. j \in DOMAIN incidents /\ incidents'[j] = incidents[j] /\ Muted(j)
      BY <1>1, <1>3, <1>7, <2>2 DEF Muted
    <3>2. /\ incidents[j].cause \in DOMAIN incidents
          /\ incidents[incidents[j].cause].check \in Check
      BY <3>1, MutingTyped
    <3>3. CASE Attended(j)
      BY <1>1, <1>2, <1>3, <3>1, <3>2, <3>3 DEF Attended
    <3>. QED
      BY <1>1, <3>1, <3>3 DEF MutingInv
  <2>. QED
    BY <2>1, <2>2
<1>. QED
  BY <1>4, <1>5, <1>6, <1>7 DEF MutingInv

\* An incident is resolved: the release of what it mutes is at hand.
LEMMA MutingResolved ==
    ASSUME TypeInv, MutingInv, NEW c \in Check, Resolve(c)
    PROVE  MutingInv'
<1>. DEFINE i == work[c].inc
<1>. TypeOK /\ WellFormed(c, work[c], incidents)
  BY DEF TypeInv
<1>1. /\ work[c].pc = "resolve" /\ check' = check
      /\ i \in DOMAIN incidents /\ incidents[i].check = c
  BY DEF Resolve, WellFormed
<1>2. /\ work'[c].pc = "release" /\ work'[c].inc = i /\ work'[c].root = work[c].root
      /\ \A d \in Check : d # c => work'[d] = work[d]
      /\ \A d \in Check : hist'[d].late = hist[d].late
  <2>1. work[c] \in Work /\ hist[c] \in History
    BY DEF TypeOK
  <2>. QED
    BY <2>1 DEF Resolve, TypeOK, Work, History
<1>3. /\ DOMAIN incidents' = DOMAIN incidents
      /\ incidents'[i] = [incidents[i] EXCEPT !.active = FALSE, !.resolved = work[c].at]
      /\ \A j \in DOMAIN incidents : j # i => incidents'[j] = incidents[j]
  BY <1>1 DEF Resolve
<1>4. /\ incidents'[i].check = c /\ incidents'[i].active = FALSE
      /\ incidents'[i].cause = incidents[i].cause
  <2>1. incidents[i] \in IncidentRow
    BY <1>1, RowsAreIncidents
  <2>. QED
    BY <1>1, <1>3, <2>1 DEF IncidentRow
<1>. HIDE DEF i
<1>5. \A j \in DOMAIN incidents' : incidents'[j].cause \in DOMAIN incidents' \cup {NULL}
  BY <1>3, <1>4 DEF MutingInv
<1>6. \A d \in Check : work'[d].root \in DOMAIN incidents' \cup {NULL}
  BY <1>2, <1>3 DEF MutingInv
<1>7. ASSUME NEW d \in Check, work'[d].pc = "adopt"
      PROVE  Ongoing(d)'
  <2>1. d # c /\ work'[d] = work[d] /\ Ongoing(d)
    BY <1>2, <1>7 DEF MutingInv
  <2>2. work[d].inc \in DOMAIN incidents /\ incidents[work[d].inc].check = d
    BY <1>7, <2>1 DEF TypeInv, WellFormed
  <2>. QED
    BY <1>1, <1>3, <2>1, <2>2 DEF Ongoing
<1>8. ASSUME NEW j \in DOMAIN incidents', Muted(j)'
      PROVE  hist'[incidents'[j].check].late \/ Attended(j)'
  <2>1. j \in DOMAIN incidents /\ j # i /\ incidents'[j] = incidents[j] /\ Muted(j)
    BY <1>1, <1>3, <1>4, <1>8 DEF Muted
  <2>2. /\ incidents[j].check \in Check /\ incidents[j].cause \in DOMAIN incidents
        /\ incidents[incidents[j].cause].check \in Check
    BY <2>1, MutingTyped
  <2>3. CASE hist[incidents[j].check].late
    BY <1>2, <2>1, <2>2, <2>3
  <2>4. CASE incidents[j].cause = i
    BY <1>2, <1>4, <2>1, <2>4 DEF Attended
  <2>5. CASE incidents[j].cause # i /\ Attended(j)
    <3>1. incidents'[incidents[j].cause] = incidents[incidents[j].cause]
      BY <1>3, <2>2, <2>5
    <3>. QED
      BY <1>1, <1>2, <2>1, <2>2, <2>5, <3>1 DEF Attended
  <2>. QED
    BY <2>1, <2>3, <2>4, <2>5 DEF MutingInv
<1>. QED
  BY <1>5, <1>6, <1>7, <1>8 DEF MutingInv

\* The release finds whatever the incident mutes, and comes to each in turn.
LEMMA MutingReleased ==
    ASSUME TypeInv, MutingInv, NEW c \in Check, Release(c) \/ ReleaseChild(c)
    PROVE  MutingInv'
<1>. TypeOK /\ work[c] \in Work /\ WellFormed(c, work[c], incidents)
  BY DEF TypeInv, TypeOK
<1>1. /\ work[c].pc \in {"release", "children"} /\ check' = check /\ hist' = hist
      /\ \A d \in Check : d # c => work'[d] = work[d]
  BY DEF Release, ReleaseChild, TypeOK
<1>2. work'[c].pc # "adopt" /\ work'[c].root \in {work[c].root, NULL}
  <2>1. \A kids : [work[c] EXCEPT !.pc = "children", !.kids = kids].root = work[c].root
    BY DEF Work
  <2>2. \A kids : /\ [work[c] EXCEPT !.kids = kids].root = work[c].root
                  /\ [work[c] EXCEPT !.kids = kids].pc = work[c].pc
    BY DEF Work
  <2>3. CASE Release(c)
    BY <2>1, <2>3 DEF Release, TypeOK, Idle, Work
  <2>4. CASE ReleaseChild(c)
    <3>1. PICK j : work' = [work EXCEPT ![c] = IF work[c].kids = {j} THEN Idle
                                               ELSE [work[c] EXCEPT !.kids = @ \ {j}]]
      BY <2>4 DEF ReleaseChild
    <3>. QED
      BY <1>1, <2>2, <2>4, <3>1 DEF ReleaseChild, TypeOK, Idle
  <2>. QED
    BY <2>3, <2>4
<1>3. /\ DOMAIN incidents' = DOMAIN incidents
      /\ \A j \in DOMAIN incidents :
            /\ incidents'[j].check = incidents[j].check
            /\ incidents'[j].active = incidents[j].active
            /\ incidents'[j].byUser = incidents[j].byUser
            /\ incidents'[j].cause = incidents[j].cause
            /\ incidents'[j].muted => incidents[j].muted
  <2>1. CASE incidents' = incidents
    BY <2>1
  <2>2. CASE incidents' # incidents
    <3>1. PICK k \in work[c].kids, s \in BOOLEAN :
              incidents' = [incidents EXCEPT ![k].muted = FALSE, ![k].paged = @ \/ s]
      BY <2>2 DEF Release, ReleaseChild
    <3>2. k \in DOMAIN incidents
      BY <3>1 DEF WellFormed
    <3>3. \A j \in DOMAIN incidents : incidents[j] \in IncidentRow
      BY RowsAreIncidents
    <3>. QED
      BY <3>1, <3>2, <3>3 DEF IncidentRow
  <2>. QED
    BY <2>1, <2>2
<1>4. \A j \in DOMAIN incidents' : incidents'[j].cause \in DOMAIN incidents' \cup {NULL}
  BY <1>3 DEF MutingInv
<1>5. \A d \in Check : work'[d].root \in DOMAIN incidents' \cup {NULL}
  BY <1>1, <1>2, <1>3 DEF MutingInv
<1>6. ASSUME NEW d \in Check, work'[d].pc = "adopt"
      PROVE  Ongoing(d)'
  <2>1. d # c /\ work'[d] = work[d] /\ Ongoing(d)
    BY <1>1, <1>2, <1>6 DEF MutingInv
  <2>2. work[d].inc \in DOMAIN incidents
    BY <1>6, <2>1 DEF TypeInv, WellFormed
  <2>. QED
    BY <1>1, <1>3, <2>1, <2>2 DEF Ongoing
<1>7. ASSUME NEW j \in DOMAIN incidents', Muted(j)'
      PROVE  hist'[incidents'[j].check].late \/ Attended(j)'
  <2>. DEFINE p == incidents[j].cause
  <2>1. j \in DOMAIN incidents /\ Muted(j) /\ incidents[j].check \in Check
    BY <1>1, <1>3, <1>7, RowsAreIncidents DEF Muted, IncidentRow
  <2>2. p \in DOMAIN incidents /\ incidents[p].check \in Check
    BY <2>1, MutingTyped
  <2>3. CASE hist[incidents[j].check].late
    BY <1>1, <1>3, <2>1, <2>3
  <2>4. CASE Attended(j) /\ incidents[p].check # c
    BY <1>1, <1>3, <2>1, <2>2, <2>4 DEF Attended
  <2>5. CASE Attended(j) /\ incidents[p].check = c
    <3>1. CASE incidents[p].active \/ incidents[p].byUser \/ check[c].deleted
      BY <1>1, <1>3, <2>1, <2>2, <2>5, <3>1 DEF Attended
    <3>2. CASE work[c].pc = "release" /\ work[c].inc = p
      <4>1. j \in MutedUnder(work[c].inc)
        BY <2>1, <3>2 DEF MutedUnder, Muted
      <4>2. work'[c] = [work[c] EXCEPT !.pc = "children", !.kids = MutedUnder(work[c].inc)]
        BY <3>2, <4>1 DEF Release, ReleaseChild, TypeOK
      <4>3. work'[c].pc = "children" /\ j \in work'[c].kids
        BY <4>1, <4>2 DEF Work
      <4>. QED
        BY <1>3, <2>1, <2>2, <2>5, <4>3 DEF Attended
    <3>3. CASE work[c].pc = "children" /\ j \in work[c].kids
      <4>1. PICK k \in work[c].kids :
                /\ incidents' = IF check[incidents[k].check].deleted THEN incidents
                                ELSE [incidents EXCEPT ![k].muted = FALSE,
                                         ![k].paged = @ \/ check[incidents[k].check].status
                                                             \in {"down", "stale"}]
                /\ work' = [work EXCEPT ![c] = IF work[c].kids = {k} THEN Idle
                                               ELSE [work[c] EXCEPT !.kids = @ \ {k}]]
        BY <3>3 DEF Release, ReleaseChild
      <4>2. k # j
        <5>1. SUFFICES ASSUME k = j
                       PROVE  FALSE
          OBVIOUS
        <5>2. ~check[incidents[j].check].deleted /\ incidents[j] \in IncidentRow
          BY <2>1, RowsAreIncidents DEF Muted
        <5>3. incidents'[j] = [incidents[j] EXCEPT !.muted = FALSE,
                                   !.paged = @ \/ check[incidents[j].check].status
                                                    \in {"down", "stale"}]
          BY <2>1, <4>1, <5>1, <5>2
        <5>4. incidents'[j].muted = FALSE
          BY <5>2, <5>3 DEF IncidentRow
        <5>. QED
          BY <1>7, <5>4 DEF Muted
      <4>3. work'[c] = [work[c] EXCEPT !.kids = @ \ {k}]
        BY <3>3, <4>1, <4>2 DEF TypeOK
      <4>4. work'[c].pc = "children" /\ j \in work'[c].kids
        BY <3>3, <4>2, <4>3 DEF Work
      <4>. QED
        BY <1>3, <2>1, <2>2, <2>5, <4>4 DEF Attended
    <3>. QED
      BY <2>5, <3>1, <3>2, <3>3 DEF Attended
  <2>. QED
    BY <2>1, <2>3, <2>4, <2>5 DEF MutingInv
<1>. QED
  BY <1>4, <1>5, <1>6, <1>7 DEF MutingInv

\* What users do ends mutings in no other way than MutingEnds allows.
LEMMA MutingUser ==
    ASSUME TypeInv, MutingInv, User
    PROVE  MutingInv'
<1>. TypeOK /\ work' = work
  BY DEF TypeInv, User
<1>1. \A j \in DOMAIN incidents : incidents[j] \in IncidentRow
  BY RowsAreIncidents
<1>2. ASSUME NEW i \in DOMAIN incidents, Acknowledge(i) \/ Unacknowledge(i)
      PROVE  RowsGoOn /\ \A c \in Check : GoesOn(c)
  <2>1. PICK b \in BOOLEAN : incidents' = [incidents EXCEPT ![i].acked = b]
    BY <1>2 DEF Acknowledge, Unacknowledge
  <2>2. check' = check /\ hist' = hist
    BY <1>2 DEF Acknowledge, Unacknowledge
  <2>3. RowsGoOn
    BY <1>1, <2>1 DEF RowsGoOn, IncidentRow
  <2>. QED
    BY <2>2, <2>3 DEF GoesOn
<1>3. ASSUME NEW i \in DOMAIN incidents, ManualResolve(i)
      PROVE  RowsGoOn /\ \A c \in Check : GoesOn(c)
  <2>1. /\ incidents' = [incidents EXCEPT ![i].active = FALSE, ![i].resolved = now,
                                          ![i].byUser = TRUE]
        /\ check' = check
    BY <1>3 DEF ManualResolve
  <2>2. RowsGoOn
    BY <1>1, <2>1 DEF RowsGoOn, IncidentRow
  <2>3. \A c \in Check : hist'[c].late = hist[c].late
    BY <1>3 DEF ManualResolve, TypeOK, History
  <2>. QED
    BY <2>1, <2>2, <2>3 DEF GoesOn
<1>4. ASSUME NEW d \in Check, DeleteCheck(d)
      PROVE  RowsGoOn /\ \A c \in Check : GoesOn(c)
  <2>1. check'[d].deleted /\ \A c \in Check : check[c].deleted => check'[c].deleted
    <3>1. check'[d] = [check[d] EXCEPT !.deleted = TRUE]
      BY <1>4 DEF DeleteCheck, TypeOK
    <3>2. \A c \in Check \ {d} : check'[c] = check[c]
      BY <1>4 DEF DeleteCheck, TypeOK
    <3>3. check[d] \in CheckRow
      BY DEF TypeOK
    <3>4. check'[d].deleted
      BY <3>1, <3>3 DEF CheckRow
    <3>. QED
      BY <3>2, <3>4
  <2>2. /\ DOMAIN incidents' = DOMAIN incidents
        /\ \A j \in DOMAIN incidents :
              incidents'[j] = IF j \in Active(d)
                              THEN [incidents[j] EXCEPT !.active = FALSE, !.resolved = now]
                              ELSE incidents[j]
    BY <1>4 DEF DeleteCheck
  <2>3. ASSUME NEW j \in DOMAIN incidents, j \in Active(d)
        PROVE  /\ incidents'[j].check = incidents[j].check /\ incidents[j].check = d
               /\ incidents'[j].cause = incidents[j].cause
               /\ incidents'[j].muted = incidents[j].muted
               /\ incidents'[j].byUser = incidents[j].byUser
               /\ ~incidents'[j].active
    <3>1. incidents'[j] = [incidents[j] EXCEPT !.active = FALSE, !.resolved = now]
      BY <2>2, <2>3
    <3>2. incidents[j] \in IncidentRow /\ incidents[j].check = d
      BY <1>1, <2>3 DEF Active
    <3>. QED
      BY <3>1, <3>2 DEF IncidentRow
  <2>4. \A j \in DOMAIN incidents : j \notin Active(d) => incidents'[j] = incidents[j]
    BY <2>2
  <2>5. RowsGoOn
    BY <2>1, <2>2, <2>3, <2>4 DEF RowsGoOn
  <2>. QED
    BY <1>4, <2>1, <2>5 DEF GoesOn, DeleteCheck
<1>5. ASSUME NEW d \in Check, ToggleWindow(d)
      PROVE  RowsGoOn /\ \A c \in Check : GoesOn(c)
  <2>1. \A c \in Check : check'[c].deleted = check[c].deleted
    BY <1>5 DEF ToggleWindow, TypeOK, CheckRow
  <2>. QED
    BY <1>5, <2>1 DEF ToggleWindow, RowsGoOn, GoesOn
<1>. QED
  BY <1>2, <1>3, <1>4, <1>5, MutingKept DEF User

LEMMA MutingStep ==
    ASSUME IncidentsInv, MutingInv, [Next]_vars
    PROVE  MutingInv'
<1>. TypeInv /\ \A c \in Check : CheckInv(c)
  BY DEF IncidentsInv
<1>1. ASSUME NEW c \in Check, Process(c) \/ Sweep(c)
      PROVE  MutingInv'
  BY <1>1, MutingBeside, MutingStored, MutingAdopted, MutingResolved, MutingReleased DEF Process
<1>2. CASE Tick \/ UNCHANGED vars
  <2>1. RowsGoOn /\ \A c \in Check : GoesOn(c)
    BY <1>2 DEF Tick, vars, RowsGoOn, GoesOn
  <2>. QED
    BY <2>1, MutingKept
<1>. QED
  BY <1>1, <1>2, MutingUser DEF Next

\* However the resolution of an incident, the arrival of others under it and what
\* users do interleave, none stays rolled up under an incident that recovered.
THEOREM MutingsEnd == Spec => []MutingEnds
<1>1. Init => IncidentsInv /\ MutingInv
  <2>1. Init => MutingInv
    BY DEF Init, MutingInv, Idle
  <2>. QED
    BY <2>1, InvInit
<1>2. IncidentsInv /\ MutingInv /\ [Next]_vars => IncidentsInv' /\ MutingInv'
  BY InvStep, MutingStep
<1>3. ASSUME IncidentsInv, MutingInv
      PROVE  MutingEnds
  <2>. SUFFICES ASSUME NEW i \in DOMAIN incidents, Muted(i)
                PROVE  \/ hist[incidents[i].check].late
                       \/ Attended(i)
    BY DEF Muted, MutingEnds, Attended
  <2>. QED
    BY <1>3 DEF MutingInv
<1>. QED
  BY <1>1, <1>2, <1>3, PTL DEF Spec
=============================================================================
