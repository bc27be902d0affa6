----------------------------- MODULE Escalation -----------------------------
(***************************************************************************)
(* What pages people about one open incident: the rungs of its escalation  *)
(* policy and its reminders, as rows of the jobs table, the runners that   *)
(* execute them, and the users, the snooze sweep and the incident pipeline *)
(* that handle the incident meanwhile.                                     *)
(*                                                                         *)
(* Every SQL statement is a step of its own, but the creation of a job,    *)
(* whose deduplication JobQueue takes apart, is one.  A rung is a step of  *)
(* the policy in a cycle of its repetition; its rows are reduced to what   *)
(* the statements tell apart.  The incident is not rolled up (see          *)
(* Incidents), runs neither fail nor die (see JobQueue), and all that a    *)
(* step pages goes out as one notification job.                            *)
(***************************************************************************)
EXTENDS Integers, Sequences, FiniteSetsExt

CONSTANTS
    User,           \* requests being served at once
    Sweep,          \* the snooze sweep
    Pipeline,       \* the processing of the check's results
    Runner,         \* job runners
    Delay,          \* the delays of the policy's steps
    RepeatMax,      \* cycles after the first
    RepeatAfter,    \* delay of a cycle
    Interval,       \* reminder interval, 0 when reminders are off
    Snoozes,        \* for how long users snooze
    Operations,     \* what users and the pipeline do to the incident
    MaxTime,        \* bound: the clock
    MaxOps,         \* bound: acknowledgments, snoozes and resolutions
    MaxReminders,   \* bound: reminders sent
    NULL

Proc == User \cup {Sweep, Pipeline}
Cycle == 0 .. RepeatMax
Rung == (DOMAIN Delay) \X Cycle
ReminderSeq == 0 .. MaxReminders

\* When a step is due, counted from the start of its cycle: the delays stack.
Offset[s \in 0 .. Len(Delay)] == IF s = 0 THEN 0 ELSE Offset[s - 1] + Delay[s]

MaybeTime == Nat \cup {NULL}

AnyOperation == {"acknowledge", "unacknowledge", "snooze", "unsnooze", "resolve", "recover",
                 "relapse", "pause"}

ASSUME EscalationAssumption ==
    /\ IsFiniteSet(User) /\ IsFiniteSet(Runner)
    /\ Sweep \notin User /\ Pipeline \notin User /\ Sweep # Pipeline
    /\ Delay \in Seq(Nat) /\ Delay # <<>>
    /\ {RepeatMax, RepeatAfter, Interval, MaxTime, MaxOps, MaxReminders} \subseteq Nat
    /\ Snoozes \subseteq Nat \ {0}
    /\ Operations \subseteq AnyOperation
    /\ NULL \notin Nat /\ NULL \notin Rung /\ NULL \notin AnyOperation \cup {"open"}

VARIABLES
    now,        \* the clock
    incident,   \* the incident's row
    steps,      \* the escalation step jobs, and their notifications, by rung
    reminders,  \* when the pending reminder job of each number is due
    run,        \* the runners
    proc,       \* the other processes
    ops,        \* how many acknowledgments, snoozes and resolutions there were
    hist        \* history, for the properties alone

vars == <<now, incident, steps, reminders, run, proc, ops, hist>>

IncidentRow == [acked : BOOLEAN, resolved : BOOLEAN, snoozed : MaybeTime,
                count : ReminderSeq, last : MaybeTime]

\* live: due time of the pending row; canceled: the latest due time of a canceled
\* one; ran: some row left pending; queued: its notification job is pending; sent:
\* how often the notification was sent (twice stands for more).
StepRows == [live : MaybeTime, canceled : MaybeTime, ran : BOOLEAN,
             queued : BOOLEAN, sent : 0 .. 2]

\* at: when the run read the incident, or when the cycle to schedule starts; step:
\* the next step of that cycle to schedule.
Run == [pc : {"idle", "step", "page", "cycle", "reminder", "claim", "again"},
        rung : Rung \cup {NULL}, seq : ReminderSeq, at : MaybeTime,
        step : 0 .. Len(Delay)]

\* acks: the snooze is to acknowledge too; todo: when each of the rungs to
\* create is due.
Process == [pc : {"idle", "write", "sweep", "cancel", "list", "create", "remind", "store"},
            op : Operations \cup {"open", NULL}, until : MaybeTime, acks : BOOLEAN,
            todo : [Rung -> MaybeTime], seq : ReminderSeq, due : MaybeTime]

\* settled: since the sweep of an operation that handled the incident nothing made
\* it need paging again, and no step was paging then; relapsed: it was reopened;
\* torn: a sweep fell between the insertions of a cycle.
History == [settled : BOOLEAN, relapsed : BOOLEAN, torn : BOOLEAN]

\* A run holds a rung or a reminder, a process an operation, while it is at work.
TypeOK ==
    /\ now \in 0 .. MaxTime
    /\ incident \in IncidentRow
    /\ steps \in [Rung -> StepRows]
    /\ reminders \in [ReminderSeq -> MaybeTime]
    /\ run \in [Runner -> Run]
    /\ proc \in [Proc -> Process]
    /\ \A r \in Runner : (run[r].pc \in {"step", "page", "cycle"}) = (run[r].rung # NULL)
    /\ \A p \in Proc : (proc[p].pc = "idle") = (proc[p].op = NULL)
    /\ ops \in 0 .. MaxOps
    /\ hist \in History

Nothing == [g \in Rung |-> NULL]

IdleRun == [pc |-> "idle", rung |-> NULL, seq |-> 0, at |-> NULL, step |-> 0]
IdleProc == [pc |-> "idle", op |-> NULL, until |-> NULL, acks |-> FALSE, todo |-> Nothing,
             seq |-> 0, due |-> NULL]

\* The incident has just been inserted, and its first cycle is being scheduled.
Opening == [IdleProc EXCEPT !.pc = "create", !.op = "open",
                            !.todo = [g \in Rung |-> IF g[2] = 0 THEN Offset[g[1]] ELSE NULL]]

Init ==
    /\ now = 0
    /\ incident = [acked |-> FALSE, resolved |-> FALSE, snoozed |-> NULL, count |-> 0,
                   last |-> NULL]
    /\ steps = [g \in Rung |-> [live |-> NULL, canceled |-> NULL, ran |-> FALSE,
                                queued |-> FALSE, sent |-> 0]]
    /\ reminders = [n \in ReminderSeq |-> NULL]
    /\ run = [r \in Runner |-> IdleRun]
    /\ proc = [p \in Proc |-> IF p = Pipeline THEN Opening ELSE IdleProc]
    /\ ops = 0
    /\ hist = [settled |-> FALSE, relapsed |-> FALSE, torn |-> FALSE]

-----------------------------------------------------------------------------
(* The incident and the jobs.                                              *)

\* Mutant: the acknowledgment is left to the cancel sweep.
NeedsPagingAcked(t) ==
    /\ ~incident.resolved
    /\ incident.snoozed # NULL => incident.snoozed <= t

\* The guard that every step and reminder takes when it fires.
NeedsPaging(t) ==
    /\ ~incident.acked /\ ~incident.resolved
    /\ incident.snoozed # NULL => incident.snoozed <= t

Due(t) == t # NULL /\ t <= now

\* Runners take the pending rows in the order of their due times.
First(t) ==
    /\ \A g \in Rung : steps[g].live # NULL => t <= steps[g].live
    /\ \A n \in ReminderSeq : reminders[n] # NULL => t <= reminders[n]

Later(a, b) == IF a = NULL \/ a < b THEN b ELSE a

\* CancelPendingForIncident: the pending rows, or those due before t, are
\* soft-deleted.  A notification job is due when it is created.
Withdrawn(due, t) == due # NULL /\ (t # NULL => due < t)

Canceled(t) ==
    [g \in Rung |->
        LET row == [steps[g] EXCEPT !.queued = FALSE] IN
        IF Withdrawn(row.live, t)
        THEN [row EXCEPT !.live = NULL, !.canceled = Later(row.canceled, row.live)]
        ELSE row]

CanceledReminders(t) ==
    [n \in ReminderSeq |-> IF Withdrawn(reminders[n], t) THEN NULL ELSE reminders[n]]

\* Mutant: a canceled row is copied whether or not another row of its rung ran.
ResumableRows == {g \in Rung : steps[g].canceled # NULL /\ steps[g].live = NULL}

\* Mutant: only what fell due is brought back.
ResumableOverdue ==
    {g \in Rung : steps[g].canceled # NULL /\ ~steps[g].ran /\ steps[g].live = NULL
                  /\ steps[g].canceled <= now}

\* The rungs an unacknowledgment brings back.
Resumable == {g \in Rung : steps[g].canceled # NULL /\ ~steps[g].ran /\ steps[g].live = NULL}

\* Mutant: every rung that fell due meanwhile is due at once.
ResumedEach ==
    [g \in Rung |-> IF g \in Resumable THEN Max({now, steps[g].canceled}) ELSE NULL]

\* They keep their spacing: the block is shifted so that its first one is not overdue.
Resumed ==
    LET first == Min({steps[g].canceled : g \in Resumable})
        shift == Max({0, now - first})
    IN  [g \in Rung |-> IF g \in Resumable THEN steps[g].canceled + shift ELSE NULL]

-----------------------------------------------------------------------------
(* The runners: escalation steps.                                          *)

ClaimStep(r, g) ==
    /\ run[r].pc = "idle"
    /\ Due(steps[g].live) /\ First(steps[g].live)
    /\ steps' = [steps EXCEPT ![g].live = NULL, ![g].ran = TRUE]
    /\ run' = [run EXCEPT ![r] = [@ EXCEPT !.pc = "step", !.rung = g]]
    /\ UNCHANGED <<now, incident, reminders, proc, ops, hist>>

\* The run reads the incident, and pages or is over.
CheckIncident(r) ==
    /\ run[r].pc = "step"
    /\ run' = [run EXCEPT ![r] = IF NeedsPaging(now) THEN [@ EXCEPT !.pc = "page"] ELSE IdleRun]
    /\ UNCHANGED <<now, incident, steps, reminders, proc, ops, hist>>

\* The last step of a cycle schedules the next one, while there are any.
Repeats(g) == g[1] = Len(Delay) /\ g[2] < RepeatMax

FanOut(r) ==
    LET g == run[r].rung IN
    /\ run[r].pc = "page"
    /\ steps' = [steps EXCEPT ![g].queued = TRUE]
    /\ run' = [run EXCEPT ![r] =
                 IF Repeats(g) THEN [@ EXCEPT !.pc = "cycle", !.at = now + RepeatAfter,
                                              !.step = 1]
                               ELSE IdleRun]
    /\ UNCHANGED <<now, incident, reminders, proc, ops, hist>>

ScheduleStep(r) ==
    LET w == run[r]
        g == <<w.step, w.rung[2] + 1>>
    IN
    /\ w.pc = "cycle"
    /\ steps' = [steps EXCEPT ![g].live = w.at + Offset[w.step]]
    /\ run' = [run EXCEPT ![r] = IF w.step = Len(Delay) THEN IdleRun ELSE [w EXCEPT !.step = @ + 1]]
    /\ UNCHANGED <<now, incident, reminders, proc, ops, hist>>

\* A notification job is run: it does not look at the state of the incident.
SendNotification(g) ==
    /\ steps[g].queued
    /\ steps' = [steps EXCEPT ![g].queued = FALSE, ![g].sent = IF @ < 2 THEN @ + 1 ELSE @]
    /\ UNCHANGED <<now, incident, reminders, run, proc, ops, hist>>

-----------------------------------------------------------------------------
(* The runners: reminders.                                                 *)

ClaimReminderJob(r, n) ==
    /\ run[r].pc = "idle"
    /\ Due(reminders[n]) /\ First(reminders[n])
    /\ reminders' = [reminders EXCEPT ![n] = NULL]
    /\ run' = [run EXCEPT ![r] = [@ EXCEPT !.pc = "reminder", !.seq = n]]
    /\ UNCHANGED <<now, incident, steps, proc, ops, hist>>

\* A reminder of a paused check is put off.
CheckReminder(r) ==
    /\ run[r].pc = "reminder"
    /\ \/ /\ ~NeedsPaging(now)
          /\ run' = [run EXCEPT ![r] = IdleRun]
       \/ /\ NeedsPaging(now)
          /\ \E pc \in {"claim"} \cup (IF "pause" \in Operations THEN {"again"} ELSE {}) :
                run' = [run EXCEPT ![r] = [@ EXCEPT !.pc = pc, !.at = now]]
    /\ UNCHANGED <<now, incident, steps, reminders, proc, ops, hist>>

\* Mutant: the update does not compare reminder_count.
ClaimableAnyCount(w) ==
    /\ ~incident.acked /\ ~incident.resolved
    /\ incident.snoozed # NULL => incident.snoozed <= w.at

\* The compare-and-set that one reminder job wins.
Claimable(w) ==
    /\ incident.count = w.seq
    /\ ~incident.acked /\ ~incident.resolved
    /\ incident.snoozed # NULL => incident.snoozed <= w.at

ClaimIncidentReminder(r) ==
    LET w == run[r] IN
    /\ w.pc = "claim"
    /\ \/ /\ Claimable(w) /\ w.seq < MaxReminders /\ incident.count < MaxReminders
          /\ incident' = [incident EXCEPT !.count = @ + 1, !.last = w.at]
          /\ run' = [run EXCEPT ![r] = [w EXCEPT !.pc = "again", !.seq = w.seq + 1]]
       \/ /\ ~Claimable(w)
          /\ run' = [run EXCEPT ![r] = IdleRun]
          /\ UNCHANGED incident
    /\ UNCHANGED <<now, steps, reminders, proc, ops, hist>>

ScheduleNextReminder(r) ==
    LET w == run[r] IN
    /\ w.pc = "again"
    /\ reminders' = [reminders EXCEPT ![w.seq] = w.at + Interval]
    /\ run' = [run EXCEPT ![r] = IdleRun]
    /\ UNCHANGED <<now, incident, steps, proc, ops, hist>>

-----------------------------------------------------------------------------
(* What is done to the incident.                                           *)

\* An operation reads the incident, and stops there when it has nothing to do.
Begin(p, op, w) ==
    /\ proc[p].pc = "idle" /\ op \in Operations
    /\ proc' = [proc EXCEPT ![p] = [w EXCEPT !.pc = "write", !.op = op]]
    /\ UNCHANGED <<now, incident, steps, reminders, run, hist>>

\* Those that undo an earlier one need no bound.
Bounded == ops < MaxOps /\ ops' = ops + 1

Acknowledge(u) == ~incident.acked /\ Bounded /\ Begin(u, "acknowledge", IdleProc)

Unacknowledge(u) == incident.acked /\ Begin(u, "unacknowledge", IdleProc) /\ UNCHANGED ops

Snooze(u) ==
    \E d \in Snoozes :
        /\ Bounded
        /\ Begin(u, "snooze", [IdleProc EXCEPT !.until = now + d, !.acks = ~incident.acked])

Unsnooze(u) ==
    incident.snoozed # NULL /\ Begin(u, "unsnooze", IdleProc) /\ UNCHANGED ops

\* The sweep lists the snoozes that have expired.
SweepUnsnooze ==
    /\ Due(incident.snoozed) /\ ~incident.resolved
    /\ Begin(Sweep, "unsnooze", IdleProc)
    /\ UNCHANGED ops

Resolve(u) == ~incident.resolved /\ Bounded /\ Begin(u, "resolve", IdleProc)

Recover == ~incident.resolved /\ Bounded /\ Begin(Pipeline, "recover", IdleProc)

Relapse == incident.resolved /\ Begin(Pipeline, "relapse", IdleProc) /\ UNCHANGED ops

Written(w) ==
    CASE w.op = "acknowledge"   -> [incident EXCEPT !.acked = TRUE]
      [] w.op = "unacknowledge" -> [incident EXCEPT !.acked = FALSE]
      [] w.op = "snooze"        -> [incident EXCEPT !.snoozed = w.until, !.acked = @ \/ w.acks]
      [] w.op = "unsnooze"      -> [incident EXCEPT !.snoozed = NULL]
      [] w.op = "relapse"       -> [incident EXCEPT !.resolved = FALSE, !.acked = FALSE]
      [] OTHER                  -> [incident EXCEPT !.resolved = TRUE]

\* Mutant: what the operation was is kept when it is over.
GotoKeeping(p, pc) == proc' = [proc EXCEPT ![p].pc = pc]

Goto(p, pc) == proc' = [proc EXCEPT ![p] = IF pc = "idle" THEN IdleProc ELSE [@ EXCEPT !.pc = pc]]

\* The UPDATE of the incident.  A recovery cancels nothing.
Write(p) ==
    LET op == proc[p].op IN
    /\ proc[p].pc = "write"
    /\ incident' = Written(proc[p])
    /\ Goto(p, CASE op = "recover"                 -> "idle"
                 [] op \in {"unsnooze", "relapse"} -> "remind"
                 [] OTHER                          -> "sweep")
    /\ hist' = [hist EXCEPT !.settled = @ /\ op \notin {"unacknowledge", "relapse"},
                            !.relapsed = @ \/ op = "relapse"]
    /\ UNCHANGED <<now, steps, reminders, run, ops>>

\* cancelPendingNotifications.
CancelPending(p) ==
    LET w == proc[p] IN
    /\ w.pc = "sweep"
    /\ steps' = Canceled(w.until)
    /\ reminders' = CanceledReminders(w.until)
    /\ Goto(p, CASE w.op = "unacknowledge" -> "list"
                 [] w.op = "snooze"        -> "cancel"
                 [] OTHER                  -> "idle")
    /\ hist' = [hist EXCEPT !.settled = /\ incident.acked
                                        /\ \A r \in Runner : run[r].pc # "page",
                            !.torn = \/ @
                                     \/ \E r \in Runner : run[r].pc = "cycle"
                                     \/ \E q \in Proc : proc[q].pc = "create"]
    /\ UNCHANGED <<now, incident, run, ops>>

\* CancelIncidentReminders, at the end of a snooze request.
CancelReminders(p) ==
    /\ proc[p].pc = "cancel"
    /\ reminders' = CanceledReminders(NULL)
    /\ Goto(p, "idle")
    /\ UNCHANGED <<now, incident, steps, run, ops, hist>>

\* resumeEscalationAfterUnack: the history of the rungs is read ...
ListSteps(p) ==
    /\ proc[p].pc = "list"
    /\ proc' = [proc EXCEPT ![p] = IF Resumable = {} THEN [@ EXCEPT !.pc = "remind"]
                                   ELSE [@ EXCEPT !.pc = "create", !.todo = Resumed]]
    /\ UNCHANGED <<now, incident, steps, reminders, run, ops, hist>>

\* ... and the rungs are created, in the order of their due times (sort.Slice puts
\* those that are due together in any order).  So is the first cycle.
CreateStep(p) ==
    LET w == proc[p]
        planned == {g \in Rung : w.todo[g] # NULL}
    IN
    /\ w.pc = "create"
    /\ \E g \in planned :
          /\ \A h \in planned : w.todo[g] <= w.todo[h]
          /\ steps' = [steps EXCEPT ![g].live = w.todo[g]]
          /\ proc' = [proc EXCEPT ![p] = [w EXCEPT !.todo[g] = NULL,
                                          !.pc = IF planned = {g} THEN "remind" ELSE "create"]]
    /\ UNCHANGED <<now, incident, reminders, run, ops, hist>>

\* scheduleReminder reads the incident again ...
ReadReminder(p) ==
    /\ proc[p].pc = "remind"
    /\ IF Interval > 0 /\ NeedsPaging(now)
       THEN proc' = [proc EXCEPT ![p] = [@ EXCEPT !.pc = "store", !.seq = incident.count,
                                                  !.due = now + Interval]]
       ELSE Goto(p, "idle")
    /\ UNCHANGED <<now, incident, steps, reminders, run, ops, hist>>

\* ... and creates the job of the number it read.
StoreReminder(p) ==
    /\ proc[p].pc = "store"
    /\ reminders' = [reminders EXCEPT ![proc[p].seq] = proc[p].due]
    /\ Goto(p, "idle")
    /\ UNCHANGED <<now, incident, steps, run, ops, hist>>

\* Time passes while jobs wait; one is run, and a request is served, in no time.
Tick ==
    /\ now < MaxTime
    /\ \A r \in Runner : run[r].pc = "idle"
    /\ \A p \in Proc : proc[p].pc = "idle"
    /\ now' = now + 1
    /\ UNCHANGED <<incident, steps, reminders, run, proc, ops, hist>>

UserNext(u) == \/ Acknowledge(u) \/ Unacknowledge(u) \/ Snooze(u) \/ Unsnooze(u) \/ Resolve(u)

ProcNext(p) == \/ Write(p) \/ CancelPending(p) \/ CancelReminders(p) \/ ListSteps(p)
               \/ CreateStep(p) \/ ReadReminder(p) \/ StoreReminder(p)

RunNext(r) == \/ \E g \in Rung : ClaimStep(r, g)
              \/ CheckIncident(r) \/ FanOut(r) \/ ScheduleStep(r)
              \/ \E n \in ReminderSeq : ClaimReminderJob(r, n)
              \/ CheckReminder(r) \/ ClaimIncidentReminder(r) \/ ScheduleNextReminder(r)

Next == \/ \E u \in User : UserNext(u)
        \/ SweepUnsnooze \/ Recover \/ Relapse
        \/ \E p \in Proc : ProcNext(p)
        \/ \E r \in Runner : RunNext(r)
        \/ \E g \in Rung : SendNotification(g)
        \/ Tick

Spec == Init /\ [][Next]_vars

-----------------------------------------------------------------------------
(* Properties.                                                             *)

\* A rung pages once, however often the incident is acknowledged and
\* unacknowledged: what an unacknowledgment brings back has never run, nor has
\* any other generation of it.
PagedOnce == \A g \in Rung : steps[g].sent <= 1

\* An unacknowledged incident has lost none of its rungs: each row that a sweep
\* canceled has a successor that ran or that will.  A relapse, which clears the
\* acknowledgment and resumes nothing, is the exception.
RungsResumed ==
    (~incident.acked /\ ~incident.resolved /\ ~hist.relapsed /\ \A p \in Proc : proc[p].pc = "idle")
        => \A g \in Rung : steps[g].canceled # NULL => steps[g].ran \/ steps[g].live # NULL

\* The rungs of a cycle keep the spacing of the policy, through any number of
\* acknowledgments, snoozes and resumptions, unless a sweep fell into the middle
\* of the scheduling of a cycle and parted its rungs.
SpacingKept ==
    hist.torn \/ \A g, h \in Rung :
        (g[2] = h[2] /\ h[1] = g[1] + 1 /\ steps[g].live # NULL /\ steps[h].live # NULL)
            => steps[h].live = steps[g].live + Delay[h[1]]

\* Once the sweep of an acknowledgment, a snooze or a resolution has found no step
\* past its check of the incident, no step pages until the incident needs paging
\* again: neither the rows of a cycle that was being scheduled, nor those due after
\* the end of a snooze.  A step that had passed its check when the sweep came still
\* pages, and schedules the next cycle: that operation settles nothing.
AckStopsPaging ==
    hist.settled => /\ \A g \in Rung : ~steps[g].queued
                    /\ \A r \in Runner : run[r].pc # "page"

\* Reminders are an interval apart, whoever restarted the chain meanwhile and
\* however many reminder jobs there are.
RemindersPaced ==
    [][incident'.count # incident.count /\ incident.last # NULL
         => incident'.last >= incident.last + Interval]_vars

=============================================================================
