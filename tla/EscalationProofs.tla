---------------------------- MODULE EscalationProofs ----------------------------
(***************************************************************************)
(* Proofs about the escalation of one incident, for any policy, users and  *)
(* runners: types, that an acknowledgment stops the steps from paging and  *)
(* that reminders keep their interval; and, with one user at a time, that  *)
(* no rung pages twice, none is lost, and a cycle keeps its spacing.       *)
(***************************************************************************)
EXTENDS Escalation, TLAPS, WellFoundedInduction

-----------------------------------------------------------------------------
(* Numbers.                                                                *)

\* Every nonempty set of numbers has a least one.
LEMMA LeastNumber ==
    ASSUME NEW T \in SUBSET Nat, T # {}
    PROVE  \E x \in T : \A y \in T : x <= y
<1>1. PICK x \in T : \A y \in T : ~ (<<y, x>> \in OpToRel(<, Nat))
  BY WFMin, NatLessThanWellFounded
<1>2. \A y \in T : y \in Nat
  OBVIOUS
<1>3. \A y \in T : ~ (y < x)
  BY <1>1, <1>2 DEF OpToRel
<1>. QED
  BY <1>2, <1>3

\* The operations that users alone begin.
ByUser == {"acknowledge", "unacknowledge", "snooze", "resolve"}

\* Sums of times and delays are times.
LEMMA NatSum == \A a, b \in Nat : a + b \in Nat
  OBVIOUS

LEMMA ConstantTypes ==
    /\ Len(Delay) \in Nat /\ Len(Delay) >= 1 /\ DOMAIN Delay = 1 .. Len(Delay)
    /\ \A s \in 1 .. Len(Delay) : Delay[s] \in Nat
    /\ RepeatMax \in Nat /\ RepeatAfter \in Nat /\ Interval \in Nat
    /\ MaxTime \in Nat /\ MaxOps \in Nat /\ MaxReminders \in Nat
    /\ NULL \notin Nat /\ NULL \notin Rung
    /\ NULL \notin ByUser \cup {"open", "unsnooze", "recover", "relapse"}
<1>1. Delay \in Seq(Nat) /\ Delay # <<>>
  BY EscalationAssumption
<1>2. Len(Delay) \in Nat /\ DOMAIN Delay = 1 .. Len(Delay)
      /\ \A s \in 1 .. Len(Delay) : Delay[s] \in Nat
  BY <1>1
<1>3. Len(Delay) >= 1
  BY <1>1
<1>4. \A x \in {RepeatMax, RepeatAfter, Interval, MaxTime, MaxOps, MaxReminders} : x \in Nat
  BY EscalationAssumption
<1>5. NULL \notin Nat /\ NULL \notin Rung
  BY EscalationAssumption
<1>6. NULL \notin ByUser \cup {"open", "unsnooze", "recover", "relapse"}
  BY EscalationAssumption DEF ByUser, AnyOperation
<1>. QED
  BY <1>2, <1>3, <1>4, <1>5, <1>6

Stacks(f, n) ==
    /\ f \in [0 .. n -> Nat]
    /\ f[0] = 0
    /\ \A s \in 1 .. n : f[s] = f[s - 1] + Delay[s]

\* The delays of the first steps stack: were n the first number of steps for which
\* they do not, then those of n - 1 steps and one more would be what is missing.
LEMMA DelaysStack == \A n \in 0 .. Len(Delay) : \E f : Stacks(f, n)
<1>. USE EscalationAssumption
<1>. DEFINE T == {n \in 0 .. Len(Delay) : ~ \E f : Stacks(f, n)}
<1>1. SUFFICES ASSUME T # {}
               PROVE  FALSE
  OBVIOUS
<1>2. T \in SUBSET Nat
  OBVIOUS
<1>3. PICK n \in T : \A m \in T : n <= m
  <2>. HIDE DEF T
  <2>. QED
    BY <1>1, <1>2, LeastNumber
<1>4. Stacks([s \in 0 .. 0 |-> 0], 0)
  BY DEF Stacks
<1>5. n \in 1 .. Len(Delay) /\ n - 1 \in 0 .. Len(Delay) /\ n - 1 \notin T
  <2>1. n \in 0 .. Len(Delay) /\ n # 0
    BY <1>4
  <2>2. n - 1 \in T => n <= n - 1
    <3>. HIDE DEF T
    <3>. QED
      BY <1>3
  <2>3. Len(Delay) \in Nat /\ n \in Nat
    BY <1>2
  <2>4. n \in 1 .. Len(Delay) /\ n - 1 \in 0 .. Len(Delay) /\ ~ (n <= n - 1)
    <3>. HIDE DEF T
    <3>. QED
      BY <2>1, <2>3
  <2>. QED
    BY <2>2, <2>4
<1>6. PICK f : Stacks(f, n - 1)
  BY <1>5
<1>. DEFINE g == [s \in 0 .. n |-> IF s = n THEN f[n - 1] + Delay[n] ELSE f[s]]
<1>7. Delay[n] \in Nat /\ n \in Nat /\ n >= 1
  BY <1>5
<1>8. /\ f \in [0 .. n - 1 -> Nat]
      /\ f[0] = 0
      /\ \A s \in 1 .. n - 1 : f[s] = f[s - 1] + Delay[s]
  BY <1>6 DEF Stacks
<1>9. f[n - 1] \in Nat
  BY <1>7, <1>8
<1>10. g \in [0 .. n -> Nat]
  <2>1. ASSUME NEW s \in 0 .. n
        PROVE  (IF s = n THEN f[n - 1] + Delay[n] ELSE f[s]) \in Nat
    <3>1. CASE s = n
      <4>1. f[n - 1] + Delay[n] \in Nat
        BY <1>7, <1>9, NatSum, Zenon
      <4>. QED
        BY <3>1, <4>1, Zenon
    <3>2. CASE s # n
      <4>1. s \in 0 .. n - 1
        BY <1>7, <3>2
      <4>. QED
        BY <1>8, <3>2, <4>1
    <3>. QED
      BY <3>1, <3>2
  <2>. QED
    BY <2>1
<1>11. g[0] = 0
  BY <1>7, <1>8
<1>12. ASSUME NEW s \in 1 .. n
       PROVE  g[s] = g[s - 1] + Delay[s]
  <2>1. s \in 0 .. n /\ s - 1 \in 0 .. n /\ s - 1 # n
    BY <1>7
  <2>2. g[s - 1] = f[s - 1]
    BY <2>1
  <2>3. CASE s = n
    BY <2>1, <2>2, <2>3
  <2>4. CASE s # n
    <3>1. s \in 1 .. n - 1
      BY <1>7, <2>4
    <3>2. f[s] = f[s - 1] + Delay[s]
      BY <1>8, <3>1
    <3>. QED
      BY <2>1, <2>2, <2>4, <3>2
  <2>. QED
    BY <2>3, <2>4
<1>13. Stacks(g, n)
  <2>. HIDE DEF g
  <2>. QED
    BY <1>10, <1>11, <1>12 DEF Stacks
<1>. QED
  BY <1>3, <1>13

LEMMA OffsetStacks == Stacks(Offset, Len(Delay))
<1>. USE EscalationAssumption
<1>. DEFINE Step(f) == [s \in 0 .. Len(Delay) |-> IF s = 0 THEN 0 ELSE f[s - 1] + Delay[s]]
<1>1. Len(Delay) \in Nat \ {0}
  OBVIOUS
<1>2. PICK f : Stacks(f, Len(Delay))
  BY <1>1, DelaysStack
<1>3. f = Step(f)
  BY <1>1, <1>2 DEF Stacks
<1>4. Offset = Step(Offset)
  <2>1. Offset = CHOOSE x : x = Step(x)
    BY DEF Offset
  <2>. HIDE DEF Step
  <2>. QED
    BY <1>3, <2>1
<1>5. \A s \in 0 .. Len(Delay) : Offset[s] = IF s = 0 THEN 0 ELSE Offset[s - 1] + Delay[s]
  BY <1>4, Zenon
<1>. DEFINE T == {s \in 0 .. Len(Delay) : Offset[s] # f[s]}
<1>6. T = {}
  <2>1. SUFFICES ASSUME T # {}
                 PROVE  FALSE
    OBVIOUS
  <2>2. T \in SUBSET Nat
    BY <1>1
  <2>3. PICK s \in T : \A m \in T : s <= m
    <3>. HIDE DEF T
    <3>. QED
      BY <2>1, <2>2, LeastNumber
  <2>4. s \in 0 .. Len(Delay) /\ Offset[s] # f[s] /\ s \in Nat
    BY <2>2
  <2>5. s # 0
    BY <1>1, <1>2, <1>5, <2>4 DEF Stacks
  <2>6. s - 1 \in 0 .. Len(Delay) /\ s \in 1 .. Len(Delay) /\ ~ (s <= s - 1)
    <3>. HIDE DEF T
    <3>. QED
      BY <1>1, <2>4, <2>5
  <2>7. s - 1 \notin T
    <3>. HIDE DEF T
    <3>. QED
      BY <2>3, <2>6
  <2>8. Offset[s - 1] = f[s - 1]
    BY <2>6, <2>7
  <2>9. f[s] = f[s - 1] + Delay[s]
    BY <1>2, <2>6 DEF Stacks
  <2>10. Offset[s] = Offset[s - 1] + Delay[s]
    BY <1>5, <2>4, <2>5
  <2>. QED
    BY <2>4, <2>8, <2>9, <2>10
<1>7. \A s \in 0 .. Len(Delay) : Offset[s] = f[s]
  BY <1>6
<1>8. Offset = [s \in 0 .. Len(Delay) |-> Offset[s]]
  <2>1. DOMAIN Step(Offset) = 0 .. Len(Delay)
    OBVIOUS
  <2>2. DOMAIN Offset = 0 .. Len(Delay)
    <3>. HIDE DEF Step
    <3>. QED
      BY <1>4, <2>1, Zenon
  <2>3. \A s \in DOMAIN Step(Offset) : Step(Offset)[s] = Offset[s]
    <3>. HIDE DEF Step
    <3>. QED
      BY <1>4, Zenon
  <2>4. Step(Offset) = [s \in 0 .. Len(Delay) |-> Step(Offset)[s]]
    BY Zenon
  <2>. HIDE DEF Step
  <2>. QED
    BY <1>4, <2>4, Zenon
<1>9. f = [s \in 0 .. Len(Delay) |-> f[s]]
  BY <1>2 DEF Stacks
<1>10. Offset = f
  <2>1. [s \in 0 .. Len(Delay) |-> Offset[s]] = [s \in 0 .. Len(Delay) |-> f[s]]
    BY <1>7, Zenon
  <2>. QED
    BY <1>8, <1>9, <2>1, Zenon
<1>. QED
  BY <1>2, <1>10

LEMMA OffsetType == \A s \in 0 .. Len(Delay) : Offset[s] \in Nat
  BY OffsetStacks DEF Stacks

\* The least and the greatest of what a set holds.
LEMMA MinOfSet ==
    ASSUME NEW T \in SUBSET Nat, T # {}
    PROVE  Min(T) \in T /\ \A x \in T : Min(T) <= x
<1>1. \E x \in T : \A y \in T : x <= y
  BY LeastNumber
<1>. QED
  BY <1>1 DEF Min

LEMMA MaxOfTwo ==
    ASSUME NEW a \in Int, NEW b \in Int
    PROVE  Max({a, b}) = IF a <= b THEN b ELSE a
<1>. DEFINE m == IF a <= b THEN b ELSE a
<1>1. m \in {a, b} /\ \A y \in {a, b} : m >= y
  OBVIOUS
<1>2. \A x \in {a, b} : (\A y \in {a, b} : x >= y) => x = m
  OBVIOUS
<1>3. Max({a, b}) = CHOOSE x \in {a, b} : \A y \in {a, b} : x >= y
  BY DEF Max
<1>. QED
  BY <1>1, <1>2, <1>3

-----------------------------------------------------------------------------
(* Types.                                                                  *)

\* What a run holds, and what a process does, while it is at work.
RunHolds(w) ==
    /\ w \in Run
    /\ (w.pc \in {"step", "page", "cycle"}) <=> (w.rung # NULL)
    /\ w.pc = "cycle" => w.at # NULL /\ w.step \in 1 .. Len(Delay) /\ Repeats(w.rung)
    /\ w.pc \in {"claim", "again"} => w.at # NULL

ProcHolds(p, w) ==
    /\ w \in Process
    /\ (w.pc = "idle") <=> (w.op = NULL)
    /\ w.op \in ByUser => p \in User
    /\ w.op = "open" => p = Pipeline
    /\ w.op = "snooze" => w.until # NULL
    /\ w.op = "unacknowledge" => w.until = NULL
    /\ w.pc = "write" => w.op \in ByUser \cup {"unsnooze", "recover", "relapse"}
    /\ w.pc = "sweep" => w.op \in ByUser
    /\ w.pc = "cancel" => w.op = "snooze"
    /\ w.pc = "list" => w.op = "unacknowledge"
    /\ w.pc = "create" => w.op \in {"open", "unacknowledge"}
    /\ w.pc # "create" => w.todo = Nothing
    /\ w.pc = "store" => w.due # NULL

TInv ==
    /\ now \in 0 .. MaxTime
    /\ incident \in IncidentRow
    /\ steps \in [Rung -> StepRows]
    /\ reminders \in [ReminderSeq -> MaybeTime]
    /\ run \in [Runner -> Run] /\ \A r \in Runner : RunHolds(run[r])
    /\ proc \in [Proc -> Process] /\ \A p \in Proc : ProcHolds(p, proc[p])
    /\ ops \in 0 .. MaxOps
    /\ hist \in History

\* The operation that begins for p is w.
Starts(p, w) ==
    /\ proc[p].pc = "idle" /\ p \in Proc /\ w \in Process /\ ops' \in 0 .. MaxOps
    /\ w.pc = "write" /\ w.op \in Operations
    /\ w.op \in ByUser => p \in User
    /\ w.op \in ByUser \cup {"unsnooze", "recover", "relapse"}
    /\ w.op = "unacknowledge" => incident.acked /\ w.until = NULL
    /\ w.op = "snooze" => w.until # NULL /\ (w.acks \/ incident.acked)
    /\ w.todo = Nothing
    /\ proc' = [proc EXCEPT ![p] = w]
    /\ UNCHANGED <<now, incident, steps, reminders, run, hist>>

BeginAny == \/ \E u \in User : UserNext(u)
            \/ SweepUnsnooze \/ Recover \/ Relapse

LEMMA NothingType == Nothing \in [Rung -> MaybeTime] /\ \A g \in Rung : Nothing[g] = NULL
  BY DEF Nothing, MaybeTime

\* The records of a process that has written nothing yet.
IdleForms == [pc : {"idle"}, op : {NULL}, until : MaybeTime, acks : BOOLEAN,
              todo : [Rung -> MaybeTime], seq : ReminderSeq, due : MaybeTime]

LEMMA BeginsPlain ==
    ASSUME NEW p \in Proc, NEW op, Begin(p, op, IdleProc)
    PROVE  \E w \in Process : /\ proc' = [proc EXCEPT ![p] = w]
                              /\ w.pc = "write" /\ w.op = op /\ w.todo = Nothing
                              /\ w.until = NULL
<1>. DEFINE w == [IdleProc EXCEPT !.pc = "write", !.op = op]
<1>1. /\ proc' = [proc EXCEPT ![p] = w] /\ op \in Operations
  BY DEF Begin
<1>2. IdleProc \in IdleForms
  BY NothingType, ConstantTypes DEF IdleForms, IdleProc, MaybeTime, ReminderSeq
<1>3. w \in Process /\ w.pc = "write" /\ w.op = op
  BY <1>1, <1>2 DEF IdleForms, Process
<1>4. w.todo = IdleProc.todo /\ w.until = IdleProc.until
  BY <1>2 DEF IdleForms
<1>5. IdleProc.todo = Nothing /\ IdleProc.until = NULL
  BY DEF IdleProc
<1>. HIDE DEF w
<1>. QED
  BY <1>1, <1>3, <1>4, <1>5

LEMMA BeginsSnooze ==
    ASSUME NEW p \in Proc, NEW v \in IdleForms, Begin(p, "snooze", v)
    PROVE  \E w \in Process : /\ proc' = [proc EXCEPT ![p] = w]
                              /\ w.pc = "write" /\ w.op = "snooze" /\ w.todo = v.todo
                              /\ w.until = v.until /\ w.acks = v.acks
<1>. DEFINE w == [v EXCEPT !.pc = "write", !.op = "snooze"]
<1>1. /\ proc' = [proc EXCEPT ![p] = w] /\ "snooze" \in Operations
  BY DEF Begin
<1>2. /\ w \in Process /\ w.pc = "write" /\ w.op = "snooze"
      /\ w.until = v.until /\ w.acks = v.acks /\ w.todo = v.todo
  BY <1>1 DEF IdleForms, Process
<1>. HIDE DEF w
<1>. QED
  BY <1>1, <1>2

LEMMA AllBegin ==
    ASSUME TypeOK, BeginAny
    PROVE  \E p \in Proc, w \in Process : Starts(p, w)
<1>1. /\ User \subseteq Proc /\ Sweep \in Proc /\ Pipeline \in Proc
      /\ now \in Nat /\ ops \in 0 .. MaxOps /\ incident.acked \in BOOLEAN /\ MaxOps \in Nat
  BY ConstantTypes DEF TypeOK, Proc, IncidentRow
<1>2. ASSUME NEW p \in Proc, NEW op, Begin(p, op, IdleProc), ops' \in 0 .. MaxOps,
             op = "unacknowledge" => incident.acked,
             \/ op \in {"acknowledge", "unacknowledge", "resolve"} /\ p \in User
             \/ op \in {"unsnooze", "recover", "relapse"}
      PROVE  \E q \in Proc, w \in Process : Starts(q, w)
  <2>1. PICK w \in Process : /\ proc' = [proc EXCEPT ![p] = w]
                             /\ w.pc = "write" /\ w.op = op /\ w.todo = Nothing
                             /\ w.until = NULL
    BY <1>2, BeginsPlain
  <2>2. proc[p].pc = "idle" /\ op \in Operations
        /\ UNCHANGED <<now, incident, steps, reminders, run, hist>>
    BY <1>2 DEF Begin
  <2>3. Starts(p, w)
    BY <1>2, <2>1, <2>2 DEF Starts, ByUser
  <2>. QED
    BY <2>3
<1>3. Bounded => ops' \in 0 .. MaxOps
  BY <1>1 DEF Bounded
<1>4. ASSUME NEW u \in User, UserNext(u)
      PROVE  \E q \in Proc, w \in Process : Starts(q, w)
  <2>1. CASE Acknowledge(u)
    BY <1>1, <1>2, <1>3, <2>1 DEF Acknowledge
  <2>2. CASE Unacknowledge(u)
    BY <1>1, <1>2, <2>2 DEF Unacknowledge
  <2>3. CASE Snooze(u)
    <3>1. PICK d \in Snoozes :
              /\ Bounded
              /\ Begin(u, "snooze", [IdleProc EXCEPT !.until = now + d, !.acks = ~incident.acked])
      BY <2>3 DEF Snooze
    <3>2. d \in Nat \ {0}
      BY EscalationAssumption
    <3>3. now + d \in MaybeTime /\ now + d # NULL /\ u \in Proc
      BY <1>1, <3>2, ConstantTypes DEF MaybeTime
    <3>. DEFINE v == [IdleProc EXCEPT !.until = now + d, !.acks = ~incident.acked]
    <3>a. IdleProc \in IdleForms /\ IdleProc.todo = Nothing
      BY NothingType, ConstantTypes DEF IdleForms, IdleProc, MaybeTime, ReminderSeq
    <3>b. v \in IdleForms /\ v.until = now + d /\ (v.acks \/ incident.acked)
          /\ v.todo = Nothing
      BY <1>1, <3>3, <3>a DEF IdleForms
    <3>c. Begin(u, "snooze", v)
      BY <3>1
    <3>. HIDE DEF v
    <3>4. PICK w \in Process : /\ proc' = [proc EXCEPT ![u] = w]
                              /\ w.pc = "write" /\ w.op = "snooze" /\ w.todo = v.todo
                              /\ w.until = v.until /\ w.acks = v.acks
      BY <3>3, <3>b, <3>c, BeginsSnooze
    <3>5. proc[u].pc = "idle" /\ "snooze" \in Operations
          /\ UNCHANGED <<now, incident, steps, reminders, run, hist>>
      BY <3>1 DEF Begin
    <3>6. Starts(u, w)
      BY <1>3, <3>1, <3>3, <3>b, <3>4, <3>5 DEF Starts, ByUser
    <3>. QED
      BY <3>3, <3>6
  <2>4. CASE Unsnooze(u)
    BY <1>1, <1>2, <2>4 DEF Unsnooze
  <2>5. CASE Resolve(u)
    BY <1>1, <1>2, <1>3, <2>5 DEF Resolve
  <2>. QED
    BY <1>4, <2>1, <2>2, <2>3, <2>4, <2>5 DEF UserNext
<1>5. CASE SweepUnsnooze
  BY <1>1, <1>2, <1>5 DEF SweepUnsnooze
<1>6. CASE Recover
  BY <1>1, <1>2, <1>3, <1>6 DEF Recover
<1>7. CASE Relapse
  BY <1>1, <1>2, <1>7 DEF Relapse
<1>. QED
  BY <1>4, <1>5, <1>6, <1>7 DEF BeginAny

LEMMA IdleHolds ==
    /\ RunHolds(IdleRun)
    /\ \A p \in Proc : ProcHolds(p, IdleProc)
<1>1. RunHolds(IdleRun)
  BY ConstantTypes DEF RunHolds, IdleRun, Run, MaybeTime, ReminderSeq
<1>2. IdleProc \in Process
  BY NothingType, ConstantTypes DEF IdleProc, Process, MaybeTime, ReminderSeq
<1>3. /\ IdleProc.pc = "idle" /\ IdleProc.op = NULL /\ IdleProc.todo = Nothing
      /\ IdleProc.until = NULL
  BY DEF IdleProc
<1>4. NULL \notin ByUser \cup {"open"}
  BY ConstantTypes
<1>. QED
  BY <1>1, <1>2, <1>3, <1>4 DEF ProcHolds, ByUser

LEMMA TypesAtFirst == Init => TInv
<1>. SUFFICES ASSUME Init
              PROVE  TInv
  OBVIOUS
<1>1. now \in 0 .. MaxTime /\ ops \in 0 .. MaxOps /\ hist \in History
  BY ConstantTypes DEF Init, History
<1>2. incident \in IncidentRow
  BY ConstantTypes DEF Init, IncidentRow, MaybeTime, ReminderSeq
<1>3. steps \in [Rung -> StepRows] /\ reminders \in [ReminderSeq -> MaybeTime]
  BY DEF Init, StepRows, MaybeTime
<1>4. run \in [Runner -> Run] /\ \A r \in Runner : RunHolds(run[r])
  BY IdleHolds DEF Init, RunHolds
<1>5. ProcHolds(Pipeline, Opening)
  <2>. DEFINE first == [g \in Rung |-> IF g[2] = 0 THEN Offset[g[1]] ELSE NULL]
  <2>1. first \in [Rung -> MaybeTime]
    <3>1. ASSUME NEW g \in Rung
          PROVE  (IF g[2] = 0 THEN Offset[g[1]] ELSE NULL) \in MaybeTime
      <4>1. g[1] \in 0 .. Len(Delay)
        BY ConstantTypes DEF Rung
      <4>. QED
        BY <4>1, OffsetType DEF MaybeTime
    <3>. QED
      BY <3>1
  <2>2. Opening = [IdleProc EXCEPT !.pc = "create", !.op = "open", !.todo = first]
    BY DEF Opening
  <2>. HIDE DEF first
  <2>3. /\ Opening \in Process /\ Opening.pc = "create" /\ Opening.op = "open"
    <3>1. IdleProc \in Process
      BY IdleHolds DEF ProcHolds, Proc
    <3>. QED
      BY <2>1, <2>2, <3>1 DEF Process
  <2>. QED
    BY <2>3, ConstantTypes DEF ProcHolds, ByUser
<1>6. proc \in [Proc -> Process] /\ \A p \in Proc : ProcHolds(p, proc[p])
  BY <1>5, IdleHolds DEF Init, ProcHolds
<1>. QED
  BY <1>1, <1>2, <1>3, <1>4, <1>6 DEF TInv

LEMMA RunGoes ==
    ASSUME TInv, NEW r \in Runner, NEW w, RunHolds(w), run' = [run EXCEPT ![r] = w]
    PROVE  /\ run' \in [Runner -> Run] /\ \A q \in Runner : RunHolds(run'[q])
           /\ run'[r] = w /\ \A q \in Runner \ {r} : run'[q] = run[q]
<1>1. w \in Run
  BY DEF RunHolds
<1>. QED
  BY <1>1 DEF TInv

LEMMA ProcGoes ==
    ASSUME TInv, NEW p \in Proc, NEW w, ProcHolds(p, w), proc' = [proc EXCEPT ![p] = w]
    PROVE  /\ proc' \in [Proc -> Process] /\ \A q \in Proc : ProcHolds(q, proc'[q])
           /\ proc'[p] = w /\ \A q \in Proc \ {p} : proc'[q] = proc[q]
<1>1. w \in Process
  BY DEF ProcHolds
<1>. QED
  BY <1>1 DEF TInv

\* Where a run or a process goes next, the rest of it stays.
Pcs == {"idle", "write", "sweep", "cancel", "list", "create", "remind", "store"}

LEMMA PcChanges ==
    ASSUME NEW w \in Process, NEW pc \in Pcs
    PROVE  /\ [w EXCEPT !.pc = pc] \in Process
           /\ [w EXCEPT !.pc = pc].pc = pc /\ [w EXCEPT !.pc = pc].op = w.op
           /\ [w EXCEPT !.pc = pc].until = w.until /\ ([w EXCEPT !.pc = pc].acks <=> w.acks)
           /\ [w EXCEPT !.pc = pc].todo = w.todo /\ [w EXCEPT !.pc = pc].seq = w.seq
           /\ [w EXCEPT !.pc = pc].due = w.due
  BY DEF Process, Pcs

LEMMA GotoGoes ==
    ASSUME TInv, NEW p \in Proc, NEW pc \in Pcs, Goto(p, pc), proc[p].pc # "idle",
           proc[p].todo = Nothing,
           pc = "sweep" => proc[p].op \in ByUser,
           pc = "cancel" => proc[p].op = "snooze",
           pc = "list" => proc[p].op = "unacknowledge",
           pc \notin {"write", "create", "store"}
    PROVE  \E w \in Process :
              /\ ProcHolds(p, w) /\ proc' = [proc EXCEPT ![p] = w] /\ w.todo = Nothing
              /\ w.pc = pc
              /\ pc = "idle" => w = IdleProc
              /\ pc # "idle" => w.op = proc[p].op /\ w.until = proc[p].until
                                /\ (w.acks <=> proc[p].acks)
<1>1. CASE pc = "idle"
  <2>1. ProcHolds(p, IdleProc) /\ IdleProc \in Process
    BY IdleHolds DEF ProcHolds
  <2>2. proc' = [proc EXCEPT ![p] = IdleProc]
    BY <1>1 DEF Goto
  <2>3. IdleProc.todo = Nothing /\ IdleProc.pc = "idle"
    BY DEF IdleProc
  <2>. QED
    BY <1>1, <2>1, <2>2, <2>3
<1>2. CASE pc # "idle"
  <2>. DEFINE w == [proc[p] EXCEPT !.pc = pc]
  <2>1. proc[p] \in Process /\ ProcHolds(p, proc[p])
    BY DEF TInv
  <2>2. /\ w \in Process /\ w.pc = pc /\ w.op = proc[p].op /\ w.until = proc[p].until
        /\ (w.acks <=> proc[p].acks) /\ w.todo = proc[p].todo /\ w.due = proc[p].due
    BY <2>1, PcChanges
  <2>3. proc' = [proc EXCEPT ![p] = w]
    BY <1>2, <2>1 DEF Goto, TInv
  <2>. HIDE DEF w
  <2>4. ProcHolds(p, w)
    BY <1>2, <2>1, <2>2 DEF ProcHolds
  <2>. QED
    BY <1>2, <2>2, <2>3, <2>4
<1>. QED
  BY <1>1, <1>2

LEMMA CanceledType ==
    ASSUME TInv, NEW t \in MaybeTime
    PROVE  /\ Canceled(t) \in [Rung -> StepRows]
           /\ CanceledReminders(t) \in [ReminderSeq -> MaybeTime]
<1>1. ASSUME NEW g \in Rung
      PROVE  (LET row == [steps[g] EXCEPT !.queued = FALSE] IN
              IF Withdrawn(row.live, t)
              THEN [row EXCEPT !.live = NULL, !.canceled = Later(row.canceled, row.live)]
              ELSE row) \in StepRows
  <2>. DEFINE row == [steps[g] EXCEPT !.queued = FALSE]
  <2>1. row \in StepRows /\ row.live \in MaybeTime /\ row.canceled \in MaybeTime
    BY DEF TInv, StepRows
  <2>2. Later(row.canceled, row.live) \in MaybeTime
    BY <2>1 DEF Later
  <2>3. NULL \in MaybeTime
    BY DEF MaybeTime
  <2>. HIDE DEF row
  <2>4. [row EXCEPT !.live = NULL, !.canceled = Later(row.canceled, row.live)] \in StepRows
    BY <2>1, <2>2, <2>3 DEF StepRows
  <2>5. (IF Withdrawn(row.live, t)
         THEN [row EXCEPT !.live = NULL, !.canceled = Later(row.canceled, row.live)]
         ELSE row) \in StepRows
    BY <2>1, <2>4
  <2>. QED
    BY <2>5 DEF row
<1>2. ASSUME NEW n \in ReminderSeq
      PROVE  (IF Withdrawn(reminders[n], t) THEN NULL ELSE reminders[n]) \in MaybeTime
  BY DEF TInv, MaybeTime
<1>. QED
  BY <1>1, <1>2 DEF Canceled, CanceledReminders

\* By how much an unacknowledgment puts off what it brings back.
Shift == Max({0, now - Min({steps[g].canceled : g \in Resumable})})

LEMMA ResumedShifted ==
    ASSUME TInv, Resumable # {}
    PROVE  /\ Shift \in Nat
           /\ \A g \in Resumable : g \in Rung /\ steps[g].canceled \in Nat
           /\ Resumed = [g \in Rung |-> IF g \in Resumable THEN steps[g].canceled + Shift ELSE NULL]
           /\ \A g \in Resumable : Resumed[g] \in Nat /\ Resumed[g] = steps[g].canceled + Shift
<1>1. \A g \in Resumable : g \in Rung /\ steps[g].canceled \in Nat
  BY DEF Resumable, TInv, StepRows, MaybeTime
<1>. DEFINE T == {steps[g].canceled : g \in Resumable}
            first == Min(T)
<1>2. T \in SUBSET Nat /\ T # {}
  BY <1>1
<1>3. first \in Nat
  <2>. HIDE DEF T
  <2>. QED
    BY <1>2, MinOfSet
<1>4. Shift \in Nat
  <2>1. now \in Nat
    BY ConstantTypes DEF TInv
  <2>. HIDE DEF first
  <2>2. 0 \in Int /\ now - first \in Int
    BY <1>3, <2>1
  <2>3. Max({0, now - first}) = IF 0 <= now - first THEN now - first ELSE 0
    BY <2>2, MaxOfTwo
  <2>4. Shift = Max({0, now - first})
    BY DEF Shift, first
  <2>5. (IF 0 <= now - first THEN now - first ELSE 0) \in Nat
    BY <2>2
  <2>. QED
    BY <2>3, <2>4, <2>5
<1>5. Resumed = [g \in Rung |-> IF g \in Resumable THEN steps[g].canceled + Shift ELSE NULL]
  BY DEF Resumed, Shift
<1>6. \A g \in Resumable : Resumed[g] \in Nat /\ Resumed[g] = steps[g].canceled + Shift
  <2>1. \A g \in Resumable : Resumed[g] = steps[g].canceled + Shift
    BY <1>1, <1>5
  <2>. QED
    BY <1>1, <1>4, <2>1
<1>. QED
  BY <1>1, <1>4, <1>5, <1>6

LEMMA ResumedType ==
    ASSUME TInv, Resumable # {}
    PROVE  Resumed \in [Rung -> MaybeTime]
<1>1. ASSUME NEW g \in Rung
      PROVE  (IF g \in Resumable THEN steps[g].canceled + Shift ELSE NULL) \in MaybeTime
  BY ResumedShifted DEF MaybeTime
<1>2. Resumed = [g \in Rung |-> IF g \in Resumable THEN steps[g].canceled + Shift ELSE NULL]
  BY ResumedShifted
<1>. QED
  BY <1>1, <1>2

LEMMA RunTypesStep ==
    ASSUME TInv, NEW r \in Runner, RunNext(r)
    PROVE  TInv'
<1>. USE DEF TInv
<1>0. RunHolds(run[r]) /\ run[r] \in Run /\ now \in Nat /\ RunHolds(IdleRun)
  BY ConstantTypes, IdleHolds
<1>1. ASSUME NEW g \in Rung, ClaimStep(r, g)
      PROVE  TInv'
  <2>. DEFINE w == [run[r] EXCEPT !.pc = "step", !.rung = g]
  <2>1. w \in Run /\ w.pc = "step" /\ w.rung = g
    BY <1>0 DEF Run
  <2>2. RunHolds(w)
    <3>. HIDE DEF w
    <3>. QED
      BY <2>1, ConstantTypes DEF RunHolds
  <2>3. run' = [run EXCEPT ![r] = w]
    BY <1>1 DEF ClaimStep
  <2>4. steps' \in [Rung -> StepRows]
    <3>1. [steps[g] EXCEPT !.live = NULL, !.ran = TRUE] \in StepRows
      BY DEF StepRows, MaybeTime
    <3>2. steps' = [steps EXCEPT ![g] = [steps[g] EXCEPT !.live = NULL, !.ran = TRUE]]
      BY <1>1 DEF ClaimStep
    <3>. QED
      BY <3>1, <3>2
  <2>. HIDE DEF w
  <2>5. run' \in [Runner -> Run] /\ \A q \in Runner : RunHolds(run'[q])
    BY <2>2, <2>3, RunGoes
  <2>. QED
    BY <1>1, <2>4, <2>5 DEF ClaimStep
<1>2. CASE CheckIncident(r)
  <2>. DEFINE w == [run[r] EXCEPT !.pc = "page"]
  <2>1. w \in Run /\ w.pc = "page" /\ w.rung = run[r].rung
    BY <1>0 DEF Run
  <2>2. RunHolds(w)
    <3>. HIDE DEF w
    <3>. QED
      BY <1>0, <1>2, <2>1 DEF RunHolds, CheckIncident
  <2>3. run' = [run EXCEPT ![r] = w] \/ run' = [run EXCEPT ![r] = IdleRun]
    BY <1>2 DEF CheckIncident
  <2>. HIDE DEF w
  <2>5. run' \in [Runner -> Run] /\ \A q \in Runner : RunHolds(run'[q])
    BY <1>0, <2>2, <2>3, RunGoes
  <2>. QED
    BY <1>2, <2>5 DEF CheckIncident
<1>3. CASE FanOut(r)
  <2>. DEFINE g == run[r].rung
              w == [run[r] EXCEPT !.pc = "cycle", !.at = now + RepeatAfter, !.step = 1]
  <2>0. g \in Rung
    BY <1>0, <1>3 DEF RunHolds, Run, FanOut
  <2>1. w \in Run /\ w.pc = "cycle" /\ w.rung = g /\ w.at = now + RepeatAfter /\ w.step = 1
    <3>1. now + RepeatAfter \in MaybeTime /\ 1 \in 0 .. Len(Delay)
      BY <1>0, ConstantTypes DEF MaybeTime
    <3>. QED
      BY <1>0, <3>1 DEF Run
  <2>2. Repeats(g) => RunHolds(w)
    <3>1. w.at # NULL /\ w.step \in 1 .. Len(Delay) /\ g # NULL
      BY <1>0, <2>0, <2>1, ConstantTypes
    <3>. HIDE DEF w
    <3>. QED
      BY <2>1, <3>1 DEF RunHolds
  <2>3. \/ Repeats(g) /\ run' = [run EXCEPT ![r] = w]
        \/ run' = [run EXCEPT ![r] = IdleRun]
    BY <1>3 DEF FanOut
  <2>4. steps' \in [Rung -> StepRows]
    BY <1>3, <2>0 DEF FanOut, StepRows
  <2>. HIDE DEF w
  <2>5. run' \in [Runner -> Run] /\ \A q \in Runner : RunHolds(run'[q])
    BY <1>0, <2>2, <2>3, RunGoes
  <2>. QED
    BY <1>3, <2>4, <2>5 DEF FanOut
<1>4. CASE ScheduleStep(r)
  <2>. DEFINE g == <<run[r].step, run[r].rung[2] + 1>>
              w == [run[r] EXCEPT !.step = @ + 1]
  <2>0. /\ run[r].pc = "cycle" /\ run[r].at \in Nat /\ run[r].step \in 1 .. Len(Delay)
        /\ Repeats(run[r].rung) /\ run[r].rung # NULL /\ run[r].rung \in Rung
    BY <1>0, <1>4 DEF ScheduleStep, RunHolds, Run, MaybeTime
  <2>1. g \in Rung
    BY <2>0, ConstantTypes DEF Rung, Cycle, Repeats
  <2>2. run[r].at + Offset[run[r].step] \in MaybeTime
    BY <2>0, OffsetType, ConstantTypes DEF MaybeTime
  <2>3. steps' \in [Rung -> StepRows]
    BY <1>4, <2>1, <2>2 DEF ScheduleStep, StepRows
  <2>4. \/ run' = [run EXCEPT ![r] = IdleRun]
        \/ run[r].step # Len(Delay) /\ run' = [run EXCEPT ![r] = w]
    BY <1>4 DEF ScheduleStep
  <2>5. run[r].step # Len(Delay) => RunHolds(w)
    <3>1. ASSUME run[r].step # Len(Delay)
          PROVE  RunHolds(w)
      <4>1. run[r].step + 1 \in 0 .. Len(Delay) /\ run[r].step + 1 \in 1 .. Len(Delay)
        BY <2>0, <3>1, ConstantTypes
      <4>2. /\ w \in Run /\ w.pc = "cycle" /\ w.rung = run[r].rung /\ w.at = run[r].at
            /\ w.step = run[r].step + 1
        BY <1>0, <2>0, <4>1 DEF Run
      <4>. HIDE DEF w
      <4>. QED
        BY <2>0, <4>1, <4>2, ConstantTypes DEF RunHolds
    <3>. QED
      BY <3>1
  <2>. HIDE DEF w
  <2>6. run' \in [Runner -> Run] /\ \A q \in Runner : RunHolds(run'[q])
    BY <1>0, <2>4, <2>5, RunGoes
  <2>. QED
    BY <1>4, <2>3, <2>6 DEF ScheduleStep
<1>5. ASSUME NEW n \in ReminderSeq, ClaimReminderJob(r, n)
      PROVE  TInv'
  <2>. DEFINE w == [run[r] EXCEPT !.pc = "reminder", !.seq = n]
  <2>1. w \in Run /\ w.pc = "reminder" /\ w.rung = run[r].rung
    BY <1>0 DEF Run
  <2>2. run[r].rung = NULL
    BY <1>0, <1>5 DEF RunHolds, ClaimReminderJob
  <2>3. RunHolds(w)
    <3>. HIDE DEF w
    <3>. QED
      BY <2>1, <2>2 DEF RunHolds
  <2>4. run' = [run EXCEPT ![r] = w]
    BY <1>5 DEF ClaimReminderJob
  <2>5. reminders' \in [ReminderSeq -> MaybeTime]
    BY <1>5 DEF ClaimReminderJob, MaybeTime
  <2>. HIDE DEF w
  <2>6. run' \in [Runner -> Run] /\ \A q \in Runner : RunHolds(run'[q])
    BY <2>3, <2>4, RunGoes
  <2>. QED
    BY <1>5, <2>5, <2>6 DEF ClaimReminderJob
<1>6. CASE CheckReminder(r)
  <2>1. \/ run' = [run EXCEPT ![r] = IdleRun]
        \/ \E pc \in {"claim", "again"} :
               run' = [run EXCEPT ![r] = [run[r] EXCEPT !.pc = pc, !.at = now]]
    BY <1>6 DEF CheckReminder
  <2>2. ASSUME NEW pc \in {"claim", "again"}
        PROVE  RunHolds([run[r] EXCEPT !.pc = pc, !.at = now])
    <3>. DEFINE w == [run[r] EXCEPT !.pc = pc, !.at = now]
    <3>1. w \in Run /\ w.pc = pc /\ w.at = now /\ w.rung = run[r].rung
      BY <1>0 DEF Run, MaybeTime
    <3>2. run[r].rung = NULL /\ now # NULL
      BY <1>0, <1>6, ConstantTypes DEF RunHolds, CheckReminder
    <3>. HIDE DEF w
    <3>3. RunHolds(w)
      BY <3>1, <3>2 DEF RunHolds
    <3>. QED
      BY <3>3 DEF w
  <2>3. run' \in [Runner -> Run] /\ \A q \in Runner : RunHolds(run'[q])
    BY <1>0, <2>1, <2>2, RunGoes
  <2>. QED
    BY <1>6, <2>3 DEF CheckReminder
<1>7. CASE ClaimIncidentReminder(r)
  <2>. DEFINE w == [run[r] EXCEPT !.pc = "again", !.seq = run[r].seq + 1]
  <2>1. /\ run[r].pc = "claim" /\ run[r].at \in MaybeTime /\ run[r].at # NULL
        /\ run[r].rung = NULL
    BY <1>0, <1>7 DEF ClaimIncidentReminder, RunHolds, Run
  <2>2. \/ /\ incident.count < MaxReminders /\ run[r].seq < MaxReminders
           /\ incident' = [incident EXCEPT !.count = @ + 1, !.last = run[r].at]
           /\ run' = [run EXCEPT ![r] = w]
        \/ run' = [run EXCEPT ![r] = IdleRun] /\ incident' = incident
    BY <1>7 DEF ClaimIncidentReminder
  <2>3. run[r].seq < MaxReminders => RunHolds(w)
    <3>1. ASSUME run[r].seq < MaxReminders
          PROVE  RunHolds(w)
      <4>1. run[r].seq + 1 \in ReminderSeq
        BY <1>0, <3>1, ConstantTypes DEF Run, ReminderSeq
      <4>2. w \in Run /\ w.pc = "again" /\ w.at = run[r].at /\ w.rung = run[r].rung
        BY <1>0, <4>1 DEF Run
      <4>. HIDE DEF w
      <4>. QED
        BY <2>1, <4>2 DEF RunHolds
    <3>. QED
      BY <3>1
  <2>4. incident' \in IncidentRow
    <3>1. incident.count < MaxReminders => incident.count + 1 \in ReminderSeq
      BY ConstantTypes DEF IncidentRow, ReminderSeq
    <3>. HIDE DEF w
    <3>. QED
      BY <2>1, <2>2, <3>1 DEF IncidentRow
  <2>. HIDE DEF w
  <2>5. run' \in [Runner -> Run] /\ \A q \in Runner : RunHolds(run'[q])
    BY <1>0, <2>2, <2>3, RunGoes
  <2>. QED
    BY <1>7, <2>4, <2>5 DEF ClaimIncidentReminder
<1>8. CASE ScheduleNextReminder(r)
  <2>1. run[r].seq \in ReminderSeq /\ run[r].at + Interval \in MaybeTime
    BY <1>0, <1>8, ConstantTypes DEF ScheduleNextReminder, RunHolds, Run, MaybeTime
  <2>2. reminders' \in [ReminderSeq -> MaybeTime] /\ run' = [run EXCEPT ![r] = IdleRun]
    BY <1>8, <2>1 DEF ScheduleNextReminder
  <2>3. run' \in [Runner -> Run] /\ \A q \in Runner : RunHolds(run'[q])
    BY <1>0, <2>2, RunGoes
  <2>. QED
    BY <1>8, <2>2, <2>3 DEF ScheduleNextReminder
<1>. HIDE DEF TInv
<1>. QED
  BY <1>1, <1>2, <1>3, <1>4, <1>5, <1>6, <1>7, <1>8 DEF RunNext

LEMMA ProcTypesStep ==
    ASSUME TInv, NEW p \in Proc, ProcNext(p)
    PROVE  TInv'
<1>. USE DEF TInv
<1>0. ProcHolds(p, proc[p]) /\ proc[p] \in Process /\ now \in Nat /\ ProcHolds(p, IdleProc)
  BY ConstantTypes, IdleHolds
<1>1. CASE Write(p)
  <2>1. /\ proc[p].op \in ByUser \cup {"unsnooze", "recover", "relapse"}
        /\ proc[p].pc = "write" /\ proc[p].todo = Nothing
    BY <1>0, <1>1 DEF Write, ProcHolds
  <2>2. PICK pc \in {"idle", "remind", "sweep"} :
            Goto(p, pc) /\ (pc = "sweep" => proc[p].op \in ByUser)
    <3>1. CASE proc[p].op = "recover"
      BY <1>1, <3>1 DEF Write
    <3>2. CASE proc[p].op \in {"unsnooze", "relapse"}
      BY <1>1, <3>2 DEF Write
    <3>3. CASE proc[p].op \in ByUser
      BY <1>1, <3>3 DEF Write, ByUser
    <3>. QED
      BY <2>1, <3>1, <3>2, <3>3
  <2>3. proc' \in [Proc -> Process] /\ \A q \in Proc : ProcHolds(q, proc'[q])
    <3>1. \E w \in Process : ProcHolds(p, w) /\ proc' = [proc EXCEPT ![p] = w]
      BY <2>1, <2>2, GotoGoes DEF Pcs
    <3>. QED
      BY <3>1, ProcGoes
  <2>4. incident' \in IncidentRow
    <3>1. incident' = Written(proc[p]) /\ proc[p].until \in MaybeTime /\ proc[p].acks \in BOOLEAN
      BY <1>0, <1>1 DEF Write, Process
    <3>2. Written(proc[p]) \in IncidentRow
      BY <2>1, <3>1 DEF Written, IncidentRow, MaybeTime, ByUser
    <3>. QED
      BY <3>1, <3>2
  <2>5. hist' \in History
    BY <1>1 DEF Write, History
  <2>. QED
    BY <1>1, <2>3, <2>4, <2>5 DEF Write
<1>2. CASE CancelPending(p)
  <2>1. proc[p].op \in ByUser /\ proc[p].pc = "sweep" /\ proc[p].todo = Nothing
    BY <1>0, <1>2 DEF CancelPending, ProcHolds
  <2>2. PICK pc \in {"idle", "list", "cancel"} :
            Goto(p, pc) /\ (pc = "list" => proc[p].op = "unacknowledge")
                        /\ (pc = "cancel" => proc[p].op = "snooze")
    BY <1>2, <2>1 DEF CancelPending, ByUser
  <2>3. proc' \in [Proc -> Process] /\ \A q \in Proc : ProcHolds(q, proc'[q])
    <3>1. \E w \in Process : ProcHolds(p, w) /\ proc' = [proc EXCEPT ![p] = w]
      BY <2>1, <2>2, GotoGoes DEF Pcs
    <3>. QED
      BY <3>1, ProcGoes
  <2>4. steps' \in [Rung -> StepRows] /\ reminders' \in [ReminderSeq -> MaybeTime]
    BY <1>0, <1>2, CanceledType DEF CancelPending, Process
  <2>5. hist' \in History
    BY <1>2 DEF CancelPending, History
  <2>. QED
    BY <1>2, <2>3, <2>4, <2>5 DEF CancelPending
<1>3. CASE CancelReminders(p)
  <2>1. proc[p].pc = "cancel" /\ proc[p].todo = Nothing
    BY <1>0, <1>3 DEF CancelReminders, ProcHolds
  <2>2. proc' \in [Proc -> Process] /\ \A q \in Proc : ProcHolds(q, proc'[q])
    <3>1. \E w \in Process : ProcHolds(p, w) /\ proc' = [proc EXCEPT ![p] = w]
      BY <1>3, <2>1, GotoGoes DEF Pcs, CancelReminders
    <3>. QED
      BY <3>1, ProcGoes
  <2>3. reminders' \in [ReminderSeq -> MaybeTime]
    BY <1>3, CanceledType DEF CancelReminders, MaybeTime
  <2>. QED
    BY <1>3, <2>2, <2>3 DEF CancelReminders
<1>4. CASE ListSteps(p)
  <2>1. /\ proc[p].pc = "list" /\ proc[p].op = "unacknowledge" /\ proc[p].todo = Nothing
        /\ p \in User /\ proc[p].until = NULL
    BY <1>0, <1>4 DEF ListSteps, ProcHolds, ByUser
  <2>. DEFINE v == [proc[p] EXCEPT !.pc = "remind"]
              w == [proc[p] EXCEPT !.pc = "create", !.todo = Resumed]
  <2>2. ProcHolds(p, v)
    <3>1. /\ v \in Process /\ v.pc = "remind" /\ v.op = proc[p].op /\ v.todo = proc[p].todo
          /\ v.until = proc[p].until
      BY <1>0, PcChanges DEF Pcs
    <3>. HIDE DEF v
    <3>. QED
      BY <2>1, <3>1, ConstantTypes DEF ProcHolds, ByUser
  <2>3. Resumable # {} => ProcHolds(p, w)
    <3>1. ASSUME Resumable # {}
          PROVE  ProcHolds(p, w)
      <4>1. Resumed \in [Rung -> MaybeTime]
        BY <3>1, ResumedType
      <4>2. w \in Process /\ w.pc = "create" /\ w.op = proc[p].op /\ w.until = proc[p].until
        BY <1>0, <4>1 DEF Process
      <4>. HIDE DEF w
      <4>. QED
        BY <2>1, <4>2, ConstantTypes DEF ProcHolds, ByUser
    <3>. QED
      BY <3>1
  <2>4. \/ Resumable = {} /\ proc' = [proc EXCEPT ![p] = v]
        \/ Resumable # {} /\ proc' = [proc EXCEPT ![p] = w]
    BY <1>4 DEF ListSteps
  <2>. HIDE DEF v, w
  <2>5. proc' \in [Proc -> Process] /\ \A q \in Proc : ProcHolds(q, proc'[q])
    BY <2>2, <2>3, <2>4, ProcGoes
  <2>. QED
    BY <1>4, <2>5 DEF ListSteps
<1>5. CASE CreateStep(p)
  <2>1. proc[p].pc = "create" /\ proc[p].op \in {"open", "unacknowledge"}
    BY <1>0, <1>5 DEF CreateStep, ProcHolds
  <2>. DEFINE planned == {g \in Rung : proc[p].todo[g] # NULL}
  <2>2. PICK g \in planned :
          /\ steps' = [steps EXCEPT ![g].live = proc[p].todo[g]]
          /\ proc' = [proc EXCEPT ![p] = [proc[p] EXCEPT !.todo[g] = NULL,
                                          !.pc = IF planned = {g} THEN "remind" ELSE "create"]]
    BY <1>5 DEF CreateStep
  <2>3. g \in Rung /\ proc[p].todo \in [Rung -> MaybeTime]
    BY <1>0 DEF Process
  <2>4. steps' \in [Rung -> StepRows]
    BY <2>2, <2>3 DEF StepRows
  <2>. DEFINE pc == IF planned = {g} THEN "remind" ELSE "create"
              w == [proc[p] EXCEPT !.todo[g] = NULL, !.pc = pc]
  <2>5. /\ w \in Process /\ w.pc = pc /\ w.op = proc[p].op /\ w.until = proc[p].until
        /\ w.todo = [proc[p].todo EXCEPT ![g] = NULL]
    <3>1. pc \in {"remind", "create"} /\ NULL \in MaybeTime
      BY DEF MaybeTime
    <3>. HIDE DEF pc
    <3>. QED
      BY <1>0, <2>3, <3>1 DEF Process
  <2>6. pc = "remind" => w.todo = Nothing
    <3>1. ASSUME pc = "remind"
          PROVE  w.todo = Nothing
      <4>1. \A h \in Rung : h # g => proc[p].todo[h] = NULL
        BY <3>1
      <4>. HIDE DEF w, planned, pc
      <4>2. \A h \in Rung : [proc[p].todo EXCEPT ![g] = NULL][h] = NULL
        BY <2>3, <4>1
      <4>3. w.todo \in [Rung -> MaybeTime] /\ \A h \in Rung : w.todo[h] = NULL
        BY <2>5, <4>2 DEF Process
      <4>. QED
        BY <4>3, NothingType
    <3>. QED
      BY <3>1
  <2>7. ProcHolds(p, w)
    <3>1. pc \in {"remind", "create"}
      OBVIOUS
    <3>2. p \in User \/ w.op = "open"
      BY <1>0, <2>1, <2>5 DEF ProcHolds, ByUser
    <3>3. /\ w.op \in {"open", "unacknowledge"} /\ (w.op = "open" => p = Pipeline)
          /\ w.op = "unacknowledge" => w.until = NULL
      BY <1>0, <2>1, <2>5 DEF ProcHolds
    <3>. HIDE DEF w, pc
    <3>. QED
      BY <2>5, <2>6, <3>1, <3>2, <3>3, ConstantTypes DEF ProcHolds, ByUser
  <2>8. proc' = [proc EXCEPT ![p] = w]
    BY <2>2
  <2>. HIDE DEF w, planned, pc
  <2>9. proc' \in [Proc -> Process] /\ \A q \in Proc : ProcHolds(q, proc'[q])
    BY <2>7, <2>8, ProcGoes
  <2>. QED
    BY <1>5, <2>4, <2>9 DEF CreateStep
<1>6. CASE ReadReminder(p)
  <2>1. proc[p].pc = "remind" /\ proc[p].todo = Nothing
    BY <1>0, <1>6 DEF ReadReminder, ProcHolds
  <2>. DEFINE w == [proc[p] EXCEPT !.pc = "store", !.seq = incident.count, !.due = now + Interval]
  <2>2. ProcHolds(p, w)
    <3>1. incident.count \in ReminderSeq /\ now + Interval \in MaybeTime /\ now + Interval # NULL
      BY <1>0, ConstantTypes DEF IncidentRow, MaybeTime
    <3>2. /\ w \in Process /\ w.pc = "store" /\ w.op = proc[p].op /\ w.todo = proc[p].todo
          /\ w.due = now + Interval /\ w.until = proc[p].until
      BY <1>0, <3>1 DEF Process
    <3>. HIDE DEF w
    <3>. QED
      BY <1>0, <2>1, <3>1, <3>2 DEF ProcHolds
  <2>3. proc' = [proc EXCEPT ![p] = w] \/ proc' = [proc EXCEPT ![p] = IdleProc]
    BY <1>6 DEF ReadReminder, Goto
  <2>. HIDE DEF w
  <2>4. proc' \in [Proc -> Process] /\ \A q \in Proc : ProcHolds(q, proc'[q])
    BY <1>0, <2>2, <2>3, ProcGoes
  <2>. QED
    BY <1>6, <2>4 DEF ReadReminder
<1>7. CASE StoreReminder(p)
  <2>1. proc' = [proc EXCEPT ![p] = IdleProc]
    BY <1>7 DEF StoreReminder, Goto
  <2>2. proc' \in [Proc -> Process] /\ \A q \in Proc : ProcHolds(q, proc'[q])
    BY <1>0, <2>1, ProcGoes
  <2>3. reminders' \in [ReminderSeq -> MaybeTime]
    BY <1>0, <1>7 DEF StoreReminder, Process
  <2>. QED
    BY <1>7, <2>2, <2>3 DEF StoreReminder
<1>. HIDE DEF TInv
<1>. QED
  BY <1>1, <1>2, <1>3, <1>4, <1>5, <1>6, <1>7 DEF ProcNext

LEMMA TypesStep == TInv /\ [Next]_vars => TInv'
<1>. SUFFICES ASSUME TInv, [Next]_vars
              PROVE  TInv'
  OBVIOUS
<1>0. TypeOK
  <2>1. /\ \A r \in Runner : (run[r].pc \in {"step", "page", "cycle"}) <=> (run[r].rung # NULL)
        /\ \A q \in Proc : (proc[q].pc = "idle") <=> (proc[q].op = NULL)
    BY DEF TInv, RunHolds, ProcHolds
  <2>. QED
    BY <2>1 DEF TInv, TypeOK
<1>1. CASE BeginAny
  <2>1. PICK p \in Proc, w \in Process : Starts(p, w)
    BY <1>0, <1>1, AllBegin
  <2>2. ProcHolds(p, w)
    BY <2>1, ConstantTypes DEF Starts, ProcHolds, ByUser
  <2>3. proc' \in [Proc -> Process] /\ \A q \in Proc : ProcHolds(q, proc'[q])
    BY <2>1, <2>2, ProcGoes DEF Starts
  <2>. QED
    BY <2>1, <2>3 DEF TInv, Starts
<1>2. ASSUME NEW p \in Proc, ProcNext(p)
      PROVE  TInv'
  BY <1>2, ProcTypesStep
<1>3. ASSUME NEW r \in Runner, RunNext(r)
      PROVE  TInv'
  BY <1>3, RunTypesStep
<1>4. ASSUME NEW g \in Rung, SendNotification(g)
      PROVE  TInv'
  <2>1. steps' \in [Rung -> StepRows]
    <3>1. PICK n \in 0 .. 2 :
              steps' = [steps EXCEPT ![g] = [steps[g] EXCEPT !.queued = FALSE, !.sent = n]]
      <4>1. steps[g] \in StepRows /\ steps[g].sent \in 0 .. 2
        BY DEF TInv, StepRows
      <4>2. (IF steps[g].sent < 2 THEN steps[g].sent + 1 ELSE steps[g].sent) \in 0 .. 2
        BY <4>1
      <4>. QED
        BY <1>4, <4>1, <4>2 DEF SendNotification, TInv
    <3>2. [steps[g] EXCEPT !.queued = FALSE, !.sent = n] \in StepRows
      BY <3>1 DEF TInv, StepRows
    <3>. QED
      BY <3>1, <3>2 DEF TInv
  <2>. QED
    BY <1>4, <2>1 DEF SendNotification, TInv
<1>5. CASE Tick
  BY <1>5, ConstantTypes DEF Tick, TInv
<1>6. CASE UNCHANGED vars
  BY <1>6 DEF vars, TInv
<1>. QED
  BY <1>1, <1>2, <1>3, <1>4, <1>5, <1>6 DEF Next, BeginAny

\* Of every variable, its type; of every run and process, that it holds a rung or
\* an operation exactly while it is at work on one.
THEOREM TypesKept == Spec => []TypeOK
<1>1. TInv => TypeOK
  <2>1. TInv => /\ \A r \in Runner : (run[r].pc \in {"step", "page", "cycle"}) <=> (run[r].rung # NULL)
                /\ \A q \in Proc : (proc[q].pc = "idle") <=> (proc[q].op = NULL)
    BY DEF TInv, RunHolds, ProcHolds
  <2>. QED
    BY <2>1 DEF TInv, TypeOK
<1>. QED
  BY TypesAtFirst, TypesStep, <1>1, PTL DEF Spec

LEMMA InvIsType == TInv => TypeOK
<1>1. TInv => /\ \A r \in Runner : (run[r].pc \in {"step", "page", "cycle"}) <=> (run[r].rung # NULL)
              /\ \A q \in Proc : (proc[q].pc = "idle") <=> (proc[q].op = NULL)
  BY DEF TInv, RunHolds, ProcHolds
<1>. QED
  BY <1>1 DEF TInv, TypeOK

-----------------------------------------------------------------------------
(* What an acknowledgment stops.                                           *)

AckInv == hist.settled => incident.acked /\ AckStopsPaging

\* The runs page only after they have read an incident that is not acknowledged,
\* and while they do nothing is settled.
LEMMA AckStep == TInv /\ AckInv /\ [Next]_vars => AckInv'
<1>. SUFFICES ASSUME TInv, AckInv, [Next]_vars
              PROVE  AckInv'
  OBVIOUS
<1>0. /\ run \in [Runner -> Run] /\ \A r \in Runner : run[r] \in Run
      /\ steps \in [Rung -> StepRows] /\ \A g \in Rung : steps[g] \in StepRows
      /\ incident \in IncidentRow /\ hist \in History
  BY DEF TInv
<1>1. ASSUME UNCHANGED <<incident, steps, run, hist>>
      PROVE  AckInv'
  BY <1>1 DEF AckInv, AckStopsPaging
<1>2. CASE BeginAny
  BY <1>1, <1>2, InvIsType, AllBegin DEF Starts
<1>3. ASSUME NEW p \in Proc, Write(p)
      PROVE  AckInv'
  <2>1. proc[p].op \in ByUser \cup {"unsnooze", "recover", "relapse"} /\ proc[p].acks \in BOOLEAN
    BY <1>3 DEF TInv, ProcHolds, Write, Process
  <2>2. /\ hist'.settled => hist.settled /\ proc[p].op \notin {"unacknowledge", "relapse"}
        /\ incident' = Written(proc[p])
    BY <1>0, <1>3 DEF Write, History
  <2>3. incident.acked /\ proc[p].op \notin {"unacknowledge", "relapse"} => Written(proc[p]).acked
    BY <1>0, <2>1 DEF Written, ByUser, IncidentRow
  <2>. QED
    BY <1>3, <2>2, <2>3 DEF AckInv, AckStopsPaging, Write
<1>4. ASSUME NEW p \in Proc, CancelPending(p)
      PROVE  AckInv'
  <2>1. hist'.settled => incident.acked /\ \A r \in Runner : run[r].pc # "page"
    BY <1>0, <1>4 DEF CancelPending, History
  <2>2. \A g \in Rung : steps'[g].queued = FALSE
    BY <1>0, <1>4 DEF CancelPending, Canceled, StepRows
  <2>. QED
    BY <1>4, <2>1, <2>2 DEF AckInv, AckStopsPaging, CancelPending
<1>5. ASSUME NEW p \in Proc, \/ CancelReminders(p) \/ ListSteps(p)
                             \/ ReadReminder(p) \/ StoreReminder(p)
      PROVE  AckInv'
  BY <1>1, <1>5 DEF CancelReminders, ListSteps, ReadReminder, StoreReminder
<1>6. ASSUME NEW p \in Proc, CreateStep(p)
      PROVE  AckInv'
  <2>1. \A g \in Rung : steps'[g].queued => steps[g].queued
    BY <1>0, <1>6 DEF CreateStep, StepRows
  <2>. QED
    BY <1>6, <2>1 DEF AckInv, AckStopsPaging, CreateStep
<1>7. ASSUME NEW r \in Runner, NEW g \in Rung, ClaimStep(r, g)
      PROVE  AckInv'
  <2>1. \A h \in Rung : steps'[h].queued => steps[h].queued
    BY <1>0, <1>7 DEF ClaimStep, StepRows
  <2>2. \A q \in Runner : run'[q].pc = "page" => run[q].pc = "page"
    BY <1>0, <1>7 DEF ClaimStep, Run
  <2>. QED
    BY <1>7, <2>1, <2>2 DEF AckInv, AckStopsPaging, ClaimStep
<1>8. ASSUME NEW r \in Runner, CheckIncident(r)
      PROVE  AckInv'
  <2>1. \A q \in Runner : run'[q].pc = "page" => run[q].pc = "page" \/ NeedsPaging(now)
    BY <1>0, <1>8 DEF CheckIncident, Run, IdleRun
  <2>. QED
    BY <1>8, <2>1 DEF AckInv, AckStopsPaging, CheckIncident, NeedsPaging
<1>9. ASSUME NEW r \in Runner, FanOut(r)
      PROVE  AckInv'
  BY <1>9 DEF AckInv, AckStopsPaging, FanOut
<1>10. ASSUME NEW r \in Runner, ScheduleStep(r)
       PROVE  AckInv'
  <2>1. \A h \in Rung : steps'[h].queued => steps[h].queued
    BY <1>0, <1>10 DEF ScheduleStep, StepRows
  <2>2. \A q \in Runner : run'[q].pc = "page" => run[q].pc = "page"
    BY <1>0, <1>10 DEF ScheduleStep, Run, IdleRun
  <2>. QED
    BY <1>10, <2>1, <2>2 DEF AckInv, AckStopsPaging, ScheduleStep
<1>11. ASSUME NEW r \in Runner, \/ \E n \in ReminderSeq : ClaimReminderJob(r, n)
                                \/ CheckReminder(r) \/ ScheduleNextReminder(r)
       PROVE  AckInv'
  <2>1. \A q \in Runner : run'[q].pc = "page" => run[q].pc = "page"
    <3>1. CASE \E n \in ReminderSeq : ClaimReminderJob(r, n)
      BY <1>0, <3>1 DEF ClaimReminderJob, Run
    <3>2. CASE CheckReminder(r)
      <4>1. \/ run' = [run EXCEPT ![r] = IdleRun]
            \/ \E pc \in {"claim", "again"} :
                   run' = [run EXCEPT ![r] = [run[r] EXCEPT !.pc = pc, !.at = now]]
        BY <3>2 DEF CheckReminder
      <4>2. \A pc \in {"claim", "again"} : [run[r] EXCEPT !.pc = pc, !.at = now].pc = pc
        BY <1>0 DEF Run
      <4>3. IdleRun.pc = "idle"
        BY DEF IdleRun
      <4>. QED
        BY <1>0, <4>1, <4>2, <4>3
    <3>3. CASE ScheduleNextReminder(r)
      BY <1>0, <3>3 DEF ScheduleNextReminder, Run, IdleRun
    <3>. QED
      BY <1>11, <3>1, <3>2, <3>3
  <2>2. UNCHANGED <<incident, steps, hist>>
    BY <1>11 DEF ClaimReminderJob, CheckReminder, ScheduleNextReminder
  <2>. QED
    BY <2>1, <2>2 DEF AckInv, AckStopsPaging
<1>12. ASSUME NEW r \in Runner, ClaimIncidentReminder(r)
       PROVE  AckInv'
  <2>1. \A q \in Runner : run'[q].pc = "page" => run[q].pc = "page"
    <3>1. \/ run' = [run EXCEPT ![r] = IdleRun]
          \/ run' = [run EXCEPT ![r] = [run[r] EXCEPT !.pc = "again", !.seq = run[r].seq + 1]]
      BY <1>12 DEF ClaimIncidentReminder
    <3>2. [run[r] EXCEPT !.pc = "again", !.seq = run[r].seq + 1].pc = "again"
      BY <1>0 DEF Run
    <3>3. IdleRun.pc = "idle"
      BY DEF IdleRun
    <3>. QED
      BY <1>0, <3>1, <3>2, <3>3
  <2>2. UNCHANGED <<steps, hist>> /\ (incident'.acked <=> incident.acked)
    <3>1. \/ UNCHANGED incident
          \/ incident' = [incident EXCEPT !.count = @ + 1, !.last = run[r].at]
      BY <1>12 DEF ClaimIncidentReminder
    <3>2. [incident EXCEPT !.count = @ + 1, !.last = run[r].at].acked = incident.acked
      BY <1>0 DEF IncidentRow
    <3>. QED
      BY <1>12, <3>1, <3>2, Zenon DEF ClaimIncidentReminder
  <2>. QED
    BY <2>1, <2>2 DEF AckInv, AckStopsPaging
<1>13. ASSUME NEW g \in Rung, SendNotification(g)
       PROVE  AckInv'
  <2>1. \A h \in Rung : steps'[h].queued => steps[h].queued
    BY <1>0, <1>13 DEF SendNotification, StepRows
  <2>. QED
    BY <1>13, <2>1 DEF AckInv, AckStopsPaging, SendNotification
<1>14. CASE Tick
  BY <1>1, <1>14 DEF Tick
<1>15. CASE UNCHANGED vars
  BY <1>1, <1>15 DEF vars
<1>. QED
  BY <1>2, <1>3, <1>4, <1>5, <1>6, <1>7, <1>8, <1>9, <1>10, <1>11, <1>12, <1>13, <1>14, <1>15
     DEF Next, BeginAny, ProcNext, RunNext

\* Once the sweep of an acknowledgment, a snooze or a resolution has found no step
\* past its check of the incident, no step pages until the incident needs paging
\* again, whatever is acknowledged, snoozed or resolved at the same time.
THEOREM AckSettles == Spec => []AckStopsPaging
<1>1. Init => AckInv
  BY DEF Init, AckInv
<1>2. AckInv => AckStopsPaging
  BY DEF AckInv, AckStopsPaging
<1>. QED
  BY TypesAtFirst, TypesStep, AckStep, <1>1, <1>2, PTL DEF Spec

-----------------------------------------------------------------------------
(* The interval between reminders.                                         *)

\* A reminder sent at t comes no sooner than an interval after the last one.
After(t) == incident.last # NULL => t >= incident.last + Interval

\* Every job, run and request of the chain counts no further than the incident; those
\* that could still win the compare-and-set keep the interval.
JobPaced(n, t) == t # NULL => n <= incident.count /\ (n = incident.count => After(t))

RunPaced(w) ==
    /\ w.pc \in {"reminder", "claim", "again"} => w.seq <= incident.count
    /\ w.pc = "reminder" /\ w.seq = incident.count => After(now)
    /\ w.pc = "claim" => w.at <= now /\ (w.seq = incident.count => After(w.at))
    /\ w.pc = "again" /\ w.seq = incident.count /\ incident.last # NULL => w.at >= incident.last

ProcPaced(w) == w.pc = "store" => JobPaced(w.seq, w.due)

ReminderInv ==
    /\ incident.last # NULL => incident.last <= now
    /\ \A n \in ReminderSeq : JobPaced(n, reminders[n])
    /\ \A r \in Runner : RunPaced(run[r])
    /\ \A p \in Proc : ProcPaced(proc[p])

\* What leaves the count, the last reminder and the chain alone.
ChainKept ==
    /\ incident'.count = incident.count /\ incident'.last = incident.last
    /\ now' >= now
    /\ \A n \in ReminderSeq : reminders'[n] \in {NULL, reminders[n]}

RunsKept == \A q \in Runner : \/ run'[q].pc \notin {"reminder", "claim", "again"}
                              \/ run'[q] = run[q]

ProcsKept == \A q \in Proc : proc'[q].pc # "store" \/ proc'[q] = proc[q]

ReminderTypes ==
    /\ incident.count \in Nat /\ incident.last \in Nat \cup {NULL} /\ now \in Nat /\ Interval \in Nat
    /\ NULL \notin Nat
    /\ \A n \in ReminderSeq : n \in Nat /\ reminders[n] \in Nat \cup {NULL}
    /\ \A r \in Runner : run[r].seq \in Nat /\ run[r].at \in Nat \cup {NULL}
    /\ \A p \in Proc : proc[p].seq \in Nat /\ proc[p].due \in Nat \cup {NULL}
    /\ \A r \in Runner : run[r].pc \in {"claim", "again"} => run[r].at \in Nat
    /\ \A p \in Proc : proc[p].pc = "store" => proc[p].due \in Nat

LEMMA RemindersTyped == TInv => ReminderTypes
<1>. SUFFICES ASSUME TInv
              PROVE  ReminderTypes
  OBVIOUS
<1>1. /\ incident.count \in Nat /\ incident.last \in Nat \cup {NULL} /\ now \in Nat
      /\ Interval \in Nat /\ NULL \notin Nat
  BY ConstantTypes DEF TInv, IncidentRow, ReminderSeq, MaybeTime
<1>2. \A n \in ReminderSeq : n \in Nat /\ reminders[n] \in Nat \cup {NULL}
  BY ConstantTypes DEF TInv, ReminderSeq, MaybeTime
<1>3. ASSUME NEW r \in Runner
      PROVE  /\ run[r].seq \in Nat /\ run[r].at \in Nat \cup {NULL}
             /\ run[r].pc \in {"claim", "again"} => run[r].at \in Nat
  BY ConstantTypes DEF TInv, RunHolds, Run, ReminderSeq, MaybeTime
<1>4. ASSUME NEW p \in Proc
      PROVE  /\ proc[p].seq \in Nat /\ proc[p].due \in Nat \cup {NULL}
             /\ proc[p].pc = "store" => proc[p].due \in Nat
  BY ConstantTypes DEF TInv, ProcHolds, Process, ReminderSeq, MaybeTime
<1>. QED
  BY <1>1, <1>2, <1>3, <1>4 DEF ReminderTypes

LEMMA PacedJobsKept ==
    ASSUME ReminderTypes, ReminderTypes', ReminderInv, ChainKept
    PROVE  /\ incident'.last # NULL => incident'.last <= now'
           /\ \A n \in ReminderSeq : JobPaced(n, reminders[n])'
<1>1. incident'.last # NULL => incident'.last <= now'
  BY DEF ReminderTypes, ReminderInv, ChainKept
<1>2. ASSUME NEW n \in ReminderSeq
      PROVE  JobPaced(n, reminders[n])'
  BY DEF ReminderTypes, ReminderInv, ChainKept, JobPaced, After
<1>. QED
  BY <1>1, <1>2

LEMMA PacedRunKept ==
    ASSUME ReminderTypes, ReminderInv, ChainKept, now' \in Nat, NEW q \in Runner,
           \/ run'[q].pc \notin {"reminder", "claim", "again"}
           \/ run'[q] = run[q]
    PROVE  RunPaced(run[q])'
<1>1. CASE run'[q].pc \notin {"reminder", "claim", "again"}
  BY <1>1 DEF RunPaced
<1>2. CASE run'[q] = run[q]
  BY <1>2 DEF ReminderTypes, ReminderInv, ChainKept, RunPaced, After
<1>. QED
  BY <1>1, <1>2

LEMMA PacedProcKept ==
    ASSUME ReminderInv, ChainKept, NEW q \in Proc, proc'[q].pc # "store" \/ proc'[q] = proc[q]
    PROVE  ProcPaced(proc[q])'
  BY DEF ReminderInv, ChainKept, ProcPaced, JobPaced, After

LEMMA PacedKept ==
    ASSUME ReminderTypes, ReminderTypes', ReminderInv, ChainKept, RunsKept, ProcsKept
    PROVE  ReminderInv'
<1>1. \A q \in Runner : RunPaced(run[q])'
  BY PacedRunKept DEF RunsKept, ReminderTypes
<1>2. \A q \in Proc : ProcPaced(proc[q])'
  BY PacedProcKept DEF ProcsKept
<1>. QED
  BY <1>1, <1>2, PacedJobsKept DEF ReminderInv

\* Most steps leave the chain alone.
LEMMA OthersKeepChain ==
    ASSUME TInv, TInv', [Next]_vars,
           ~ \E p \in Proc : ReadReminder(p) \/ StoreReminder(p),
           ~ \E r \in Runner : \/ \E n \in ReminderSeq : ClaimReminderJob(r, n)
                               \/ CheckReminder(r) \/ ClaimIncidentReminder(r)
                               \/ ScheduleNextReminder(r)
    PROVE  ChainKept /\ RunsKept /\ ProcsKept
<1>0. /\ run \in [Runner -> Run] /\ \A r \in Runner : run[r] \in Run
      /\ proc \in [Proc -> Process] /\ \A p \in Proc : proc[p] \in Process
      /\ incident \in IncidentRow /\ now \in Nat
      /\ IdleRun.pc = "idle" /\ IdleProc.pc = "idle"
  BY ConstantTypes DEF TInv, IdleRun, IdleProc
<1>1. ASSUME UNCHANGED <<incident, reminders, now>>
      PROVE  ChainKept
  BY <1>0, <1>1 DEF ChainKept
<1>2. ASSUME UNCHANGED run
      PROVE  RunsKept
  BY <1>2 DEF RunsKept
<1>3. ASSUME UNCHANGED proc
      PROVE  ProcsKept
  BY <1>3 DEF ProcsKept
<1>4. CASE BeginAny
  <2>1. PICK p \in Proc, w \in Process : Starts(p, w)
    BY <1>4, InvIsType, AllBegin
  <2>2. w.pc = "write" /\ proc' = [proc EXCEPT ![p] = w]
        /\ UNCHANGED <<incident, reminders, now, run>>
    BY <2>1 DEF Starts
  <2>3. ProcsKept
    BY <1>0, <2>2 DEF ProcsKept
  <2>. QED
    BY <1>1, <1>2, <2>2, <2>3
<1>5. ASSUME NEW p \in Proc, NEW pc \in Pcs \ {"store"}, Goto(p, pc)
      PROVE  ProcsKept
  <2>1. [proc[p] EXCEPT !.pc = pc].pc = pc
    BY <1>0 DEF Process
  <2>2. proc'[p].pc = pc /\ \A q \in Proc \ {p} : proc'[q] = proc[q]
    BY <1>0, <1>5, <2>1 DEF Goto
  <2>. QED
    BY <2>2 DEF ProcsKept
<1>6. ASSUME NEW p \in Proc, Write(p)
      PROVE  ChainKept /\ RunsKept /\ ProcsKept
  <2>1. \E pc \in Pcs \ {"store"} : Goto(p, pc)
    BY <1>6 DEF Write, Pcs
  <2>2. incident'.count = incident.count /\ incident'.last = incident.last
    <3>1. incident' = Written(proc[p])
      BY <1>6 DEF Write
    <3>2. Written(proc[p]).count = incident.count /\ Written(proc[p]).last = incident.last
      BY <1>0 DEF Written, IncidentRow
    <3>. QED
      BY <3>1, <3>2
  <2>3. UNCHANGED <<now, reminders, run>>
    BY <1>6 DEF Write
  <2>. QED
    BY <1>0, <1>2, <1>5, <2>1, <2>2, <2>3 DEF ChainKept
<1>7. ASSUME NEW p \in Proc, CancelPending(p) \/ CancelReminders(p)
      PROVE  ChainKept /\ RunsKept /\ ProcsKept
  <2>1. \E pc \in Pcs \ {"store"} : Goto(p, pc)
    BY <1>7 DEF CancelPending, CancelReminders, Pcs
  <2>2. \A n \in ReminderSeq : reminders'[n] \in {NULL, reminders[n]}
    BY <1>7 DEF CancelPending, CancelReminders, CanceledReminders
  <2>3. UNCHANGED <<now, incident, run>>
    BY <1>7 DEF CancelPending, CancelReminders
  <2>. QED
    BY <1>0, <1>2, <1>5, <2>1, <2>2, <2>3 DEF ChainKept
<1>8. ASSUME NEW p \in Proc, ListSteps(p)
      PROVE  ChainKept /\ RunsKept /\ ProcsKept
  <2>1. /\ [proc[p] EXCEPT !.pc = "remind"].pc = "remind"
        /\ [proc[p] EXCEPT !.pc = "create", !.todo = Resumed].pc = "create"
    BY <1>0 DEF Process
  <2>2. proc'[p].pc # "store" /\ \A q \in Proc \ {p} : proc'[q] = proc[q]
    BY <1>0, <1>8, <2>1 DEF ListSteps
  <2>. QED
    BY <1>1, <1>2, <1>8, <2>2 DEF ListSteps, ProcsKept
<1>9. ASSUME NEW p \in Proc, CreateStep(p)
      PROVE  ChainKept /\ RunsKept /\ ProcsKept
  <2>1. PICK g \in Rung, pc \in {"remind", "create"} :
            proc' = [proc EXCEPT ![p] = [proc[p] EXCEPT !.todo[g] = NULL, !.pc = pc]]
    BY <1>9 DEF CreateStep
  <2>2. [proc[p] EXCEPT !.todo[g] = NULL, !.pc = pc].pc = pc
    BY <1>0 DEF Process
  <2>3. proc'[p].pc # "store" /\ \A q \in Proc \ {p} : proc'[q] = proc[q]
    BY <1>0, <2>1, <2>2
  <2>4. UNCHANGED <<incident, reminders, now, run>>
    BY <1>9 DEF CreateStep
  <2>. QED
    BY <1>1, <1>2, <2>3, <2>4 DEF ProcsKept
<1>10. ASSUME NEW r \in Runner, NEW g \in Rung, ClaimStep(r, g)
       PROVE  ChainKept /\ RunsKept /\ ProcsKept
  <2>1. [run[r] EXCEPT !.pc = "step", !.rung = g].pc = "step"
    BY <1>0 DEF Run
  <2>2. run'[r].pc = "step" /\ \A q \in Runner \ {r} : run'[q] = run[q]
    BY <1>0, <1>10, <2>1 DEF ClaimStep
  <2>. QED
    BY <1>1, <1>3, <1>10, <2>2 DEF ClaimStep, RunsKept
<1>11. ASSUME NEW r \in Runner, CheckIncident(r)
       PROVE  ChainKept /\ RunsKept /\ ProcsKept
  <2>1. [run[r] EXCEPT !.pc = "page"].pc = "page"
    BY <1>0 DEF Run
  <2>2. run'[r].pc \in {"page", "idle"} /\ \A q \in Runner \ {r} : run'[q] = run[q]
    BY <1>0, <1>11, <2>1 DEF CheckIncident
  <2>. QED
    BY <1>1, <1>3, <1>11, <2>2 DEF CheckIncident, RunsKept
<1>12. ASSUME NEW r \in Runner, FanOut(r)
       PROVE  ChainKept /\ RunsKept /\ ProcsKept
  <2>1. [run[r] EXCEPT !.pc = "cycle", !.at = now + RepeatAfter, !.step = 1].pc = "cycle"
    BY <1>0 DEF Run
  <2>2. run'[r].pc \in {"cycle", "idle"} /\ \A q \in Runner \ {r} : run'[q] = run[q]
    BY <1>0, <1>12, <2>1 DEF FanOut
  <2>. QED
    BY <1>1, <1>3, <1>12, <2>2 DEF FanOut, RunsKept
<1>13. ASSUME NEW r \in Runner, ScheduleStep(r)
       PROVE  ChainKept /\ RunsKept /\ ProcsKept
  <2>1. [run[r] EXCEPT !.step = @ + 1].pc = run[r].pc
    BY <1>0 DEF Run
  <2>2. run'[r].pc \in {"cycle", "idle"} /\ \A q \in Runner \ {r} : run'[q] = run[q]
    BY <1>0, <1>13, <2>1 DEF ScheduleStep
  <2>. QED
    BY <1>1, <1>3, <1>13, <2>2 DEF ScheduleStep, RunsKept
<1>14. ASSUME NEW g \in Rung, SendNotification(g)
       PROVE  ChainKept /\ RunsKept /\ ProcsKept
  BY <1>1, <1>2, <1>3, <1>14 DEF SendNotification
<1>15. CASE Tick
  BY <1>0, <1>2, <1>3, <1>15 DEF Tick, ChainKept
<1>16. CASE UNCHANGED vars
  BY <1>1, <1>2, <1>3, <1>16 DEF vars
<1>. QED
  BY <1>4, <1>6, <1>7, <1>8, <1>9, <1>10, <1>11, <1>12, <1>13, <1>14, <1>15, <1>16
     DEF Next, BeginAny, ProcNext, RunNext

LEMMA ReminderStep == TInv /\ ReminderInv /\ [Next]_vars => ReminderInv'
<1>. SUFFICES ASSUME TInv, ReminderInv, [Next]_vars
              PROVE  ReminderInv'
  OBVIOUS
<1>0. /\ run \in [Runner -> Run] /\ \A r \in Runner : run[r] \in Run
      /\ proc \in [Proc -> Process] /\ \A p \in Proc : proc[p] \in Process
      /\ reminders \in [ReminderSeq -> MaybeTime] /\ incident \in IncidentRow
      /\ IdleRun.pc = "idle" /\ IdleProc.pc = "idle" /\ NULL \notin Nat
  BY ConstantTypes DEF TInv, IdleRun, IdleProc
<1>t. ReminderTypes /\ ReminderTypes' /\ TInv'
  <2>1. TInv'
    BY TypesStep
  <2>2. TInv' => ReminderTypes'
    BY RemindersTyped, PTL
  <2>. QED
    BY <2>1, <2>2, RemindersTyped
<1>1. ASSUME UNCHANGED <<incident, reminders, now>>
      PROVE  ChainKept
  BY <1>1, <1>t DEF ChainKept, ReminderTypes
<1>2. ASSUME ChainKept, RunsKept, ProcsKept
      PROVE  ReminderInv'
  BY <1>2, <1>t, PacedKept
<1>3. ASSUME NEW p \in Proc, ReadReminder(p)
      PROVE  ReminderInv'
  <2>1. UNCHANGED <<incident, reminders, now, run>>
    BY <1>3 DEF ReadReminder
  <2>2. CASE proc' = [proc EXCEPT ![p] = IdleProc]
    <3>1. proc'[p].pc # "store" /\ \A q \in Proc \ {p} : proc'[q] = proc[q]
      BY <1>0, <2>2
    <3>. QED
      BY <1>1, <1>2, <2>1, <3>1 DEF RunsKept, ProcsKept
  <2>. DEFINE w == [proc[p] EXCEPT !.pc = "store", !.seq = incident.count, !.due = now + Interval]
  <2>3. CASE proc' = [proc EXCEPT ![p] = w]
    <3>1. w.pc = "store" /\ w.seq = incident.count /\ w.due = now + Interval
      BY <1>0 DEF Process
    <3>. HIDE DEF w
    <3>2. proc'[p] = w /\ \A q \in Proc \ {p} : proc'[q] = proc[q]
      BY <1>0, <2>3
    <3>3. ProcPaced(proc[p])'
      BY <1>t, <2>1, <3>1, <3>2 DEF ProcPaced, JobPaced, After, ReminderTypes, ReminderInv
    <3>4. ASSUME NEW q \in Proc \ {p}
          PROVE  ProcPaced(proc[q])'
      BY <1>1, <2>1, <3>2, PacedProcKept
    <3>5. \A q \in Runner : RunPaced(run[q])'
      BY <1>1, <1>t, <2>1, PacedRunKept DEF ReminderTypes
    <3>. QED
      BY <1>1, <1>t, <2>1, <3>3, <3>4, <3>5, PacedJobsKept DEF ReminderInv
  <2>. QED
    BY <1>3, <2>2, <2>3 DEF ReadReminder, Goto
<1>4. ASSUME NEW p \in Proc, StoreReminder(p)
      PROVE  ReminderInv'
  <2>1. /\ UNCHANGED <<incident, now, run>> /\ proc[p].pc = "store"
        /\ reminders' = [reminders EXCEPT ![proc[p].seq] = proc[p].due]
        /\ proc' = [proc EXCEPT ![p] = IdleProc]
    BY <1>4 DEF StoreReminder, Goto
  <2>2. JobPaced(proc[p].seq, proc[p].due) /\ proc[p].seq \in ReminderSeq
    BY <1>0, <2>1 DEF ReminderInv, ProcPaced, Process
  <2>3. ASSUME NEW n \in ReminderSeq
        PROVE  JobPaced(n, reminders'[n])
    BY <1>0, <2>1, <2>2 DEF ReminderInv
  <2>4. \A n \in ReminderSeq : JobPaced(n, reminders[n])'
    BY <2>1, <2>3 DEF JobPaced, After
  <2>5. \A q \in Proc : ProcPaced(proc[q])'
    BY <1>0, <2>1 DEF ReminderInv, ProcPaced, JobPaced, After
  <2>6. \A q \in Runner : RunPaced(run[q])'
    BY <2>1 DEF ReminderInv, RunPaced, After
  <2>. QED
    BY <2>1, <2>4, <2>5, <2>6 DEF ReminderInv
<1>5. ASSUME NEW r \in Runner, NEW n \in ReminderSeq, ClaimReminderJob(r, n)
      PROVE  ReminderInv'
  <2>1. /\ UNCHANGED <<incident, now, proc>> /\ reminders[n] # NULL /\ reminders[n] <= now
        /\ reminders' = [reminders EXCEPT ![n] = NULL]
        /\ run' = [run EXCEPT ![r] = [run[r] EXCEPT !.pc = "reminder", !.seq = n]]
    BY <1>5 DEF ClaimReminderJob, Due
  <2>2. ChainKept
    BY <1>0, <1>t, <2>1 DEF ChainKept, ReminderTypes
  <2>3. /\ [run[r] EXCEPT !.pc = "reminder", !.seq = n].pc = "reminder"
        /\ [run[r] EXCEPT !.pc = "reminder", !.seq = n].seq = n
    BY <1>0 DEF Run
  <2>4. /\ run'[r].pc = "reminder" /\ run'[r].seq = n
        /\ \A q \in Runner \ {r} : run'[q] = run[q]
    BY <1>0, <2>1, <2>3
  <2>5. RunPaced(run[r])'
    <3>1. n <= incident.count /\ (n = incident.count => After(reminders[n]))
      BY <2>1 DEF ReminderInv, JobPaced
    <3>2. n = incident.count => After(now)
      BY <1>t, <2>1, <3>1 DEF After, ReminderTypes
    <3>. QED
      BY <2>1, <2>4, <3>1, <3>2 DEF RunPaced, After
  <2>6. ASSUME NEW q \in Runner \ {r}
        PROVE  RunPaced(run[q])'
    BY <1>t, <2>2, <2>4, PacedRunKept DEF ReminderTypes
  <2>7. \A q \in Proc : ProcPaced(proc[q])'
    BY <2>1, <2>2, PacedProcKept
  <2>. QED
    BY <1>t, <2>2, <2>5, <2>6, <2>7, PacedJobsKept DEF ReminderInv
<1>6. ASSUME NEW r \in Runner, CheckReminder(r)
      PROVE  ReminderInv'
  <2>1. UNCHANGED <<incident, reminders, now, proc>> /\ run[r].pc = "reminder"
    BY <1>6 DEF CheckReminder
  <2>2. PICK w : /\ run' = [run EXCEPT ![r] = w]
                 /\ \/ w.pc = "idle"
                    \/ w.pc \in {"claim", "again"} /\ w.at = now /\ w.seq = run[r].seq
    <3>1. \/ run' = [run EXCEPT ![r] = IdleRun]
          \/ \E pc \in {"claim", "again"} :
                 run' = [run EXCEPT ![r] = [run[r] EXCEPT !.pc = pc, !.at = now]]
      BY <1>6 DEF CheckReminder
    <3>2. \A pc \in {"claim", "again"} :
              /\ [run[r] EXCEPT !.pc = pc, !.at = now].pc = pc
              /\ [run[r] EXCEPT !.pc = pc, !.at = now].at = now
              /\ [run[r] EXCEPT !.pc = pc, !.at = now].seq = run[r].seq
      BY <1>0 DEF Run
    <3>. QED
      BY <1>0, <3>1, <3>2
  <2>3. run'[r] = w /\ \A q \in Runner \ {r} : run'[q] = run[q]
    BY <1>0, <2>2
  <2>4. RunPaced(run[r])'
    <3>1. RunPaced(run[r])
      BY DEF ReminderInv
    <3>2. run[r].seq <= incident.count /\ (run[r].seq = incident.count => After(now))
      BY <2>1, <3>1 DEF RunPaced
    <3>3. incident.last # NULL => incident.last <= now
      BY DEF ReminderInv
    <3>. QED
      BY <1>t, <2>1, <2>2, <2>3, <3>2, <3>3 DEF RunPaced, After, ReminderTypes
  <2>5. ASSUME NEW q \in Runner \ {r}
        PROVE  RunPaced(run[q])'
    BY <1>1, <1>t, <2>1, <2>3, PacedRunKept DEF ReminderTypes
  <2>6. \A q \in Proc : ProcPaced(proc[q])'
    BY <1>1, <2>1, PacedProcKept
  <2>. QED
    BY <1>1, <1>t, <2>1, <2>4, <2>5, <2>6, PacedJobsKept DEF ReminderInv
<1>7. ASSUME NEW r \in Runner, ClaimIncidentReminder(r)
      PROVE  ReminderInv'
  <2>1. UNCHANGED <<reminders, now, proc>> /\ run[r].pc = "claim"
    BY <1>7 DEF ClaimIncidentReminder
  <2>2. CASE run' = [run EXCEPT ![r] = IdleRun] /\ UNCHANGED incident
    <3>1. run'[r].pc = "idle" /\ \A q \in Runner \ {r} : run'[q] = run[q]
      BY <1>0, <2>2
    <3>. QED
      BY <1>1, <1>2, <2>1, <2>2, <3>1 DEF RunsKept, ProcsKept
  <2>. DEFINE w == [run[r] EXCEPT !.pc = "again", !.seq = run[r].seq + 1]
  <2>3. CASE /\ Claimable(run[r])
             /\ incident' = [incident EXCEPT !.count = @ + 1, !.last = run[r].at]
             /\ run' = [run EXCEPT ![r] = w]
    <3>1. w.pc = "again" /\ w.seq = run[r].seq + 1 /\ w.at = run[r].at
      BY <1>0 DEF Run
    <3>2. incident'.count = incident.count + 1 /\ incident'.last = run[r].at
      BY <1>0, <2>3 DEF IncidentRow
    <3>3. run[r].seq = incident.count /\ run[r].at \in Nat /\ run[r].at <= now
      BY <1>t, <2>1, <2>3 DEF Claimable, ReminderInv, RunPaced, ReminderTypes
    <3>. HIDE DEF w
    <3>4. run'[r] = w /\ \A q \in Runner \ {r} : run'[q] = run[q]
      BY <1>0, <2>3
    <3>5. \A n \in ReminderSeq : JobPaced(n, reminders[n])'
      BY <1>t, <2>1, <3>2 DEF ReminderInv, JobPaced, ReminderTypes
    <3>6. RunPaced(run[r])'
      BY <1>t, <3>1, <3>2, <3>3, <3>4 DEF RunPaced, ReminderTypes
    <3>7. ASSUME NEW q \in Runner \ {r}
          PROVE  RunPaced(run[q])'
      <4>1. RunPaced(run[q]) /\ run'[q] = run[q]
        BY <3>4 DEF ReminderInv
      <4>. QED
        BY <1>t, <2>1, <3>2, <4>1 DEF RunPaced, ReminderTypes
    <3>8. \A q \in Proc : ProcPaced(proc[q])'
      BY <1>t, <2>1, <3>2 DEF ReminderInv, ProcPaced, JobPaced, ReminderTypes
    <3>. QED
      BY <2>1, <3>2, <3>3, <3>5, <3>6, <3>7, <3>8 DEF ReminderInv
  <2>. QED
    BY <1>7, <2>2, <2>3 DEF ClaimIncidentReminder
<1>8. ASSUME NEW r \in Runner, ScheduleNextReminder(r)
      PROVE  ReminderInv'
  <2>1. /\ UNCHANGED <<incident, now, proc>> /\ run[r].pc = "again"
        /\ reminders' = [reminders EXCEPT ![run[r].seq] = run[r].at + Interval]
        /\ run' = [run EXCEPT ![r] = IdleRun]
    BY <1>8 DEF ScheduleNextReminder
  <2>2. JobPaced(run[r].seq, run[r].at + Interval) /\ run[r].seq \in ReminderSeq
    <3>1. RunPaced(run[r]) /\ run[r].seq \in ReminderSeq
      BY <1>0 DEF ReminderInv, Run
    <3>. QED
      BY <1>t, <2>1, <3>1 DEF RunPaced, JobPaced, After, ReminderTypes
  <2>3. ASSUME NEW n \in ReminderSeq
        PROVE  JobPaced(n, reminders'[n])
    BY <1>0, <2>1, <2>2 DEF ReminderInv
  <2>4. \A n \in ReminderSeq : JobPaced(n, reminders[n])'
    BY <2>1, <2>3 DEF JobPaced, After
  <2>5. \A q \in Proc : ProcPaced(proc[q])'
    BY <2>1 DEF ReminderInv, ProcPaced, JobPaced, After
  <2>6. \A q \in Runner : RunPaced(run[q])'
    BY <1>0, <2>1 DEF ReminderInv, RunPaced, After
  <2>. QED
    BY <2>1, <2>4, <2>5, <2>6 DEF ReminderInv
<1>. QED
  BY <1>t, <1>2, <1>3, <1>4, <1>5, <1>6, <1>7, <1>8, OthersKeepChain

\* Reminders are an interval apart, whoever restarts the chain and however many
\* reminder jobs there are: only a job, a run or a request that has the incident's
\* own count can win the compare-and-set, and each of these came an interval later.
THEOREM RemindersKeepInterval == Spec => RemindersPaced
<1>1. Init => ReminderInv
  <2>. SUFFICES ASSUME Init
                PROVE  ReminderInv
    OBVIOUS
  <2>1. \A r \in Runner : run[r].pc = "idle"
    BY DEF Init, IdleRun
  <2>2. \A p \in Proc : proc[p].pc # "store"
    BY DEF Init, IdleProc, Opening
  <2>3. incident.last = NULL /\ \A n \in ReminderSeq : reminders[n] = NULL
    BY DEF Init
  <2>. QED
    BY <2>1, <2>2, <2>3 DEF ReminderInv, RunPaced, ProcPaced, JobPaced
<1>2. TInv /\ ReminderInv /\ [Next]_vars
        => [incident'.count # incident.count /\ incident.last # NULL
              => incident'.last >= incident.last + Interval]_vars
  <2>. SUFFICES ASSUME TInv, ReminderInv, Next,
                       incident'.count # incident.count, incident.last # NULL
                PROVE  incident'.last >= incident.last + Interval
    BY DEF vars
  <2>1. \A r \in Runner : (CheckReminder(r) \/ ScheduleNextReminder(r)
                            \/ \E n \in ReminderSeq : ClaimReminderJob(r, n)) => UNCHANGED incident
    BY DEF CheckReminder, ScheduleNextReminder, ClaimReminderJob
  <2>2. \A p \in Proc : (ReadReminder(p) \/ StoreReminder(p)) => UNCHANGED incident
    BY DEF ReadReminder, StoreReminder
  <2>3. TInv'
    BY TypesStep
  <2>4. PICK r \in Runner : ClaimIncidentReminder(r)
    BY <2>1, <2>2, <2>3, OthersKeepChain DEF ChainKept
  <2>5. /\ run[r].pc = "claim" /\ Claimable(run[r])
        /\ incident' = [incident EXCEPT !.count = @ + 1, !.last = run[r].at]
    BY <2>4 DEF ClaimIncidentReminder
  <2>6. After(run[r].at)
    BY <2>5 DEF ReminderInv, RunPaced, Claimable
  <2>7. incident'.last = run[r].at
    BY <2>5 DEF TInv, IncidentRow
  <2>. QED
    BY <2>6, <2>7 DEF After
<1>. QED
  BY TypesAtFirst, TypesStep, ReminderStep, <1>1, <1>2, PTL DEF Spec, RemindersPaced

-----------------------------------------------------------------------------
(* The life of a rung, when users take turns.                              *)

OneUser == \A u, v \in User : u = v

\* A rung none of whose rows was created, and one of which only canceled rows are left.
Fresh(g) == steps[g].live = NULL /\ steps[g].canceled = NULL /\ ~steps[g].ran
Dead(g) == steps[g].live = NULL /\ steps[g].canceled # NULL /\ ~steps[g].ran

\* The rung whose run schedules the cycle of g.
Prior(g) == <<Len(Delay), g[2] - 1>>

\* What has not run has neither paged nor a run; what is pending has not run.
NotRun(g) ==
    /\ ~steps[g].ran => /\ ~steps[g].queued /\ steps[g].sent = 0
                        /\ \A r \in Runner : run[r].rung # g
    /\ steps[g].live # NULL => ~steps[g].ran

\* A rung's only run queues its only notification.
OneRun(g) ==
    /\ steps[g].queued => steps[g].sent = 0
    /\ steps[g].sent <= 1
    /\ \A r \in Runner : run[r].rung = g /\ run[r].pc \in {"step", "page"}
            => ~steps[g].queued /\ steps[g].sent = 0
    /\ \A r, q \in Runner : run[r].rung = g /\ run[q].rung = g => r = q

\* A rung of a later cycle comes into being when the loop of the run before it gets there.
Reached(g) ==
    ~Fresh(g) /\ g[2] > 0 =>
        /\ steps[Prior(g)].ran
        /\ \A r \in Runner : run[r].rung = Prior(g) => run[r].pc = "cycle" /\ run[r].step > g[1]

\* A cycle is opened on rungs that have no row yet, and resumed on dead ones.
Plans(w, g) == w.todo[g] # NULL => IF w.op = "open" THEN Fresh(g) /\ g[2] = 0 ELSE Dead(g)

LifeInv ==
    /\ \A g \in Rung : NotRun(g) /\ OneRun(g) /\ Reached(g)
    /\ \A p \in Proc, g \in Rung : Plans(proc[p], g)

LEMMA LifeAtFirst == Init => LifeInv
<1>. SUFFICES ASSUME Init
              PROVE  LifeInv
  OBVIOUS
<1>1. ASSUME NEW g \in Rung
      PROVE  Fresh(g) /\ ~steps[g].queued /\ steps[g].sent = 0
  BY DEF Init, Fresh
<1>2. \A r \in Runner : run[r].rung = NULL
  BY DEF Init, IdleRun
<1>3. ASSUME NEW g \in Rung
      PROVE  NotRun(g) /\ OneRun(g) /\ Reached(g)
  BY <1>1, <1>2, ConstantTypes DEF NotRun, OneRun, Reached, Fresh
<1>4. ASSUME NEW p \in Proc, NEW g \in Rung
      PROVE  Plans(proc[p], g)
  <2>1. CASE p = Pipeline
    <3>1. proc[p] = Opening
      BY <2>1 DEF Init
    <3>2. Opening.op = "open" /\ (g[2] # 0 => Opening.todo[g] = NULL)
      BY DEF Opening, IdleProc
    <3>3. g[2] \in Nat
      BY ConstantTypes DEF Rung, Cycle
    <3>. QED
      BY <1>1, <3>1, <3>2, <3>3 DEF Plans
  <2>2. CASE p # Pipeline
    <3>1. proc[p].todo[g] = NULL
      BY <2>2, NothingType DEF Init, IdleProc
    <3>. QED
      BY <3>1 DEF Plans
  <2>. QED
    BY <2>1, <2>2
<1>. QED
  BY <1>3, <1>4 DEF LifeInv

\* What runs may do without a rung, and processes without a plan.
LEMMA LifeKept ==
    ASSUME LifeInv, UNCHANGED steps, NULL \notin Rung,
           \A q \in Runner : run'[q] = run[q] \/ run'[q].rung = NULL,
           \A q \in Proc : proc'[q] = proc[q] \/ proc'[q].todo = Nothing
    PROVE  LifeInv'
<1>1. ASSUME NEW g \in Rung
      PROVE  (NotRun(g) /\ OneRun(g) /\ Reached(g))'
  <2>1. NotRun(g)'
    BY DEF LifeInv, NotRun
  <2>2. OneRun(g)'
    BY DEF LifeInv, OneRun
  <2>3. Reached(g)'
    <3>1. ASSUME NEW r \in Runner, run'[r].rung = Prior(g), ~Fresh(g), g[2] > 0
          PROVE  run'[r].pc = "cycle" /\ run'[r].step > g[1]
      <4>1. CASE run'[r] = run[r]
        BY <3>1, <4>1 DEF LifeInv, Reached
      <4>2. CASE run'[r].rung = NULL
        <5>1. Prior(g) \in Rung
          BY <3>1, ConstantTypes DEF Prior, Rung, Cycle
        <5>. QED
          BY <3>1, <4>2, <5>1
      <4>. QED
        BY <4>1, <4>2
    <3>2. Fresh(g)' <=> Fresh(g)
      BY DEF Fresh
    <3>3. Reached(g)
      BY DEF LifeInv
    <3>. QED
      BY <3>1, <3>2, <3>3 DEF Reached, Prior
  <2>. QED
    BY <2>1, <2>2, <2>3
<1>2. ASSUME NEW p \in Proc, NEW g \in Rung
      PROVE  Plans(proc[p], g)'
  <2>1. CASE proc'[p] = proc[p]
    BY <2>1 DEF LifeInv, Plans, Fresh, Dead
  <2>2. CASE proc'[p].todo = Nothing
    BY <2>2, NothingType DEF Plans
  <2>. QED
    BY <2>1, <2>2
<1>. QED
  BY <1>1, <1>2 DEF LifeInv

LEMMA PriorIsRung == \A g \in Rung : g[1] \in 1 .. Len(Delay) /\ g[2] \in 0 .. RepeatMax
                                     /\ g = <<g[1], g[2]>> /\ (g[2] > 0 => Prior(g) \in Rung)
  BY ConstantTypes DEF Prior, Rung, Cycle

\* What the actions do to the rows of a rung.
LEMMA RowsCanceled ==
    ASSUME TInv, NEW t \in MaybeTime, steps' = Canceled(t), NEW g \in Rung
    PROVE  /\ (steps'[g].ran <=> steps[g].ran) /\ steps'[g].sent = steps[g].sent
           /\ ~steps'[g].queued
           /\ \/ Withdrawn(steps[g].live, t) /\ steps'[g].live = NULL
                 /\ steps'[g].canceled = Later(steps[g].canceled, steps[g].live)
              \/ ~Withdrawn(steps[g].live, t) /\ steps'[g].live = steps[g].live
                 /\ steps'[g].canceled = steps[g].canceled
<1>. DEFINE row == [steps[g] EXCEPT !.queued = FALSE]
            new == [row EXCEPT !.live = NULL, !.canceled = Later(row.canceled, row.live)]
<1>0. steps[g] \in StepRows
  BY DEF TInv
<1>1. /\ row \in StepRows /\ row.live = steps[g].live /\ row.canceled = steps[g].canceled
      /\ (row.ran <=> steps[g].ran) /\ row.sent = steps[g].sent /\ ~row.queued
  BY <1>0 DEF StepRows
<1>2. steps'[g] = IF Withdrawn(row.live, t) THEN new ELSE row
  BY DEF Canceled
<1>3. /\ new.live = NULL /\ new.canceled = Later(row.canceled, row.live)
      /\ (new.ran <=> row.ran) /\ new.sent = row.sent /\ (new.queued <=> row.queued)
  <2>. HIDE DEF row
  <2>. QED
    BY <1>1 DEF StepRows
<1>. HIDE DEF row, new
<1>4. CASE Withdrawn(row.live, t)
  BY <1>1, <1>2, <1>3, <1>4
<1>5. CASE ~Withdrawn(row.live, t)
  BY <1>1, <1>2, <1>5
<1>. QED
  BY <1>4, <1>5

LEMMA RowCreated ==
    ASSUME TInv, NEW g \in Rung, NEW t, steps' = [steps EXCEPT ![g].live = t]
    PROVE  /\ steps'[g].live = t /\ steps'[g].canceled = steps[g].canceled
           /\ (steps'[g].ran <=> steps[g].ran) /\ steps'[g].sent = steps[g].sent
           /\ (steps'[g].queued <=> steps[g].queued)
           /\ \A h \in Rung \ {g} : steps'[h] = steps[h]
<1>1. steps[g] \in StepRows /\ steps \in [Rung -> StepRows]
  BY DEF TInv
<1>. QED
  BY <1>1 DEF StepRows

LEMMA RowClaimed ==
    ASSUME TInv, NEW g \in Rung, steps' = [steps EXCEPT ![g].live = NULL, ![g].ran = TRUE]
    PROVE  /\ steps'[g].live = NULL /\ steps'[g].canceled = steps[g].canceled
           /\ steps'[g].ran /\ steps'[g].sent = steps[g].sent
           /\ (steps'[g].queued <=> steps[g].queued)
           /\ \A h \in Rung \ {g} : steps'[h] = steps[h]
<1>1. steps[g] \in StepRows /\ steps \in [Rung -> StepRows]
  BY DEF TInv
<1>. QED
  BY <1>1 DEF StepRows

LEMMA RowPaged ==
    ASSUME TInv, NEW g \in Rung, steps' = [steps EXCEPT ![g].queued = TRUE]
    PROVE  /\ steps'[g].live = steps[g].live /\ steps'[g].canceled = steps[g].canceled
           /\ (steps'[g].ran <=> steps[g].ran) /\ steps'[g].sent = steps[g].sent
           /\ \A h \in Rung \ {g} : steps'[h] = steps[h]
<1>1. steps[g] \in StepRows /\ steps \in [Rung -> StepRows]
  BY DEF TInv
<1>. QED
  BY <1>1 DEF StepRows

LEMMA RowSent ==
    ASSUME TInv, NEW g \in Rung, SendNotification(g), steps[g].sent = 0
    PROVE  /\ steps'[g].live = steps[g].live /\ steps'[g].canceled = steps[g].canceled
           /\ (steps'[g].ran <=> steps[g].ran) /\ steps'[g].sent = 1 /\ ~steps'[g].queued
           /\ \A h \in Rung \ {g} : steps'[h] = steps[h]
<1>1. steps[g] \in StepRows /\ steps \in [Rung -> StepRows]
  BY DEF TInv
<1>2. steps' = [steps EXCEPT ![g] = [steps[g] EXCEPT !.queued = FALSE, !.sent = 1]]
  BY <1>1 DEF SendNotification, StepRows
<1>3. LET new == [steps[g] EXCEPT !.queued = FALSE, !.sent = 1] IN
      /\ new.live = steps[g].live /\ new.canceled = steps[g].canceled
      /\ (new.ran <=> steps[g].ran) /\ new.sent = 1 /\ ~new.queued
  BY <1>1 DEF StepRows
<1>. QED
  BY <1>1, <1>2, <1>3

\* A sweep makes dead rungs of pending ones, and disturbs no plan.
LEMMA LifeCanceled ==
    ASSUME TInv, LifeInv, NEW p \in Proc, CancelPending(p), \A q \in Proc : \/ proc'[q] = proc[q]
                                                                           \/ proc'[q].todo = Nothing
    PROVE  LifeInv'
<1>1. proc[p].until \in MaybeTime /\ steps' = Canceled(proc[p].until) /\ run' = run
  BY DEF CancelPending, TInv, Process
<1>2. ASSUME NEW g \in Rung
      PROVE  /\ (steps'[g].ran <=> steps[g].ran) /\ steps'[g].sent = steps[g].sent
             /\ ~steps'[g].queued
             /\ steps'[g].live # NULL => steps[g].live # NULL
             /\ Fresh(g) <=> Fresh(g)'
             /\ Dead(g) => Dead(g)'
  BY <1>1, RowsCanceled DEF Fresh, Dead, Withdrawn, Later
<1>3. ASSUME NEW g \in Rung
      PROVE  (NotRun(g) /\ OneRun(g) /\ Reached(g))'
  <2>1. NotRun(g) /\ OneRun(g) /\ Reached(g)
    BY DEF LifeInv
  <2>2. NotRun(g)' /\ OneRun(g)'
    BY <1>1, <1>2, <2>1 DEF NotRun, OneRun
  <2>3. Reached(g)'
    BY <1>1, <1>2, <2>1, PriorIsRung DEF Reached, Prior
  <2>. QED
    BY <2>2, <2>3
<1>4. ASSUME NEW q \in Proc, NEW g \in Rung
      PROVE  Plans(proc[q], g)'
  <2>1. CASE proc'[q] = proc[q]
    BY <1>2, <2>1 DEF LifeInv, Plans
  <2>2. CASE proc'[q].todo = Nothing
    BY <2>2, NothingType DEF Plans
  <2>. QED
    BY <2>1, <2>2
<1>. QED
  BY <1>3, <1>4 DEF LifeInv

\* A planned rung is created: nobody else has planned it.
LEMMA LifeCreated ==
    ASSUME OneUser, TInv, LifeInv, NEW p \in Proc, CreateStep(p)
    PROVE  LifeInv'
<1>0. /\ proc \in [Proc -> Process] /\ proc[p] \in Process /\ NULL \notin Rung
      /\ proc[p].op \in {"open", "unacknowledge"}
  BY ConstantTypes DEF TInv, CreateStep, ProcHolds
<1>1. PICK g \in Rung, pc \in {"remind", "create"} :
          /\ proc[p].todo[g] # NULL
          /\ steps' = [steps EXCEPT ![g].live = proc[p].todo[g]]
          /\ proc' = [proc EXCEPT ![p] = [proc[p] EXCEPT !.todo[g] = NULL, !.pc = pc]]
  BY DEF CreateStep
<1>2. run' = run
  BY DEF CreateStep
<1>3. /\ steps'[g].live # NULL /\ steps'[g].canceled = steps[g].canceled
      /\ (steps'[g].ran <=> steps[g].ran) /\ steps'[g].sent = steps[g].sent
      /\ (steps'[g].queued <=> steps[g].queued)
      /\ \A h \in Rung \ {g} : steps'[h] = steps[h]
  BY <1>1, RowCreated
<1>4. Plans(proc[p], g) /\ NotRun(g) /\ OneRun(g) /\ Reached(g)
  BY DEF LifeInv
<1>5. ~steps[g].ran
  BY <1>1, <1>4 DEF Plans, Fresh, Dead
<1>6. /\ proc'[p].op = proc[p].op /\ proc'[p].todo[g] = NULL
      /\ \A h \in Rung \ {g} : proc'[p].todo[h] = proc[p].todo[h]
      /\ \A q \in Proc \ {p} : proc'[q] = proc[q]
  <2>1. LET w == [proc[p] EXCEPT !.todo[g] = NULL, !.pc = pc] IN
        w.op = proc[p].op /\ w.todo = [proc[p].todo EXCEPT ![g] = NULL]
    BY <1>0 DEF Process
  <2>2. proc[p].todo \in [Rung -> MaybeTime]
    BY <1>0 DEF Process
  <2>. QED
    BY <1>0, <1>1, <2>1, <2>2
<1>7. ASSUME NEW h \in Rung
      PROVE  (NotRun(h) /\ OneRun(h) /\ Reached(h))'
  <2>1. NotRun(h) /\ OneRun(h) /\ Reached(h)
    BY DEF LifeInv
  <2>2. NotRun(h)' /\ OneRun(h)'
    BY <1>2, <1>3, <1>5, <2>1 DEF NotRun, OneRun
  <2>3. \A k \in Rung : steps'[k].ran <=> steps[k].ran
    BY <1>3
  <2>4. CASE h # g
    BY <1>2, <1>3, <2>1, <2>2, <2>3, <2>4, PriorIsRung DEF Reached, Fresh, Prior
  <2>5. CASE h = g
    <3>1. g[2] > 0 => ~Fresh(g)
      BY <1>1, <1>4, PriorIsRung DEF Plans, Fresh, Dead
    <3>. QED
      BY <1>2, <1>4, <2>2, <2>3, <2>5, <3>1, PriorIsRung DEF Reached, Prior
  <2>. QED
    BY <2>2, <2>4, <2>5
<1>8. ASSUME NEW q \in Proc, NEW h \in Rung
      PROVE  Plans(proc[q], h)'
  <2>1. Plans(proc[q], h)
    BY DEF LifeInv
  <2>2. CASE h # g
    <3>1. /\ proc'[q].op = proc[q].op /\ proc'[q].todo[h] = proc[q].todo[h]
          /\ steps'[h] = steps[h]
      BY <1>3, <1>6, <2>2
    <3>. QED
      BY <2>1, <3>1 DEF Plans, Fresh, Dead
  <2>3. CASE h = g /\ q = p
    BY <1>6, <2>3 DEF Plans
  <2>4. CASE h = g /\ q # p
    <3>1. proc[q].todo[g] = NULL
      <4>1. SUFFICES ASSUME proc[q].todo[g] # NULL
                     PROVE  FALSE
        OBVIOUS
      <4>2. proc[q].op \in {"open", "unacknowledge"}
        BY <4>1, NothingType DEF TInv, ProcHolds
      <4>3. CASE proc[q].op = "open" /\ proc[p].op = "open"
        BY <2>4, <4>3 DEF TInv, ProcHolds
      <4>4. CASE proc[q].op # "open" /\ proc[p].op # "open"
        <5>1. proc[q].op \in ByUser /\ proc[p].op \in ByUser
          BY <1>0, <4>2, <4>4 DEF ByUser
        <5>2. q \in User /\ p \in User
          BY <5>1 DEF TInv, ProcHolds
        <5>. QED
          BY <2>4, <5>2 DEF OneUser
      <4>5. CASE (proc[q].op = "open") # (proc[p].op = "open")
        <5>1. Plans(proc[q], g)
          BY <2>1, <2>4
        <5>. QED
          BY <1>1, <1>4, <4>1, <4>5, <5>1 DEF Plans, Fresh, Dead
      <4>. QED
        BY <4>3, <4>4, <4>5
    <3>. QED
      BY <1>6, <2>4, <3>1 DEF Plans
  <2>. QED
    BY <2>2, <2>3, <2>4
<1>. QED
  BY <1>7, <1>8 DEF LifeInv

\* A pending rung is claimed: nothing of it ran, so no cycle has followed it.
LEMMA LifeClaimed ==
    ASSUME TInv, LifeInv, NEW r \in Runner, NEW g \in Rung, ClaimStep(r, g)
    PROVE  LifeInv'
<1>0. run \in [Runner -> Run] /\ run[r] \in Run /\ NULL \notin Rung
  BY ConstantTypes DEF TInv
<1>1. /\ steps[g].live # NULL /\ proc' = proc /\ run[r].rung = NULL
      /\ steps' = [steps EXCEPT ![g].live = NULL, ![g].ran = TRUE]
      /\ run' = [run EXCEPT ![r] = [run[r] EXCEPT !.pc = "step", !.rung = g]]
  BY DEF ClaimStep, Due, TInv, RunHolds
<1>2. /\ steps'[g].live = NULL /\ steps'[g].canceled = steps[g].canceled
      /\ steps'[g].ran /\ steps'[g].sent = steps[g].sent
      /\ (steps'[g].queued <=> steps[g].queued)
      /\ \A h \in Rung \ {g} : steps'[h] = steps[h]
  BY <1>1, RowClaimed
<1>3. /\ run'[r].pc = "step" /\ run'[r].rung = g
      /\ \A q \in Runner \ {r} : run'[q] = run[q]
  <2>1. LET w == [run[r] EXCEPT !.pc = "step", !.rung = g] IN w.pc = "step" /\ w.rung = g
    BY <1>0 DEF Run
  <2>. QED
    BY <1>0, <1>1, <2>1
<1>4. NotRun(g) /\ OneRun(g) /\ Reached(g)
  BY DEF LifeInv
<1>5. /\ ~steps[g].ran /\ ~steps[g].queued /\ steps[g].sent = 0
      /\ \A q \in Runner : run[q].rung # g
  BY <1>1, <1>4 DEF NotRun
<1>6. ASSUME NEW h \in Rung
      PROVE  (NotRun(h) /\ OneRun(h) /\ Reached(h))'
  <2>1. NotRun(h) /\ OneRun(h) /\ Reached(h)
    BY DEF LifeInv
  <2>2. NotRun(h)'
    <3>1. CASE h = g
      BY <1>2, <3>1 DEF NotRun
    <3>2. CASE h # g
      BY <1>2, <1>3, <2>1, <3>2 DEF NotRun
    <3>. QED
      BY <3>1, <3>2
  <2>3. OneRun(h)'
    <3>1. CASE h = g
      <4>1. \A q \in Runner : run'[q].rung = g => q = r
        BY <1>3, <1>5
      <4>. QED
        BY <1>2, <1>5, <3>1, <4>1 DEF OneRun
    <3>2. CASE h # g
      <4>1. \A q \in Runner : run'[q].rung = h => q # r /\ run'[q] = run[q]
        BY <1>3, <3>2
      <4>. QED
        BY <1>2, <2>1, <3>2, <4>1 DEF OneRun
    <3>. QED
      BY <3>1, <3>2
  <2>4. Reached(h)'
    <3>1. SUFFICES ASSUME ~Fresh(h)', h[2] > 0
                   PROVE  (Reached(h))'
      BY DEF Reached
    <3>2. ~Fresh(h)
      BY <1>1, <1>2, <3>1 DEF Fresh
    <3>3. /\ steps[Prior(h)].ran /\ Prior(h) \in Rung
          /\ \A q \in Runner : run[q].rung = Prior(h) => run[q].pc = "cycle" /\ run[q].step > h[1]
      BY <2>1, <3>1, <3>2, PriorIsRung DEF Reached
    <3>4. Prior(h) # g
      BY <1>5, <3>3
    <3>. QED
      BY <1>2, <1>3, <3>3, <3>4 DEF Reached, Prior
  <2>. QED
    BY <2>2, <2>3, <2>4
<1>7. ASSUME NEW q \in Proc, NEW h \in Rung
      PROVE  Plans(proc[q], h)'
  <2>1. Plans(proc[q], h)
    BY DEF LifeInv
  <2>2. CASE h = g
    BY <1>1, <2>1, <2>2 DEF Plans, Fresh, Dead
  <2>3. CASE h # g
    <3>1. steps'[h] = steps[h]
      BY <1>2, <2>3
    <3>. QED
      BY <1>1, <2>1, <3>1 DEF Plans, Fresh, Dead
  <2>. QED
    BY <2>2, <2>3
<1>. QED
  BY <1>6, <1>7 DEF LifeInv

\* A step pages: it is the rung's only run, and its cycle has no successor yet.
LEMMA LifePaged ==
    ASSUME TInv, LifeInv, NEW r \in Runner, FanOut(r)
    PROVE  LifeInv'
<1>. DEFINE g == run[r].rung
<1>0. /\ run \in [Runner -> Run] /\ run[r] \in Run /\ NULL \notin Rung /\ g \in Rung
      /\ run[r].pc = "page"
  BY ConstantTypes DEF TInv, FanOut, RunHolds, Run
<1>1. /\ steps' = [steps EXCEPT ![g].queued = TRUE] /\ proc' = proc
      /\ run'[r].pc \in {"cycle", "idle"} /\ (run'[r].rung # NULL => run'[r].rung = g)
      /\ \A q \in Runner \ {r} : run'[q] = run[q]
  <2>. DEFINE w == [run[r] EXCEPT !.pc = "cycle", !.at = now + RepeatAfter, !.step = 1]
  <2>1. w.pc = "cycle" /\ w.rung = g
    BY <1>0 DEF Run
  <2>2. IdleRun.pc = "idle" /\ IdleRun.rung = NULL
    BY DEF IdleRun
  <2>3. run' = [run EXCEPT ![r] = w] \/ run' = [run EXCEPT ![r] = IdleRun]
    BY DEF FanOut
  <2>4. steps' = [steps EXCEPT ![g].queued = TRUE] /\ proc' = proc
    BY DEF FanOut
  <2>. HIDE DEF w
  <2>. QED
    BY <1>0, <2>1, <2>2, <2>3, <2>4
<1>. HIDE DEF g
<1>2. /\ steps'[g].live = steps[g].live /\ steps'[g].canceled = steps[g].canceled
      /\ (steps'[g].ran <=> steps[g].ran) /\ steps'[g].sent = steps[g].sent
      /\ \A h \in Rung \ {g} : steps'[h] = steps[h]
  BY <1>0, <1>1, RowPaged
<1>3. NotRun(g) /\ OneRun(g)
  BY <1>0 DEF LifeInv
<1>4. /\ steps[g].ran /\ steps[g].sent = 0
      /\ \A q \in Runner : run[q].rung = g => q = r
  BY <1>0, <1>3 DEF NotRun, OneRun, g
<1>5. ASSUME NEW h \in Rung
      PROVE  (NotRun(h) /\ OneRun(h) /\ Reached(h))'
  <2>1. NotRun(h) /\ OneRun(h) /\ Reached(h)
    BY DEF LifeInv
  <2>2. NotRun(h)'
    <3>1. CASE h = g
      BY <1>2, <1>3, <1>4, <3>1 DEF NotRun
    <3>2. CASE h # g
      BY <1>0, <1>1, <1>2, <2>1, <3>2 DEF NotRun
    <3>. QED
      BY <3>1, <3>2
  <2>3. OneRun(h)'
    <3>1. CASE h = g
      <4>1. \A q \in Runner : run'[q].rung = g => q = r
        BY <1>1, <1>4
      <4>. QED
        BY <1>1, <1>2, <1>4, <3>1, <4>1 DEF OneRun
    <3>2. CASE h # g
      <4>1. \A q \in Runner : run'[q].rung = h => q # r /\ run'[q] = run[q]
        BY <1>0, <1>1, <3>2
      <4>. QED
        BY <1>2, <2>1, <3>2, <4>1 DEF OneRun
    <3>. QED
      BY <3>1, <3>2
  <2>4. Reached(h)'
    <3>1. SUFFICES ASSUME ~Fresh(h)', h[2] > 0
                   PROVE  (Reached(h))'
      BY DEF Reached
    <3>2. ~Fresh(h)
      BY <1>2, <3>1 DEF Fresh
    <3>3. /\ steps[Prior(h)].ran /\ Prior(h) \in Rung
          /\ \A q \in Runner : run[q].rung = Prior(h) => run[q].pc = "cycle" /\ run[q].step > h[1]
      BY <2>1, <3>1, <3>2, PriorIsRung DEF Reached
    <3>4. Prior(h) # g
      BY <1>0, <3>3 DEF g
    <3>5. \A q \in Runner : run'[q].rung = Prior(h) => run'[q] = run[q]
      BY <1>0, <1>1, <3>3, <3>4
    <3>6. steps'[Prior(h)].ran
      BY <1>2, <3>3
    <3>. QED
      BY <3>3, <3>5, <3>6 DEF Reached, Prior
  <2>. QED
    BY <2>2, <2>3, <2>4
<1>6. ASSUME NEW q \in Proc, NEW h \in Rung
      PROVE  Plans(proc[q], h)'
  <2>1. Plans(proc[q], h)
    BY DEF LifeInv
  <2>2. Fresh(h)' = Fresh(h) /\ Dead(h)' = Dead(h)
    BY <1>2 DEF Fresh, Dead
  <2>. QED
    BY <1>1, <2>1, <2>2 DEF Plans
<1>. QED
  BY <1>5, <1>6 DEF LifeInv

\* The loop over the steps of the next cycle reaches a rung that has no row yet.
LEMMA ReachesFresh ==
    ASSUME TInv, LifeInv, NEW r \in Runner, ScheduleStep(r), NEW g, NEW c,
           c = run[r].rung, g = <<run[r].step, c[2] + 1>>
    PROVE  /\ g \in Rung /\ c \in Rung /\ Prior(g) = c /\ Fresh(g) /\ g[1] = run[r].step
           /\ g[2] > 0 /\ steps[c].ran
           /\ \A q \in Runner : run[q].rung = c => q = r
<1>1. /\ run[r].pc = "cycle" /\ run[r].step \in 1 .. Len(Delay) /\ c \in Rung
      /\ c[1] = Len(Delay) /\ c[2] < RepeatMax
  BY DEF ScheduleStep, TInv, RunHolds, Run, Repeats
<1>2. c[2] \in 0 .. RepeatMax /\ c = <<c[1], c[2]>>
  BY <1>1, PriorIsRung
<1>3. g \in Rung /\ g[1] = run[r].step /\ g[2] = c[2] + 1 /\ g[2] > 0
  BY <1>1, <1>2, ConstantTypes DEF Rung, Cycle
<1>4. Prior(g) = c
  <2>1. g[2] - 1 = c[2]
    BY <1>2, <1>3
  <2>. QED
    BY <1>1, <1>2, <2>1 DEF Prior
<1>5. NotRun(c) /\ OneRun(c) /\ Reached(g)
  BY <1>1, <1>3 DEF LifeInv
<1>6. Fresh(g)
  BY <1>1, <1>3, <1>4, <1>5 DEF Reached
<1>7. steps[c].ran /\ \A q \in Runner : run[q].rung = c => q = r
  BY <1>5 DEF NotRun, OneRun
<1>. QED
  BY <1>1, <1>3, <1>4, <1>6, <1>7

LEMMA LifeScheduled ==
    ASSUME TInv, LifeInv, NEW r \in Runner, ScheduleStep(r)
    PROVE  LifeInv'
<1>. DEFINE c == run[r].rung
            g == <<run[r].step, c[2] + 1>>
            t == run[r].at + Offset[run[r].step]
<1>0. /\ g \in Rung /\ c \in Rung /\ Prior(g) = c /\ Fresh(g) /\ g[1] = run[r].step
      /\ g[2] > 0 /\ steps[c].ran
      /\ \A q \in Runner : run[q].rung = c => q = r
  BY ReachesFresh
<1>1. /\ run \in [Runner -> Run] /\ run[r] \in Run /\ NULL \notin Rung
      /\ run[r].pc = "cycle" /\ proc' = proc /\ steps' = [steps EXCEPT ![g].live = t]
      /\ run[r].step \in Nat
  BY ConstantTypes DEF TInv, ScheduleStep, RunHolds
<1>2. /\ \/ run'[r].rung = NULL
         \/ run'[r].rung = c /\ run'[r].pc = "cycle" /\ run'[r].step = run[r].step + 1
      /\ \A q \in Runner \ {r} : run'[q] = run[q]
  <2>. DEFINE w == [run[r] EXCEPT !.step = @ + 1]
  <2>1. w.pc = "cycle" /\ w.rung = c /\ w.step = run[r].step + 1
    BY <1>1 DEF Run
  <2>2. IdleRun.rung = NULL
    BY DEF IdleRun
  <2>3. run' = [run EXCEPT ![r] = w] \/ run' = [run EXCEPT ![r] = IdleRun]
    BY DEF ScheduleStep
  <2>. HIDE DEF w, c
  <2>. QED
    BY <1>1, <2>1, <2>2, <2>3
<1>. HIDE DEF c, g, t
<1>3. /\ steps'[g].live = t /\ steps'[g].canceled = steps[g].canceled
      /\ (steps'[g].ran <=> steps[g].ran) /\ steps'[g].sent = steps[g].sent
      /\ (steps'[g].queued <=> steps[g].queued)
      /\ \A h \in Rung \ {g} : steps'[h] = steps[h]
  BY <1>0, <1>1, RowCreated
<1>4. ASSUME NEW h \in Rung
      PROVE  (NotRun(h) /\ OneRun(h) /\ Reached(h))'
  <2>1. NotRun(h) /\ OneRun(h) /\ Reached(h)
    BY DEF LifeInv
  <2>2. \A q \in Runner : run'[q].rung = h => run[q].rung = h
    BY <1>2, <1>1 DEF c
  <2>3. \A q \in Runner : run'[q].rung = h /\ run'[q].pc \in {"step", "page"} => run'[q] = run[q]
    BY <1>1, <1>2
  <2>4. \A k \in Rung : steps'[k].ran <=> steps[k].ran
    BY <1>3
  <2>5. NotRun(h)'
    BY <1>0, <1>3, <2>1, <2>2 DEF NotRun, Fresh
  <2>6. OneRun(h)'
    BY <1>3, <2>1, <2>2, <2>3 DEF OneRun
  <2>7. Reached(h)'
    <3>1. SUFFICES ASSUME ~Fresh(h)', h[2] > 0
                   PROVE  (Reached(h))'
      BY DEF Reached
    <3>2. Prior(h) \in Rung
      BY <3>1, PriorIsRung
    <3>3. CASE h = g
      <4>1. ASSUME NEW q \in Runner, run'[q].rung = c
            PROVE  run'[q].pc = "cycle" /\ run'[q].step > g[1]
        <5>1. q = r
          BY <1>0, <1>1, <1>2, <4>1
        <5>. QED
          BY <1>0, <1>1, <1>2, <4>1, <5>1
      <4>. QED
        BY <1>0, <2>4, <3>3, <4>1 DEF Reached, Prior
    <3>4. CASE h # g
      <4>1. ~Fresh(h)
        BY <1>3, <3>1, <3>4 DEF Fresh
      <4>2. steps[Prior(h)].ran
            /\ \A q \in Runner : run[q].rung = Prior(h) => run[q].pc = "cycle" /\ run[q].step > h[1]
        BY <2>1, <3>1, <4>1 DEF Reached
      <4>3. ASSUME NEW q \in Runner, run'[q].rung = Prior(h)
            PROVE  run'[q].pc = "cycle" /\ run'[q].step > h[1]
        <5>1. CASE q # r
          BY <1>2, <4>2, <4>3, <5>1
        <5>2. CASE q = r
          <6>1. /\ run'[r].rung = c /\ run'[r].pc = "cycle" /\ run'[r].step = run[r].step + 1
            BY <1>1, <1>2, <3>2, <4>3, <5>2
          <6>2. run[r].step > h[1]
            BY <4>2, <4>3, <5>2, <6>1 DEF c
          <6>3. h[1] \in Nat
            BY PriorIsRung
          <6>. QED
            BY <1>1, <5>2, <6>1, <6>2, <6>3
        <5>. QED
          BY <5>1, <5>2
      <4>. QED
        BY <2>4, <3>2, <4>2, <4>3 DEF Reached, Prior
    <3>. QED
      BY <3>3, <3>4
  <2>. QED
    BY <2>5, <2>6, <2>7
<1>5. ASSUME NEW q \in Proc, NEW h \in Rung
      PROVE  Plans(proc[q], h)'
  <2>1. Plans(proc[q], h)
    BY DEF LifeInv
  <2>2. CASE h # g
    <3>1. Fresh(h)' = Fresh(h) /\ Dead(h)' = Dead(h)
      BY <1>3, <2>2 DEF Fresh, Dead
    <3>. QED
      BY <1>1, <2>1, <3>1 DEF Plans
  <2>3. CASE h = g
    <3>1. proc[q].todo[g] = NULL
      BY <1>0, <2>1, <2>3, PriorIsRung DEF Plans, Fresh, Dead
    <3>. QED
      BY <1>1, <2>3, <3>1 DEF Plans
  <2>. QED
    BY <2>2, <2>3
<1>. QED
  BY <1>4, <1>5 DEF LifeInv

LEMMA LifeSent ==
    ASSUME TInv, LifeInv, NEW g \in Rung, SendNotification(g)
    PROVE  LifeInv'
<1>1. NotRun(g) /\ OneRun(g) /\ steps[g].queued /\ run' = run /\ proc' = proc
  BY DEF LifeInv, SendNotification
<1>2. steps[g].sent = 0 /\ steps[g].ran
  BY <1>1 DEF OneRun, NotRun
<1>3. /\ steps'[g].live = steps[g].live /\ steps'[g].canceled = steps[g].canceled
      /\ (steps'[g].ran <=> steps[g].ran) /\ steps'[g].sent = 1 /\ ~steps'[g].queued
      /\ \A h \in Rung \ {g} : steps'[h] = steps[h]
  BY <1>2, RowSent
<1>4. \A h \in Rung : /\ Fresh(h)' <=> Fresh(h)
                      /\ Dead(h)' <=> Dead(h)
                      /\ steps'[h].ran <=> steps[h].ran
  BY <1>3 DEF Fresh, Dead
<1>5. ASSUME NEW h \in Rung
      PROVE  (NotRun(h) /\ OneRun(h) /\ Reached(h))'
  <2>1. NotRun(h) /\ OneRun(h) /\ Reached(h)
    BY DEF LifeInv
  <2>2. NotRun(h)'
    BY <1>1, <1>2, <1>3, <2>1 DEF NotRun
  <2>3. OneRun(h)'
    BY <1>1, <1>2, <1>3, <2>1 DEF OneRun
  <2>4. Reached(h)'
    BY <1>1, <1>4, <2>1, PriorIsRung DEF Reached, Prior
  <2>. QED
    BY <2>2, <2>3, <2>4
<1>6. ASSUME NEW q \in Proc, NEW h \in Rung
      PROVE  Plans(proc[q], h)'
  <2>1. Plans(proc[q], h)
    BY DEF LifeInv
  <2>. QED
    BY <1>1, <1>4, <2>1 DEF Plans
<1>. QED
  BY <1>5, <1>6 DEF LifeInv

\* What an unacknowledgment plans is what it found dead.
LEMMA LifeListed ==
    ASSUME TInv, LifeInv, NEW p \in Proc, ListSteps(p)
    PROVE  LifeInv'
<1>0. /\ proc \in [Proc -> Process] /\ proc[p] \in Process /\ UNCHANGED <<steps, run>>
      /\ proc[p].op = "unacknowledge" /\ proc[p].todo = Nothing
  BY DEF TInv, ListSteps, ProcHolds
<1>. DEFINE v == [proc[p] EXCEPT !.pc = "remind"]
            w == [proc[p] EXCEPT !.pc = "create", !.todo = Resumed]
<1>1. /\ v.op = proc[p].op /\ v.todo = Nothing
      /\ w.op = proc[p].op /\ w.todo = Resumed
  BY <1>0 DEF Process
<1>2. \A q \in Proc \ {p} : proc'[q] = proc[q]
  BY <1>0 DEF ListSteps
<1>3. proc'[p] = v \/ proc'[p] = w
  BY <1>0 DEF ListSteps
<1>. HIDE DEF v, w
<1>4. ASSUME NEW g \in Rung
      PROVE  Plans(proc[p], g)'
  <2>1. CASE proc'[p] = v
    BY <1>1, <2>1, NothingType DEF Plans
  <2>2. CASE proc'[p] = w
    <3>1. Resumed[g] # NULL => g \in Resumable
      BY DEF Resumed
    <3>2. g \in Resumable => Dead(g)
      BY DEF Resumable, Dead
    <3>3. proc'[p].op # "open" /\ proc'[p].todo[g] = Resumed[g]
      BY <1>0, <1>1, <2>2
    <3>. QED
      BY <1>0, <3>1, <3>2, <3>3 DEF Plans, Dead
  <2>. QED
    BY <1>3, <2>1, <2>2
<1>5. ASSUME NEW q \in Proc, NEW g \in Rung
      PROVE  Plans(proc[q], g)'
  <2>1. CASE q = p
    BY <1>4, <2>1
  <2>2. CASE q # p
    <3>1. Plans(proc[q], g) /\ proc'[q] = proc[q]
      BY <1>2, <2>2 DEF LifeInv
    <3>. QED
      BY <1>0, <3>1 DEF Plans, Fresh, Dead
  <2>. QED
    BY <2>1, <2>2
<1>6. ASSUME NEW g \in Rung
      PROVE  (NotRun(g) /\ OneRun(g) /\ Reached(g))'
  BY <1>0, PriorIsRung DEF LifeInv, NotRun, OneRun, Reached, Fresh, Prior
<1>. QED
  BY <1>5, <1>6 DEF LifeInv

\* The steps that create no row, claim none and page for none.
OffPlan ==
    /\ \A q \in Runner : run'[q] = run[q] \/ (run[q].rung = NULL /\ run'[q].rung = NULL)
    /\ \A q \in Proc : proc'[q] = proc[q] \/ (proc[q].todo = Nothing /\ proc'[q].todo = Nothing)

LEMMA OffPlanSteps ==
    ASSUME TInv, [Next]_vars,
           ~ \E p \in Proc : ListSteps(p) \/ CreateStep(p),
           ~ \E r \in Runner : \/ \E g \in Rung : ClaimStep(r, g)
                               \/ CheckIncident(r) \/ FanOut(r) \/ ScheduleStep(r),
           ~ \E g \in Rung : SendNotification(g)
    PROVE  OffPlan /\ (UNCHANGED steps \/ \E p \in Proc : CancelPending(p))
<1>0. /\ run \in [Runner -> Run] /\ proc \in [Proc -> Process]
      /\ \A r \in Runner : run[r] \in Run /\ RunHolds(run[r])
      /\ \A q \in Proc : proc[q] \in Process /\ ProcHolds(q, proc[q])
      /\ IdleProc.todo = Nothing /\ IdleRun.rung = NULL
  BY DEF TInv, IdleProc, IdleRun
<1>1. ASSUME UNCHANGED <<run, proc>>
      PROVE  OffPlan
  BY <1>1 DEF OffPlan
<1>2. ASSUME NEW p \in Proc, NEW w, proc' = [proc EXCEPT ![p] = w], w.todo = Nothing,
             proc[p].todo = Nothing, UNCHANGED run
      PROVE  OffPlan
  BY <1>0, <1>2 DEF OffPlan
<1>3. ASSUME NEW r \in Runner, NEW w, run' = [run EXCEPT ![r] = w], w.rung = NULL,
             run[r].rung = NULL, UNCHANGED proc
      PROVE  OffPlan
  BY <1>0, <1>3 DEF OffPlan
<1>4. CASE BeginAny
  <2>1. PICK p \in Proc, w \in Process : Starts(p, w)
    BY <1>4, InvIsType, AllBegin
  <2>. QED
    BY <1>0, <1>2, <2>1 DEF Starts, ProcHolds
<1>5. ASSUME NEW p \in Proc, Write(p) \/ CancelPending(p) \/ CancelReminders(p)
      PROVE  OffPlan /\ UNCHANGED run
  <2>1. /\ UNCHANGED run /\ proc[p].todo = Nothing
        /\ \E pc \in Pcs : Goto(p, pc)
    BY <1>0, <1>5 DEF Write, CancelPending, CancelReminders, ProcHolds, Pcs
  <2>2. PICK pc \in Pcs : Goto(p, pc)
    BY <2>1
  <2>3. [proc[p] EXCEPT !.pc = pc].todo = Nothing
    BY <1>0, <2>1 DEF Process
  <2>. QED
    BY <1>0, <1>2, <2>1, <2>2, <2>3 DEF Goto
<1>6. ASSUME NEW p \in Proc, ReadReminder(p) \/ StoreReminder(p)
      PROVE  OffPlan /\ UNCHANGED steps
  <2>. DEFINE w == [proc[p] EXCEPT !.pc = "store", !.seq = incident.count, !.due = now + Interval]
  <2>1. /\ UNCHANGED <<run, steps>> /\ proc[p].todo = Nothing
        /\ proc' = [proc EXCEPT ![p] = IdleProc] \/ proc' = [proc EXCEPT ![p] = w]
    BY <1>0, <1>6 DEF ReadReminder, StoreReminder, ProcHolds, Goto
  <2>2. w.todo = Nothing
    BY <1>0, <2>1 DEF Process
  <2>. HIDE DEF w
  <2>. QED
    BY <1>0, <1>2, <2>1, <2>2
<1>7. ASSUME NEW r \in Runner, NEW n \in ReminderSeq, ClaimReminderJob(r, n)
      PROVE  OffPlan /\ UNCHANGED steps
  <2>1. run[r].rung = NULL
    BY <1>0, <1>7 DEF ClaimReminderJob, RunHolds
  <2>2. [run[r] EXCEPT !.pc = "reminder", !.seq = n].rung = NULL
    BY <1>0, <2>1 DEF Run
  <2>. QED
    BY <1>3, <1>7, <2>1, <2>2 DEF ClaimReminderJob
<1>8. ASSUME NEW r \in Runner, CheckReminder(r)
      PROVE  OffPlan /\ UNCHANGED steps
  <2>1. run[r].rung = NULL
    BY <1>0, <1>8 DEF CheckReminder, RunHolds
  <2>2. \A pc \in {"claim", "again"} : [run[r] EXCEPT !.pc = pc, !.at = now].rung = NULL
    BY <1>0, <2>1 DEF Run
  <2>3. \/ run' = [run EXCEPT ![r] = IdleRun]
        \/ \E pc \in {"claim", "again"} :
               run' = [run EXCEPT ![r] = [run[r] EXCEPT !.pc = pc, !.at = now]]
    BY <1>8 DEF CheckReminder
  <2>. QED
    BY <1>0, <1>3, <1>8, <2>1, <2>2, <2>3 DEF CheckReminder
<1>9. ASSUME NEW r \in Runner, ClaimIncidentReminder(r)
      PROVE  OffPlan /\ UNCHANGED steps
  <2>1. run[r].rung = NULL
    BY <1>0, <1>9 DEF ClaimIncidentReminder, RunHolds
  <2>2. [run[r] EXCEPT !.pc = "again", !.seq = run[r].seq + 1].rung = NULL
    BY <1>0, <2>1 DEF Run
  <2>3. \/ run' = [run EXCEPT ![r] = IdleRun]
        \/ run' = [run EXCEPT ![r] = [run[r] EXCEPT !.pc = "again", !.seq = run[r].seq + 1]]
    BY <1>9 DEF ClaimIncidentReminder
  <2>. QED
    BY <1>0, <1>3, <1>9, <2>1, <2>2, <2>3 DEF ClaimIncidentReminder
<1>10. ASSUME NEW r \in Runner, ScheduleNextReminder(r)
       PROVE  OffPlan /\ UNCHANGED steps
  BY <1>0, <1>3, <1>10 DEF ScheduleNextReminder, RunHolds
<1>11. CASE Tick
  BY <1>1, <1>11 DEF Tick
<1>12. CASE UNCHANGED vars
  BY <1>1, <1>12 DEF vars
<1>13. BeginAny \/ Tick \/ UNCHANGED vars => UNCHANGED steps
  BY InvIsType, AllBegin DEF Starts, Tick, vars
<1>14. \A p \in Proc : Write(p) \/ CancelReminders(p) => UNCHANGED steps
  BY DEF Write, CancelReminders
<1>. QED
  BY <1>4, <1>5, <1>6, <1>7, <1>8, <1>9, <1>10, <1>11, <1>12, <1>13, <1>14
     DEF Next, BeginAny, ProcNext, RunNext

LEMMA LifeChecked ==
    ASSUME TInv, LifeInv, NEW r \in Runner, CheckIncident(r)
    PROVE  LifeInv'
<1>. DEFINE w == [run[r] EXCEPT !.pc = "page"]
<1>0. /\ run \in [Runner -> Run] /\ run[r] \in Run /\ NULL \notin Rung /\ run[r].pc = "step"
      /\ UNCHANGED <<steps, proc>> /\ run[r].rung \in Rung
  BY ConstantTypes DEF TInv, CheckIncident, RunHolds, Run
<1>1. CASE run' = [run EXCEPT ![r] = IdleRun]
  BY <1>0, <1>1, LifeKept DEF IdleRun
<1>2. CASE run' = [run EXCEPT ![r] = w]
  <2>1. w.pc = "page" /\ w.rung = run[r].rung
    BY <1>0 DEF Run
  <2>. HIDE DEF w
  <2>2. /\ run'[r].pc = "page" /\ run'[r].rung = run[r].rung
        /\ \A q \in Runner \ {r} : run'[q] = run[q]
    BY <1>0, <1>2, <2>1
  <2>3. \A q \in Runner : run'[q].rung = run[q].rung
    BY <2>2
  <2>4. \A q \in Runner : run'[q].pc \in {"step", "page"} => run[q].pc \in {"step", "page"}
    BY <1>0, <2>2
  <2>5. ASSUME NEW h \in Rung
        PROVE  (NotRun(h) /\ OneRun(h) /\ Reached(h))'
    <3>1. NotRun(h) /\ OneRun(h) /\ Reached(h)
      BY DEF LifeInv
    <3>2. NotRun(h)' /\ OneRun(h)'
      BY <1>0, <2>3, <2>4, <3>1 DEF NotRun, OneRun
    <3>3. Reached(h)'
      BY <1>0, <2>2, <3>1 DEF Reached, Fresh, Prior
    <3>. QED
      BY <3>2, <3>3
  <2>6. \A q \in Proc, h \in Rung : Plans(proc[q], h)'
    BY <1>0 DEF LifeInv, Plans, Fresh, Dead
  <2>. QED
    BY <2>5, <2>6 DEF LifeInv
<1>. QED
  BY <1>1, <1>2 DEF CheckIncident

LEMMA LifeStep == ASSUME OneUser PROVE TInv /\ LifeInv /\ [Next]_vars => LifeInv'
<1>. SUFFICES ASSUME TInv, LifeInv, [Next]_vars
              PROVE  LifeInv'
  OBVIOUS
<1>1. CASE \E p \in Proc : ListSteps(p) \/ CreateStep(p)
  BY <1>1, LifeListed, LifeCreated
<1>2. CASE \E r \in Runner : \/ \E g \in Rung : ClaimStep(r, g)
                             \/ CheckIncident(r) \/ FanOut(r) \/ ScheduleStep(r)
  BY <1>2, LifeClaimed, LifeChecked, LifePaged, LifeScheduled
<1>3. CASE \E g \in Rung : SendNotification(g)
  BY <1>3, LifeSent
<1>4. CASE OffPlan /\ UNCHANGED steps
  BY <1>4, LifeKept, ConstantTypes DEF OffPlan
<1>5. CASE OffPlan /\ \E p \in Proc : CancelPending(p)
  BY <1>5, LifeCanceled DEF OffPlan
<1>. QED
  BY <1>1, <1>2, <1>3, <1>4, <1>5, OffPlanSteps

\* No rung pages twice, however often the incident is acknowledged, snoozed and
\* unacknowledged by users that take turns: what an unacknowledgment brings back has
\* never run, and the loop that schedules a cycle meets rungs that have no row yet.
THEOREM RungsPageOnce == ASSUME OneUser PROVE Spec => []PagedOnce
<1>1. LifeInv => PagedOnce
  BY DEF LifeInv, OneRun, PagedOnce
<1>. QED
  BY TypesAtFirst, TypesStep, LifeAtFirst, LifeStep, <1>1, PTL DEF Spec

-----------------------------------------------------------------------------
(* What an unacknowledgment brings back.                                   *)

\* An unacknowledgment is under way that has not yet lost sight of the rung.
Reviving(g) ==
    \E p \in User : /\ proc[p].op = "unacknowledge"
                    /\ proc[p].pc \in {"sweep", "list"} \/ proc[p].todo[g] # NULL

\* An operation that sweeps the rows has written first why they are not needed.
Excused(w) ==
    /\ w.pc = "write" /\ w.op = "snooze" => w.acks \/ incident.acked
    /\ w.pc = "sweep" /\ w.op \in {"acknowledge", "snooze"} => incident.acked
    /\ w.pc = "sweep" /\ w.op = "resolve" => incident.resolved

ResumeInv ==
    ~hist.relapsed =>
        /\ \A p \in Proc : Excused(proc[p])
        /\ \A g \in Rung : Dead(g) => incident.acked \/ incident.resolved \/ Reviving(g)

\* The steps that leave the acknowledgment, the operations and the dead rungs alone.
ResumeKept ==
    /\ incident'.acked <=> incident.acked
    /\ incident'.resolved <=> incident.resolved
    /\ hist'.relapsed <=> hist.relapsed
    /\ \A g \in Rung : Dead(g)' => Dead(g)

\* A process that does nothing, begins, or goes on and forgets no dead rung.
Unhurt(p) ==
    \/ proc'[p] = proc[p]
    \/ proc[p].pc = "idle" /\ proc[p].op = NULL /\ Excused(proc'[p])
    \/ /\ proc'[p].pc \notin {"write", "sweep"}
       /\ \A g \in Rung :
             (/\ Dead(g)' /\ proc[p].op = "unacknowledge"
              /\ proc[p].pc \in {"sweep", "list"} \/ proc[p].todo[g] # NULL)
                 => proc'[p].op = "unacknowledge" /\ proc'[p].todo[g] # NULL

LEMMA ResumptionKept ==
    ASSUME ResumeInv, ResumeKept,
           \A p \in Proc : Unhurt(p)
    PROVE  ResumeInv'
<1>. SUFFICES ASSUME ~hist.relapsed, ~hist'.relapsed
              PROVE  ResumeInv'
  BY DEF ResumeInv, ResumeKept
<1>1. \A p \in Proc : Excused(proc[p])'
  <2>. SUFFICES ASSUME NEW p \in Proc
                PROVE  Excused(proc[p])'
    OBVIOUS
  <2>1. Excused(proc[p])
    BY DEF ResumeInv
  <2>2. CASE Excused(proc'[p])
    BY <2>2 DEF Excused, ResumeKept
  <2>a. Unhurt(p)
    OBVIOUS
  <2>3. CASE proc'[p].pc \notin {"write", "sweep"}
    BY <2>3 DEF Excused
  <2>4. CASE proc'[p] = proc[p]
    BY <2>1, <2>4 DEF Excused, ResumeKept
  <2>. QED
    BY <2>a, <2>2, <2>3, <2>4 DEF Unhurt
<1>2. ASSUME NEW g \in Rung, Dead(g)'
      PROVE  incident'.acked \/ incident'.resolved \/ Reviving(g)'
  <2>1. incident.acked \/ incident.resolved \/ Reviving(g)
    BY <1>2 DEF ResumeInv, ResumeKept
  <2>2. ASSUME Reviving(g)
        PROVE  Reviving(g)'
    <3>1. PICK p \in User :
              /\ proc[p].op = "unacknowledge"
              /\ proc[p].pc \in {"sweep", "list"} \/ proc[p].todo[g] # NULL
      BY <2>2 DEF Reviving
    <3>2. p \in Proc /\ NULL # "unacknowledge" /\ Unhurt(p)
      BY ConstantTypes DEF Proc, ByUser
    <3>. QED
      BY <1>2, <3>1, <3>2 DEF Reviving, Unhurt
  <2>. QED
    BY <2>1, <2>2 DEF ResumeKept
<1>. QED
  BY <1>1, <1>2 DEF ResumeInv

LEMMA ResumeAtFirst == Init => ResumeInv
<1>. SUFFICES ASSUME Init
              PROVE  ResumeInv
  OBVIOUS
<1>1. \A p \in Proc : proc[p].pc \in {"idle", "create"}
  BY DEF Init, IdleProc, Opening
<1>2. \A g \in Rung : ~Dead(g)
  BY DEF Init, Dead
<1>. QED
  BY <1>1, <1>2 DEF ResumeInv, Excused

\* The UPDATE of an operation: it alone acknowledges and resolves, and only a user
\* and a relapse take that back.
LEMMA ResumeWritten ==
    ASSUME OneUser, TInv, ResumeInv, NEW p \in Proc, Write(p)
    PROVE  ResumeInv'
<1>. DEFINE op == proc[p].op
<1>0. /\ proc \in [Proc -> Process] /\ proc[p] \in Process /\ proc[p].pc = "write"
      /\ op \in ByUser \cup {"unsnooze", "recover", "relapse"} /\ incident \in IncidentRow
      /\ proc[p].todo = Nothing
      /\ proc[p].acks \in BOOLEAN /\ hist \in History /\ steps' = steps
      /\ (op \in ByUser => p \in User)
  BY DEF TInv, Write, ProcHolds, Process
<1>1. /\ hist'.relapsed <=> hist.relapsed \/ op = "relapse"
      /\ incident' = Written(proc[p])
  BY <1>0 DEF Write, History
<1>2. /\ incident'.acked <=> CASE op = "acknowledge" -> TRUE
                                [] op = "unacknowledge" -> FALSE
                                [] op = "snooze" -> incident.acked \/ proc[p].acks
                                [] op = "relapse" -> FALSE
                                [] OTHER -> incident.acked
      /\ incident'.resolved <=> CASE op = "relapse" -> FALSE
                                  [] op \in {"resolve", "recover"} -> TRUE
                                  [] OTHER -> incident.resolved
  BY <1>0, <1>1 DEF Written, IncidentRow, ByUser
<1>3. PICK pc \in Pcs : /\ Goto(p, pc) /\ pc \notin {"write", "create", "store"}
                        /\ op \in ByUser => pc = "sweep"
                        /\ op \notin ByUser => pc # "sweep"
  <2>1. CASE op \in ByUser
    BY <2>1 DEF Write, ByUser, Pcs
  <2>2. CASE op \notin ByUser
    BY <1>0, <2>2 DEF Write, ByUser, Pcs
  <2>. QED
    BY <2>1, <2>2
<1>4. proc'[p].pc = pc /\ (op \in ByUser => proc'[p].op = op)
      /\ \A q \in Proc \ {p} : proc'[q] = proc[q]
  <2>1. [proc[p] EXCEPT !.pc = pc].pc = pc /\ [proc[p] EXCEPT !.pc = pc].op = op
    BY <1>0 DEF Process
  <2>2. IdleProc.pc = "idle"
    BY DEF IdleProc
  <2>. QED
    BY <1>0, <1>3, <2>1, <2>2 DEF Goto, ByUser
<1>. HIDE DEF op
<1>5. SUFFICES ASSUME ~hist.relapsed, op # "relapse", ~hist'.relapsed
               PROVE  ResumeInv'
  BY <1>1 DEF ResumeInv
<1>6. incident.resolved => incident'.resolved
  BY <1>2, <1>5
<1>7. op # "unacknowledge" => (incident.acked => incident'.acked)
  BY <1>2, <1>5
<1>8. ASSUME NEW q \in Proc
      PROVE  Excused(proc[q])'
  <2>1. Excused(proc[q])
    BY <1>5 DEF ResumeInv
  <2>2. CASE q = p
    BY <1>0, <1>2, <1>3, <1>4, <2>1, <2>2 DEF Excused, ByUser, op
  <2>3. CASE q # p /\ op # "unacknowledge"
    <3>1. proc'[q] = proc[q]
      BY <1>4, <2>3
    <3>. QED
      BY <1>6, <1>7, <2>1, <2>3, <3>1 DEF Excused
  <2>4. CASE q # p /\ op = "unacknowledge"
    <3>1. proc'[q] = proc[q] /\ p \in User
      BY <1>0, <1>4, <2>4 DEF ByUser
    <3>2. q \notin User
      BY <2>4, <3>1 DEF OneUser
    <3>3. proc[q].op \notin ByUser
      BY <3>2 DEF TInv, ProcHolds
    <3>. QED
      BY <3>1, <3>3 DEF Excused, ByUser
  <2>. QED
    BY <2>2, <2>3, <2>4
<1>9. ASSUME NEW g \in Rung, Dead(g)'
      PROVE  incident'.acked \/ incident'.resolved \/ Reviving(g)'
  <2>1. Dead(g)
    BY <1>0, <1>9 DEF Dead
  <2>2. CASE op = "unacknowledge"
    <3>1. p \in User /\ proc'[p].op = "unacknowledge" /\ proc'[p].pc = "sweep"
      BY <1>0, <1>3, <1>4, <2>2 DEF ByUser
    <3>. QED
      BY <3>1 DEF Reviving
  <2>3. CASE op # "unacknowledge"
    <3>1. CASE Reviving(g)
      <4>1. PICK q \in User :
                /\ proc[q].op = "unacknowledge"
                /\ proc[q].pc \in {"sweep", "list"} \/ proc[q].todo[g] # NULL
        BY <3>1 DEF Reviving
      <4>2. q \in Proc /\ q # p
        BY <2>3, <4>1 DEF Proc, op
      <4>. QED
        BY <1>4, <4>1, <4>2 DEF Reviving
    <3>2. CASE incident.acked \/ incident.resolved
      BY <1>6, <1>7, <2>3, <3>2
    <3>. QED
      BY <1>5, <2>1, <3>1, <3>2 DEF ResumeInv
  <2>. QED
    BY <2>2, <2>3
<1>. QED
  BY <1>8, <1>9 DEF ResumeInv

LEMMA ResumeCanceled ==
    ASSUME TInv, ResumeInv, NEW p \in Proc, CancelPending(p)
    PROVE  ResumeInv'
<1>0. /\ proc \in [Proc -> Process] /\ proc[p] \in Process /\ proc[p].pc = "sweep"
      /\ proc[p].op \in ByUser /\ p \in User /\ UNCHANGED incident /\ hist \in History
      /\ proc[p].todo = Nothing
  BY DEF TInv, CancelPending, ProcHolds
<1>1. hist'.relapsed <=> hist.relapsed
  BY <1>0 DEF CancelPending, History
<1>2. PICK pc \in {"idle", "list", "cancel"} :
          Goto(p, pc) /\ (proc[p].op = "unacknowledge" => pc = "list")
  BY DEF CancelPending
<1>3. /\ proc'[p].pc = pc /\ (pc = "list" => proc'[p].op = proc[p].op)
      /\ \A q \in Proc \ {p} : proc'[q] = proc[q]
  <2>1. [proc[p] EXCEPT !.pc = pc].pc = pc /\ [proc[p] EXCEPT !.pc = pc].op = proc[p].op
    BY <1>0 DEF Process
  <2>2. IdleProc.pc = "idle"
    BY DEF IdleProc
  <2>. QED
    BY <1>0, <1>2, <2>1, <2>2 DEF Goto
<1>4. SUFFICES ASSUME ~hist.relapsed
               PROVE  ResumeInv'
  BY <1>1 DEF ResumeInv
<1>5. \A q \in Proc : Excused(proc[q])'
  BY <1>0, <1>2, <1>3, <1>4 DEF ResumeInv, Excused
<1>6. CASE proc[p].op = "unacknowledge"
  <2>1. \A g \in Rung : Reviving(g)'
    BY <1>0, <1>2, <1>3, <1>6 DEF Reviving
  <2>. QED
    BY <1>5, <2>1 DEF ResumeInv
<1>7. CASE proc[p].op # "unacknowledge"
  <2>1. incident.acked \/ incident.resolved
    BY <1>0, <1>4, <1>7 DEF ResumeInv, Excused, ByUser
  <2>. QED
    BY <1>0, <1>5, <2>1 DEF ResumeInv
<1>. QED
  BY <1>6, <1>7

\* The other steps make no rung dead, and an unacknowledgment goes on to bring back
\* each of those that it found.
LEMMA ResumeProcs ==
    ASSUME TInv, ResumeInv, NEW p \in Proc,
           \/ CancelReminders(p) \/ ListSteps(p) \/ CreateStep(p)
           \/ ReadReminder(p) \/ StoreReminder(p)
    PROVE  ResumeInv'
<1>0. /\ proc \in [Proc -> Process] /\ proc[p] \in Process /\ ProcHolds(p, proc[p])
      /\ UNCHANGED <<incident, hist>> /\ IdleProc.pc = "idle"
  BY DEF TInv, CancelReminders, ListSteps, CreateStep, ReadReminder, StoreReminder, IdleProc
<1>u. ASSUME ResumeKept, Unhurt(p), \A q \in Proc \ {p} : proc'[q] = proc[q]
      PROVE  ResumeInv'
  <2>1. \A q \in Proc : Unhurt(q)
    BY <1>u DEF Unhurt
  <2>. QED
    BY <1>u, <2>1, ResumptionKept
<1>1. CASE CancelReminders(p) \/ ReadReminder(p) \/ StoreReminder(p)
  <2>. DEFINE w == [proc[p] EXCEPT !.pc = "store", !.seq = incident.count, !.due = now + Interval]
  <2>1. /\ proc[p].pc \in {"cancel", "remind", "store"} /\ UNCHANGED steps
        /\ proc' = [proc EXCEPT ![p] = IdleProc] \/ proc' = [proc EXCEPT ![p] = w]
    BY <1>1 DEF CancelReminders, ReadReminder, StoreReminder, Goto
  <2>2. w.pc = "store"
    BY <1>0 DEF Process
  <2>. HIDE DEF w
  <2>3. /\ proc'[p].pc \notin {"write", "sweep"} /\ \A q \in Proc \ {p} : proc'[q] = proc[q]
    BY <1>0, <2>1, <2>2
  <2>4. \A g \in Rung : proc[p].todo[g] = NULL
    BY <1>0, <2>1, NothingType DEF ProcHolds
  <2>5. ResumeKept
    BY <1>0, <2>1 DEF ResumeKept, Dead
  <2>. QED
    <3>1. Unhurt(p)
      BY <2>1, <2>3, <2>4 DEF Unhurt, Dead
    <3>. QED
      BY <1>u, <2>3, <2>5, <3>1
<1>2. CASE ListSteps(p)
  <2>. DEFINE v == [proc[p] EXCEPT !.pc = "remind"]
              w == [proc[p] EXCEPT !.pc = "create", !.todo = Resumed]
  <2>1. /\ v.pc = "remind" /\ v.op = proc[p].op
        /\ w.pc = "create" /\ w.op = proc[p].op /\ w.todo = Resumed
    BY <1>0 DEF Process
  <2>2. /\ UNCHANGED steps
        /\ \/ Resumable = {} /\ proc' = [proc EXCEPT ![p] = v]
           \/ Resumable # {} /\ proc' = [proc EXCEPT ![p] = w]
    BY <1>2 DEF ListSteps
  <2>. HIDE DEF v, w
  <2>3. /\ proc'[p].pc \notin {"write", "sweep"} /\ \A q \in Proc \ {p} : proc'[q] = proc[q]
    BY <1>0, <2>1, <2>2
  <2>4. \A g \in Rung : Dead(g)' => Dead(g) /\ g \in Resumable
    BY <2>2 DEF Dead, Resumable
  <2>5. ASSUME NEW g \in Rung, Dead(g)', proc[p].op = "unacknowledge"
        PROVE  proc'[p].op = "unacknowledge" /\ proc'[p].todo[g] # NULL
    <3>1. g \in Resumable
      BY <2>4, <2>5
    <3>2. proc'[p] = w
      BY <1>0, <2>2, <3>1
    <3>3. Resumed[g] \in Nat
      BY <3>1, ResumedShifted
    <3>. QED
      BY <2>1, <2>5, <3>2, <3>3, ConstantTypes
  <2>6. ResumeKept
    BY <1>0, <2>4 DEF ResumeKept
  <2>. QED
    <3>1. Unhurt(p)
      BY <2>3, <2>5 DEF Unhurt, Dead
    <3>. QED
      BY <1>u, <2>3, <2>6, <3>1
<1>3. CASE CreateStep(p)
  <2>1. PICK g \in Rung, pc \in {"remind", "create"} :
            /\ proc[p].todo[g] # NULL
            /\ steps' = [steps EXCEPT ![g].live = proc[p].todo[g]]
            /\ proc' = [proc EXCEPT ![p] = [proc[p] EXCEPT !.todo[g] = NULL, !.pc = pc]]
    BY <1>3 DEF CreateStep
  <2>2. /\ steps'[g].live # NULL /\ \A h \in Rung \ {g} : steps'[h] = steps[h]
    BY <2>1, RowCreated
  <2>3. /\ proc'[p].op = proc[p].op /\ proc'[p].pc = pc
        /\ \A h \in Rung \ {g} : proc'[p].todo[h] = proc[p].todo[h]
        /\ \A q \in Proc \ {p} : proc'[q] = proc[q]
    <3>1. LET w == [proc[p] EXCEPT !.todo[g] = NULL, !.pc = pc] IN
          w.op = proc[p].op /\ w.pc = pc /\ w.todo = [proc[p].todo EXCEPT ![g] = NULL]
      BY <1>0 DEF Process
    <3>2. proc[p].todo \in [Rung -> MaybeTime]
      BY <1>0 DEF Process
    <3>. QED
      BY <1>0, <2>1, <3>1, <3>2
  <2>4. \A h \in Rung : Dead(h)' => Dead(h) /\ h # g
    BY <2>2 DEF Dead
  <2>5. ResumeKept
    BY <1>0, <2>4 DEF ResumeKept
  <2>6. proc[p].pc = "create"
    BY <1>3 DEF CreateStep
  <2>. QED
    <3>1. ASSUME NEW h \in Rung, Dead(h)', proc[p].op = "unacknowledge",
                 proc[p].pc \in {"sweep", "list"} \/ proc[p].todo[h] # NULL
          PROVE  proc'[p].op = "unacknowledge" /\ proc'[p].todo[h] # NULL
      BY <2>3, <2>4, <2>6, <3>1
    <3>2. proc'[p].pc \notin {"write", "sweep"}
      BY <2>3
    <3>3. Unhurt(p)
      BY <3>1, <3>2 DEF Unhurt, Dead
    <3>. QED
      BY <1>u, <2>3, <2>5, <3>3
<1>. QED
  BY <1>1, <1>2, <1>3

LEMMA ResumeStep == ASSUME OneUser PROVE TInv /\ ResumeInv /\ [Next]_vars => ResumeInv'
<1>. SUFFICES ASSUME TInv, ResumeInv, [Next]_vars
              PROVE  ResumeInv'
  OBVIOUS
<1>0. /\ run \in [Runner -> Run] /\ proc \in [Proc -> Process] /\ incident \in IncidentRow
      /\ \A r \in Runner : run[r] \in Run
      /\ \A q \in Proc : ProcHolds(q, proc[q])
  BY DEF TInv
<1>1. ASSUME UNCHANGED <<incident, hist, steps, proc>>
      PROVE  ResumeInv'
  <2>1. ResumeKept
    BY <1>1 DEF ResumeKept, Dead
  <2>. QED
    BY <1>1, <2>1, ResumptionKept DEF Unhurt
<1>2. CASE BeginAny
  <2>1. PICK p \in Proc, w \in Process : Starts(p, w)
    BY <1>2, InvIsType, AllBegin
  <2>2. /\ proc[p].pc = "idle" /\ UNCHANGED <<incident, hist, steps>> /\ Excused(w)
        /\ proc' = [proc EXCEPT ![p] = w]
    BY <2>1 DEF Starts, Excused
  <2>3. proc[p].op = NULL /\ proc'[p] = w /\ \A q \in Proc \ {p} : proc'[q] = proc[q]
    BY <1>0, <2>2 DEF ProcHolds
  <2>4. ResumeKept
    BY <2>2 DEF ResumeKept, Dead
  <2>. QED
    BY <2>2, <2>3, <2>4, ResumptionKept DEF Unhurt
<1>3. ASSUME NEW p \in Proc, ProcNext(p)
      PROVE  ResumeInv'
  BY <1>3, ResumeWritten, ResumeCanceled, ResumeProcs DEF ProcNext
<1>4. ASSUME NEW r \in Runner, NEW g \in Rung, ClaimStep(r, g)
      PROVE  ResumeInv'
  <2>1. UNCHANGED <<incident, hist, proc>> /\ \A h \in Rung : Dead(h)' => Dead(h)
    BY <1>4, RowClaimed DEF ClaimStep, Dead
  <2>2. ResumeKept
    BY <2>1 DEF ResumeKept
  <2>. QED
    BY <2>1, <2>2, ResumptionKept DEF Unhurt
<1>5. ASSUME NEW r \in Runner, FanOut(r)
      PROVE  ResumeInv'
  <2>1. run[r].rung \in Rung /\ steps' = [steps EXCEPT ![run[r].rung].queued = TRUE]
        /\ UNCHANGED <<incident, hist, proc>>
    BY <1>5 DEF FanOut, TInv, RunHolds, Run
  <2>2. \A h \in Rung : Dead(h)' => Dead(h)
    BY <2>1, RowPaged DEF Dead
  <2>3. ResumeKept
    BY <2>1, <2>2 DEF ResumeKept
  <2>. QED
    BY <2>1, <2>3, ResumptionKept DEF Unhurt
<1>6. ASSUME NEW r \in Runner, ScheduleStep(r)
      PROVE  ResumeInv'
  <2>. DEFINE g == <<run[r].step, run[r].rung[2] + 1>>
              t == run[r].at + Offset[run[r].step]
  <2>1. /\ g \in Rung /\ steps' = [steps EXCEPT ![g].live = t]
        /\ UNCHANGED <<incident, hist, proc>>
    <3>1. /\ run[r].step \in 1 .. Len(Delay) /\ run[r].rung \in Rung /\ Repeats(run[r].rung)
      BY <1>6 DEF ScheduleStep, TInv, RunHolds, Run
    <3>2. g \in Rung
      <4>. DEFINE k == run[r].rung[2]
      <4>1. k \in 0 .. RepeatMax /\ k < RepeatMax
        BY <3>1 DEF Rung, Cycle, Repeats
      <4>2. run[r].step \in DOMAIN Delay
        BY <3>1, ConstantTypes
      <4>3. <<run[r].step, k + 1>> \in Rung
        <5>. HIDE DEF k
        <5>1. RepeatMax \in Nat
          BY ConstantTypes
        <5>2. k + 1 \in Cycle
          BY <4>1, <5>1 DEF Cycle
        <5>. QED
          BY <4>2, <5>2 DEF Rung
      <4>. QED
        BY <4>3
    <3>. QED
      BY <1>6, <3>2 DEF ScheduleStep
  <2>2. t # NULL
    <3>1. run[r].at \in Nat /\ run[r].step \in 0 .. Len(Delay)
      BY <1>6 DEF ScheduleStep, TInv, RunHolds, Run, MaybeTime
    <3>. QED
      BY <3>1, OffsetType, ConstantTypes
  <2>. HIDE DEF g, t
  <2>3. \A h \in Rung : Dead(h)' => Dead(h)
    BY <2>1, <2>2, RowCreated DEF Dead
  <2>4. ResumeKept
    BY <2>1, <2>3 DEF ResumeKept
  <2>. QED
    BY <2>1, <2>4, ResumptionKept DEF Unhurt
<1>7. ASSUME NEW r \in Runner, CheckIncident(r) \/ CheckReminder(r) \/ ScheduleNextReminder(r)
                               \/ \E n \in ReminderSeq : ClaimReminderJob(r, n)
      PROVE  ResumeInv'
  BY <1>1, <1>7 DEF CheckIncident, CheckReminder, ScheduleNextReminder, ClaimReminderJob
<1>8. ASSUME NEW r \in Runner, ClaimIncidentReminder(r)
      PROVE  ResumeInv'
  <2>1. UNCHANGED <<hist, steps, proc>>
        /\ (incident'.acked <=> incident.acked) /\ (incident'.resolved <=> incident.resolved)
    <3>1. \/ UNCHANGED incident
          \/ incident' = [incident EXCEPT !.count = @ + 1, !.last = run[r].at]
      BY <1>8 DEF ClaimIncidentReminder
    <3>. DEFINE new == [incident EXCEPT !.count = @ + 1, !.last = run[r].at]
    <3>2. new.acked = incident.acked /\ new.resolved = incident.resolved
      BY <1>0 DEF IncidentRow
    <3>. HIDE DEF new
    <3>3. incident'.acked = incident.acked /\ incident'.resolved = incident.resolved
      BY <3>1, <3>2, Zenon DEF new
    <3>. QED
      BY <1>8, <3>3 DEF ClaimIncidentReminder
  <2>2. ResumeKept
    BY <2>1 DEF ResumeKept, Dead
  <2>. QED
    BY <2>1, <2>2, ResumptionKept DEF Unhurt
<1>9. ASSUME NEW g \in Rung, SendNotification(g)
      PROVE  ResumeInv'
  <2>1. \A h \in Rung : Dead(h)' => Dead(h)
    <3>1. steps[g] \in StepRows /\ steps \in [Rung -> StepRows]
      BY DEF TInv
    <3>2. /\ steps'[g].live = steps[g].live /\ steps'[g].canceled = steps[g].canceled
          /\ (steps'[g].ran <=> steps[g].ran)
          /\ \A h \in Rung \ {g} : steps'[h] = steps[h]
      BY <1>9, <3>1 DEF SendNotification, StepRows
    <3>. QED
      BY <3>2 DEF Dead
  <2>2. ResumeKept /\ UNCHANGED proc
    BY <1>9, <2>1 DEF ResumeKept, SendNotification
  <2>. QED
    BY <2>2, ResumptionKept DEF Unhurt
<1>10. CASE Tick
  BY <1>1, <1>10 DEF Tick
<1>11. CASE UNCHANGED vars
  BY <1>1, <1>11 DEF vars
<1>. QED
  BY <1>2, <1>3, <1>4, <1>5, <1>6, <1>7, <1>8, <1>9, <1>10, <1>11 DEF Next, BeginAny, RunNext

\* An unacknowledged incident that did not relapse has lost none of its rungs: each
\* row that a sweep canceled has a successor that ran or that is pending.
THEOREM RungsComeBack == ASSUME OneUser PROVE Spec => []RungsResumed
<1>1. TInv /\ ResumeInv => RungsResumed
  <2>. SUFFICES ASSUME TInv, ResumeInv, ~incident.acked, ~incident.resolved, ~hist.relapsed,
                       \A p \in Proc : proc[p].pc = "idle", NEW g \in Rung,
                       steps[g].canceled # NULL, ~steps[g].ran, steps[g].live = NULL
                PROVE  FALSE
    BY DEF RungsResumed
  <2>1. Reviving(g)
    BY DEF ResumeInv, Dead
  <2>2. PICK p \in User : proc[p].op = "unacknowledge"
    BY <2>1 DEF Reviving
  <2>3. p \in Proc /\ proc[p].op = NULL
    BY DEF Proc, TInv, ProcHolds
  <2>. QED
    BY <2>2, <2>3, ConstantTypes DEF ByUser
<1>. QED
  BY TypesAtFirst, TypesStep, ResumeAtFirst, ResumeStep, <1>1, PTL DEF Spec

-----------------------------------------------------------------------------
(* The spacing of a cycle.                                                 *)

\* When a rung that did not run is, will again be or was last due.
Planned(g) == \E p \in User : proc[p].todo[g] # NULL

DueAt(g, t) ==
    /\ ~steps[g].ran
    /\ \/ steps[g].live # NULL /\ t = steps[g].live
       \/ steps[g].live = NULL /\ \E p \in User : proc[p].todo[g] = t
       \/ steps[g].live = NULL /\ ~Planned(g) /\ t = steps[g].canceled

\* The step of a cycle after that of g.
Follows(h, g) == h[2] = g[2] /\ h[1] = g[1] + 1

Spaced ==
    \A g, h \in Rung, s, t \in Nat :
        Follows(h, g) /\ DueAt(g, s) /\ DueAt(h, t) => t = s + Delay[h[1]]

\* A rung falls due no sooner than when it was canceled.
NoSooner ==
    /\ \A g \in Rung : steps[g].live # NULL /\ steps[g].canceled # NULL
                            => steps[g].canceled <= steps[g].live
    /\ \A p \in User, g \in Rung : proc[p].todo[g] # NULL => proc[p].todo[g] >= steps[g].canceled

\* A rung that has no row, while others of its cycle have some, is being created.
Opens(p) == proc[p].pc = "create" /\ proc[p].op = "open"

Cycles(r) == run[r].pc = "cycle"
NextOf(r, k) == <<k, run[r].rung[2] + 1>>

Coming(h) ==
    \/ \E p \in Proc : Opens(p) /\ proc[p].todo[h] # NULL
    \/ \E r \in Runner : Cycles(r) /\ h = NextOf(r, h[1]) /\ run[r].step <= h[1]

CycleWhole ==
    /\ \A g, h \in Rung : g[2] = h[2] /\ ~Fresh(g) /\ Fresh(h) => Coming(h)
    /\ \A p \in Proc, h \in Rung : Opens(p) /\ h[2] = 0 /\ Fresh(h) => proc[p].todo[h] # NULL
    /\ \A r \in Runner, k \in 1 .. Len(Delay) :
           Cycles(r) /\ k < run[r].step => ~Fresh(NextOf(r, k))

\* Nothing is pending in a cycle whose dead rungs are read.
ListedWhole ==
    \A p \in Proc : proc[p].pc = "list" =>
        \A g, h \in Rung : g[2] = h[2] /\ Dead(g) /\ ~steps[h].ran => Dead(h)

\* What a loop that creates rungs has created and has left to create is spaced.
OpeningSpaced ==
    \A p \in Proc, g \in Rung : Opens(p) /\ g[2] = 0 =>
        /\ proc[p].todo[g] # NULL => proc[p].todo[g] = Offset[g[1]]
        /\ proc[p].todo[g] = NULL /\ ~steps[g].ran => steps[g].live = Offset[g[1]]

CyclesSpaced ==
    \A r \in Runner, k \in 1 .. Len(Delay) :
        Cycles(r) /\ k < run[r].step /\ ~steps[NextOf(r, k)].ran
            => steps[NextOf(r, k)].live = run[r].at + Offset[k]

SpaceInv ==
    /\ NoSooner /\ CycleWhole
    /\ ~hist.torn => Spaced /\ ListedWhole /\ OpeningSpaced /\ CyclesSpaced

LEMMA OffsetNext ==
    \A s \in 1 .. Len(Delay) : Offset[s] = Offset[s - 1] + Delay[s]
  BY OffsetStacks DEF Stacks

LEMMA SpaceAtFirst == Init => SpaceInv
<1>. SUFFICES ASSUME Init
              PROVE  SpaceInv
  OBVIOUS
<1>1. \A g \in Rung : steps[g].live = NULL /\ steps[g].canceled = NULL /\ ~steps[g].ran
  BY DEF Init
<1>2. \A r \in Runner : run[r].pc = "idle"
  BY DEF Init, IdleRun
<1>3. \A p \in Proc : p # Pipeline => proc[p] = IdleProc
  BY DEF Init
<1>4. ASSUME NEW p \in Proc
      PROVE  /\ p \in User => proc[p].todo = Nothing
             /\ proc[p].pc # "list"
  <2>1. p \in User => p # Pipeline
    BY EscalationAssumption
  <2>2. IdleProc.todo = Nothing /\ IdleProc.pc = "idle" /\ Opening.pc = "create"
    BY DEF IdleProc, Opening
  <2>3. p = Pipeline => proc[p] = Opening
    BY DEF Init
  <2>. QED
    BY <1>3, <2>1, <2>2, <2>3
<1>5. ASSUME NEW p \in Proc, Opens(p), NEW g \in Rung, g[2] = 0
      PROVE  proc[p].todo[g] = Offset[g[1]] /\ proc[p].todo[g] # NULL
  <2>1. p = Pipeline
    BY <1>3, <1>5 DEF Opens, IdleProc
  <2>2. proc[p] = Opening
    BY <2>1 DEF Init
  <2>3. Opening.todo = [h \in Rung |-> IF h[2] = 0 THEN Offset[h[1]] ELSE NULL]
    BY DEF Opening, IdleProc
  <2>4. g[1] \in 0 .. Len(Delay)
    BY PriorIsRung
  <2>5. proc[p].todo[g] = Offset[g[1]]
    BY <1>5, <2>2, <2>3
  <2>. QED
    BY <2>4, <2>5, OffsetType, ConstantTypes
<1>6. \A p \in User, g \in Rung : proc[p].todo[g] = NULL
  BY <1>4, NothingType DEF Proc
<1>7. NoSooner
  BY <1>1, <1>6 DEF NoSooner
<1>8. CycleWhole
  BY <1>1, <1>2, <1>5 DEF CycleWhole, Fresh, Cycles
<1>9. Spaced
  BY <1>1, <1>6, ConstantTypes DEF Spaced, DueAt
<1>10. ListedWhole
  BY <1>4 DEF ListedWhole
<1>11. OpeningSpaced
  BY <1>5 DEF OpeningSpaced
<1>12. CyclesSpaced
  BY <1>2 DEF CyclesSpaced, Cycles
<1>. QED
  BY <1>7, <1>8, <1>9, <1>10, <1>11, <1>12 DEF SpaceInv

\* What is spaced stays so when nothing new falls due.
LEMMA SpacedKept ==
    ASSUME Spaced, \A g \in Rung, t \in Nat : DueAt(g, t)' => DueAt(g, t)
    PROVE  Spaced'
  BY DEF Spaced, Follows

\* The steps that cancel no row and plan and create none.
FreshStay == \A g \in Rung : Fresh(g)' <=> Fresh(g)

RowsStay ==
    \A g \in Rung :
        /\ Fresh(g)' <=> Fresh(g)
        /\ steps'[g].canceled = steps[g].canceled
        /\ steps'[g].live \in {NULL, steps[g].live}
        /\ ~steps'[g].ran => ~steps[g].ran /\ steps'[g].live = steps[g].live

PlansStay == \A p \in Proc : proc'[p].todo = proc[p].todo

OpeningStays ==
    \A p \in Proc : /\ (proc'[p].pc = "create" /\ proc'[p].op = "open") <=> Opens(p)
                    /\ Opens(p) => proc'[p].todo = proc[p].todo

NobodyLists ==
    \A p \in Proc : proc'[p].pc = "list" => proc[p].pc = "list"

LoopsStay ==
    \A r \in Runner :
        /\ Cycles(r) => run'[r] = run[r]
        /\ Cycles(r)' => run'[r] = run[r] \/ run'[r].step = 1

\* The rungs of the cycle that a run schedules.
LEMMA NextIsRung ==
    ASSUME TInv, NEW r \in Runner, Cycles(r), NEW k \in 1 .. Len(Delay)
    PROVE  NextOf(r, k) \in Rung /\ run[r].rung \in Rung /\ run[r].rung[2] \in Nat
           /\ run[r].step \in 1 .. Len(Delay)
<1>1. run[r].rung \in Rung /\ run[r].rung[2] < RepeatMax /\ run[r].step \in 1 .. Len(Delay)
  BY DEF Cycles, TInv, RunHolds, Run, Repeats
<1>2. run[r].rung[2] \in Nat /\ run[r].rung[2] + 1 \in Cycle
  <2>1. PICK c \in Rung : c = run[r].rung
    BY <1>1
  <2>2. c[2] \in 0 .. RepeatMax /\ c[2] < RepeatMax /\ RepeatMax \in Nat
    BY <1>1, <2>1, PriorIsRung, ConstantTypes
  <2>3. c[2] \in Nat /\ c[2] + 1 \in 0 .. RepeatMax
    BY <2>2
  <2>. QED
    BY <2>1, <2>3 DEF Cycle
<1>3. k \in DOMAIN Delay
  BY ConstantTypes
<1>. QED
  BY <1>1, <1>2, <1>3 DEF NextOf, Rung

LEMMA ComingKept ==
    ASSUME OpeningStays, LoopsStay, NEW h \in Rung, Coming(h)
    PROVE  Coming(h)'
<1>1. CASE \E p \in Proc : Opens(p) /\ proc[p].todo[h] # NULL
  BY <1>1 DEF Coming, OpeningStays, Opens
<1>2. CASE \E r \in Runner : Cycles(r) /\ h = NextOf(r, h[1]) /\ run[r].step <= h[1]
  BY <1>2 DEF Coming, LoopsStay, Cycles, NextOf
<1>. QED
  BY <1>1, <1>2 DEF Coming

LEMMA WholeKept ==
    ASSUME TInv, TInv', CycleWhole, FreshStay, OpeningStays, LoopsStay
    PROVE  CycleWhole'
<1>1. ASSUME NEW g \in Rung
      PROVE  Fresh(g)' <=> Fresh(g)
  BY DEF FreshStay
<1>2. ASSUME NEW g \in Rung, NEW h \in Rung, g[2] = h[2], ~Fresh(g)', Fresh(h)'
      PROVE  Coming(h)'
  BY <1>1, <1>2, ComingKept DEF CycleWhole
<1>3. ASSUME NEW p \in Proc, NEW h \in Rung, Opens(p)', h[2] = 0, Fresh(h)'
      PROVE  proc'[p].todo[h] # NULL
  BY <1>1, <1>3 DEF CycleWhole, OpeningStays, Opens
<1>4. ASSUME NEW r \in Runner, NEW k \in 1 .. Len(Delay), Cycles(r)', k < run'[r].step
      PROVE  ~Fresh(NextOf(r, k))'
  <2>1. run'[r] = run[r]
    BY <1>4 DEF LoopsStay
  <2>2. Cycles(r) /\ ~Fresh(NextOf(r, k)) /\ NextOf(r, k) \in Rung
    BY <1>4, <2>1, NextIsRung DEF Cycles, CycleWhole
  <2>3. PICK g \in Rung : g = NextOf(r, k)
    BY <2>2
  <2>4. ~Fresh(g)'
    BY <1>1, <2>2, <2>3
  <2>. QED
    BY <2>1, <2>3, <2>4 DEF Fresh, NextOf
<1>. QED
  BY <1>2, <1>3, <1>4 DEF CycleWhole

LEMMA SpaceKept ==
    ASSUME TInv, TInv', SpaceInv, RowsStay, PlansStay, OpeningStays, NobodyLists,
           LoopsStay, hist.torn => hist'.torn
    PROVE  SpaceInv'
<1>1. NoSooner'
  <2>1. ASSUME NEW p \in User, NEW g \in Rung
        PROVE  proc'[p].todo = proc[p].todo /\ steps'[g].canceled = steps[g].canceled
    BY DEF RowsStay, PlansStay, Proc
  <2>2. \A g \in Rung : steps'[g].live # NULL => steps'[g].live = steps[g].live
    BY DEF RowsStay
  <2>3. \A g \in Rung : steps'[g].canceled = steps[g].canceled
    BY DEF RowsStay
  <2>. QED
    BY <2>1, <2>2, <2>3 DEF SpaceInv, NoSooner
<1>2. CycleWhole'
  BY WholeKept DEF SpaceInv, FreshStay, RowsStay
<1>3. ASSUME ~hist'.torn
      PROVE  (Spaced /\ ListedWhole /\ OpeningSpaced /\ CyclesSpaced)'
  <2>0. Spaced /\ ListedWhole /\ OpeningSpaced /\ CyclesSpaced
    BY <1>3 DEF SpaceInv
  <2>1. Spaced'
    <3>1. ASSUME NEW g \in Rung, NEW t \in Nat, DueAt(g, t)'
          PROVE  DueAt(g, t)
      <4>1. /\ ~steps[g].ran /\ steps'[g].live = steps[g].live
            /\ steps'[g].canceled = steps[g].canceled
        BY <3>1 DEF DueAt, RowsStay
      <4>2. \A p \in User : proc'[p].todo = proc[p].todo
        BY DEF PlansStay, Proc
      <4>. QED
        BY <3>1, <4>1, <4>2 DEF DueAt, Planned
    <3>. QED
      BY <2>0, <3>1, SpacedKept
  <2>2. ListedWhole'
    BY <2>0 DEF ListedWhole, NobodyLists, RowsStay, Dead
  <2>3. OpeningSpaced'
    BY <2>0 DEF OpeningSpaced, OpeningStays, RowsStay, Opens
  <2>4. CyclesSpaced'
    <3>1. ASSUME NEW r \in Runner, NEW k \in 1 .. Len(Delay), Cycles(r)', k < run'[r].step,
                 ~steps'[<<k, run'[r].rung[2] + 1>>].ran
          PROVE  steps'[<<k, run'[r].rung[2] + 1>>].live = run'[r].at + Offset[k]
      <4>1. run'[r] = run[r]
        BY <3>1 DEF LoopsStay
      <4>2. Cycles(r) /\ NextOf(r, k) \in Rung
        BY <3>1, <4>1, NextIsRung DEF Cycles
      <4>3. /\ ~steps[NextOf(r, k)].ran
            /\ steps'[NextOf(r, k)].live = steps[NextOf(r, k)].live
        BY <3>1, <4>1, <4>2 DEF RowsStay, NextOf
      <4>4. steps[NextOf(r, k)].live = run[r].at + Offset[k]
        BY <2>0, <3>1, <4>1, <4>2, <4>3 DEF CyclesSpaced
      <4>. QED
        BY <4>1, <4>3, <4>4 DEF NextOf
    <3>. QED
      BY <3>1 DEF CyclesSpaced, NextOf
  <2>. QED
    BY <2>1, <2>2, <2>3, <2>4
<1>. QED
  BY <1>1, <1>2, <1>3 DEF SpaceInv

\* The loop that creates rungs, and the one that reads them, are entered and left
\* by the steps that are named for them.
LEMMA LoopsEntered ==
    ASSUME TInv, [Next]_vars, ~ \E p \in Proc : ListSteps(p) \/ CreateStep(p), NEW q \in Proc
    PROVE  /\ (proc[q].pc = "create" \/ proc'[q].pc = "create") => proc'[q] = proc[q]
           /\ proc'[q].pc = "list" => proc[q].pc = "list" \/ CancelPending(q)
<1>0. /\ proc \in [Proc -> Process] /\ IdleProc.pc = "idle"
      /\ \A p \in Proc : proc[p] \in Process
  BY DEF TInv, IdleProc
<1>1. CASE BeginAny
  <2>1. PICK p \in Proc, w \in Process : Starts(p, w)
    BY <1>1, InvIsType, AllBegin
  <2>. QED
    BY <1>0, <2>1 DEF Starts
<1>2. ASSUME NEW p \in Proc, NEW pc \in Pcs \ {"create"}, Goto(p, pc), proc[p].pc # "create",
             pc = "list" => CancelPending(p)
      PROVE  /\ (proc[q].pc = "create" \/ proc'[q].pc = "create") => proc'[q] = proc[q]
             /\ proc'[q].pc = "list" => proc[q].pc = "list" \/ CancelPending(q)
  <2>1. proc'[p].pc = pc
    BY <1>0, <1>2, PcChanges DEF Goto
  <2>2. q # p => proc'[q] = proc[q]
    BY <1>0, <1>2 DEF Goto
  <2>. QED
    BY <1>2, <2>1, <2>2
<1>3. CASE \E p \in Proc : Write(p)
  BY <1>2, <1>3 DEF Write, Pcs
<1>4. CASE \E p \in Proc : CancelPending(p)
  BY <1>2, <1>4 DEF CancelPending, Pcs
<1>5. CASE \E p \in Proc : CancelReminders(p)
  BY <1>2, <1>5 DEF CancelReminders, Pcs
<1>6. CASE \E p \in Proc : ReadReminder(p)
  <2>1. PICK p \in Proc : ReadReminder(p)
    BY <1>6
  <2>. DEFINE w == [proc[p] EXCEPT !.pc = "store", !.seq = incident.count, !.due = now + Interval]
  <2>2. w.pc = "store"
    BY <1>0 DEF Process
  <2>. HIDE DEF w
  <2>3. CASE Goto(p, "idle")
    BY <1>2, <2>1, <2>3 DEF ReadReminder, Pcs
  <2>4. CASE proc' = [proc EXCEPT ![p] = w]
    BY <1>0, <2>1, <2>2, <2>4 DEF ReadReminder
  <2>. QED
    BY <2>1, <2>3, <2>4 DEF ReadReminder, w
<1>7. CASE \E p \in Proc : StoreReminder(p)
  BY <1>2, <1>7 DEF StoreReminder, Pcs
<1>8. CASE UNCHANGED proc
  BY <1>8
<1>9. (\E r \in Runner : RunNext(r)) \/ (\E g \in Rung : SendNotification(g)) \/ Tick \/ UNCHANGED vars
        => UNCHANGED proc
  BY DEF RunNext, ClaimStep, CheckIncident, FanOut, ScheduleStep, ClaimReminderJob, CheckReminder,
         ClaimIncidentReminder, ScheduleNextReminder, SendNotification, Tick, vars
<1>. QED
  BY <1>1, <1>3, <1>4, <1>5, <1>6, <1>7, <1>8, <1>9 DEF Next, BeginAny, ProcNext

\* The steps that neither sweep, plan nor create.
LEMMA SpaceOffPlan ==
    ASSUME TInv, TInv', SpaceInv, [Next]_vars, OffPlan, UNCHANGED steps,
           ~ \E p \in Proc : ListSteps(p) \/ CreateStep(p) \/ CancelPending(p),
           hist.torn => hist'.torn
    PROVE  SpaceInv'
<1>1. RowsStay
  BY DEF RowsStay, Fresh
<1>2. PlansStay /\ OpeningStays /\ NobodyLists
  <2>1. ASSUME NEW p \in Proc
        PROVE  proc'[p].todo = proc[p].todo
    BY DEF OffPlan
  <2>. QED
    BY <2>1, LoopsEntered DEF PlansStay, OpeningStays, NobodyLists, Opens
<1>3. LoopsStay
  <2>1. \A r \in Runner : (Cycles(r) => run[r].rung # NULL) /\ (Cycles(r)' => run'[r].rung # NULL)
    BY DEF Cycles, TInv, RunHolds
  <2>. QED
    BY <2>1 DEF OffPlan, LoopsStay
<1>. QED
  BY <1>1, <1>2, <1>3, SpaceKept

\* A rung is claimed, or a run goes on to page.
LEMMA SpaceRuns ==
    ASSUME TInv, TInv', SpaceInv, NEW r \in Runner,
           (\E g \in Rung : ClaimStep(r, g)) \/ CheckIncident(r) \/ FanOut(r)
    PROVE  SpaceInv'
<1>0. /\ run \in [Runner -> Run] /\ run[r] \in Run /\ IdleRun.pc = "idle"
      /\ run[r].pc # "cycle" /\ UNCHANGED <<proc, hist>>
  BY DEF TInv, ClaimStep, CheckIncident, FanOut, IdleRun
<1>1. PlansStay /\ OpeningStays /\ NobodyLists
  BY <1>0 DEF PlansStay, OpeningStays, NobodyLists, Opens
<1>2. ASSUME NEW w, run' = [run EXCEPT ![r] = w], w.pc # "cycle" \/ w.step = 1
      PROVE  LoopsStay
  BY <1>0, <1>2 DEF LoopsStay, Cycles
<1>3. CASE \E g \in Rung : ClaimStep(r, g)
  <2>1. PICK g \in Rung : ClaimStep(r, g)
    BY <1>3
  <2>2. /\ steps[g].live # NULL /\ steps' = [steps EXCEPT ![g].live = NULL, ![g].ran = TRUE]
        /\ run' = [run EXCEPT ![r] = [run[r] EXCEPT !.pc = "step", !.rung = g]]
    BY <2>1 DEF ClaimStep, Due
  <2>3. /\ steps'[g].live = NULL /\ steps'[g].canceled = steps[g].canceled /\ steps'[g].ran
        /\ \A h \in Rung \ {g} : steps'[h] = steps[h]
    BY <2>2, RowClaimed
  <2>4. RowsStay
    BY <2>2, <2>3 DEF RowsStay, Fresh
  <2>5. [run[r] EXCEPT !.pc = "step", !.rung = g].pc = "step"
    BY <1>0 DEF Run
  <2>6. LoopsStay
    BY <1>2, <2>2, <2>5
  <2>. QED
    BY <1>0, <1>1, <2>4, <2>6, SpaceKept
<1>4. CASE CheckIncident(r)
  <2>1. [run[r] EXCEPT !.pc = "page"].pc = "page"
    BY <1>0 DEF Run
  <2>2. LoopsStay
    BY <1>0, <1>2, <1>4, <2>1 DEF CheckIncident
  <2>3. RowsStay
    BY <1>4 DEF RowsStay, Fresh, CheckIncident
  <2>. QED
    BY <1>0, <1>1, <2>2, <2>3, SpaceKept
<1>5. CASE FanOut(r)
  <2>. DEFINE g == run[r].rung
              w == [run[r] EXCEPT !.pc = "cycle", !.at = now + RepeatAfter, !.step = 1]
  <2>1. w.step = 1
    BY <1>0 DEF Run
  <2>. HIDE DEF w
  <2>2. run' = [run EXCEPT ![r] = w] \/ run' = [run EXCEPT ![r] = IdleRun]
    BY <1>5 DEF FanOut, w
  <2>3. LoopsStay
    BY <1>0, <1>2, <2>1, <2>2
  <2>4. g \in Rung /\ steps' = [steps EXCEPT ![g].queued = TRUE]
    BY <1>0, <1>5 DEF FanOut, TInv, RunHolds, Run
  <2>. HIDE DEF g
  <2>5. /\ steps'[g].live = steps[g].live /\ steps'[g].canceled = steps[g].canceled
        /\ (steps'[g].ran <=> steps[g].ran)
        /\ \A h \in Rung \ {g} : steps'[h] = steps[h]
    BY <2>4, RowPaged
  <2>6. RowsStay
    BY <2>5 DEF RowsStay, Fresh
  <2>. QED
    BY <1>0, <1>1, <2>3, <2>6, SpaceKept
<1>. QED
  BY <1>3, <1>4, <1>5

LEMMA SpaceSent ==
    ASSUME TInv, TInv', LifeInv, SpaceInv, NEW g \in Rung, SendNotification(g)
    PROVE  SpaceInv'
<1>1. steps[g].sent = 0 /\ UNCHANGED <<run, proc, hist>>
  BY DEF LifeInv, OneRun, SendNotification
<1>2. /\ steps'[g].live = steps[g].live /\ steps'[g].canceled = steps[g].canceled
      /\ (steps'[g].ran <=> steps[g].ran)
      /\ \A h \in Rung \ {g} : steps'[h] = steps[h]
  BY <1>1, RowSent
<1>3. RowsStay
  BY <1>2 DEF RowsStay, Fresh
<1>4. PlansStay /\ OpeningStays /\ NobodyLists /\ LoopsStay
  BY <1>1 DEF PlansStay, OpeningStays, NobodyLists, LoopsStay, Opens, Cycles
<1>. QED
  BY <1>1, <1>3, <1>4, SpaceKept

\* A sweep cancels rows where they were due; when it is the one of an
\* unacknowledgment and no rung is being created, all of a cycle that has not run.
LEMMA SpaceSwept ==
    ASSUME OneUser, TInv, TInv', SpaceInv, NEW p \in Proc, CancelPending(p)
    PROVE  SpaceInv'
<1>0. /\ proc \in [Proc -> Process] /\ proc[p] \in Process /\ proc[p].pc = "sweep"
      /\ proc[p].todo = Nothing /\ p \in User /\ run' = run
      /\ proc[p].until \in MaybeTime /\ steps' = Canceled(proc[p].until)
  <2>1. proc[p].pc = "sweep" /\ run' = run /\ steps' = Canceled(proc[p].until)
    BY DEF CancelPending
  <2>2. ProcHolds(p, proc[p]) /\ proc \in [Proc -> Process] /\ proc[p] \in Process
    BY DEF TInv
  <2>. QED
    BY <2>1, <2>2 DEF ProcHolds, Process
<1>1. /\ proc'[p].pc \in {"list", "cancel", "idle"} /\ proc'[p].todo = Nothing
      /\ proc'[p].pc = "list" => proc[p].op = "unacknowledge"
      /\ \A q \in Proc \ {p} : proc'[q] = proc[q]
  <2>. DEFINE pc == CASE proc[p].op = "unacknowledge" -> "list"
                      [] proc[p].op = "snooze"        -> "cancel"
                      [] OTHER                        -> "idle"
  <2>1. /\ pc \in {"list", "cancel", "idle"} /\ pc \in Pcs
        /\ pc = "list" => proc[p].op = "unacknowledge"
    BY DEF Pcs
  <2>2. Goto(p, pc)
    BY DEF CancelPending
  <2>3. IdleProc.pc = "idle" /\ IdleProc.todo = Nothing
    BY DEF IdleProc
  <2>. HIDE DEF pc
  <2>4. [proc[p] EXCEPT !.pc = pc].pc = pc /\ [proc[p] EXCEPT !.pc = pc].todo = Nothing
    BY <1>0, <2>1, PcChanges
  <2>. QED
    BY <1>0, <2>1, <2>2, <2>3, <2>4 DEF Goto
<1>2. \A u \in User : u = p
  BY <1>0 DEF OneUser
<1>3. \A g \in Rung : ~Planned(g) /\ ~Planned(g)'
  BY <1>0, <1>1, <1>2, NothingType DEF Planned
<1>4. ASSUME NEW g \in Rung
      PROVE  /\ steps'[g].ran <=> steps[g].ran
             /\ \/ steps[g].live # NULL /\ steps'[g].live = NULL /\ steps'[g].canceled = steps[g].live
                \/ ~Withdrawn(steps[g].live, proc[p].until)
                   /\ steps'[g].live = steps[g].live /\ steps'[g].canceled = steps[g].canceled
  <2>1. /\ steps'[g].ran <=> steps[g].ran
        /\ \/ Withdrawn(steps[g].live, proc[p].until) /\ steps'[g].live = NULL
              /\ steps'[g].canceled = Later(steps[g].canceled, steps[g].live)
           \/ ~Withdrawn(steps[g].live, proc[p].until) /\ steps'[g].live = steps[g].live
              /\ steps'[g].canceled = steps[g].canceled
    BY <1>0, RowsCanceled
  <2>2. ASSUME steps[g].live # NULL
        PROVE  Later(steps[g].canceled, steps[g].live) = steps[g].live
    <3>1. steps[g].live \in Nat /\ (steps[g].canceled # NULL => steps[g].canceled \in Nat)
      BY <2>2 DEF TInv, StepRows, MaybeTime
    <3>2. steps[g].canceled # NULL => steps[g].canceled <= steps[g].live
      BY <2>2 DEF SpaceInv, NoSooner
    <3>. QED
      BY <3>1, <3>2 DEF Later
  <2>. QED
    BY <2>1, <2>2 DEF Withdrawn
<1>5. FreshStay
  BY <1>4 DEF FreshStay, Fresh
<1>6. OpeningStays
  BY <1>0, <1>1 DEF OpeningStays, Opens
<1>7. LoopsStay
  BY <1>0 DEF LoopsStay, Cycles
<1>8. NoSooner'
  <2>1. \A u \in User, g \in Rung : proc'[u].todo[g] = NULL
    BY <1>1, <1>2, NothingType
  <2>. QED
    BY <1>4, <2>1 DEF SpaceInv, NoSooner
<1>9. CycleWhole'
  BY <1>5, <1>6, <1>7, WholeKept DEF SpaceInv
<1>10. ASSUME ~hist'.torn
       PROVE  (Spaced /\ ListedWhole /\ OpeningSpaced /\ CyclesSpaced)'
  <2>1. /\ ~hist.torn
        /\ \A r \in Runner : run[r].pc # "cycle"
        /\ \A q \in Proc : proc[q].pc # "create"
    BY <1>10 DEF CancelPending, TInv, History
  <2>2. Spaced'
    <3>1. ASSUME NEW g \in Rung, NEW t \in Nat, DueAt(g, t)'
          PROVE  DueAt(g, t)
      <4>1. CASE steps[g].live # NULL /\ steps'[g].live = NULL /\ steps'[g].canceled = steps[g].live
        <5>1. t = steps[g].live
          BY <1>3, <3>1, <4>1, ConstantTypes DEF DueAt, Planned
        <5>. QED
          BY <1>4, <3>1, <4>1, <5>1 DEF DueAt
      <4>2. CASE steps'[g].live = steps[g].live /\ steps'[g].canceled = steps[g].canceled
        <5>1. \A u \in User : proc'[u].todo = proc[u].todo
          BY <1>0, <1>1, <1>2
        <5>. QED
          BY <1>4, <3>1, <4>2, <5>1 DEF DueAt, Planned
      <4>. QED
        BY <1>4, <4>1, <4>2
    <3>2. Spaced
      BY <2>1 DEF SpaceInv
    <3>. QED
      BY <3>1, <3>2, SpacedKept
  <2>3. ListedWhole'
    <3>1. ASSUME NEW q \in Proc, proc'[q].pc = "list", NEW g \in Rung, NEW h \in Rung,
                 g[2] = h[2], Dead(g)', ~steps'[h].ran
          PROVE  Dead(h)'
      <4>1. q \in User
        BY <3>1 DEF TInv, ProcHolds, ByUser
      <4>2. proc[p].op = "unacknowledge" /\ proc[p].until = NULL
        BY <1>0, <1>1, <1>2, <3>1, <4>1 DEF TInv, ProcHolds
      <4>3. steps'[h].live = NULL
        BY <1>4, <4>2 DEF Withdrawn
      <4>4. ~Fresh(g)
        BY <1>5, <3>1 DEF FreshStay, Fresh, Dead
      <4>5. ~Coming(h)
        BY <2>1 DEF Coming, Opens, Cycles
      <4>6. ~Fresh(h)
        BY <3>1, <4>4, <4>5 DEF SpaceInv, CycleWhole
      <4>7. ~Fresh(h)'
        BY <1>5, <4>6 DEF FreshStay
      <4>. QED
        BY <3>1, <4>3, <4>7 DEF Fresh, Dead
    <3>. QED
      BY <3>1 DEF ListedWhole
  <2>4. OpeningSpaced'
    BY <1>6, <2>1 DEF OpeningSpaced, OpeningStays, Opens
  <2>5. CyclesSpaced'
    BY <1>0, <2>1 DEF CyclesSpaced, Cycles
  <2>. QED
    BY <2>2, <2>3, <2>4, <2>5
<1>. QED
  BY <1>8, <1>9, <1>10 DEF SpaceInv

\* An unacknowledgment puts off the dead rungs of a cycle together: no rung of
\* that cycle is pending then.
LEMMA SpaceListed ==
    ASSUME OneUser, TInv, TInv', SpaceInv, NEW p \in Proc, ListSteps(p)
    PROVE  SpaceInv'
<1>0. /\ proc \in [Proc -> Process] /\ proc[p] \in Process /\ proc[p].pc = "list"
      /\ proc[p].todo = Nothing /\ proc[p].op = "unacknowledge" /\ p \in User
      /\ UNCHANGED <<steps, run, hist>>
  <2>1. proc[p].pc = "list" /\ UNCHANGED <<steps, run, hist>>
    BY DEF ListSteps
  <2>2. ProcHolds(p, proc[p]) /\ proc \in [Proc -> Process] /\ proc[p] \in Process
    BY DEF TInv
  <2>. QED
    BY <2>1, <2>2 DEF ProcHolds, ByUser
<1>. DEFINE v == [proc[p] EXCEPT !.pc = "remind"]
            w == [proc[p] EXCEPT !.pc = "create", !.todo = Resumed]
<1>1. /\ v.pc = "remind" /\ v.todo = Nothing
      /\ w.pc = "create" /\ w.op = "unacknowledge" /\ w.todo = Resumed
  BY <1>0 DEF Process
<1>2. \A q \in Proc \ {p} : proc'[q] = proc[q]
  BY <1>0 DEF ListSteps
<1>3. (Resumable = {} /\ proc'[p] = v) \/ (Resumable # {} /\ proc'[p] = w)
  BY <1>0 DEF ListSteps
<1>. HIDE DEF v, w
<1>4. FreshStay /\ RowsStay /\ LoopsStay
  BY <1>0 DEF FreshStay, RowsStay, LoopsStay, Fresh, Cycles
<1>5. OpeningStays /\ NobodyLists
  BY <1>0, <1>1, <1>2, <1>3 DEF OpeningStays, NobodyLists, Opens
<1>6. CASE Resumable = {}
  <2>1. PlansStay
    BY <1>0, <1>1, <1>2, <1>3, <1>6 DEF PlansStay
  <2>. QED
    BY <1>0, <1>4, <1>5, <2>1, SpaceKept
<1>7. CASE Resumable # {}
  <2>0. \A u \in User : u = p
    BY <1>0 DEF OneUser
  <2>1. proc'[p].todo = Resumed /\ proc'[p].pc = "create"
    BY <1>1, <1>3, <1>7
  <2>2. Shift \in Nat
    BY <1>7, ResumedShifted
  <2>3. ASSUME NEW g \in Rung
        PROVE  /\ g \in Resumable <=> Dead(g)
               /\ ~Planned(g)
               /\ Dead(g) => proc'[p].todo[g] = steps[g].canceled + Shift
                             /\ steps[g].canceled \in Nat /\ steps[g].canceled + Shift \in Nat
               /\ ~Dead(g) => proc'[p].todo[g] = NULL
    <3>1. g \in Resumable <=> Dead(g)
      BY DEF Resumable, Dead
    <3>2. ~Planned(g)
      BY <1>0, <2>0, NothingType DEF Planned
    <3>3. ~Dead(g) => proc'[p].todo[g] = NULL
      BY <2>1, <3>1 DEF Resumed
    <3>4. Dead(g) => proc'[p].todo[g] = steps[g].canceled + Shift /\ steps[g].canceled \in Nat
      BY <1>7, <2>1, <3>1, ResumedShifted
    <3>. QED
      BY <2>2, <3>1, <3>2, <3>3, <3>4
  <2>4. NoSooner'
    <3>1. ASSUME NEW u \in User, NEW g \in Rung, proc'[u].todo[g] # NULL
          PROVE  proc'[u].todo[g] >= steps'[g].canceled
      BY <1>0, <2>0, <2>2, <2>3, <3>1
    <3>. QED
      BY <1>0, <3>1 DEF SpaceInv, NoSooner
  <2>5. CycleWhole'
    BY <1>4, <1>5, WholeKept DEF SpaceInv
  <2>6. ASSUME ~hist'.torn
        PROVE  (Spaced /\ ListedWhole /\ OpeningSpaced /\ CyclesSpaced)'
    <3>0. Spaced /\ ListedWhole /\ OpeningSpaced /\ CyclesSpaced
      BY <1>0, <2>6 DEF SpaceInv
    <3>1. ASSUME NEW g \in Rung, NEW t \in Nat, DueAt(g, t)'
          PROVE  /\ ~steps[g].ran
                 /\ Dead(g) => t = steps[g].canceled + Shift /\ DueAt(g, steps[g].canceled)
                 /\ ~Dead(g) => DueAt(g, t)
      <4>1. ~steps[g].ran
        BY <1>0, <3>1 DEF DueAt
      <4>2. CASE Dead(g)
        <5>1. steps[g].live = NULL /\ proc'[p].todo[g] # NULL
          BY <2>3, <4>2, ConstantTypes DEF Dead
        <5>2. \E u \in User : proc'[u].todo[g] = t
          BY <1>0, <3>1, <5>1 DEF DueAt, Planned
        <5>3. t = steps[g].canceled + Shift
          BY <2>0, <2>3, <4>2, <5>2
        <5>. QED
          BY <2>3, <4>1, <4>2, <5>1, <5>3 DEF DueAt
      <4>3. CASE ~Dead(g)
        <5>1. \A u \in User : proc'[u].todo[g] = NULL
          BY <2>0, <2>3, <4>3
        <5>2. steps[g].canceled = NULL \/ steps[g].live # NULL
          BY <4>1, <4>3 DEF Dead
        <5>. QED
          BY <1>0, <3>1, <4>1, <4>3, <5>1, <5>2, ConstantTypes DEF DueAt
      <4>. QED
        BY <4>1, <4>2, <4>3
    <3>2. ASSUME NEW g \in Rung, NEW h \in Rung, NEW s \in Nat, NEW t \in Nat,
                 Follows(h, g), DueAt(g, s)', DueAt(h, t)'
          PROVE  t = s + Delay[h[1]]
      <4>1. Dead(g) <=> Dead(h)
        BY <1>0, <3>0, <3>1, <3>2 DEF ListedWhole, Follows
      <4>2. CASE Dead(g)
        <5>1. steps[h].canceled = steps[g].canceled + Delay[h[1]]
          BY <2>3, <3>0, <3>1, <3>2, <4>1, <4>2 DEF Spaced
        <5>2. Delay[h[1]] \in Nat
          BY PriorIsRung, ConstantTypes
        <5>. QED
          BY <2>2, <2>3, <3>1, <3>2, <4>1, <4>2, <5>1, <5>2
      <4>3. CASE ~Dead(g)
        BY <3>0, <3>1, <3>2, <4>1, <4>3 DEF Spaced
      <4>. QED
        BY <4>2, <4>3
    <3>3. Spaced'
      BY <3>2 DEF Spaced, Follows
    <3>4. ListedWhole'
      <4>1. \A q \in Proc : proc'[q].pc = "list" => q \in User
        BY DEF TInv, ProcHolds, ByUser
      <4>. QED
        BY <2>0, <2>1, <4>1 DEF ListedWhole
    <3>5. OpeningSpaced'
      BY <1>0, <1>5, <3>0 DEF OpeningSpaced, OpeningStays, Opens
    <3>6. CyclesSpaced'
      BY <1>0, <3>0 DEF CyclesSpaced, Cycles, NextOf
    <3>. QED
      BY <3>3, <3>4, <3>5, <3>6
  <2>. QED
    BY <2>4, <2>5, <2>6 DEF SpaceInv
<1>. QED
  BY <1>6, <1>7

\* What the creation of a rung does to its row and to the plan.
Creates(p, g) ==
    /\ proc[p].todo[g] # NULL /\ proc[p].todo[g] \in Nat
    /\ steps'[g].live = proc[p].todo[g] /\ steps'[g].canceled = steps[g].canceled
    /\ steps'[g].ran <=> steps[g].ran
    /\ \A h \in Rung \ {g} : steps'[h] = steps[h]
    /\ proc'[p].op = proc[p].op /\ proc'[p].todo[g] = NULL
    /\ \A h \in Rung \ {g} : proc'[p].todo[h] = proc[p].todo[h]
    /\ proc'[p].pc \in {"create", "remind"}
    /\ \A h \in Rung \ {g} : proc[p].todo[h] # NULL => proc'[p].pc = "create"
    /\ \A q \in Proc \ {p} : proc'[q] = proc[q]
    /\ UNCHANGED <<run, hist>>

LEMMA StepCreates ==
    ASSUME TInv, NEW p \in Proc, CreateStep(p)
    PROVE  \E g \in Rung : Creates(p, g)
<1>0. /\ proc \in [Proc -> Process] /\ proc[p] \in Process
      /\ proc[p].todo \in [Rung -> MaybeTime] /\ UNCHANGED <<run, hist>>
  BY DEF TInv, CreateStep, Process
<1>. DEFINE planned == {h \in Rung : proc[p].todo[h] # NULL}
            pc(g) == IF planned = {g} THEN "remind" ELSE "create"
            w(g) == [proc[p] EXCEPT !.todo[g] = NULL, !.pc = pc(g)]
<1>1. PICK g \in Rung : /\ proc[p].todo[g] # NULL
                        /\ steps' = [steps EXCEPT ![g].live = proc[p].todo[g]]
                        /\ proc' = [proc EXCEPT ![p] = w(g)]
  BY DEF CreateStep
<1>2. w(g).op = proc[p].op /\ w(g).todo = [proc[p].todo EXCEPT ![g] = NULL] /\ w(g).pc = pc(g)
  BY <1>0 DEF Process
<1>3. pc(g) \in {"create", "remind"}
      /\ \A h \in Rung \ {g} : proc[p].todo[h] # NULL => pc(g) = "create"
  OBVIOUS
<1>. HIDE DEF w, pc
<1>4. /\ proc'[p] = w(g) /\ \A q \in Proc \ {p} : proc'[q] = proc[q]
  BY <1>0, <1>1
<1>5. w(g).todo[g] = NULL /\ \A h \in Rung \ {g} : w(g).todo[h] = proc[p].todo[h]
  BY <1>0, <1>2
<1>6. /\ steps'[g].live = proc[p].todo[g] /\ steps'[g].canceled = steps[g].canceled
      /\ (steps'[g].ran <=> steps[g].ran)
      /\ \A h \in Rung \ {g} : steps'[h] = steps[h]
  BY <1>1, RowCreated
<1>7. proc[p].todo[g] \in Nat
  BY <1>0, <1>1 DEF MaybeTime
<1>. QED
  BY <1>0, <1>1, <1>2, <1>3, <1>4, <1>5, <1>6, <1>7 DEF Creates

\* A user brings a dead rung back when it was planned.
LEMMA SpaceResumed ==
    ASSUME OneUser, TInv, TInv', LifeInv, SpaceInv, NEW p \in User, NEW g \in Rung,
           Creates(p, g), proc[p].pc = "create", p \in Proc
    PROVE  SpaceInv'
<1>0. /\ \A u \in User : u = p
      /\ proc[p].op = "unacknowledge"
  BY EscalationAssumption DEF OneUser, TInv, ProcHolds
<1>1. Dead(g) /\ proc[p].todo[g] >= steps[g].canceled /\ steps'[g].live \in Nat
  BY <1>0 DEF LifeInv, Plans, SpaceInv, NoSooner, Creates
<1>2. \A h \in Rung : /\ steps'[h].ran <=> steps[h].ran
                      /\ steps'[h].canceled = steps[h].canceled
                      /\ h # g => steps'[h].live = steps[h].live
  BY DEF Creates
<1>3. FreshStay
  BY <1>1, <1>2, ConstantTypes DEF FreshStay, Fresh, Dead
<1>4. OpeningStays
  BY <1>0 DEF OpeningStays, Opens, Creates
<1>5. LoopsStay
  BY DEF LoopsStay, Cycles, Creates
<1>6. NoSooner'
  <2>1. \A u \in User, h \in Rung : proc'[u].todo[h] # NULL => proc'[u].todo[h] = proc[u].todo[h]
    BY <1>0 DEF Creates
  <2>. QED
    BY <1>1, <1>2, <2>1 DEF SpaceInv, NoSooner, Creates
<1>7. CycleWhole'
  BY <1>3, <1>4, <1>5, WholeKept DEF SpaceInv
<1>8. ASSUME ~hist'.torn
      PROVE  (Spaced /\ ListedWhole /\ OpeningSpaced /\ CyclesSpaced)'
  <2>0. Spaced /\ ListedWhole /\ OpeningSpaced /\ CyclesSpaced
    BY <1>8 DEF SpaceInv, Creates
  <2>1. ASSUME NEW h \in Rung, NEW t \in Nat, DueAt(h, t)'
        PROVE  DueAt(h, t)
    <3>1. CASE h = g
      <4>1. t = proc[p].todo[g]
        BY <1>1, <2>1, <3>1, ConstantTypes DEF DueAt, Creates
      <4>. QED
        BY <1>1, <3>1, <4>1 DEF DueAt, Dead
    <3>2. CASE h # g
      <4>1. \A u \in User : proc'[u].todo[h] = proc[u].todo[h]
        BY <1>0, <3>2 DEF Creates
      <4>. QED
        BY <1>2, <2>1, <3>2, <4>1 DEF DueAt, Planned
    <3>. QED
      BY <3>1, <3>2
  <2>2. Spaced'
    BY <2>0, <2>1, SpacedKept
  <2>3. ListedWhole'
    <3>1. \A q \in Proc : proc'[q].pc = "list" => q \in User
      BY DEF TInv, ProcHolds, ByUser
    <3>. QED
      BY <1>0, <3>1 DEF ListedWhole, Creates
  <2>4. OpeningSpaced'
    <3>1. ASSUME NEW q \in Proc, NEW h \in Rung, Opens(q)', h[2] = 0
          PROVE  /\ Opens(q) /\ h # g /\ proc'[q].todo = proc[q].todo
      <4>1. Opens(q) /\ proc'[q].todo = proc[q].todo
        BY <3>1, <1>4 DEF OpeningStays, Opens
      <4>2. CASE h = g
        <5>1. proc[q].todo[g] = NULL
          BY <1>1, <4>1 DEF LifeInv, Plans, Opens, Fresh, Dead
        <5>2. steps[g].live = Offset[g[1]]
          BY <1>1, <2>0, <3>1, <4>1, <4>2, <5>1 DEF OpeningSpaced, Dead
        <5>3. Offset[g[1]] # NULL
          BY OffsetType, PriorIsRung, ConstantTypes
        <5>. QED
          BY <1>1, <5>2, <5>3 DEF Dead
      <4>. QED
        BY <4>1, <4>2
    <3>. QED
      BY <1>2, <2>0, <3>1 DEF OpeningSpaced, Opens
  <2>5. CyclesSpaced'
    <3>1. ASSUME NEW r \in Runner, NEW k \in 1 .. Len(Delay), Cycles(r), k < run[r].step,
                 ~steps[NextOf(r, k)].ran
          PROVE  NextOf(r, k) # g /\ NextOf(r, k) \in Rung
      <4>1. steps[NextOf(r, k)].live = run[r].at + Offset[k]
        BY <2>0, <3>1 DEF CyclesSpaced
      <4>2. run[r].at \in Nat /\ Offset[k] \in Nat
        BY <3>1, OffsetType DEF Cycles, TInv, RunHolds, Run, MaybeTime
      <4>3. run[r].at + Offset[k] # NULL
        BY <4>2, ConstantTypes
      <4>. QED
        BY <1>1, <3>1, <4>1, <4>3, NextIsRung DEF Dead
    <3>2. run' = run
      BY DEF Creates
    <3>3. ASSUME NEW r \in Runner, NEW k \in 1 .. Len(Delay), Cycles(r), k < run[r].step,
                 ~steps'[NextOf(r, k)].ran
          PROVE  steps'[NextOf(r, k)].live = run[r].at + Offset[k]
      <4>1. NextOf(r, k) \in Rung
        BY <3>3, NextIsRung
      <4>2. ~steps[NextOf(r, k)].ran
        BY <1>2, <3>3, <4>1
      <4>3. steps'[NextOf(r, k)].live = steps[NextOf(r, k)].live
        BY <1>2, <3>1, <3>3, <4>2
      <4>. QED
        BY <2>0, <3>3, <4>2, <4>3 DEF CyclesSpaced
    <3>. QED
      BY <3>2, <3>3 DEF CyclesSpaced, Cycles, NextOf
  <2>. QED
    BY <2>2, <2>3, <2>4, <2>5
<1>. QED
  BY <1>6, <1>7, <1>8 DEF SpaceInv

\* A rung that has no row is not due.
LEMMA FreshNotDue ==
    ASSUME TInv, LifeInv, NEW h \in Rung, NEW t \in Nat, DueAt(h, t)
    PROVE  ~Fresh(h)
<1>1. SUFFICES ASSUME Fresh(h)
               PROVE  FALSE
  OBVIOUS
<1>2. PICK u \in User : proc[u].todo[h] = t
  BY <1>1, ConstantTypes DEF DueAt, Fresh
<1>3. u \in Proc /\ proc[u].op # "open" /\ t # NULL
  BY ConstantTypes, EscalationAssumption DEF Proc, TInv, ProcHolds
<1>. QED
  BY <1>1, <1>2, <1>3 DEF LifeInv, Plans, Fresh, Dead

\* The first cycle is opened, one rung after the other.
LEMMA SpaceOpened ==
    ASSUME TInv, TInv', LifeInv, SpaceInv, NEW p \in Proc, NEW g \in Rung,
           Creates(p, g), Opens(p)
    PROVE  SpaceInv'
<1>0. /\ p \notin User /\ \A q \in Proc : Opens(q) \/ Opens(q)' => q = p
  <2>1. p = Pipeline
    BY DEF Opens, TInv, ProcHolds
  <2>2. \A q \in Proc : Opens(q) \/ Opens(q)' => q = Pipeline
    BY DEF Opens, TInv, ProcHolds
  <2>. QED
    BY <2>1, <2>2, EscalationAssumption
<1>1. /\ Fresh(g) /\ g[2] = 0 /\ ~Fresh(g)' /\ steps'[g].live # NULL
      /\ ~Dead(g) /\ ~Dead(g)'
  BY ConstantTypes DEF LifeInv, Plans, Opens, Creates, Fresh, Dead
<1>2. \A h \in Rung : h # g => steps'[h] = steps[h]
  BY DEF Creates
<1>3. \A h \in Rung \ {g} : (Fresh(h)' <=> Fresh(h)) /\ (Dead(h)' <=> Dead(h))
  BY <1>2 DEF Fresh, Dead
<1>4. ASSUME NEW h \in Rung, h # g, proc[p].todo[h] # NULL
      PROVE  Opens(p)' /\ proc'[p].todo[h] = proc[p].todo[h]
  BY <1>4 DEF Opens, Creates
<1>5. NoSooner'
  <2>1. \A u \in User : proc'[u] = proc[u]
    BY <1>0 DEF Creates, Proc
  <2>. QED
    BY <1>1, <1>2, <2>1 DEF SpaceInv, NoSooner, Creates, Fresh
<1>6. CycleWhole'
  <2>1. ASSUME NEW h \in Rung, h # g, Coming(h)
        PROVE  Coming(h)'
    <3>1. CASE \E q \in Proc : Opens(q) /\ proc[q].todo[h] # NULL
      BY <1>0, <1>4, <2>1, <3>1 DEF Coming
    <3>2. CASE \E r \in Runner : Cycles(r) /\ h = NextOf(r, h[1]) /\ run[r].step <= h[1]
      BY <3>2 DEF Coming, Cycles, NextOf, Creates
    <3>. QED
      BY <2>1, <3>1, <3>2 DEF Coming
  <2>2. ASSUME NEW f \in Rung, NEW h \in Rung, f[2] = h[2], ~Fresh(f)', Fresh(h)'
        PROVE  Coming(h)'
    <3>1. h # g /\ Fresh(h)
      BY <1>1, <1>3, <2>2
    <3>2. CASE f = g
      <4>1. proc[p].todo[h] # NULL
        BY <1>1, <2>2, <3>1, <3>2 DEF SpaceInv, CycleWhole
      <4>. QED
        BY <2>1, <3>1, <4>1 DEF Coming
    <3>3. CASE f # g
      BY <1>3, <2>1, <2>2, <3>1, <3>3 DEF SpaceInv, CycleWhole
    <3>. QED
      BY <3>2, <3>3
  <2>3. ASSUME NEW q \in Proc, NEW h \in Rung, Opens(q)', h[2] = 0, Fresh(h)'
        PROVE  proc'[q].todo[h] # NULL
    <3>1. h # g /\ Fresh(h) /\ q = p
      BY <1>0, <1>1, <1>3, <2>3
    <3>. QED
      BY <1>4, <2>3, <3>1 DEF SpaceInv, CycleWhole
  <2>4. ASSUME NEW r \in Runner, NEW k \in 1 .. Len(Delay), Cycles(r), k < run[r].step
        PROVE  ~Fresh(NextOf(r, k))'
    <3>1. PICK h \in Rung : h = NextOf(r, k)
      BY <2>4, NextIsRung
    <3>2. ~Fresh(h)
      BY <2>4, <3>1 DEF SpaceInv, CycleWhole
    <3>3. ~Fresh(h)' /\ run' = run
      BY <1>1, <1>3, <3>2 DEF Creates
    <3>. QED
      BY <3>1, <3>3 DEF Fresh, NextOf
  <2>5. ASSUME NEW r \in Runner, NEW k \in 1 .. Len(Delay), Cycles(r)', k < run'[r].step
        PROVE  ~Fresh(NextOf(r, k))'
    <3>1. Cycles(r) /\ k < run[r].step
      BY <2>5 DEF Cycles, Creates
    <3>. QED
      BY <2>4, <3>1
  <2>. QED
    BY <2>2, <2>3, <2>5 DEF CycleWhole
<1>7. ASSUME ~hist'.torn
      PROVE  (Spaced /\ ListedWhole /\ OpeningSpaced /\ CyclesSpaced)'
  <2>0. Spaced /\ ListedWhole /\ OpeningSpaced /\ CyclesSpaced
    BY <1>7 DEF SpaceInv, Creates
  <2>1. proc[p].todo[g] = Offset[g[1]] /\ steps'[g].live = Offset[g[1]]
    BY <1>1, <2>0 DEF OpeningSpaced, Creates
  <2>2. ASSUME NEW h \in Rung, h # g, NEW t \in Nat, DueAt(h, t)'
        PROVE  DueAt(h, t)
    <3>1. \A u \in User : proc'[u] = proc[u]
      BY <1>0 DEF Creates, Proc
    <3>. QED
      BY <1>2, <2>2, <3>1 DEF DueAt, Planned
  <2>3. ASSUME NEW h \in Rung, h[2] = 0, NEW t \in Nat, DueAt(h, t)'
        PROVE  t = Offset[h[1]]
    <3>1. CASE h = g
      BY <1>1, <2>1, <2>3, <3>1 DEF DueAt
    <3>2. CASE h # g
      <4>1. DueAt(h, t) /\ ~steps[h].ran
        BY <2>2, <2>3, <3>2 DEF DueAt
      <4>2. ~Fresh(h)
        BY <4>1, FreshNotDue
      <4>3. proc[p].todo[h] = NULL
        BY <4>2 DEF LifeInv, Plans, Opens
      <4>4. steps[h].live = Offset[h[1]]
        BY <2>0, <2>3, <4>1, <4>3 DEF OpeningSpaced
      <4>5. Offset[h[1]] # NULL
        BY OffsetType, PriorIsRung, ConstantTypes
      <4>. QED
        BY <4>1, <4>4, <4>5 DEF DueAt
    <3>. QED
      BY <3>1, <3>2
  <2>4. ASSUME NEW f \in Rung, NEW h \in Rung, NEW s \in Nat, NEW t \in Nat,
               Follows(h, f), DueAt(f, s)', DueAt(h, t)'
        PROVE  t = s + Delay[h[1]]
    <3>1. CASE f[2] = 0
      <4>1. s = Offset[f[1]] /\ t = Offset[h[1]]
        BY <2>3, <2>4, <3>1 DEF Follows
      <4>2. h[1] \in 1 .. Len(Delay) /\ f[1] = h[1] - 1
        BY <2>4, PriorIsRung DEF Follows
      <4>. QED
        BY <4>1, <4>2, OffsetNext
    <3>2. CASE f[2] # 0
      <4>1. f # g /\ h # g
        BY <1>1, <2>4, <3>2 DEF Follows
      <4>2. DueAt(f, s) /\ DueAt(h, t)
        BY <2>2, <2>4, <4>1
      <4>. QED
        BY <2>0, <2>4, <4>2 DEF Spaced
    <3>. QED
      BY <3>1, <3>2
  <2>5. Spaced'
    BY <2>4 DEF Spaced, Follows
  <2>6. ListedWhole'
    <3>1. ASSUME NEW q \in Proc, proc'[q].pc = "list", NEW f \in Rung, NEW h \in Rung,
                 f[2] = h[2], Dead(f)', ~steps'[h].ran
          PROVE  Dead(h)'
      <4>1. proc[q].pc = "list"
        BY <3>1 DEF Creates
      <4>2. f # g /\ Dead(f) /\ ~steps[h].ran
        BY <1>1, <1>3, <3>1 DEF Creates
      <4>3. Dead(h)
        BY <2>0, <3>1, <4>1, <4>2 DEF ListedWhole
      <4>. QED
        BY <1>1, <1>3, <4>3
    <3>. QED
      BY <3>1 DEF ListedWhole
  <2>7. OpeningSpaced'
    <3>1. ASSUME NEW q \in Proc, NEW h \in Rung, Opens(q)', h[2] = 0
          PROVE  /\ proc'[q].todo[h] # NULL => proc'[q].todo[h] = Offset[h[1]]
                 /\ proc'[q].todo[h] = NULL /\ ~steps'[h].ran => steps'[h].live = Offset[h[1]]
      <4>1. q = p
        BY <1>0, <3>1
      <4>2. CASE h = g
        BY <2>1, <4>1, <4>2 DEF Creates
      <4>3. CASE h # g
        <5>1. proc'[p].todo[h] = proc[p].todo[h] /\ steps'[h] = steps[h]
          BY <4>3 DEF Creates
        <5>. QED
          BY <2>0, <3>1, <4>1, <5>1 DEF OpeningSpaced
      <4>. QED
        BY <4>2, <4>3
    <3>. QED
      BY <3>1 DEF OpeningSpaced
  <2>8. CyclesSpaced'
    <3>1. run' = run
      BY DEF Creates
    <3>2. ASSUME NEW r \in Runner, NEW k \in 1 .. Len(Delay), Cycles(r), k < run[r].step
          PROVE  steps'[NextOf(r, k)] = steps[NextOf(r, k)]
      <4>1. NextOf(r, k) \in Rung /\ NextOf(r, k)[2] = run[r].rung[2] + 1
            /\ run[r].rung[2] \in Nat
        BY <3>2, NextIsRung DEF NextOf
      <4>2. NextOf(r, k) # g
        BY <1>1, <4>1
      <4>. QED
        BY <1>2, <4>1, <4>2
    <3>. QED
      BY <2>0, <3>1, <3>2 DEF CyclesSpaced, Cycles, NextOf
  <2>. QED
    BY <2>5, <2>6, <2>7, <2>8
<1>. QED
  BY <1>5, <1>6, <1>7 DEF SpaceInv

LEMMA SpaceCreated ==
    ASSUME OneUser, TInv, TInv', LifeInv, SpaceInv, NEW p \in Proc, CreateStep(p)
    PROVE  SpaceInv'
<1>1. PICK g \in Rung : Creates(p, g)
  BY StepCreates
<1>2. proc[p].pc = "create" /\ (Opens(p) \/ p \in User)
  <2>1. proc[p].pc = "create" /\ ProcHolds(p, proc[p])
    BY DEF CreateStep, TInv
  <2>. QED
    BY <2>1 DEF ProcHolds, Opens, ByUser
<1>. QED
  BY <1>1, <1>2, SpaceOpened, SpaceResumed

\* What the loop over the steps of a cycle does next.
Schedules(r, g) ==
    /\ run[r].pc = "cycle" /\ g = NextOf(r, run[r].step) /\ UNCHANGED <<proc, hist>>
    /\ run[r].at \in Nat /\ run[r].step \in 1 .. Len(Delay)
    /\ steps'[g].live = run[r].at + Offset[run[r].step]
    /\ steps'[g].canceled = steps[g].canceled /\ (steps'[g].ran <=> steps[g].ran)
    /\ \A h \in Rung \ {g} : steps'[h] = steps[h]
    /\ \A q \in Runner \ {r} : run'[q] = run[q]
    /\ run[r].step < Len(Delay) => run'[r].pc = "cycle" /\ run'[r].step = run[r].step + 1
    /\ run'[r].pc = "cycle" => /\ run'[r].step = run[r].step + 1 /\ run'[r].at = run[r].at
                               /\ run'[r].rung = run[r].rung

LEMMA StepSchedules ==
    ASSUME TInv, NEW r \in Runner, ScheduleStep(r), NextOf(r, run[r].step) \in Rung
    PROVE  Schedules(r, NextOf(r, run[r].step))
<1>. DEFINE g == NextOf(r, run[r].step)
            w == [run[r] EXCEPT !.step = @ + 1]
<1>1. /\ run \in [Runner -> Run] /\ run[r] \in Run /\ RunHolds(run[r]) /\ run[r].pc = "cycle"
      /\ steps' = [steps EXCEPT ![g].live = run[r].at + Offset[run[r].step]]
      /\ UNCHANGED <<proc, hist>>
  BY DEF TInv, ScheduleStep, NextOf
<1>2. run[r].at \in Nat /\ run[r].step \in 1 .. Len(Delay)
  BY <1>1 DEF RunHolds, Run, MaybeTime
<1>3. /\ w.pc = "cycle" /\ w.step = run[r].step + 1 /\ w.at = run[r].at
      /\ w.rung = run[r].rung
  BY <1>1 DEF Run
<1>4. run' = [run EXCEPT ![r] = IF run[r].step = Len(Delay) THEN IdleRun ELSE w]
  BY DEF ScheduleStep
<1>5. IdleRun.pc # "cycle"
  BY DEF IdleRun
<1>. HIDE DEF w, g
<1>6. \A q \in Runner \ {r} : run'[q] = run[q]
  BY <1>1, <1>4
<1>7. run'[r] = IF run[r].step = Len(Delay) THEN IdleRun ELSE w
  BY <1>1, <1>4
<1>8. /\ run[r].step < Len(Delay) => run'[r] = w
      /\ run'[r].pc = "cycle" => run'[r] = w
  BY <1>2, <1>5, <1>7, ConstantTypes
<1>9. /\ steps'[g].live = run[r].at + Offset[run[r].step]
      /\ steps'[g].canceled = steps[g].canceled
      /\ (steps'[g].ran <=> steps[g].ran)
      /\ \A h \in Rung \ {g} : steps'[h] = steps[h]
  <2>1. g \in Rung
    BY DEF g
  <2>. QED
    BY <1>1, <2>1, RowCreated
<1>. QED
  BY <1>1, <1>2, <1>3, <1>6, <1>8, <1>9 DEF Schedules, g

LEMMA SpaceScheduled ==
    ASSUME TInv, TInv', LifeInv, SpaceInv, NEW r \in Runner, ScheduleStep(r)
    PROVE  SpaceInv'
<1>a. NextOf(r, run[r].step) \in Rung /\ run[r].rung \in Rung
  BY ReachesFresh DEF NextOf
<1>b. PICK g \in Rung, c \in Rung : g = NextOf(r, run[r].step) /\ c = run[r].rung
  BY <1>a
<1>0. /\ Prior(g) = c /\ Fresh(g) /\ g[1] = run[r].step
      /\ g[2] > 0 /\ g[2] = c[2] + 1
      /\ \A q \in Runner : run[q].rung = c => q = r
  BY <1>b, ReachesFresh DEF NextOf
<1>1. Schedules(r, g)
  BY <1>a, <1>b, StepSchedules
<1>2. /\ ~Fresh(g)' /\ steps'[g].live # NULL /\ steps'[g].live \in Nat
      /\ ~Dead(g) /\ ~Dead(g)' /\ steps'[g].live = run[r].at + Offset[run[r].step]
      /\ Cycles(r)
  BY <1>0, <1>1, OffsetType, ConstantTypes DEF Schedules, Fresh, Dead, Cycles
<1>3. \A h \in Rung : h # g => steps'[h] = steps[h]
  BY <1>1 DEF Schedules
<1>4. \A h \in Rung \ {g} : (Fresh(h)' <=> Fresh(h)) /\ (Dead(h)' <=> Dead(h))
  BY <1>3 DEF Fresh, Dead
\* No other run schedules the same cycle, and this one has got to g.
<1>5. ASSUME NEW q \in Runner, Cycles(q), NEW k \in 1 .. Len(Delay), NextOf(q, k) = g
      PROVE  q = r /\ k = run[r].step
  <2>1. run[q].rung \in Rung /\ run[q].rung[1] = Len(Delay)
    BY <1>5, NextIsRung DEF Cycles, TInv, RunHolds, Repeats
  <2>2. run[q].rung[2] + 1 = g[2] /\ k = g[1] /\ run[q].rung[2] \in Nat
    BY <1>5, NextIsRung DEF NextOf
  <2>3. c \in Rung /\ c[1] = Len(Delay) /\ c[2] \in Nat
    BY <1>0, <1>2, NextIsRung, <1>b DEF Cycles, TInv, RunHolds, Repeats
  <2>4. run[q].rung = c
    <3>1. run[q].rung[2] = c[2]
      BY <1>0, <2>2, <2>3
    <3>2. PICK d \in Rung : d = run[q].rung
      BY <2>1
    <3>3. d = <<d[1], d[2]>> /\ c = <<c[1], c[2]>>
      BY <2>3, PriorIsRung
    <3>. QED
      BY <2>1, <2>3, <3>1, <3>2, <3>3
  <2>. QED
    BY <1>0, <2>2, <2>4
<1>6. ASSUME NEW h \in Rung, h # g, h = NextOf(r, h[1]), run[r].step <= h[1]
      PROVE  Coming(h)'
  <2>1. h[1] \in 1 .. Len(Delay) /\ run[r].step \in 1 .. Len(Delay) /\ Len(Delay) \in Nat
    BY <1>1, PriorIsRung, ConstantTypes DEF Schedules
  <2>2. run[r].step # h[1]
    BY <1>6, <1>b
  <2>3. run[r].step < Len(Delay) /\ run[r].step + 1 <= h[1]
    BY <1>6, <2>1, <2>2
  <2>4. run'[r].pc = "cycle" /\ run'[r].step <= h[1] /\ run'[r].rung = run[r].rung
    BY <1>1, <2>3 DEF Schedules
  <2>. QED
    BY <1>6, <2>4 DEF Coming, Cycles, NextOf
<1>7. NoSooner'
  BY <1>0, <1>1, <1>2, <1>3 DEF SpaceInv, NoSooner, Schedules, Fresh
<1>8. CycleWhole'
  <2>1. ASSUME NEW h \in Rung, h # g, Coming(h)
        PROVE  Coming(h)'
    <3>1. CASE \E q \in Proc : Opens(q) /\ proc[q].todo[h] # NULL
      BY <1>1, <3>1 DEF Coming, Opens, Schedules
    <3>2. CASE \E q \in Runner : Cycles(q) /\ h = NextOf(q, h[1]) /\ run[q].step <= h[1]
      <4>1. PICK q \in Runner : Cycles(q) /\ h = NextOf(q, h[1]) /\ run[q].step <= h[1]
        BY <3>2
      <4>2. CASE q = r
        BY <1>6, <2>1, <4>1, <4>2
      <4>3. CASE q # r
        BY <1>1, <4>1, <4>3 DEF Coming, Cycles, NextOf, Schedules
      <4>. QED
        BY <4>2, <4>3
    <3>. QED
      BY <2>1, <3>1, <3>2 DEF Coming
  <2>2. ASSUME NEW f \in Rung, NEW h \in Rung, f[2] = h[2], ~Fresh(f)', Fresh(h)'
        PROVE  Coming(h)'
    <3>1. h # g /\ Fresh(h)
      BY <1>2, <1>4, <2>2
    <3>2. CASE f = g
      <4>1. h = <<h[1], h[2]>> /\ h[1] \in 1 .. Len(Delay)
        BY PriorIsRung
      <4>2. h = NextOf(r, h[1])
        BY <1>0, <2>2, <3>2, <4>1, <1>b DEF NextOf
      <4>3. ~(h[1] < run[r].step)
        BY <1>2, <3>1, <4>1, <4>2 DEF SpaceInv, CycleWhole
      <4>4. run[r].step <= h[1]
        BY <1>1, <4>1, <4>3 DEF Schedules
      <4>. QED
        BY <1>6, <3>1, <4>2, <4>4
    <3>3. CASE f # g
      BY <1>4, <2>1, <2>2, <3>1, <3>3 DEF SpaceInv, CycleWhole
    <3>. QED
      BY <3>2, <3>3
  <2>3. ASSUME NEW q \in Proc, NEW h \in Rung, Opens(q)', h[2] = 0, Fresh(h)'
        PROVE  proc'[q].todo[h] # NULL
    <3>1. h # g /\ Fresh(h) /\ Opens(q) /\ proc'[q] = proc[q]
      BY <1>1, <1>2, <1>4, <2>3 DEF Schedules, Opens
    <3>. QED
      BY <2>3, <3>1 DEF SpaceInv, CycleWhole
  <2>4. ASSUME NEW q \in Runner, NEW k \in 1 .. Len(Delay), Cycles(q)', k < run'[q].step
        PROVE  ~Fresh(NextOf(q, k))'
    <3>1. /\ Cycles(q) /\ run'[q].rung = run[q].rung
          /\ k < run[q].step \/ (q = r /\ k = run[r].step)
      BY <1>1, <1>2, <2>4 DEF Schedules, Cycles
    <3>2. PICK h \in Rung : h = NextOf(q, k)
      BY <3>1, NextIsRung
    <3>3. h = g \/ ~Fresh(h)
      BY <3>1, <3>2, <1>b DEF SpaceInv, CycleWhole
    <3>4. ~Fresh(h)'
      BY <1>2, <1>4, <3>3
    <3>. QED
      BY <3>1, <3>2, <3>4 DEF Fresh, NextOf
  <2>. QED
    BY <2>2, <2>3, <2>4 DEF CycleWhole
<1>9. ASSUME ~hist'.torn
      PROVE  (Spaced /\ ListedWhole /\ OpeningSpaced /\ CyclesSpaced)'
  <2>0. Spaced /\ ListedWhole /\ OpeningSpaced /\ CyclesSpaced
    BY <1>1, <1>9 DEF SpaceInv, Schedules
  <2>1. ASSUME NEW h \in Rung, h # g, NEW t \in Nat, DueAt(h, t)'
        PROVE  DueAt(h, t) /\ ~Fresh(h)
    <3>1. DueAt(h, t)
      BY <1>1, <1>3, <2>1 DEF DueAt, Planned, Schedules
    <3>. QED
      BY <3>1, FreshNotDue
  <2>2. ASSUME NEW t \in Nat, DueAt(g, t)'
        PROVE  t = run[r].at + Offset[run[r].step]
    BY <1>2, <2>2 DEF DueAt
  <2>3. ASSUME NEW f \in Rung, NEW h \in Rung, NEW s \in Nat, NEW t \in Nat,
               Follows(h, f), DueAt(f, s)', DueAt(h, t)'
        PROVE  t = s + Delay[h[1]]
    <3>0. f # h
      BY <2>3, PriorIsRung DEF Follows
    <3>1. CASE h = g
      <4>1. /\ f[1] \in 1 .. Len(Delay) /\ f[1] = run[r].step - 1 /\ f[2] = c[2] + 1
            /\ f = <<f[1], f[2]>> /\ run[r].step \in 1 .. Len(Delay)
        BY <1>0, <1>1, <2>3, <3>1, PriorIsRung DEF Follows, Schedules
      <4>2. f = NextOf(r, f[1]) /\ f[1] < run[r].step
        BY <4>1, <1>b DEF NextOf
      <4>3. DueAt(f, s) /\ ~steps[f].ran
        BY <2>1, <2>3, <3>0, <3>1 DEF DueAt
      <4>4. steps[f].live = run[r].at + Offset[f[1]]
        BY <1>2, <2>0, <4>1, <4>2, <4>3 DEF CyclesSpaced
      <4>5. /\ run[r].at \in Nat /\ Offset[f[1]] \in Nat /\ Delay[run[r].step] \in Nat
        <5>1. f[1] \in 0 .. Len(Delay)
          BY <4>1
        <5>2. Offset[f[1]] \in Nat
          BY <5>1, OffsetType
        <5>3. Delay[run[r].step] \in Nat
          BY <4>1, ConstantTypes
        <5>. QED
          BY <1>1, <5>2, <5>3 DEF Schedules
      <4>6. run[r].at + Offset[f[1]] \in Nat
        BY <4>5, NatSum, Zenon
      <4>7. s = run[r].at + Offset[f[1]]
        BY <4>3, <4>4, <4>6, ConstantTypes DEF DueAt
      <4>8. t = run[r].at + Offset[run[r].step] /\ h[1] = run[r].step
        BY <1>0, <2>2, <2>3, <3>1
      <4>9. Offset[run[r].step] = Offset[f[1]] + Delay[run[r].step]
        BY <4>1, OffsetNext
      <4>. QED
        BY <4>5, <4>7, <4>8, <4>9
    <3>2. CASE f = g
      <4>1. ~Fresh(h) /\ h[2] = g[2] /\ h[1] = run[r].step + 1
        BY <1>0, <2>1, <2>3, <3>0, <3>2 DEF Follows
      <4>2. Prior(h) = c
        BY <1>0, <4>1 DEF Prior
      <4>3. run[r].step > h[1]
        BY <1>0, <4>1, <4>2, <1>b DEF LifeInv, Reached
      <4>. QED
        BY <1>1, <4>1, <4>3 DEF Schedules
    <3>3. CASE f # g /\ h # g
      BY <2>0, <2>1, <2>3, <3>3 DEF Spaced
    <3>. QED
      BY <3>1, <3>2, <3>3
  <2>4. Spaced'
    BY <2>3 DEF Spaced, Follows
  <2>5. ListedWhole'
    <3>1. ASSUME NEW q \in Proc, proc'[q].pc = "list", NEW f \in Rung, NEW h \in Rung,
                 f[2] = h[2], Dead(f)', ~steps'[h].ran
          PROVE  Dead(h)'
      <4>1. proc[q].pc = "list"
        BY <1>1, <3>1 DEF Schedules
      <4>2. f # g /\ Dead(f) /\ ~steps[h].ran
        BY <1>1, <1>2, <1>4, <3>1 DEF Schedules
      <4>3. Dead(h)
        BY <2>0, <3>1, <4>1, <4>2 DEF ListedWhole
      <4>. QED
        BY <1>2, <1>4, <4>3
    <3>. QED
      BY <3>1 DEF ListedWhole
  <2>6. OpeningSpaced'
    BY <1>0, <1>1, <1>3, <2>0 DEF OpeningSpaced, Opens, Schedules
  <2>7. CyclesSpaced'
    <3>1. ASSUME NEW q \in Runner, NEW k \in 1 .. Len(Delay), Cycles(q)', k < run'[q].step,
                 ~steps'[<<k, run'[q].rung[2] + 1>>].ran
          PROVE  steps'[<<k, run'[q].rung[2] + 1>>].live = run'[q].at + Offset[k]
      <4>1. /\ Cycles(q) /\ run'[q].rung = run[q].rung /\ run'[q].at = run[q].at
            /\ k < run[q].step \/ (q = r /\ k = run[r].step)
        BY <1>1, <1>2, <3>1 DEF Schedules, Cycles
      <4>2. PICK h \in Rung : h = NextOf(q, k)
        BY <4>1, NextIsRung
      <4>3. CASE h = g
        BY <1>2, <1>5, <4>1, <4>2, <4>3 DEF NextOf
      <4>4. CASE h # g
        <5>1. k < run[q].step
          BY <4>1, <4>2, <4>4, <1>b
        <5>2. steps'[h] = steps[h] /\ ~steps[h].ran
          BY <1>3, <3>1, <4>1, <4>2, <4>4 DEF NextOf
        <5>3. steps[h].live = run[q].at + Offset[k]
          BY <2>0, <4>1, <4>2, <5>1, <5>2 DEF CyclesSpaced
        <5>. QED
          BY <4>1, <4>2, <5>2, <5>3 DEF NextOf
      <4>. QED
        BY <4>3, <4>4
    <3>. QED
      BY <3>1 DEF CyclesSpaced, NextOf
  <2>. QED
    BY <2>4, <2>5, <2>6, <2>7
<1>. QED
  BY <1>7, <1>8, <1>9 DEF SpaceInv

\* That a sweep tore a cycle is remembered.
LEMMA TornStays == TInv /\ [Next]_vars => (hist.torn => hist'.torn)
<1>. SUFFICES ASSUME TInv, [Next]_vars, hist.torn
              PROVE  hist'.torn
  OBVIOUS
<1>1. hist \in History
  BY DEF TInv
<1>2. CASE \E p \in Proc : Write(p) \/ CancelPending(p)
  BY <1>1, <1>2 DEF Write, CancelPending, History
<1>3. CASE BeginAny
  <2>1. PICK p \in Proc, w \in Process : Starts(p, w)
    BY <1>3, InvIsType, AllBegin
  <2>. QED
    BY <2>1 DEF Starts
<1>4. CASE \E p \in Proc : CancelReminders(p) \/ ListSteps(p) \/ CreateStep(p) \/ ReadReminder(p)
                           \/ StoreReminder(p)
  BY <1>4 DEF CancelReminders, ListSteps, CreateStep, ReadReminder, StoreReminder
<1>5. (\E r \in Runner : RunNext(r)) \/ (\E g \in Rung : SendNotification(g)) \/ Tick \/ UNCHANGED vars
        => UNCHANGED hist
  BY DEF RunNext, ClaimStep, CheckIncident, FanOut, ScheduleStep, ClaimReminderJob, CheckReminder,
         ClaimIncidentReminder, ScheduleNextReminder, SendNotification, Tick, vars
<1>. QED
  BY <1>2, <1>3, <1>4, <1>5 DEF Next, BeginAny, ProcNext

LEMMA SpaceStep == ASSUME OneUser PROVE TInv /\ LifeInv /\ SpaceInv /\ [Next]_vars => SpaceInv'
<1>. SUFFICES ASSUME TInv, LifeInv, SpaceInv, [Next]_vars
              PROVE  SpaceInv'
  OBVIOUS
<1>0. TInv' /\ (hist.torn => hist'.torn)
  BY TypesStep, TornStays
<1>1. CASE \E p \in Proc : ListSteps(p) \/ CreateStep(p) \/ CancelPending(p)
  BY <1>0, <1>1, SpaceListed, SpaceCreated, SpaceSwept
<1>2. CASE \E r \in Runner : \/ \E g \in Rung : ClaimStep(r, g)
                             \/ CheckIncident(r) \/ FanOut(r) \/ ScheduleStep(r)
  BY <1>0, <1>2, SpaceRuns, SpaceScheduled
<1>3. CASE \E g \in Rung : SendNotification(g)
  BY <1>0, <1>3, SpaceSent
<1>4. CASE /\ ~ \E p \in Proc : ListSteps(p) \/ CreateStep(p) \/ CancelPending(p)
           /\ OffPlan /\ UNCHANGED steps
  BY <1>0, <1>4, SpaceOffPlan
<1>. QED
  BY <1>1, <1>2, <1>3, <1>4, OffPlanSteps

\* The rungs of a cycle keep the spacing of the policy through any number of
\* acknowledgments, snoozes and resumptions of users that take turns, unless a sweep
\* fell into the scheduling of a cycle.  It holds between rungs that are pending,
\* planned or canceled alike: all that an unacknowledgment finds of a cycle is dead,
\* since it swept the rows first, and is shifted as one block.
THEOREM CyclesKeepSpacing == ASSUME OneUser PROVE Spec => []SpacingKept
<1>1. TInv /\ LifeInv /\ SpaceInv => SpacingKept
  <2>. SUFFICES ASSUME TInv, LifeInv, SpaceInv, ~hist.torn,
                       NEW g \in Rung, NEW h \in Rung, g[2] = h[2], h[1] = g[1] + 1,
                       steps[g].live # NULL, steps[h].live # NULL
                PROVE  steps[h].live = steps[g].live + Delay[h[1]]
    BY DEF SpacingKept
  <2>1. \A f \in {g, h} : ~steps[f].ran /\ steps[f].live \in Nat
    BY DEF LifeInv, NotRun, TInv, StepRows, MaybeTime
  <2>2. DueAt(g, steps[g].live) /\ DueAt(h, steps[h].live) /\ Follows(h, g)
    BY <2>1 DEF DueAt, Follows
  <2>3. Spaced
    BY DEF SpaceInv
  <2>. QED
    BY <2>1, <2>2, <2>3 DEF Spaced
<1>. QED
  BY TypesAtFirst, TypesStep, LifeAtFirst, LifeStep, SpaceAtFirst, SpaceStep, <1>1, PTL DEF Spec
=============================================================================
