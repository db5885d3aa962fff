--------------------------- MODULE MCServices_proofs ---------------------------
(***************************************************************************)
(* Theorems about the scenes of MCServices: every scene is a behaviour of  *)
(* each of the modules, whose proofs are here, for all values of their     *)
(* constants: any number of alarms and overlapping runs, of devices and    *)
(* pushes, files and readers, pictures and changes, users and requests.    *)
(***************************************************************************)
EXTENDS MCServices, FiniteSetTheorems, SequenceTheorems, TLAPS

-----------------------------------------------------------------------------
(* Every scene is a behaviour of each module: what moves is a step of one  *)
(* of them, and leaves the variables of the others alone.                  *)

LEMMA ScenesOfAlarms == Spec => A!Init /\ [][A!Next]_(A!vars)
<1>1. Init => A!Init
  BY DEF Init
<1>2. [Next]_vars => [A!Next]_(A!vars)
  <2>1. UNCHANGED alarmVars => UNCHANGED A!vars
    BY DEF alarmVars, A!vars
  <2>2. AlarmsMove => A!Next
    BY DEF AlarmsMove
  <2>. QED  BY <2>1, <2>2 DEF Next, vars
<1>. QED  BY <1>1, <1>2, PTL DEF Spec

LEMMA ScenesOfPushes == Spec => P!Spec
<1>1. Init => P!Init
  BY DEF Init
<1>2. [Next]_vars => [P!Next]_(P!vars)
  <2>1. UNCHANGED pushVars => UNCHANGED P!vars
    BY DEF pushVars, P!vars
  <2>2. PushesMove => P!Next
    BY DEF PushesMove
  <2>. QED  BY <2>1, <2>2 DEF Next, vars
<1>. QED  BY <1>1, <1>2, PTL DEF Spec, P!Spec

LEMMA ScenesOfFiles == Spec => F!Spec
<1>1. Init => F!Init
  BY DEF Init
<1>2. [Next]_vars => [F!Next]_(F!vars)
  <2>1. UNCHANGED fileVars => UNCHANGED F!vars
    BY DEF fileVars, F!vars
  <2>2. FilesMove => F!Next
    BY DEF FilesMove
  <2>. QED  BY <2>1, <2>2 DEF Next, vars
<1>. QED  BY <1>1, <1>2, PTL DEF Spec, F!Spec

LEMMA ScenesOfPictures == Spec => I!Spec
<1>1. Init => I!Init
  BY DEF Init
<1>2. [Next]_vars => [I!Next]_(I!vars)
  <2>1. UNCHANGED pictureVars => UNCHANGED I!vars
    BY DEF pictureVars, I!vars
  <2>2. PicturesMove => I!Next
    BY DEF PicturesMove
  <2>. QED  BY <2>1, <2>2 DEF Next, vars
<1>. QED  BY <1>1, <1>2, PTL DEF Spec, I!Spec

LEMMA ScenesOfChats == Spec => C!Spec
<1>1. Init => C!Init
  BY DEF Init
<1>2. [Next]_vars => [C!Next]_(C!vars)
  <2>1. UNCHANGED chatVars => UNCHANGED C!vars
    BY DEF chatVars, C!vars
  <2>2. ChatsMove => C!Next
    BY DEF ChatsMove
  <2>. QED  BY <2>1, <2>2 DEF Next, vars
<1>. QED  BY <1>1, <1>2, PTL DEF Spec, C!Spec

-----------------------------------------------------------------------------
(* The invariant of the alarms.                                            *)

\* A run holds rows that were due when it started; unless its user has changed
\* an alarm since, the row held tells when it comes again, and an alarm that was
\* rung was heard after the start.
RunOnDue(r) ==
    /\ alarmRun[r].now <= now
    /\ \A a \in AlarmIds : alarmRun[r].held[a].there => alarmRun[r].held[a].time <= alarmRun[r].now
    /\ \A a \in alarmRun[r].rung : alarmRun[r].held[a].there

TrueToRow(r, a) ==
    alarmRun[r].held[a].there /\ alarm[a].there =>
        /\ alarm[a].recurrence = alarmRun[r].held[a].recurrence
        /\ alarm[a].recurrence = "NONE" => alarm[a].time = alarmRun[r].held[a].time
        /\ a \in alarmRun[r].rung => heard[a] >= alarmRun[r].now

AlarmsInv ==
    /\ A!TypeOK
    /\ \A r \in Runs : RunOnDue(r)
    /\ \A r \in Runs, a \in AlarmIds \ changed : TrueToRow(r, a)

-----------------------------------------------------------------------------
(* Steps of the alarms.                                                    *)

LEMMA GoneOfType == A!Gone \in A!AlarmRows /\ A!NoRun \in A!AnyRun
BY AlarmConstants DEF A!Gone, A!AlarmRows, A!NoRun, A!AnyRun, A!Times, A!AlarmsAssumption

\* There is a next time, and it is the first after the clock.
LEMMA NextTime ==
    ASSUME NEW row \in A!AlarmRows, NEW clock \in 0..MaxTime, row.time <= clock
    PROVE  /\ A!NextFireTime(row, clock) \in A!Times
           /\ A!NextFireTime(row, clock) - Day <= clock
<1>1. row.time \in Nat /\ clock \in Nat /\ Day \in Nat \ {0} /\ MaxTime \in Nat
  BY AlarmConstants DEF A!AlarmRows, A!Times, A!AlarmsAssumption
<1> DEFINE past == clock - row.time
           days == past \div Day
           t == row.time + (days + 1) * Day
<1>2. past \in Nat /\ past <= clock
  BY <1>1
<1>3. days \in Nat /\ days <= past /\ days * Day <= past /\ past < days * Day + Day
  <2>. HIDE DEF past
  <2>1. past = Day * (past \div Day) + (past % Day) /\ past % Day \in 0..(Day - 1)
        /\ past \div Day \in Int
    BY <1>1, <1>2, SMT
  <2>2. past \div Day >= 0
    BY <1>1, <1>2, SMT
  <2>. QED  BY <1>1, <1>2, <2>1, <2>2, SMT
<1>4. (days + 1) * Day = days * Day + Day
  BY <1>1, <1>3, SMT
<1>5. t \in A!Recurring(row, clock) /\ clock < t /\ t <= clock + Day
  <2>. HIDE DEF days
  <2>1. days + 1 \in 1..clock + 2
    BY <1>1, <1>2, <1>3
  <2>2. clock < t /\ t <= clock + Day
    BY <1>1, <1>3, <1>4
  <2>. QED  BY <2>1, <2>2 DEF A!Recurring
<1>6. /\ A!NextFireTime(row, clock) \in A!Recurring(row, clock)
      /\ clock < A!NextFireTime(row, clock) /\ A!NextFireTime(row, clock) <= clock + Day
  <2>. HIDE DEF t
  <2>. QED  BY <1>5 DEF A!NextFireTime
<1>7. A!NextFireTime(row, clock) \in Int
  BY <1>1, <1>6 DEF A!Recurring
<1>. QED  BY <1>1, <1>6, <1>7 DEF A!Times

LEMMA TickStep ==
    ASSUME AlarmsInv, A!Tick
    PROVE  AlarmsInv'
<1>1. A!TypeOK'
  BY GoneOfType, AlarmConstants DEF AlarmsInv, A!TypeOK, A!AlarmsAssumption, A!Tick
<1>2. ASSUME NEW s \in Runs PROVE RunOnDue(s)'
  BY AlarmConstants DEF AlarmsInv, A!TypeOK, A!AnyRun, RunOnDue, A!Tick
<1>3. ASSUME NEW s \in Runs, NEW b \in AlarmIds \ changed' PROVE TrueToRow(s, b)'
  BY AlarmConstants DEF AlarmsInv, TrueToRow, A!Tick
<1>. QED  BY <1>1, <1>2, <1>3 DEF AlarmsInv

LEMMA CreateStep ==
    ASSUME AlarmsInv, NEW a \in AlarmIds, NEW time \in 0..MaxTime,
           NEW recurrence \in {"NONE", "DAILY"}, A!Create(a, time, recurrence)
    PROVE  AlarmsInv'
<1>1. A!TypeOK'
  BY GoneOfType, AlarmConstants
     DEF AlarmsInv, A!TypeOK, A!AlarmRows, A!Times, A!AlarmsAssumption, A!Create
<1>2. ASSUME NEW s \in Runs PROVE RunOnDue(s)'
  BY AlarmConstants DEF AlarmsInv, RunOnDue, A!Create
<1>3. ASSUME NEW s \in Runs, NEW b \in AlarmIds \ changed' PROVE TrueToRow(s, b)'
  BY AlarmConstants DEF AlarmsInv, TrueToRow, A!Held, A!Create
<1>. QED  BY <1>1, <1>2, <1>3 DEF AlarmsInv

LEMMA UpdateTimeStep ==
    ASSUME AlarmsInv, NEW a \in AlarmIds, NEW time \in 0..MaxTime, A!UpdateTime(a, time)
    PROVE  AlarmsInv'
<1>1. A!TypeOK'
  <2>1. /\ alarm' = [b \in AlarmIds |-> alarm'[b]]
        /\ alarm'[a] = [alarm[a] EXCEPT !.time = time, !.isSent = FALSE]
        /\ \A b \in AlarmIds \ {a} : alarm'[b] = alarm[b]
    BY DEF AlarmsInv, A!TypeOK, A!UpdateTime
  <2>2. time \in A!Times
    BY AlarmConstants DEF A!Times, A!AlarmsAssumption
  <2>3. alarm' \in [AlarmIds -> A!AlarmRows]
    <3>1. alarm'[a] \in A!AlarmRows
      <4>1. alarm[a] \in A!AlarmRows
        BY DEF AlarmsInv, A!TypeOK
      <4>. QED  BY <2>1, <2>2, <4>1 DEF A!AlarmRows
    <3>2. \A b \in AlarmIds : alarm'[b] \in A!AlarmRows
      BY <2>1, <3>1 DEF AlarmsInv, A!TypeOK
    <3>. QED  BY <2>1, <3>2, Zenon
  <2>4. events' \in 0..MaxEvents /\ heard' \in [AlarmIds -> {A!Never} \cup 0..MaxTime]
    BY AlarmConstants DEF AlarmsInv, A!TypeOK, A!AlarmsAssumption, A!UpdateTime
  <2>. QED  BY <2>3, <2>4 DEF AlarmsInv, A!TypeOK, A!UpdateTime
<1>2. ASSUME NEW s \in Runs PROVE RunOnDue(s)'
  BY AlarmConstants DEF AlarmsInv, RunOnDue, A!UpdateTime
<1>3. ASSUME NEW s \in Runs, NEW b \in AlarmIds \ changed' PROVE TrueToRow(s, b)'
  BY AlarmConstants DEF AlarmsInv, A!TypeOK, TrueToRow, A!Held, A!UpdateTime
<1>. QED  BY <1>1, <1>2, <1>3 DEF AlarmsInv

LEMMA UpdateRecurrenceStep ==
    ASSUME AlarmsInv, NEW a \in AlarmIds, NEW recurrence \in {"NONE", "DAILY"},
           A!UpdateRecurrence(a, recurrence)
    PROVE  AlarmsInv'
<1>1. A!TypeOK'
  <2>1. alarm' \in [AlarmIds -> A!AlarmRows]
    BY DEF AlarmsInv, A!TypeOK, A!AlarmRows, A!UpdateRecurrence
  <2>2. events' \in 0..MaxEvents
    BY AlarmConstants DEF AlarmsInv, A!TypeOK, A!AlarmsAssumption, A!UpdateRecurrence
  <2>. QED  BY <2>1, <2>2 DEF AlarmsInv, A!TypeOK, A!UpdateRecurrence
<1>2. ASSUME NEW s \in Runs PROVE RunOnDue(s)'
  BY AlarmConstants DEF AlarmsInv, RunOnDue, A!UpdateRecurrence
<1>3. ASSUME NEW s \in Runs, NEW b \in AlarmIds \ changed' PROVE TrueToRow(s, b)'
  BY AlarmConstants DEF AlarmsInv, TrueToRow, A!Held, A!UpdateRecurrence
<1>. QED  BY <1>1, <1>2, <1>3 DEF AlarmsInv

LEMMA RemoveAlarmStep ==
    ASSUME AlarmsInv, NEW a \in AlarmIds, A!Remove(a)
    PROVE  AlarmsInv'
<1>1. A!TypeOK'
  BY GoneOfType, AlarmConstants DEF AlarmsInv, A!TypeOK, A!AlarmsAssumption, A!Remove
<1>2. ASSUME NEW s \in Runs PROVE RunOnDue(s)'
  BY AlarmConstants DEF AlarmsInv, RunOnDue, A!Remove
<1>3. ASSUME NEW s \in Runs, NEW b \in AlarmIds \ changed' PROVE TrueToRow(s, b)'
  BY AlarmConstants DEF AlarmsInv, A!TypeOK, TrueToRow, A!Gone, A!Remove
<1>. QED  BY <1>1, <1>2, <1>3 DEF AlarmsInv

LEMMA CheckAlarmsStep ==
    ASSUME AlarmsInv, NEW r \in Runs, A!CheckAlarms(r)
    PROVE  AlarmsInv'
<1>1. A!TypeOK'
  BY GoneOfType, AlarmConstants DEF AlarmsInv, A!TypeOK, A!AnyRun, A!CheckAlarms
<1>2. ASSUME NEW s \in Runs PROVE RunOnDue(s)'
  <2>1. CASE s = r
    <3>1. alarmRun'[r].now = now /\ now' = now /\ alarmRun'[r].rung = {} /\ now \in Nat
      BY AlarmConstants DEF AlarmsInv, A!TypeOK, A!NoRun, A!CheckAlarms
    <3>2. ASSUME NEW a \in AlarmIds
          PROVE  alarmRun'[r].held[a] = IF A!IsDue(a) THEN alarm[a] ELSE A!Gone
      BY DEF AlarmsInv, A!TypeOK, A!CheckAlarms
    <3>. QED  BY <2>1, <3>1, <3>2 DEF RunOnDue, A!IsDue, A!Gone
  <2>2. CASE s # r
    BY <2>2 DEF AlarmsInv, A!TypeOK, RunOnDue, A!CheckAlarms
  <2>. QED  BY <2>1, <2>2
<1>3. ASSUME NEW s \in Runs, NEW b \in AlarmIds \ changed' PROVE TrueToRow(s, b)'
  BY AlarmConstants DEF AlarmsInv, A!TypeOK, TrueToRow, A!NoRun, A!CheckAlarms
<1>. QED  BY <1>1, <1>2, <1>3 DEF AlarmsInv

LEMMA RingStep ==
    ASSUME AlarmsInv, NEW r \in Runs, NEW a \in AlarmIds, A!Ring(r, a)
    PROVE  AlarmsInv'
<1>1. A!TypeOK'
  BY GoneOfType, AlarmConstants DEF AlarmsInv, A!TypeOK, A!AnyRun, A!Ring
<1>2. ASSUME NEW s \in Runs PROVE RunOnDue(s)'
  BY AlarmConstants DEF AlarmsInv, RunOnDue, A!Ring
<1>3. ASSUME NEW s \in Runs, NEW b \in AlarmIds \ changed' PROVE TrueToRow(s, b)'
  BY AlarmConstants DEF AlarmsInv, A!TypeOK, RunOnDue, TrueToRow, A!Ring
<1>. QED  BY <1>1, <1>2, <1>3 DEF AlarmsInv

LEMMA RescheduleStep ==
    ASSUME AlarmsInv, NEW r \in Runs, NEW a \in AlarmIds, A!Reschedule(r, a)
    PROVE  AlarmsInv'
<1> DEFINE row == alarmRun[r].held[a]
<1>a. /\ alarmRun[r] \in A!AnyRun /\ row \in A!AlarmRows /\ alarm[a] \in A!AlarmRows
      /\ alarmRun[r].now \in 0..MaxTime /\ alarmRun[r].held \in [AlarmIds -> A!AlarmRows]
  BY DEF AlarmsInv, A!TypeOK, A!AnyRun
<1>b. row.there /\ row.time <= alarmRun[r].now
  BY DEF AlarmsInv, RunOnDue, A!Reschedule
<1>c. /\ alarm'[a] \in A!AlarmRows
      /\ alarm'[a].there = alarm[a].there /\ alarm'[a].recurrence = alarm[a].recurrence
      /\ row.recurrence = "NONE" => alarm'[a].time = alarm[a].time
  <2>1. A!NextFireTime(row, alarmRun[r].now) \in A!Times
    BY <1>a, <1>b, NextTime
  <2>2. alarm'[a] = A!Rescheduled(r, a)
    BY DEF AlarmsInv, A!TypeOK, A!Reschedule
  <2>. QED  BY <1>a, <2>1, <2>2 DEF A!Rescheduled, A!AlarmRows
<1>d. /\ alarm' \in [AlarmIds -> A!AlarmRows]
      /\ \A b \in AlarmIds \ {a} : alarm'[b] = alarm[b]
  BY <1>c DEF AlarmsInv, A!TypeOK, A!Reschedule
<1>e. /\ alarmRun'[r] \in A!AnyRun /\ alarmRun'[r].rung = {} /\ alarmRun'[r].now <= now
      /\ \A b \in AlarmIds : alarmRun'[r].held[b].there =>
            alarmRun'[r].held[b] = alarmRun[r].held[b] /\ alarmRun'[r].now = alarmRun[r].now
  <2>1. alarmRun'[r] = A!DoneWith(r, a)
    BY DEF AlarmsInv, A!TypeOK, A!Reschedule
  <2>2. CASE alarmRun'[r] = A!NoRun
    BY <2>2, GoneOfType, AlarmConstants DEF AlarmsInv, A!TypeOK, A!NoRun, A!Gone
  <2>3. CASE alarmRun'[r] = [alarmRun[r] EXCEPT !.held[a] = A!Gone, !.rung = {}]
    <3>1. alarmRun'[r] = [now |-> alarmRun[r].now, held |-> [alarmRun[r].held EXCEPT ![a] = A!Gone],
                     rung |-> {}]
      BY <1>a, <2>3 DEF A!AnyRun
    <3>2. alarmRun[r].now <= now
      BY DEF AlarmsInv, RunOnDue
    <3>3. alarmRun'[r] \in A!AnyRun
      BY <1>a, <3>1, GoneOfType DEF A!AnyRun
    <3>. QED  BY <1>a, <3>1, <3>2, <3>3 DEF A!Gone
  <2>. QED  BY <2>1, <2>2, <2>3 DEF A!DoneWith
<1>f. alarmRun' \in [Runs -> A!AnyRun] /\ \A s \in Runs \ {r} : alarmRun'[s] = alarmRun[s]
  BY <1>e DEF AlarmsInv, A!TypeOK, A!Reschedule
<1>1. A!TypeOK'
  BY <1>d, <1>f DEF AlarmsInv, A!TypeOK, A!Reschedule
<1>2. ASSUME NEW s \in Runs PROVE RunOnDue(s)'
  BY <1>e, <1>f DEF AlarmsInv, RunOnDue, A!Reschedule
<1>3. ASSUME NEW s \in Runs, NEW b \in AlarmIds \ changed' PROVE TrueToRow(s, b)'
  <2>1. TrueToRow(s, b) /\ TrueToRow(r, b) /\ UNCHANGED heard
    BY DEF AlarmsInv, A!Reschedule
  <2>2. /\ alarmRun'[s].held[b].there =>
              alarmRun'[s].held[b] = alarmRun[s].held[b] /\ alarmRun'[s].now = alarmRun[s].now
        /\ b \in alarmRun'[s].rung => b \in alarmRun[s].rung
    BY <1>e, <1>f
  <2>3. CASE b = a
    BY <1>b, <1>c, <2>1, <2>2, <2>3 DEF TrueToRow, A!Reschedule
  <2>4. CASE b # a
    BY <1>d, <2>1, <2>2, <2>4 DEF TrueToRow
  <2>. QED  BY <2>3, <2>4
<1>. QED  BY <1>1, <1>2, <1>3 DEF AlarmsInv

LEMMA AbortStep ==
    ASSUME AlarmsInv, NEW r \in Runs, NEW a \in AlarmIds, A!Abort(r, a)
    PROVE  AlarmsInv'
<1>1. A!TypeOK'
  BY GoneOfType, AlarmConstants DEF AlarmsInv, A!TypeOK, A!Abort
<1>2. ASSUME NEW s \in Runs PROVE RunOnDue(s)'
  BY AlarmConstants DEF AlarmsInv, A!TypeOK, RunOnDue, A!Gone, A!NoRun, A!Abort
<1>3. ASSUME NEW s \in Runs, NEW b \in AlarmIds \ changed' PROVE TrueToRow(s, b)'
  BY AlarmConstants DEF AlarmsInv, TrueToRow, A!Gone, A!NoRun, A!Abort
<1>. QED  BY <1>1, <1>2, <1>3 DEF AlarmsInv

LEMMA CrashStep ==
    ASSUME AlarmsInv, A!Crash
    PROVE  AlarmsInv'
<1>1. A!TypeOK'
  BY GoneOfType, AlarmConstants DEF AlarmsInv, A!TypeOK, A!AlarmsAssumption, A!Crash
<1>2. ASSUME NEW s \in Runs PROVE RunOnDue(s)'
  BY AlarmConstants DEF AlarmsInv, A!TypeOK, RunOnDue, A!Gone, A!NoRun, A!Crash
<1>3. ASSUME NEW s \in Runs, NEW b \in AlarmIds \ changed' PROVE TrueToRow(s, b)'
  BY AlarmConstants DEF TrueToRow, A!Gone, A!NoRun, A!Crash
<1>. QED  BY <1>1, <1>2, <1>3 DEF AlarmsInv

LEMMA AlarmsStep ==
    ASSUME AlarmsInv, [A!Next]_(A!vars)
    PROVE  AlarmsInv'
<1>1. ASSUME NEW a \in AlarmIds, A!Request(a) PROVE AlarmsInv'
  BY <1>1, CreateStep, UpdateTimeStep, UpdateRecurrenceStep, RemoveAlarmStep DEF A!Request
<1>2. ASSUME NEW r \in Runs, A!Step(r) PROVE AlarmsInv'
  BY <1>2, RingStep, RescheduleStep, AbortStep DEF A!Step
<1>3. CASE UNCHANGED A!vars
  BY <1>3 DEF A!vars, AlarmsInv, A!TypeOK, RunOnDue, TrueToRow
<1>. QED  BY <1>1, <1>2, <1>3, TickStep, CheckAlarmsStep, CrashStep DEF A!Next

LEMMA AlarmsAtFirst == A!Init => AlarmsInv
<1>. SUFFICES ASSUME A!Init PROVE AlarmsInv
  OBVIOUS
<1>1. A!TypeOK
  BY GoneOfType, AlarmConstants DEF A!Init, A!TypeOK, A!AlarmsAssumption
<1>. QED  BY <1>1, AlarmConstants DEF A!Init, AlarmsInv, RunOnDue, TrueToRow, A!NoRun, A!Gone

LEMMA AlarmsInvHolds == A!Init /\ [][A!Next]_(A!vars) => []AlarmsInv
<1>1. AlarmsInv /\ [A!Next]_(A!vars) => AlarmsInv'
  BY AlarmsStep
<1>. QED  BY <1>1, AlarmsAtFirst, PTL

\* The job puts off, or ticks off, what has rung.
LEMMA RungBeforePutOff ==
    ASSUME AlarmsInv, [A!Next]_(A!vars), NEW a \in AlarmIds \ changed,
           alarm[a].there, alarm'[a] # alarm[a], alarmRun' # alarmRun
    PROVE  heard[a] >= IF alarm'[a].isSent THEN alarm[a].time ELSE alarm'[a].time - Day
<1>1. PICK r \in Runs : A!Reschedule(r, a)
  <2>1. PICK r \in Runs, b \in AlarmIds : A!Reschedule(r, b)
    BY DEF A!Next, A!Request, A!Tick, A!Create, A!UpdateTime, A!UpdateRecurrence, A!Remove,
       A!CheckAlarms,
           A!Step, A!Ring, A!Abort, A!Crash, A!vars
  <2>2. b = a
    BY <2>1 DEF AlarmsInv, A!TypeOK, A!Reschedule
  <2>. QED  BY <2>1, <2>2
<1> DEFINE row == alarmRun[r].held[a]
<1>2. /\ row \in A!AlarmRows /\ alarm[a] \in A!AlarmRows /\ alarmRun[r].now \in 0..MaxTime
      /\ heard[a] \in {A!Never} \cup 0..MaxTime /\ Day \in Nat
  BY AlarmConstants DEF AlarmsInv, A!TypeOK, A!AnyRun, A!AlarmsAssumption
<1>3. /\ row.there /\ row.time <= alarmRun[r].now /\ TrueToRow(r, a) /\ a \in alarmRun[r].rung
  BY <1>1 DEF AlarmsInv, RunOnDue, A!Reschedule
<1>4. heard[a] >= alarmRun[r].now
  BY <1>3 DEF TrueToRow
<1>5. alarm'[a] = A!Rescheduled(r, a)
  BY <1>1 DEF AlarmsInv, A!TypeOK, A!Reschedule
<1>6. CASE row.recurrence = "DAILY"
  <2>1. /\ A!NextFireTime(row, alarmRun[r].now) \in A!Times
        /\ A!NextFireTime(row, alarmRun[r].now) - Day <= alarmRun[r].now
    BY <1>2, <1>3, NextTime
  <2>2. ~alarm'[a].isSent /\ alarm'[a].time = A!NextFireTime(row, alarmRun[r].now)
    BY <1>2, <1>5, <1>6 DEF A!Rescheduled, A!AlarmRows
  <2>3. A!NextFireTime(row, alarmRun[r].now) \in Int /\ heard[a] \in Int
    BY <1>2, <2>1, AlarmConstants DEF A!Times, A!Never, A!AlarmsAssumption
  <2>. QED  BY <1>2, <1>4, <2>1, <2>2, <2>3
<1>7. CASE row.recurrence = "NONE"
  <2>1. alarm'[a].isSent /\ alarm[a].time = row.time
    BY <1>2, <1>3, <1>5, <1>7 DEF TrueToRow, A!Rescheduled, A!AlarmRows
  <2>2. row.time \in Int /\ heard[a] \in Int
    BY <1>2, AlarmConstants DEF A!AlarmRows, A!Times, A!Never
  <2>. QED  BY <1>2, <1>3, <1>4, <2>1, <2>2
<1>. QED  BY <1>2, <1>6, <1>7 DEF A!AlarmRows

LEMMA PutOffAfterRingingHolds == A!Init /\ [][A!Next]_(A!vars) => A!PutOffAfterRinging
<1>1. AlarmsInv /\ [A!Next]_(A!vars) =>
        [\A a \in AlarmIds \ changed :
           (alarm[a].there /\ alarm'[a] # alarm[a] /\ alarmRun' # alarmRun) =>
              heard[a] >= IF alarm'[a].isSent THEN alarm[a].time ELSE alarm'[a].time - Day]_(A!vars)
  BY RungBeforePutOff
<1>. QED  BY <1>1, AlarmsInvHolds, PTL DEF A!PutOffAfterRinging

-----------------------------------------------------------------------------
(* The invariant of the push tokens.                                       *)

\* As long as no chunk has failed, there is a ticket for each message handed
\* over, and those that call a device gone are right.
Matched(k) ==
    /\ ~k.on => k = P!NoPush
    /\ ~k.failed => /\ Len(k.tickets) = k.sent
                    /\ \A i \in 1..Len(k.tickets) :
                          k.tickets[i] = "gone" => k.validTokens[i] \in uninstalled

PushesInv ==
    /\ P!TypeOK
    /\ P!DevicesStayRegistered
    /\ \A t \in uninstalled : signedIn[t] = None
    /\ \A p \in Pushers : Matched(push[p])

-----------------------------------------------------------------------------
(* Steps of the push tokens.                                               *)

\* Finite sets are those of FiniteSets, in the instance too.
LEMMA TokenSizes ==
    /\ IsFiniteSet(Tokens)
    /\ \A S : (IsFiniteSet(S) <=> P!IsFiniteSet(S)) /\ Cardinality(S) = P!Cardinality(S)
  BY PushConstants
     DEF IsFiniteSet, Cardinality, P!IsFiniteSet, P!Cardinality, P!PushesAssumption

\* A device is registered, signed out or taken away.
LEMMA DeviceStep ==
    ASSUME PushesInv, NEW t \in Tokens, P!Device(t)
    PROVE  PushesInv'
<1>1. P!TypeOK'
  BY DEF PushesInv, P!TypeOK, P!Device, P!RegisterPushToken, P!SignOut, P!DeletePushToken,
     P!Uninstall
<1>2. \A s \in uninstalled' : signedIn'[s] = None
  BY DEF PushesInv, P!TypeOK, P!Device, P!RegisterPushToken, P!SignOut, P!DeletePushToken,
     P!Uninstall
<1>3. ASSUME NEW p \in Pushers PROVE Matched(push[p])'
  <2>1. UNCHANGED push /\ uninstalled \subseteq uninstalled'
    BY DEF P!Device, P!RegisterPushToken, P!SignOut, P!DeletePushToken, P!Uninstall
  <2>2. Matched(push[p])
    BY DEF PushesInv
  <2>. QED  BY <2>1, <2>2 DEF Matched
<1>4. P!DevicesStayRegistered'
  BY PushConstants DEF PushesInv, P!TypeOK, P!DevicesStayRegistered, P!Device,
     P!RegisterPushToken, P!SignOut,
            P!DeletePushToken, P!Uninstall, P!PushesAssumption
<1>. QED  BY <1>1, <1>2, <1>3, <1>4 DEF PushesInv

\* One push moves on, and the others stay.
LEMMA OnePushMoves ==
    ASSUME PushesInv, NEW p \in Pushers, NEW k \in P!PushStates, push' = [push EXCEPT ![p] = k],
           Len(k.tickets) <= k.sent, k.sent <= Len(k.validTokens), Matched(k),
           UNCHANGED uninstalled
    PROVE  /\ push' \in [Pushers -> P!PushStates]
           /\ \A q \in Pushers : /\ Len(push'[q].tickets) <= push'[q].sent
                                 /\ push'[q].sent <= Len(push'[q].validTokens)
                                 /\ Matched(push[q])'
<1>1. /\ push' \in [Pushers -> P!PushStates] /\ push'[p] = k
      /\ \A q \in Pushers \ {p} : push'[q] = push[q]
  BY DEF PushesInv, P!TypeOK
<1>. QED  BY <1>1 DEF PushesInv, P!TypeOK, Matched

LEMMA FunctionIsSequence ==
    ASSUME NEW S, NEW n \in Nat, NEW f \in [1..n -> S]
    PROVE  f \in Seq(S) /\ Len(f) = n
<1>1. f \in Seq(S)
  BY SeqDef
<1>. QED  BY <1>1, LenProperties

LEMMA NoPushIsPush ==
    /\ P!NoPush \in P!PushStates /\ Matched(P!NoPush)
    /\ P!NoPush.sent = 0 /\ Len(P!NoPush.tickets) = 0 /\ Len(P!NoPush.validTokens) = 0
<1>1. <<>> \in Seq(Tokens) /\ <<>> \in Seq(P!Tickets) /\ Len(<<>>) = 0
  BY EmptySeq
<1>. QED  BY <1>1 DEF P!NoPush, P!PushStates, Matched

LEMMA PrepareStep ==
    ASSUME PushesInv, NEW p \in Pushers, NEW recipients \in SUBSET PushUsers,
           P!Prepare(p, recipients)
    PROVE  PushesInv'
<1>. DEFINE found == {t \in Tokens : tokenRow[t] \in recipients}
<1>1. PICK tokens \in P!SetToSeqs(found \ Malformed) :
          push' = [push EXCEPT ![p].on = TRUE, ![p].validTokens = tokens]
  BY DEF P!Prepare
<1>2. tokens \in Seq(Tokens)
  <2>1. found \ Malformed \subseteq Tokens /\ Cardinality(found \ Malformed) \in Nat
    BY TokenSizes, FS_Subset, FS_CardinalityType
  <2>2. tokens \in [1..Cardinality(found \ Malformed) -> Tokens]
    BY <2>1, TokenSizes DEF P!SetToSeqs
  <2>. QED  BY <2>1, <2>2, FunctionIsSequence
<1>. DEFINE k == [P!NoPush EXCEPT !.on = TRUE, !.validTokens = tokens]
<1>3. k \in P!PushStates /\ Len(k.tickets) <= k.sent /\ k.sent <= Len(k.validTokens) /\ Matched(k)
  <2>1. Len(tokens) \in Nat
    BY <1>2, LenProperties
  <2>2. /\ k \in P!PushStates /\ k.on /\ k.validTokens = tokens
        /\ k.sent = P!NoPush.sent /\ k.tickets = P!NoPush.tickets /\ k.failed = P!NoPush.failed
    BY <1>2, NoPushIsPush DEF P!PushStates
  <2>. QED  BY <2>1, <2>2, NoPushIsPush DEF Matched
<1>4. push' = [push EXCEPT ![p] = k]
  BY <1>1 DEF PushesInv, Matched, P!Prepare
<1>5. UNCHANGED <<signedIn, uninstalled, signingOut, unsettled>>
      /\ tokenRow' = [t \in Tokens |-> IF t \in found \cap Malformed THEN None ELSE tokenRow[t]]
  BY DEF P!Prepare
<1>. HIDE DEF k
<1>6. P!TypeOK'
  BY <1>3, <1>4, <1>5, OnePushMoves DEF PushesInv, P!TypeOK
<1>7. \A q \in Pushers : Matched(push[q])'
  BY <1>3, <1>4, <1>5, OnePushMoves
<1>8. P!DevicesStayRegistered' /\ \A t \in uninstalled' : signedIn'[t] = None
  BY <1>5 DEF PushesInv, P!DevicesStayRegistered
<1>. QED  BY <1>6, <1>7, <1>8 DEF PushesInv

\* The tickets of a chunk tell of the tokens that its messages went to.
LEMMA ChunkAnswered ==
    ASSUME P!TypeOK, NEW p \in Pushers, Matched(push[p]), NEW last \in Nat, push[p].sent < last,
           last <= Len(push[p].validTokens)
    PROVE  LET tickets == push[p].tickets \o P!NewTickets(p, last) IN
           /\ tickets \in Seq(P!Tickets) /\ Len(tickets) <= last
           /\ ~push[p].failed =>
                 /\ Len(tickets) = last
                 /\ \A i \in 1..Len(tickets) :
                       tickets[i] = "gone" => push[p].validTokens[i] \in uninstalled
<1>. DEFINE k == push[p]
            chunk == P!NewTickets(p, last)
            tickets == k.tickets \o chunk
<1>1. /\ k.sent \in Nat /\ k.tickets \in Seq(P!Tickets) /\ Len(k.tickets) <= k.sent
      /\ Len(k.tickets) \in Nat
  BY LenProperties DEF P!TypeOK, P!PushStates
<1>2. last - k.sent \in Nat
  BY <1>1
<1>3. chunk \in [1 .. last - k.sent -> P!Tickets]
  BY DEF P!NewTickets, P!Tickets
<1>4. chunk \in Seq(P!Tickets) /\ Len(chunk) = last - k.sent
  BY <1>2, <1>3, FunctionIsSequence
<1>5. \A i \in 1 .. last - k.sent : chunk[i] = "gone" => k.validTokens[k.sent + i] \in uninstalled
  BY DEF P!NewTickets
<1>. HIDE DEF k, chunk
<1>6. /\ tickets \in Seq(P!Tickets) /\ Len(tickets) = Len(k.tickets) + Len(chunk)
      /\ \A i \in 1 .. Len(k.tickets) + Len(chunk) :
            tickets[i] = IF i <= Len(k.tickets) THEN k.tickets[i] ELSE chunk[i - Len(k.tickets)]
  <2>1. k.tickets \in Seq(P!Tickets) /\ chunk \in Seq(P!Tickets)
    BY <1>1, <1>4
  <2>. QED  BY <2>1, ConcatProperties
<1>. HIDE DEF tickets
<1>7. ASSUME ~k.failed, NEW i \in 1..Len(tickets), tickets[i] = "gone"
      PROVE  k.validTokens[i] \in uninstalled
  <2>1. Len(k.tickets) = k.sent /\ Matched(k)
    BY <1>7 DEF Matched, k
  <2>2. CASE i <= Len(k.tickets)
    <3>1. i \in 1..Len(k.tickets) /\ k.tickets[i] = "gone"
      BY <1>1, <1>4, <1>6, <1>7, <2>2
    <3>. QED  BY <1>7, <2>1, <3>1 DEF Matched
  <2>3. CASE ~(i <= Len(k.tickets))
    <3>1. i \in Nat /\ i <= k.sent + (last - k.sent) /\ i > k.sent
      BY <1>1, <1>2, <1>4, <1>6, <2>1, <2>3
    <3>2. i - k.sent \in 1 .. last - k.sent /\ k.sent + (i - k.sent) = i
      BY <1>1, <1>2, <3>1
    <3>3. chunk[i - k.sent] = "gone"
      BY <1>6, <1>7, <2>1, <2>3
    <3>. QED  BY <1>5, <3>2, <3>3
  <2>. QED  BY <2>2, <2>3
<1>8. Len(tickets) <= last /\ (~k.failed => Len(tickets) = last)
  <2>1. Len(tickets) = Len(k.tickets) + (last - k.sent)
    BY <1>4, <1>6
  <2>2. ~k.failed => Len(k.tickets) = k.sent
    BY DEF Matched, k
  <2>. QED  BY <1>1, <1>2, <2>1, <2>2
<1>. QED  BY <1>6, <1>7, <1>8 DEF tickets, chunk, k

LEMMA SendChunkStep ==
    ASSUME PushesInv, NEW p \in Pushers, NEW fails \in BOOLEAN, P!SendChunk(p, fails)
    PROVE  PushesInv'
<1>. DEFINE k == push[p]
            last == P!LastOfChunk(p)
            tickets == IF fails THEN k.tickets ELSE k.tickets \o P!NewTickets(p, last)
            j == [k EXCEPT !.sent = last, !.failed = @ \/ fails, !.tickets = tickets]
<1>1. /\ k \in P!PushStates /\ k.on /\ Matched(k) /\ Len(k.tickets) <= k.sent
      /\ k.sent < Len(k.validTokens) /\ push' = [push EXCEPT ![p] = j]
      /\ UNCHANGED <<tokenRow, signedIn, uninstalled, signingOut, unsettled>>
  BY DEF PushesInv, P!TypeOK, P!SendChunk
<1>2. Len(k.validTokens) \in Nat /\ Len(k.tickets) \in Nat
  BY <1>1, LenProperties DEF P!PushStates
<1>3. last \in Nat /\ k.sent < last /\ last <= Len(k.validTokens)
  BY <1>1, <1>2, PushConstants DEF P!LastOfChunk, P!PushStates, P!PushesAssumption
<1>. HIDE DEF last
<1>4. /\ tickets \in Seq(P!Tickets) /\ Len(tickets) <= last
      /\ ~k.failed /\ ~fails =>
            /\ Len(tickets) = last
            /\ \A i \in 1..Len(tickets) : tickets[i] = "gone" => k.validTokens[i] \in uninstalled
  <2>1. CASE fails
    BY <1>1, <1>2, <1>3, <2>1 DEF P!PushStates
  <2>2. CASE ~fails
    BY <1>1, <1>3, <2>2, ChunkAnswered DEF PushesInv
  <2>. QED  BY <2>1, <2>2
<1>. HIDE DEF tickets
<1>5. j.on /\ j.sent = last /\ j.tickets = tickets /\ j.validTokens = k.validTokens
      /\ j.failed = (k.failed \/ fails) /\ j \in P!PushStates
  BY <1>1, <1>3, <1>4 DEF P!PushStates
<1>. HIDE DEF j
<1>6. Matched(j)
  BY <1>4, <1>5 DEF Matched
<1>7. P!TypeOK' /\ \A q \in Pushers : Matched(push[q])'
  BY <1>1, <1>3, <1>4, <1>5, <1>6, OnePushMoves DEF PushesInv, P!TypeOK
<1>8. P!DevicesStayRegistered' /\ \A t \in uninstalled' : signedIn'[t] = None
  BY <1>1 DEF PushesInv, P!DevicesStayRegistered
<1>. QED  BY <1>7, <1>8 DEF PushesInv

LEMMA PruneStep ==
    ASSUME PushesInv, NEW p \in Pushers, P!Prune(p)
    PROVE  PushesInv'
<1>. DEFINE k == push[p]
            bad == {k.validTokens[i] : i \in {j \in DOMAIN k.tickets : k.tickets[j] = "gone"}}
<1>1. /\ tokenRow' = [t \in Tokens |-> IF t \in bad THEN None ELSE tokenRow[t]]
      /\ unsettled' = IF k.failed THEN unsettled \cup bad ELSE unsettled
      /\ push' = [push EXCEPT ![p] = P!NoPush]
      /\ UNCHANGED <<signedIn, uninstalled, signingOut>>
  BY DEF P!Prune
<1>2. /\ k \in P!PushStates /\ Matched(k)
      /\ Len(k.tickets) <= Len(k.validTokens)
  BY DEF PushesInv, P!TypeOK, P!PushStates
<1>3. \A i \in DOMAIN k.tickets : i \in 1..Len(k.tickets) /\ k.validTokens[i] \in Tokens
  BY <1>2 DEF P!PushStates
<1>4. bad \subseteq Tokens
  BY <1>3
<1>5. ~k.failed => bad \subseteq uninstalled
  BY <1>2, <1>3 DEF Matched
<1>. HIDE DEF bad
<1>6. /\ push' \in [Pushers -> P!PushStates]
      /\ \A q \in Pushers : /\ Len(push'[q].tickets) <= push'[q].sent
                            /\ push'[q].sent <= Len(push'[q].validTokens)
                            /\ Matched(push[q])'
  <2>1. Len(P!NoPush.tickets) <= P!NoPush.sent /\ P!NoPush.sent <= Len(P!NoPush.validTokens)
    BY NoPushIsPush
  <2>. QED  BY <1>1, <2>1, NoPushIsPush, OnePushMoves
<1>7. P!DevicesStayRegistered' /\ \A t \in uninstalled' : signedIn'[t] = None
  BY <1>1, <1>4, <1>5 DEF PushesInv, P!TypeOK, P!DevicesStayRegistered
<1>8. tokenRow' \in [Tokens -> PushUsers \cup {None}] /\ unsettled' \subseteq Tokens
  BY <1>1, <1>4 DEF PushesInv, P!TypeOK
<1>. QED  BY <1>1, <1>6, <1>7, <1>8 DEF PushesInv, P!TypeOK

LEMMA PushesStep == PushesInv /\ [P!Next]_(P!vars) => PushesInv'
<1>. SUFFICES ASSUME PushesInv, [P!Next]_(P!vars) PROVE PushesInv'
  OBVIOUS
<1>1. ASSUME NEW p \in Pushers, P!Send(p) PROVE PushesInv'
  BY <1>1, PrepareStep, SendChunkStep, PruneStep DEF P!Send
<1>2. CASE UNCHANGED P!vars
  BY <1>2 DEF P!vars, PushesInv, P!TypeOK, P!DevicesStayRegistered, Matched
<1>. QED  BY <1>1, <1>2, DeviceStep DEF P!Next

LEMMA PushesAtFirst == P!Init => PushesInv
<1>. SUFFICES ASSUME P!Init PROVE PushesInv
  OBVIOUS
<1>1. P!TypeOK /\ \A p \in Pushers : Matched(push[p])
  BY NoPushIsPush DEF P!Init, P!TypeOK
<1>. QED  BY <1>1 DEF P!Init, PushesInv, P!DevicesStayRegistered

LEMMA PushesInvHolds == P!Spec => []PushesInv
  BY PushesAtFirst, PushesStep, PTL DEF P!Spec

-----------------------------------------------------------------------------
(* The invariant of the files.                                             *)

Unsaved == {"off", "ready", "queued", "optimise", "put"}

Signing == {"sign", "fulfilled", "rejected"}

\* How far the file f has got goes with its row, its objects and its batch.
Progress(f) ==
    /\ batch = "off" => upload[f] = "off"
    /\ batch \notin {"off", "uploading"} => upload[f] \in {"off", "fulfilled", "rejected"}
    /\ batch = "done" => upload[f] # "rejected"
    /\ upload[f] \notin Signing => fileRow[f] = F!NoRow
    /\ upload[f] \in Unsaved => stored[f] = {}
    /\ upload[f] = "create" => "full" \in stored[f] \/ f \in lost \cup stuck
    /\ upload[f] \in {"sign", "fulfilled"} /\ batch \in {"uploading", "done"} =>
          fileRow[f] # F!NoRow

\* What was rolled back is gone.
RolledBack(f) == f \notin stuck =>
    /\ batch \in {"files", "failed"} => fileRow[f] = F!NoRow
    /\ batch = "failed" => stored[f] = {}

\* A row knows of its preview, and lives as long as its file is there.
Faithful(f) ==
    /\ fileRow[f].state = "none" => fileRow[f] = F!NoRow
    /\ "preview" \in stored[f] /\ fileRow[f] # F!NoRow => fileRow[f].preview
    /\ f \notin stuck => stored[f] # {"preview"}
    /\ f \notin lost \cup stuck /\ fileRow[f] # F!NoRow =>
          \/ "full" \in stored[f] /\ fileRow[f].state = "live"
          \/ /\ stored[f] = {} /\ f \in asked
             /\ fileRow[f].state = "deleted" \/ F!BeingRemoved(f)

\* What a request has read of a file stays true of what is left of it.
Knowing(k) == k.pc # "idle" =>
    /\ upload[k.file] \in Signing
    /\ "preview" \in stored[k.file] => k.preview
    /\ k.pc = "heal" => "full" \notin stored[k.file]
    /\ k.pc = "mark" => "full" \notin stored[k.file] \/ k.file \in stuck
    /\ k.pc \in {"remove", "mark"} => k.file \in asked

\* Who waits waits once, and only while all slots are taken.
Waiting ==
    /\ \A i \in 1..Len(queue) : upload[queue[i]] = "queued"
    /\ \A i, j \in 1..Len(queue) : queue[i] = queue[j] => i = j
    /\ Cardinality(F!At("optimise")) <= Slots
    /\ queue # <<>> => Cardinality(F!At("optimise")) = Slots

FilesInv ==
    /\ F!TypeOK
    /\ \A f \in FileIds : Progress(f) /\ RolledBack(f) /\ Faithful(f)
    /\ \A r \in Readers : Knowing(reader[r])
    /\ Waiting

-----------------------------------------------------------------------------
(* Slots and the queue.                                                    *)

\* Finite sets are those of FiniteSets, in the instance too.
LEMMA FileSizes ==
    /\ IsFiniteSet(FileIds)
    /\ \A S : (IsFiniteSet(S) <=> F!IsFiniteSet(S)) /\ Cardinality(S) = F!Cardinality(S)
  BY FileConstants DEF IsFiniteSet, Cardinality, F!IsFiniteSet, F!Cardinality, F!FilesAssumption

LEMMA FinitelyOptimised ==
    /\ IsFiniteSet(F!At("optimise")) /\ Cardinality(F!At("optimise")) \in Nat
  BY FileSizes, FS_Subset, FS_CardinalityType DEF F!At

\* A queue without repetitions is no longer than there are files.
LEMMA QueueFits ==
    ASSUME NEW q \in Seq(FileIds), \A i, j \in 1..Len(q) : q[i] = q[j] => i = j
    PROVE  Len(q) <= Cardinality(FileIds)
<1>1. q \in Injection(1..Len(q), FileIds)
  BY DEF Injection, IsInjective
<1>2. Len(q) \in Nat /\ Cardinality(1..Len(q)) = Len(q)
  BY FS_Interval
<1>. QED  BY <1>1, <1>2, FileSizes, FS_Injection

\* The queue and the slots stay as they are while a file that neither waits nor
\* is optimised moves on.
LEMMA SlotsStay ==
    ASSUME F!TypeOK, Waiting, UNCHANGED queue, NEW f \in FileIds, NEW pc,
           upload' = [upload EXCEPT ![f] = pc],
           upload[f] \notin {"queued", "optimise"}, pc \notin {"queued", "optimise"}
    PROVE  Waiting'
<1>1. F!At("optimise")' = F!At("optimise")
  BY DEF F!At, F!TypeOK
<1>2. \A i \in 1..Len(queue) : queue[i] \in FileIds
  BY DEF F!TypeOK
<1>. QED  BY <1>1, <1>2 DEF Waiting, F!TypeOK

LEMMA SlotsUntouched ==
    ASSUME Waiting, UNCHANGED <<queue, upload>>
    PROVE  Waiting'
  BY DEF Waiting, F!At

\* Before a batch begins nobody waits.
LEMMA SlotsAtFirst ==
    ASSUME FilesInv, NEW files \in SUBSET FileIds, F!UploadMany(files)
    PROVE  Waiting'
<1>1. \A g \in FileIds : upload[g] = "off" /\ upload'[g] \in {"ready", "off"}
  BY DEF FilesInv, Progress, F!UploadMany
<1>2. F!At("optimise") = {} /\ F!At("optimise")' = {}
  BY <1>1 DEF F!At
<1>3. Len(queue) \in Nat /\ \A i \in 1..Len(queue) : queue[i] \in FileIds
  BY DEF FilesInv, F!TypeOK
<1>4. Len(queue) = 0
  <2>1. 1 \notin 1..Len(queue)
    BY <1>1, <1>3 DEF FilesInv, Waiting
  <2>. QED  BY <1>3, <2>1
<1>5. queue' = <<>> /\ Len(queue') = 0
  BY <1>4 DEF FilesInv, F!TypeOK, F!UploadMany
<1>6. Cardinality(F!At("optimise")') <= Slots
  BY <1>2 DEF FilesInv, Waiting
<1>. QED  BY <1>5, <1>6 DEF Waiting

\* Who asks for a slot takes a free one, or is the last to wait.
LEMMA SlotAsked ==
    ASSUME FilesInv, NEW f \in FileIds, F!AskSlot(f)
    PROVE  Waiting' /\ queue' \in Seq(FileIds)
<1>1. upload[f] = "ready" /\ upload \in [FileIds -> F!Uploads] /\ queue \in Seq(FileIds)
  BY DEF FilesInv, F!TypeOK, F!AskSlot
<1>2. \A i \in 1..Len(queue) : queue[i] \in FileIds /\ queue[i] # f
  BY <1>1 DEF FilesInv, Waiting
<1>3. Slots \in Nat
  BY FileConstants DEF F!FilesAssumption
<1>4. CASE Cardinality(F!At("optimise")) >= Slots
  <2>1. upload' = [upload EXCEPT ![f] = "queued"] /\ queue' = Append(queue, f)
    BY <1>4, FileSizes DEF F!AskSlot, F!Goes
  <2>2. F!At("optimise")' = F!At("optimise")
    BY <1>1, <2>1 DEF F!At
  <2>3. Cardinality(F!At("optimise")) = Slots
    BY <1>3, <1>4, FinitelyOptimised DEF FilesInv, Waiting
  <2>4. /\ queue' \in Seq(FileIds) /\ Len(queue') = Len(queue) + 1 /\ queue'[Len(queue) + 1] = f
        /\ \A i \in 1..Len(queue) : queue'[i] = queue[i]
    BY <1>1, <2>1
  <2>5. \A i \in 1..Len(queue') : i \in 1..Len(queue) \/ i = Len(queue) + 1
    BY <1>1, <2>4
  <2>6. \A i \in 1..Len(queue') : upload'[queue'[i]] = "queued"
    BY <1>1, <1>2, <2>1, <2>4, <2>5 DEF FilesInv, Waiting
  <2>7. \A i, j \in 1..Len(queue') : queue'[i] = queue'[j] => i = j
    BY <1>2, <2>4, <2>5 DEF FilesInv, Waiting
  <2>. QED  BY <1>3, <2>2, <2>3, <2>4, <2>6, <2>7 DEF Waiting
<1>5. CASE ~(Cardinality(F!At("optimise")) >= Slots)
  <2>1. upload' = [upload EXCEPT ![f] = "optimise"] /\ queue' = queue
    BY <1>5, FileSizes DEF F!AskSlot, F!Goes
  <2>2. F!At("optimise")' = F!At("optimise") \cup {f} /\ f \notin F!At("optimise")
    BY <1>1, <2>1 DEF F!At
  <2>3. Cardinality(F!At("optimise")') = Cardinality(F!At("optimise")) + 1
    BY <2>2, FinitelyOptimised, FS_AddElement
  <2>4. queue = <<>>
    BY <1>3, <1>5, FinitelyOptimised DEF FilesInv, Waiting
  <2>. QED  BY <1>1, <1>3, <1>5, <2>1, <2>3, <2>4, FinitelyOptimised DEF Waiting
<1>. QED  BY <1>4, <1>5

\* The slot of f goes to the first who waits.
LEMMA SlotFreed ==
    ASSUME FilesInv, NEW f \in FileIds, F!FreeSlot(f)
    PROVE  Waiting' /\ queue' \in Seq(FileIds)
<1>1. upload[f] = "optimise" /\ upload \in [FileIds -> F!Uploads] /\ queue \in Seq(FileIds)
  BY DEF FilesInv, F!TypeOK, F!FreeSlot
<1>2. \A i \in 1..Len(queue) : queue[i] \in FileIds /\ upload[queue[i]] = "queued"
  BY <1>1 DEF FilesInv, Waiting
<1>3. Slots \in Nat /\ f \in F!At("optimise")
  BY <1>1, FileConstants DEF F!FilesAssumption, F!At
<1>4. Cardinality(F!At("optimise") \ {f}) = Cardinality(F!At("optimise")) - 1
      /\ IsFiniteSet(F!At("optimise") \ {f})
  BY <1>3, FinitelyOptimised, FS_RemoveElement
<1>5. CASE queue = <<>>
  <2>1. F!At("optimise")' = F!At("optimise") \ {f} /\ queue' = <<>>
    BY <1>1, <1>5 DEF F!At, F!FreeSlot
  <2>2. Cardinality(F!At("optimise")') = Cardinality(F!At("optimise")) - 1
    BY <1>4, <2>1
  <2>3. Cardinality(F!At("optimise")) \in Nat /\ Cardinality(F!At("optimise")) <= Slots
    BY FinitelyOptimised DEF FilesInv, Waiting
  <2>. QED  BY <1>3, <2>1, <2>2, <2>3 DEF Waiting
<1>6. CASE queue # <<>>
  <2>. DEFINE h == Head(queue)
  <2>1. Len(queue) \in Nat /\ Len(queue) > 0 /\ h = queue[1] /\ h \in FileIds
        /\ upload[h] = "queued"
    BY <1>1, <1>2, <1>6
  <2>2. queue' = Tail(queue)
    BY <1>6 DEF F!FreeSlot
  <2>3. /\ queue' \in Seq(FileIds) /\ Len(queue') = Len(queue) - 1
        /\ \A i \in 1..Len(queue') : queue'[i] = queue[i + 1]
    BY <1>1, <1>6, <2>2
  <2>4. F!At("optimise")' = (F!At("optimise") \ {f}) \cup {h} /\ h \notin F!At("optimise") \ {f}
    BY <1>1, <1>6, <2>1 DEF F!At, F!FreeSlot
  <2>5. Cardinality(F!At("optimise")') = Cardinality(F!At("optimise"))
    <3>1. Cardinality((F!At("optimise") \ {f}) \cup {h}) = Cardinality(F!At("optimise") \ {f}) + 1
      BY <1>4, <2>4, FS_AddElement
    <3>2. Cardinality(F!At("optimise")') = Cardinality(F!At("optimise") \ {f}) + 1
      BY <2>4, <3>1
    <3>3. Cardinality(F!At("optimise")) \in Nat
      BY FinitelyOptimised
    <3>. QED  BY <1>4, <3>2, <3>3
  <2>6. \A i \in 1..Len(queue') : i + 1 \in 1..Len(queue)
    BY <2>1, <2>3
  <2>7. \A i, j \in 1..Len(queue') : queue'[i] = queue'[j] => i = j
    <3>. SUFFICES ASSUME NEW i \in 1..Len(queue'), NEW j \in 1..Len(queue'),
                         queue'[i] = queue'[j]
                  PROVE  i = j
      OBVIOUS
    <3>1. i + 1 = j + 1
      BY <2>3, <2>6 DEF FilesInv, Waiting
    <3>. QED  BY <3>1
  <2>8. \A i \in 1..Len(queue') : upload'[queue'[i]] = "queued"
    <3>. SUFFICES ASSUME NEW i \in 1..Len(queue')
                  PROVE  upload'[queue'[i]] = "queued"
      OBVIOUS
    <3>1. queue'[i] = queue[i + 1] /\ queue[i + 1] \in FileIds /\ upload[queue[i + 1]] = "queued"
      BY <1>2, <2>3, <2>6
    <3>2. i + 1 # 1 /\ 1 \in 1..Len(queue)
      BY <2>1
    <3>3. queue[i + 1] # h
      BY <2>1, <2>6, <3>2 DEF FilesInv, Waiting
    <3>. QED  BY <1>1, <1>6, <3>1, <3>3 DEF F!FreeSlot
  <2>. QED  BY <1>6, <2>3, <2>5, <2>7, <2>8 DEF FilesInv, Waiting
<1>. QED  BY <1>5, <1>6

-----------------------------------------------------------------------------
(* Steps of the files.                                                     *)

LEMMA UploadManyStep ==
    ASSUME FilesInv, NEW files \in SUBSET FileIds, F!UploadMany(files)
    PROVE  FilesInv'
<1>1. F!TypeOK'
  BY DEF FilesInv, F!TypeOK, F!Uploads, F!UploadMany
<1>2. ASSUME NEW g \in FileIds PROVE Progress(g)'
  BY DEF FilesInv, Progress, Unsaved, Signing, F!UploadMany
<1>3. ASSUME NEW g \in FileIds PROVE RolledBack(g)'
  BY DEF RolledBack, F!UploadMany
<1>4. ASSUME NEW g \in FileIds PROVE Faithful(g)'
  BY DEF FilesInv, Progress, Faithful, Signing, F!UploadMany
<1>5. ASSUME NEW q \in Readers PROVE Knowing(reader[q])'
  BY DEF FilesInv, F!TypeOK, Progress, Knowing, Signing, F!UploadMany
<1>6. Waiting'
  BY SlotsAtFirst
<1>. QED  BY <1>1, <1>2, <1>3, <1>4, <1>5, <1>6 DEF FilesInv

LEMMA AskSlotStep ==
    ASSUME FilesInv, NEW f \in FileIds, F!AskSlot(f)
    PROVE  FilesInv'
<1>1. F!TypeOK'
  <2>1. Len(queue') <= Cardinality(FileIds)
    BY SlotAsked, QueueFits, FileSizes DEF Waiting
  <2>. QED  BY <2>1, SlotAsked, FileSizes DEF FilesInv, F!TypeOK, F!Uploads, F!AskSlot, F!Goes
<1>2. ASSUME NEW g \in FileIds PROVE Progress(g)'
  BY DEF FilesInv, F!TypeOK, Progress, Unsaved, Signing, F!AskSlot, F!Goes
<1>3. ASSUME NEW g \in FileIds PROVE RolledBack(g)'
  BY DEF FilesInv, RolledBack, F!AskSlot
<1>4. ASSUME NEW g \in FileIds PROVE Faithful(g)'
  BY DEF FilesInv, Faithful, F!BeingRemoved, F!AskSlot
<1>5. ASSUME NEW q \in Readers PROVE Knowing(reader[q])'
  BY DEF FilesInv, F!TypeOK, Knowing, Signing, F!AskSlot, F!Goes
<1>6. Waiting'
  BY SlotAsked
<1>. QED  BY <1>1, <1>2, <1>3, <1>4, <1>5, <1>6 DEF FilesInv

LEMMA FreeSlotStep ==
    ASSUME FilesInv, NEW f \in FileIds, F!FreeSlot(f)
    PROVE  FilesInv'
<1>0. queue # <<>> => Head(queue) \in FileIds /\ upload[Head(queue)] = "queued"
  <2>1. queue # <<>> => 1 \in 1..Len(queue) /\ Head(queue) = queue[1] /\ queue[1] \in FileIds
    BY DEF FilesInv, F!TypeOK
  <2>. QED  BY <2>1 DEF FilesInv, Waiting
<1>1. F!TypeOK'
  <2>1. Len(queue') <= Cardinality(FileIds)
    BY SlotFreed, QueueFits, FileSizes DEF Waiting
  <2>. QED  BY <2>1, SlotFreed, FileSizes DEF FilesInv, F!TypeOK, F!Uploads, F!FreeSlot
<1>2. ASSUME NEW g \in FileIds PROVE Progress(g)'
  BY <1>0 DEF FilesInv, Progress, Unsaved, Signing, F!FreeSlot
<1>3. ASSUME NEW g \in FileIds PROVE RolledBack(g)'
  BY <1>0 DEF FilesInv, RolledBack, F!FreeSlot
<1>4. ASSUME NEW g \in FileIds PROVE Faithful(g)'
  BY <1>0 DEF FilesInv, Faithful, F!BeingRemoved, F!FreeSlot
<1>5. ASSUME NEW q \in Readers PROVE Knowing(reader[q])'
  BY <1>0 DEF FilesInv, F!TypeOK, Knowing, Signing, F!FreeSlot
<1>6. Waiting'
  BY SlotFreed
<1>. QED  BY <1>1, <1>2, <1>3, <1>4, <1>5, <1>6 DEF FilesInv

LEMMA PutStep ==
    ASSUME FilesInv, NEW f \in FileIds, NEW landed \in SUBSET F!Parts, NEW fails \in BOOLEAN,
           F!Put(f, landed, fails)
    PROVE  FilesInv'
<1>1. F!TypeOK'
  BY DEF FilesInv, F!TypeOK, F!Uploads, F!Put, F!Goes
<1>2. ASSUME NEW g \in FileIds PROVE Progress(g)'
  BY DEF FilesInv, F!TypeOK, Progress, Unsaved, Signing, F!Put, F!Goes
<1>3. ASSUME NEW g \in FileIds PROVE RolledBack(g)'
  BY DEF FilesInv, Progress, RolledBack, F!Put
<1>4. ASSUME NEW g \in FileIds PROVE Faithful(g)'
  BY DEF FilesInv, Progress, Faithful, Signing, F!BeingRemoved, F!Put
<1>5. ASSUME NEW q \in Readers PROVE Knowing(reader[q])'
  BY DEF FilesInv, Knowing, Signing, F!Put, F!Goes
<1>6. Waiting'
  <2>1. UNCHANGED queue /\ upload[f] = "put"
    BY DEF F!Put
  <2>2. PICK pc \in {"create", "rejected"} : upload' = [upload EXCEPT ![f] = pc]
    BY DEF F!Put, F!Goes
  <2>. QED  BY <2>1, <2>2, SlotsStay DEF FilesInv
<1>. QED  BY <1>1, <1>2, <1>3, <1>4, <1>5, <1>6 DEF FilesInv

LEMMA CreateRowStep ==
    ASSUME FilesInv, NEW f \in FileIds, F!CreateRow(f)
    PROVE  FilesInv'
<1>1. F!TypeOK'
  BY DEF FilesInv, F!TypeOK, F!Uploads, F!CreateRow, F!Goes
<1>2. ASSUME NEW g \in FileIds PROVE Progress(g)'
  BY DEF FilesInv, F!TypeOK, Progress, Unsaved, Signing, F!NoRow, F!CreateRow, F!Goes
<1>3. ASSUME NEW g \in FileIds PROVE RolledBack(g)'
  BY DEF FilesInv, Progress, RolledBack, F!CreateRow
<1>4. ASSUME NEW g \in FileIds PROVE Faithful(g)'
  BY DEF FilesInv, F!TypeOK, Progress, Faithful, F!BeingRemoved, F!CreateRow
<1>5. ASSUME NEW q \in Readers PROVE Knowing(reader[q])'
  BY DEF FilesInv, Knowing, Signing, F!CreateRow, F!Goes
<1>6. Waiting'
  BY SlotsStay DEF FilesInv, F!CreateRow, F!Goes
<1>. QED  BY <1>1, <1>2, <1>3, <1>4, <1>5, <1>6 DEF FilesInv

LEMMA SignUploadStep ==
    ASSUME FilesInv, NEW f \in FileIds, F!SignNew(f)
    PROVE  FilesInv'
<1>1. F!TypeOK'
  BY DEF FilesInv, F!TypeOK, F!Uploads, F!SignNew, F!Goes
<1>2. ASSUME NEW g \in FileIds PROVE Progress(g)'
  BY DEF FilesInv, Progress, Unsaved, Signing, F!SignNew, F!Goes
<1>3. ASSUME NEW g \in FileIds PROVE RolledBack(g)'
  BY DEF FilesInv, RolledBack, F!SignNew
<1>4. ASSUME NEW g \in FileIds PROVE Faithful(g)'
  BY DEF FilesInv, Faithful, F!BeingRemoved, F!SignNew
<1>5. ASSUME NEW q \in Readers PROVE Knowing(reader[q])'
  BY DEF FilesInv, Knowing, Signing, F!SignNew, F!Goes
<1>6. Waiting'
  BY SlotsStay DEF FilesInv, F!SignNew, F!Goes
<1>. QED  BY <1>1, <1>2, <1>3, <1>4, <1>5, <1>6 DEF FilesInv

LEMMA RejectStep ==
    ASSUME FilesInv, NEW f \in FileIds, F!Reject(f)
    PROVE  FilesInv'
<1>1. F!TypeOK'
  BY DEF FilesInv, F!TypeOK, F!Uploads, F!Reject, F!Goes
<1>2. ASSUME NEW g \in FileIds PROVE Progress(g)'
  BY DEF FilesInv, Progress, Unsaved, Signing, F!Reject, F!Goes
<1>3. ASSUME NEW g \in FileIds PROVE RolledBack(g)'
  BY DEF FilesInv, RolledBack, F!Reject
<1>4. ASSUME NEW g \in FileIds PROVE Faithful(g)'
  BY DEF FilesInv, Faithful, F!BeingRemoved, F!Reject
<1>5. ASSUME NEW q \in Readers PROVE Knowing(reader[q])'
  BY DEF FilesInv, Knowing, Signing, F!Reject, F!Goes
<1>6. Waiting'
  BY SlotsStay DEF FilesInv, F!Reject, F!Goes
<1>. QED  BY <1>1, <1>2, <1>3, <1>4, <1>5, <1>6 DEF FilesInv

LEMMA SettleStep ==
    ASSUME FilesInv, F!Settle
    PROVE  FilesInv'
<1>1. F!TypeOK'
  BY DEF FilesInv, F!TypeOK, F!Settle
<1>2. ASSUME NEW g \in FileIds PROVE Progress(g)'
  BY DEF FilesInv, Progress, F!Settle, F!At
<1>3. ASSUME NEW g \in FileIds PROVE RolledBack(g)'
  BY DEF RolledBack, F!Settle
<1>4. ASSUME NEW g \in FileIds PROVE Faithful(g)'
  BY DEF FilesInv, Faithful, F!BeingRemoved, F!Settle
<1>5. ASSUME NEW q \in Readers PROVE Knowing(reader[q])'
  BY DEF FilesInv, Knowing, F!Settle
<1>6. Waiting'
  BY SlotsUntouched DEF FilesInv, F!Settle, F!At
<1>. QED  BY <1>1, <1>2, <1>3, <1>4, <1>5, <1>6 DEF FilesInv

LEMMA RollBackRowsStep ==
    ASSUME FilesInv, NEW fails \in BOOLEAN, F!RollBackRows(fails)
    PROVE  FilesInv'
<1>1. F!TypeOK'
  BY DEF FilesInv, F!TypeOK, F!NoRow, F!RollBackRows
<1>2. ASSUME NEW g \in FileIds PROVE Progress(g)'
  BY DEF FilesInv, Progress, F!RollBackRows
<1>3. ASSUME NEW g \in FileIds PROVE RolledBack(g)'
  BY DEF FilesInv, Faithful, RolledBack, F!RollBackRows
<1>4. ASSUME NEW g \in FileIds PROVE Faithful(g)'
  BY DEF FilesInv, Faithful, F!RollBackRows
<1>5. ASSUME NEW q \in Readers PROVE Knowing(reader[q])'
  BY DEF FilesInv, Knowing, F!RollBackRows
<1>6. Waiting'
  BY SlotsUntouched DEF FilesInv, F!RollBackRows
<1>. QED  BY <1>1, <1>2, <1>3, <1>4, <1>5, <1>6 DEF FilesInv

LEMMA RollBackFilesStep ==
    ASSUME FilesInv, NEW failing \in SUBSET FileIds, F!RollBackFiles(failing)
    PROVE  FilesInv'
<1>1. F!TypeOK'
  BY DEF FilesInv, F!TypeOK, F!RollBackFiles
<1>2. ASSUME NEW g \in FileIds PROVE Progress(g)'
  BY DEF FilesInv, Progress, F!RollBackFiles
<1>3. ASSUME NEW g \in FileIds PROVE RolledBack(g)'
  BY DEF FilesInv, F!TypeOK, Faithful, RolledBack, Unsaved, F!RollBackFiles, F!Parts
<1>4. ASSUME NEW g \in FileIds PROVE Faithful(g)'
  BY DEF FilesInv, Faithful, RolledBack, F!RollBackFiles
<1>5. ASSUME NEW q \in Readers PROVE Knowing(reader[q])'
  BY DEF FilesInv, F!TypeOK, Knowing, F!RollBackFiles
<1>6. Waiting'
  BY SlotsUntouched DEF FilesInv, F!RollBackFiles, F!Parts
<1>. QED  BY <1>1, <1>2, <1>3, <1>4, <1>5, <1>6 DEF FilesInv

LEMMA ListStep ==
    ASSUME FilesInv, NEW r \in Readers, NEW f \in FileIds, F!List(r, f)
    PROVE  FilesInv'
<1>1. F!TypeOK'
  BY DEF FilesInv, F!TypeOK, F!List, F!Read
<1>2. ASSUME NEW g \in FileIds PROVE Progress(g)'
  BY DEF FilesInv, Progress, F!List
<1>3. ASSUME NEW g \in FileIds PROVE RolledBack(g)'
  BY DEF FilesInv, RolledBack, F!List
<1>4. ASSUME NEW g \in FileIds PROVE Faithful(g)'
  BY DEF FilesInv, Faithful, F!BeingRemoved, F!List, F!Read
<1>5. ASSUME NEW q \in Readers PROVE Knowing(reader[q])'
  BY DEF FilesInv, Progress, Faithful, Knowing, F!NoRow, F!List, F!Read
<1>6. Waiting'
  BY SlotsUntouched DEF FilesInv, F!List, F!Read
<1>. QED  BY <1>1, <1>2, <1>3, <1>4, <1>5, <1>6 DEF FilesInv

LEMMA SignOrHealStep ==
    ASSUME FilesInv, NEW r \in Readers, NEW outage \in BOOLEAN, F!SignOrHeal(r, outage)
    PROVE  FilesInv'
<1>. DEFINE f == reader[r].file
<1>0. f \in FileIds /\ reader[r] \in [pc : {"idle", "list", "heal", "remove", "mark"},
                                      file : FileIds, preview : BOOLEAN]
  BY DEF FilesInv, F!TypeOK
<1>1. F!TypeOK'
  BY <1>0 DEF FilesInv, F!TypeOK, F!NoReader, F!SignOrHeal, F!Proceeds
<1>2. ASSUME NEW g \in FileIds PROVE Progress(g)'
  BY <1>0 DEF FilesInv, Progress, F!SignOrHeal
<1>3. ASSUME NEW g \in FileIds PROVE RolledBack(g)'
  BY <1>0 DEF FilesInv, RolledBack, F!SignOrHeal
<1>4. ASSUME NEW g \in FileIds PROVE Faithful(g)'
  BY <1>0 DEF FilesInv, Faithful, F!BeingRemoved, F!SignOrHeal, F!Proceeds
<1>5. ASSUME NEW q \in Readers PROVE Knowing(reader[q])'
  BY <1>0 DEF FilesInv, Knowing, F!NoReader, F!SignOrHeal, F!Proceeds
<1>6. Waiting'
  BY SlotsUntouched DEF FilesInv, F!SignOrHeal, F!Proceeds
<1>. QED  BY <1>1, <1>2, <1>3, <1>4, <1>5, <1>6 DEF FilesInv

LEMMA MarkDeletedStep ==
    ASSUME FilesInv, NEW r \in Readers, NEW fails \in BOOLEAN, F!MarkDeleted(r, fails)
    PROVE  FilesInv'
<1>. DEFINE f == reader[r].file
            marks == reader[r].pc = "mark"
<1>1. f \in FileIds /\ ("full" \in stored[f] => f \in stuck)
  BY DEF FilesInv, F!TypeOK, Knowing, F!MarkDeleted
<1>2. /\ UNCHANGED <<batch, upload, queue, stored, asked, lost>>
      /\ stuck \subseteq stuck' /\ (fails /\ marks => f \in stuck')
  BY DEF F!MarkDeleted
<1>3. F!TypeOK'
  BY <1>1 DEF FilesInv, F!TypeOK, F!NoReader, F!MarkDeleted, F!Proceeds
<1>4. \A g \in FileIds : F!BeingRemoved(g) => F!BeingRemoved(g)' \/ (g = f /\ marks)
  BY DEF F!BeingRemoved, F!MarkDeleted, F!Proceeds
<1>5. ASSUME NEW g \in FileIds, fileRow'[g] = fileRow[g],
             g = f /\ marks => fails \/ fileRow[g].state # "live"
      PROVE  Progress(g)' /\ RolledBack(g)' /\ Faithful(g)'
  <2>1. Progress(g) /\ RolledBack(g) /\ Faithful(g)
    BY DEF FilesInv
  <2>2. Progress(g)' /\ RolledBack(g)'
    BY <1>2, <1>5, <2>1 DEF Progress, RolledBack
  <2>3. f = g /\ marks => fails \/ fileRow[g] = F!NoRow \/ fileRow[g].state = "deleted"
    BY <1>5, <2>1 DEF FilesInv, F!TypeOK, Faithful
  <2>. QED  BY <1>2, <1>4, <1>5, <2>1, <2>2, <2>3 DEF Faithful
<1>6. ASSUME fails \/ fileRow[f].state = "none", NEW g \in FileIds
      PROVE  Progress(g)' /\ RolledBack(g)' /\ Faithful(g)'
  <2>1. fileRow' = fileRow
    BY <1>6 DEF F!MarkDeleted
  <2>. QED  BY <1>5, <1>6, <2>1
<1>7. ASSUME ~fails, fileRow[f].state # "none", NEW g \in FileIds
      PROVE  Progress(g)' /\ RolledBack(g)' /\ Faithful(g)'
  <2>1. CASE g # f
    <3>1. fileRow'[g] = fileRow[g]
      BY <1>7, <2>1 DEF F!MarkDeleted
    <3>. QED  BY <1>5, <2>1, <3>1
  <2>2. CASE g = f
    <3>1. /\ fileRow[g] # F!NoRow /\ fileRow'[g] # F!NoRow
          /\ fileRow'[g].state = "deleted" /\ fileRow'[g].preview = fileRow[g].preview
      BY <1>1, <1>7, <2>2 DEF FilesInv, F!TypeOK, F!NoRow, F!MarkDeleted
    <3>2. Progress(g) /\ RolledBack(g) /\ Faithful(g)
      BY DEF FilesInv
    <3>3. Progress(g)' /\ RolledBack(g)'
      BY <1>2, <3>1, <3>2 DEF Progress, RolledBack
    <3>. QED  BY <1>1, <1>2, <2>2, <3>1, <3>2, <3>3 DEF Faithful
  <2>. QED  BY <2>1, <2>2
<1>8. ASSUME NEW q \in Readers PROVE Knowing(reader[q])'
  <2>1. reader'[q] = reader[q] \/ reader'[q].pc = "idle"
    BY DEF F!MarkDeleted, F!Proceeds, F!NoReader
  <2>. QED  BY <1>2, <2>1 DEF FilesInv, Knowing
<1>9. Waiting'
  BY SlotsUntouched DEF FilesInv, F!MarkDeleted
<1>. QED  BY <1>3, <1>6, <1>7, <1>8, <1>9 DEF FilesInv

LEMMA RemoveStep ==
    ASSUME FilesInv, NEW r \in Readers, NEW f \in FileIds, F!Remove(r, f)
    PROVE  FilesInv'
<1>1. F!TypeOK'
  BY DEF FilesInv, F!TypeOK, F!Remove, F!Read
<1>2. ASSUME NEW g \in FileIds PROVE Progress(g)'
  BY DEF FilesInv, Progress, F!Remove
<1>3. ASSUME NEW g \in FileIds PROVE RolledBack(g)'
  BY DEF FilesInv, RolledBack, F!Remove
<1>4. ASSUME NEW g \in FileIds PROVE Faithful(g)'
  BY DEF FilesInv, Faithful, F!BeingRemoved, F!Remove, F!Read
<1>5. ASSUME NEW q \in Readers PROVE Knowing(reader[q])'
  BY DEF FilesInv, Progress, Faithful, Knowing, F!NoRow, F!Remove, F!Read
<1>6. Waiting'
  BY SlotsUntouched DEF FilesInv, F!Remove, F!Read
<1>. QED  BY <1>1, <1>2, <1>3, <1>4, <1>5, <1>6 DEF FilesInv

LEMMA RemoveFileStep ==
    ASSUME FilesInv, NEW r \in Readers, NEW fails \in BOOLEAN, F!RemoveFile(r, fails)
    PROVE  FilesInv'
<1>. DEFINE f == reader[r].file
<1>0. f \in FileIds /\ reader[r] \in [pc : {"idle", "list", "heal", "remove", "mark"},
                                      file : FileIds, preview : BOOLEAN]
  BY DEF FilesInv, F!TypeOK
<1>1. F!TypeOK'
  BY <1>0 DEF FilesInv, F!TypeOK, F!RemoveFile, F!Proceeds
<1>2. ASSUME NEW g \in FileIds PROVE Progress(g)'
  BY <1>0 DEF FilesInv, Progress, Knowing, Signing, F!RemoveFile
<1>3. ASSUME NEW g \in FileIds PROVE RolledBack(g)'
  BY <1>0 DEF FilesInv, RolledBack, F!RemoveFile
<1>4. ASSUME NEW g \in FileIds PROVE Faithful(g)'
  BY <1>0 DEF FilesInv, F!TypeOK, Faithful, Knowing, F!BeingRemoved, F!RemoveFile, F!Proceeds,
     F!Parts
<1>5. ASSUME NEW q \in Readers PROVE Knowing(reader[q])'
  BY <1>0 DEF FilesInv, F!TypeOK, Knowing, F!RemoveFile, F!Proceeds
<1>6. Waiting'
  BY SlotsUntouched DEF FilesInv, F!RemoveFile
<1>. QED  BY <1>1, <1>2, <1>3, <1>4, <1>5, <1>6 DEF FilesInv

LEMMA LoseByHandStep ==
    ASSUME FilesInv, NEW f \in FileIds, F!LoseByHand(f)
    PROVE  FilesInv'
<1>1. F!TypeOK'
  BY DEF FilesInv, F!TypeOK, F!LoseByHand
<1>2. ASSUME NEW g \in FileIds PROVE Progress(g)'
  BY DEF FilesInv, Progress, F!LoseByHand
<1>3. ASSUME NEW g \in FileIds PROVE RolledBack(g)'
  BY DEF FilesInv, RolledBack, F!LoseByHand
<1>4. ASSUME NEW g \in FileIds PROVE Faithful(g)'
  BY DEF FilesInv, Faithful, F!BeingRemoved, F!LoseByHand
<1>5. ASSUME NEW q \in Readers PROVE Knowing(reader[q])'
  BY DEF FilesInv, Knowing, F!LoseByHand
<1>6. Waiting'
  BY SlotsUntouched DEF FilesInv, F!LoseByHand
<1>. QED  BY <1>1, <1>2, <1>3, <1>4, <1>5, <1>6 DEF FilesInv

LEMMA FilesStep == FilesInv /\ [F!Next]_(F!vars) => FilesInv'
<1>. SUFFICES ASSUME FilesInv, [F!Next]_(F!vars) PROVE FilesInv'
  OBVIOUS
<1>1. CASE \E files \in SUBSET FileIds : F!UploadMany(files)
  BY <1>1, UploadManyStep
<1>2. ASSUME NEW f \in FileIds, F!Upload(f) \/ F!LoseByHand(f) PROVE FilesInv'
  BY <1>2, AskSlotStep, FreeSlotStep, PutStep, CreateRowStep, SignUploadStep, RejectStep,
     LoseByHandStep DEF F!Upload
<1>3. CASE F!Settle
  BY <1>3, SettleStep
<1>4. CASE \E fails \in BOOLEAN : F!RollBackRows(fails)
  BY <1>4, RollBackRowsStep
<1>5. CASE \E failing \in SUBSET FileIds : F!RollBackFiles(failing)
  BY <1>5, RollBackFilesStep
<1>6. ASSUME NEW r \in Readers, F!Request(r) PROVE FilesInv'
  BY <1>6, ListStep, SignOrHealStep, MarkDeletedStep, RemoveStep, RemoveFileStep DEF F!Request
<1>7. CASE UNCHANGED F!vars
  BY <1>7
     DEF F!vars, FilesInv, F!TypeOK, Progress, RolledBack, Faithful, F!BeingRemoved, Knowing,
              Waiting, F!At
<1>. QED  BY <1>1, <1>2, <1>3, <1>4, <1>5, <1>6, <1>7 DEF F!Next

LEMMA FilesAtFirst == F!Init => FilesInv
<1>. SUFFICES ASSUME F!Init PROVE FilesInv
  OBVIOUS
<1>1. F!TypeOK
  BY FileConstants, FileSizes, FS_CardinalityType
     DEF F!Init, F!TypeOK, F!Uploads, F!NoRow, F!NoReader, F!FilesAssumption
<1>2. ASSUME NEW f \in FileIds PROVE Progress(f) /\ RolledBack(f) /\ Faithful(f)
  BY DEF F!Init, Progress, RolledBack, Faithful
<1>3. ASSUME NEW r \in Readers PROVE Knowing(reader[r])
  BY DEF F!Init, Knowing, F!NoReader
<1>4. Waiting
  <2>1. Cardinality(F!At("optimise")) = 0
    BY FS_EmptySet, F!At("optimise") = {} DEF F!Init, F!At
  <2>2. queue = <<>> /\ Len(queue) = 0
    BY DEF F!Init
  <2>. QED  BY <2>1, <2>2, FileConstants DEF Waiting, F!FilesAssumption
<1>. QED  BY <1>1, <1>2, <1>3, <1>4 DEF FilesInv

LEMMA FilesInvHolds == F!Spec => []FilesInv
  BY FilesAtFirst, FilesStep, PTL DEF F!Spec

LEMMA FilesInvSays == FilesInv => F!FilesAgree
<1>. SUFFICES ASSUME FilesInv PROVE F!FilesAgree
  OBVIOUS
<1>1. F!AllOrNothing
  BY DEF FilesInv, F!AllOrNothing, Progress, RolledBack
<1>2. F!RowsTellTruth
  BY DEF FilesInv, F!RowsTellTruth, Faithful, F!NoRow
<1>3. F!SlotsShared
  BY FileConstants, FileSizes, FinitelyOptimised DEF FilesInv, F!SlotsShared, Waiting
<1>. QED  BY <1>1, <1>2, <1>3 DEF F!FilesAgree

-----------------------------------------------------------------------------
(* The invariant of the pictures.                                          *)

\* Its owner's picture is gone, and there is no new one yet.
Late(o) == \E c \in Changers :
    /\ change[c].owner = o /\ change[c].kind # "erase"
    /\ change[c].pc \in {"put", "sign", "write"}

Lasting(link) == link.left >= Spare /\ link.left # I!Ancient

\* The file is there; its link outlives the nights till the run after next, and
\* is as good as new once a run has passed over it.
Whole(o) == pic[o].path # I!NoPath =>
    /\ pic[o].path \in bucket
    /\ missed = 0 => pic[o].left # I!Ancient
    /\ pic[o].left + missed >= Spare
    /\ signRun /\ todo[o] = I!NoPath => Lasting(pic[o])

Shown(o) ==
    /\ o \notin blurred \cup failed =>
          /\ o \in astray \/ pic[o].of = pic[o].path
          /\ pic[o].erased => pic[o].path = I!NoPath
          /\ Late(o) \/ Whole(o)
    /\ ~signRun => todo[o] = I!NoPath
    /\ pic[o].path # I!NoPath /\ todo[o] \notin {I!NoPath, pic[o].path} => Lasting(pic[o])

\* What a change has read and stored.
Holding(c) == LET k == change[c] IN
    /\ k.pc = "idle" => k = I!NoChange
    /\ k.pc \in {"drop", "put"} => k.new = I!NoPath
    /\ k.pc \in {"put", "sign"} => k.kind = "upload"
    /\ k.pc \in {"sign", "write"} =>
          IF k.kind = "upload" THEN k.new \in bucket ELSE k.new = I!NoPath
    /\ k.pc # "idle" /\ k.owner \notin blurred \cup failed =>
          IF k.kind = "erase" /\ k.pc = "drop" THEN pic[k.owner].path = I!NoPath
          ELSE /\ k.old = pic[k.owner].path /\ ~pic[k.owner].erased
               /\ k.pc # "drop" /\ k.kind # "erase" => k.old \notin bucket

\* One change at a time, but for the owners that the property excepts.
ChangedAlone == \A c, d \in Changers :
    /\ change[c].pc # "idle" /\ change[d].pc # "idle" /\ change[c].owner = change[d].owner
    /\ change[c].owner \notin blurred \cup failed
    => c = d

\* A new file is named by nobody else before its row is written.
NewsOnly(c) == change[c].new # I!NoPath =>
    /\ \A o \in Owners : change[c].new \notin {pic[o].path, todo[o]}
    /\ \A d \in Changers : /\ change[d].old # change[c].new
                           /\ d # c => change[d].new # change[c].new

\* No two owners share a file, and none names one that is still to come.
OwnFiles ==
    /\ \A o, p \in Owners : o # p /\ pic[o].path = pic[p].path => pic[o].path = I!NoPath
    /\ \A c \in Changers, p \in Owners :
          p # change[c].owner /\ change[c].old = pic[p].path => change[c].old = I!NoPath
    /\ \A path \in fresh : /\ \A o \in Owners : path \notin {pic[o].path, todo[o]}
                           /\ \A c \in Changers : path \notin {change[c].old, change[c].new}

PicturesInv ==
    /\ I!TypeOK
    /\ \A o \in Owners : Shown(o)
    /\ \A c \in Changers : Holding(c) /\ NewsOnly(c)
    /\ ChangedAlone
    /\ OwnFiles
    /\ blurred \cup failed = {} => I!NoneLeftBehind

-----------------------------------------------------------------------------
(* Steps of the pictures.                                                  *)

LEMMA ReadOldStep ==
    ASSUME PicturesInv, NEW c \in Changers, NEW o \in Owners, NEW kind \in I!Kinds,
           I!ReadOld(c, o, kind)
    PROVE  PicturesInv'
<1>1. I!TypeOK'
  BY PictureConstants
     DEF PicturesInv, I!TypeOK, I!PicRows, I!Changes, I!Kinds, I!AnyPath, I!ReadOld, I!runVars
<1>2. ASSUME NEW p \in Owners PROVE Shown(p)'
  BY PictureConstants DEF PicturesInv, Shown, Late, Whole, I!ReadOld, I!runVars
<1>3. ASSUME NEW e \in Changers PROVE Holding(e)'
  BY PictureConstants DEF PicturesInv, Holding, I!ReadOld, I!runVars
<1>4. ASSUME NEW e \in Changers PROVE NewsOnly(e)'
  BY PictureConstants DEF PicturesInv, NewsOnly, I!ReadOld, I!runVars
<1>5. ChangedAlone'
  BY PictureConstants DEF PicturesInv, ChangedAlone, I!ReadOld, I!runVars
<1>6. OwnFiles'
  BY PictureConstants
     DEF PicturesInv, I!TypeOK, Holding, OwnFiles, I!NoChange, I!ReadOld, I!runVars
<1>7. ASSUME (blurred \cup failed)' = {} PROVE I!NoneLeftBehind'
  BY <1>7, PictureConstants DEF PicturesInv, I!TypeOK, I!AnyPath, Whole, Holding, OwnFiles,
     I!NoChange, I!PicturesAssumption, I!NoneLeftBehind, I!ReadOld, I!runVars
<1>. QED  BY <1>1, <1>2, <1>3, <1>4, <1>5, <1>6, <1>7 DEF PicturesInv

LEMMA DropOldStep ==
    ASSUME PicturesInv, NEW c \in Changers, NEW fails \in BOOLEAN, I!DropOld(c, fails)
    PROVE  PicturesInv'
<1>a. /\ change[c].pc = "drop" /\ change[c] \in I!Changes
      /\ I!Nothing.path = I!NoPath /\ I!NoChange \in I!Changes
      /\ I!NoChange.pc = "idle" /\ I!NoChange.old = I!NoPath /\ I!NoChange.new = I!NoPath
  BY PictureConstants DEF PicturesInv, I!TypeOK, I!DropOld, I!Nothing, I!NoChange, I!Changes,
     I!Kinds, I!AnyPath, I!PicturesAssumption
<1>b. /\ change' = [change EXCEPT ![c] = change'[c]]
      /\ \A d \in Changers \ {c} : change'[d] = change[d]
      /\ \/ change[c].kind = "erase" /\ change'[c] = I!NoChange
         \/ change[c].kind = "upload" /\ change'[c] = [change[c] EXCEPT !.pc = "put"]
         \/ change[c].kind = "delete" /\ change'[c] = [change[c] EXCEPT !.pc = "write"]
  <2>1. change[c].kind \in {"upload", "delete", "erase"}
    BY <1>a DEF I!Changes, I!Kinds
  <2>2. change \in [Changers -> I!Changes]
    BY DEF PicturesInv, I!TypeOK
  <2>. QED  BY <2>1, <2>2 DEF I!DropOld, I!Goes
<1>c. change'[c] \in I!Changes
  BY <1>a, <1>b DEF I!Changes
<1>d. /\ UNCHANGED <<pic, fresh, signRun, todo, signed, missed, blurred, astray>>
      /\ bucket' \subseteq bucket /\ bucket \ {change[c].old} \subseteq bucket'
      /\ failed \subseteq failed' /\ failed' \subseteq failed \cup {change[c].owner}
      /\ change[c].owner \notin failed' => change[c].old \notin bucket'
  BY DEF I!DropOld, I!runVars, I!Fails
<1>e. /\ change'[c].new \in {change[c].new, I!NoPath}
      /\ change'[c].old \in {change[c].old, I!NoPath}
      /\ change'[c].pc # "idle" => /\ change'[c].old = change[c].old /\ change'[c].new = change[c].new
                                   /\ change'[c].owner = change[c].owner
                                   /\ change'[c].kind = change[c].kind
  BY <1>a, <1>b DEF I!Changes
<1>1. I!TypeOK'
  <2>1. change' \in [Changers -> I!Changes]
    BY <1>b, <1>c DEF PicturesInv, I!TypeOK
  <2>2. change[c].owner \in Owners
    BY <1>a DEF I!Changes
  <2>. QED  BY <1>d, <2>1, <2>2 DEF PicturesInv, I!TypeOK
<1>2. ASSUME NEW p \in Owners PROVE Shown(p)'
  <2>0. Shown(p)
    BY DEF PicturesInv
  <2>1. CASE change[c].owner = p
    <3>1. CASE change[c].kind = "erase"
      <4>1. p \notin blurred \cup failed' => pic[p].path = I!NoPath
        BY <1>a, <1>d, <2>1, <3>1 DEF PicturesInv, Holding
      <4>. QED  BY <1>d, <2>0, <4>1 DEF Shown, Whole
    <3>2. CASE change[c].kind # "erase"
      <4>1. Late(p)'
        BY <1>a, <1>b, <2>1, <3>2 DEF Late, I!Changes
      <4>. QED  BY <1>d, <2>0, <4>1 DEF Shown
    <3>. QED  BY <3>1, <3>2
  <2>2. CASE change[c].owner # p
    <3>1. Late(p) => Late(p)'
      BY <1>a, <1>b DEF Late
    <3>2. change[c].old = pic[p].path => pic[p].path = I!NoPath
      BY <2>2 DEF PicturesInv, OwnFiles
    <3>3. Whole(p) => Whole(p)'
      BY <1>d, <3>2 DEF Whole
    <3>. QED  BY <1>d, <2>0, <2>2, <3>1, <3>3 DEF Shown
  <2>. QED  BY <2>1, <2>2
<1>3. ASSUME NEW e \in Changers PROVE Holding(e)'
  <2>0. Holding(e) /\ Holding(c) /\ NewsOnly(e)
    BY DEF PicturesInv
  <2>1. CASE e = c
    BY <1>a, <1>b, <1>d, <2>0, <2>1 DEF Holding, I!Changes
  <2>2. CASE e # c
    <3>1. change'[e] = change[e] /\ change[e] \in I!Changes
      BY <1>b, <2>2 DEF PicturesInv, I!TypeOK
    <3>2. change[e].new \in bucket /\ change[e].new # I!NoPath => change[e].new \in bucket'
      BY <1>d, <2>0, <2>2 DEF NewsOnly
    <3>3. I!NoPath \notin bucket
      BY PictureConstants DEF PicturesInv, I!TypeOK, I!PicturesAssumption
    <3>. QED  BY <1>d, <2>0, <3>1, <3>2, <3>3 DEF Holding
  <2>. QED  BY <2>1, <2>2
<1>4. ASSUME NEW e \in Changers PROVE NewsOnly(e)'
  <2>0. NewsOnly(e) /\ NewsOnly(c)
    BY DEF PicturesInv
  <2>1. \A d \in Changers : /\ change'[d].new \in {change[d].new, I!NoPath}
                            /\ change'[d].old \in {change[d].old, I!NoPath}
    BY <1>b, <1>e
  <2>. QED  BY <1>d, <2>0, <2>1 DEF NewsOnly
<1>5. ChangedAlone'
  <2>1. ASSUME NEW d \in Changers
        PROVE  change'[d].pc # "idle" => change[d].pc # "idle" /\ change'[d].owner = change[d].owner
    BY <1>a, <1>b, <1>e
  <2>2. ChangedAlone
    BY DEF PicturesInv
  <2>. QED  BY <1>d, <2>1, <2>2 DEF ChangedAlone
<1>6. OwnFiles'
  <2>0. OwnFiles /\ I!NoPath \notin fresh
    BY PictureConstants DEF PicturesInv, I!TypeOK, I!PicturesAssumption
  <2>1. ASSUME NEW d \in Changers
        PROVE  /\ change'[d].new \in {change[d].new, I!NoPath}
               /\ \/ change'[d].old = I!NoPath
                  \/ change'[d].old = change[d].old /\ change'[d].owner = change[d].owner
    BY <1>a, <1>b, <1>e DEF I!Changes
  <2>. QED  BY <1>d, <2>0, <2>1 DEF OwnFiles
<1>7. ASSUME (blurred \cup failed)' = {} PROVE I!NoneLeftBehind'
  <2>1. I!NoneLeftBehind /\ change[c].old \notin bucket'
    BY <1>7, <1>d DEF PicturesInv
  <2>2. I!NoPath \notin bucket
    BY PictureConstants DEF PicturesInv, I!TypeOK, I!PicturesAssumption
  <2>3. change'[c].new = change[c].new
    BY <1>a, <1>b DEF PicturesInv, Holding, I!Changes
  <2>4. ASSUME NEW d \in Changers
        PROVE  change'[d].new = change[d].new /\ (d # c => change'[d].old = change[d].old)
    BY <1>b, <2>3
  <2>. QED  BY <1>d, <2>1, <2>2, <2>4 DEF I!NoneLeftBehind
<1>. QED  BY <1>1, <1>2, <1>3, <1>4, <1>5, <1>6, <1>7 DEF PicturesInv

LEMMA PutNewStep ==
    ASSUME PicturesInv, NEW c \in Changers, NEW path \in Paths, I!PutNew(c, path)
    PROVE  PicturesInv'
<1>1. I!TypeOK'
  <2>1. /\ DOMAIN change' = Changers
        /\ change'[c] = [change[c] EXCEPT !.pc = "sign", !.new = path]
        /\ \A d \in Changers \ {c} : change'[d] = change[d]
        /\ change' = [d \in Changers |-> change'[d]]
    BY DEF PicturesInv, I!TypeOK, I!PutNew, I!runVars
  <2>2. UNCHANGED <<pic, signRun, todo, signed, missed, blurred, astray, failed>>
        /\ bucket' \subseteq Paths /\ fresh' \subseteq Paths
    BY DEF PicturesInv, I!TypeOK, I!PutNew, I!runVars
  <2>3. path \in I!AnyPath
    BY DEF I!AnyPath
  <2>4. change'[c] \in I!Changes
    <3>1. change[c] \in I!Changes
      BY DEF PicturesInv, I!TypeOK
    <3>. QED  BY <2>1, <2>3, <3>1 DEF I!Changes
  <2>5. change' \in [Changers -> I!Changes]
    <3>1. ASSUME NEW d \in Changers
          PROVE  change'[d] \in I!Changes
      BY <2>1, <2>4 DEF PicturesInv, I!TypeOK
    <3>. QED  BY <2>1, <3>1, Zenon
  <2>. QED  BY <2>2, <2>5 DEF PicturesInv, I!TypeOK
<1>2. ASSUME NEW p \in Owners PROVE Shown(p)'
  BY PictureConstants
     DEF PicturesInv, I!TypeOK, I!PicRows, I!Changes, I!Kinds, OwnFiles, I!PutNew, I!runVars
<1>3. ASSUME NEW e \in Changers PROVE Holding(e)'
  BY PictureConstants
     DEF PicturesInv, I!TypeOK, I!PicRows, I!Changes, I!Kinds, OwnFiles, I!PutNew, I!runVars
<1>4. ASSUME NEW e \in Changers PROVE NewsOnly(e)'
  BY PictureConstants
     DEF PicturesInv, I!TypeOK, I!PicRows, I!Changes, I!Kinds, NewsOnly, I!PutNew, I!runVars
<1>5. ChangedAlone'
  BY PictureConstants
     DEF PicturesInv, I!TypeOK, I!PicRows, I!Changes, I!Kinds, OwnFiles, I!PutNew, I!runVars
<1>6. OwnFiles'
  BY PictureConstants
     DEF PicturesInv, I!TypeOK, I!PicRows, I!Changes, I!Kinds, OwnFiles, I!PutNew, I!runVars
<1>7. ASSUME (blurred \cup failed)' = {} PROVE I!NoneLeftBehind'
  BY <1>7, PictureConstants
     DEF PicturesInv, I!TypeOK, I!PicRows, I!Changes, I!Kinds, OwnFiles, I!PutNew, I!runVars
<1>. QED  BY <1>1, <1>2, <1>3, <1>4, <1>5, <1>6, <1>7 DEF PicturesInv

LEMMA SignNewStep ==
    ASSUME PicturesInv, NEW c \in Changers, I!SignNew(c)
    PROVE  PicturesInv'
<1>1. I!TypeOK'
  BY DEF PicturesInv, I!TypeOK, I!PicRows, I!Changes, I!Kinds, I!SignNew, I!runVars, I!Goes
<1>2. ASSUME NEW p \in Owners PROVE Shown(p)'
  BY PictureConstants DEF PicturesInv, Shown, Late, Whole, I!SignNew, I!runVars, I!Goes
<1>3. ASSUME NEW e \in Changers PROVE Holding(e)'
  BY PictureConstants DEF PicturesInv, Holding, I!SignNew, I!runVars, I!Goes
<1>4. ASSUME NEW e \in Changers PROVE NewsOnly(e)'
  BY PictureConstants DEF PicturesInv, NewsOnly, I!SignNew, I!runVars, I!Goes
<1>5. ChangedAlone'
  BY PictureConstants DEF PicturesInv, ChangedAlone, I!SignNew, I!runVars, I!Goes
<1>6. OwnFiles'
  BY PictureConstants DEF PicturesInv, OwnFiles, I!SignNew, I!runVars, I!Goes
<1>7. ASSUME (blurred \cup failed)' = {} PROVE I!NoneLeftBehind'
  BY <1>7, PictureConstants
     DEF PicturesInv, NewsOnly, I!NoneLeftBehind, I!SignNew, I!runVars, I!Goes
<1>. QED  BY <1>1, <1>2, <1>3, <1>4, <1>5, <1>6, <1>7 DEF PicturesInv

LEMMA FailChangeStep ==
    ASSUME PicturesInv, NEW c \in Changers, I!FailChange(c)
    PROVE  PicturesInv'
<1>1. I!TypeOK'
  BY PictureConstants
     DEF PicturesInv, I!TypeOK, I!PicRows, I!Changes, I!Kinds, I!AnyPath, I!NoChange, I!FailChange,
         I!runVars, I!Goes, I!Fails
<1>2. ASSUME NEW p \in Owners PROVE Shown(p)'
  BY PictureConstants
     DEF PicturesInv, Shown, Late, Whole, I!FailChange, I!runVars, I!Goes, I!Fails
<1>3. ASSUME NEW e \in Changers PROVE Holding(e)'
  BY PictureConstants
     DEF PicturesInv, Holding, I!NoChange, I!FailChange, I!runVars, I!Goes, I!Fails
<1>4. ASSUME NEW e \in Changers PROVE NewsOnly(e)'
  BY PictureConstants DEF PicturesInv, NewsOnly, I!NoChange, I!FailChange, I!runVars, I!Goes
<1>5. ChangedAlone'
  BY PictureConstants
     DEF PicturesInv, ChangedAlone, I!NoChange, I!FailChange, I!runVars, I!Goes, I!Fails
<1>6. OwnFiles'
  BY PictureConstants DEF PicturesInv, I!TypeOK, OwnFiles, I!NoChange, I!PicturesAssumption,
     I!FailChange, I!runVars, I!Goes
<1>7. ASSUME (blurred \cup failed)' = {} PROVE I!NoneLeftBehind'
  BY <1>7, PictureConstants DEF I!FailChange, I!runVars, I!Fails
<1>. QED  BY <1>1, <1>2, <1>3, <1>4, <1>5, <1>6, <1>7 DEF PicturesInv

LEMMA WriteRowStep ==
    ASSUME PicturesInv, NEW c \in Changers, I!WriteRow(c)
    PROVE  PicturesInv'
<1> DEFINE o == change[c].owner
           up == change[c].kind = "upload"
           row == IF up THEN [pic[o] EXCEPT !.path = change[c].new, !.of = change[c].new,
                                            !.left = Week]
                  ELSE [I!Nothing EXCEPT !.erased = pic[o].erased \/ change[c].kind = "erase"]
<1>a. /\ change[c].pc = "write" /\ change[c] \in I!Changes /\ pic[o] \in I!PicRows
      /\ change[c].kind \in {"upload", "delete", "erase"} /\ o \in Owners
      /\ I!NoChange \in I!Changes /\ I!NoChange.pc = "idle"
      /\ I!NoChange.old = I!NoPath /\ I!NoChange.new = I!NoPath
  BY PictureConstants DEF PicturesInv, I!TypeOK, I!WriteRow, I!NoChange, I!Changes, I!Kinds,
     I!AnyPath, I!PicturesAssumption
<1>b. /\ change' = [change EXCEPT ![c] = change'[c]]
      /\ \A d \in Changers \ {c} : change'[d] = change[d]
      /\ IF change[c].kind = "erase" THEN change'[c] = [change[c] EXCEPT !.pc = "drop"]
         ELSE change'[c] = I!NoChange
  BY <1>a DEF PicturesInv, I!TypeOK, I!WriteRow, I!Goes
<1>c. /\ pic' = [pic EXCEPT ![o] = row] /\ pic'[o] = row
      /\ \A p \in Owners \ {o} : pic'[p] = pic[p]
      /\ astray' = astray \ {o}
      /\ UNCHANGED <<bucket, fresh, signRun, todo, signed, missed, blurred, failed>>
  <2>1. pic' = [pic EXCEPT ![o] = row]
    <3>1. CASE up
      BY <1>a, <3>1 DEF PicturesInv, I!TypeOK, I!PicRows, I!WriteRow
    <3>2. CASE ~up
      BY <1>a, <3>2 DEF PicturesInv, I!TypeOK, I!PicRows, I!WriteRow
    <3>. QED  BY <3>1, <3>2
  <2>2. pic \in [Owners -> I!PicRows]
    BY DEF PicturesInv, I!TypeOK
  <2>. QED  BY <1>a, <2>1, <2>2 DEF I!WriteRow, I!runVars
<1>d. /\ row \in I!PicRows
      /\ up => row.path = change[c].new /\ row.of = change[c].new /\ row.left = Week
      /\ ~up => row.path = I!NoPath /\ row.of = I!NoPath
  <2>1. CASE up
    <3>1. row = [path |-> change[c].new, of |-> change[c].new, left |-> Week,
                 erased |-> pic[o].erased]
      BY <1>a, <2>1 DEF I!PicRows
    <3>2. change[c].new \in I!AnyPath /\ pic[o].erased \in BOOLEAN
      BY <1>a DEF I!Changes, I!PicRows
    <3>3. Week \in 0..I!Ancient
      BY PictureConstants DEF I!Ancient, I!PicturesAssumption
    <3>. HIDE DEF row, up
    <3>. QED  BY <2>1, <3>1, <3>2, <3>3, Zenon DEF I!PicRows
  <2>2. CASE ~up
    <3>1. row = [path |-> I!NoPath, of |-> I!NoPath, left |-> 0,
                 erased |-> pic[o].erased \/ change[c].kind = "erase"]
      BY <2>2 DEF I!Nothing
    <3>2. (pic[o].erased \/ change[c].kind = "erase") \in BOOLEAN
      OBVIOUS
    <3>3. 0 \in 0..I!Ancient /\ I!NoPath \in I!AnyPath
      BY PictureConstants DEF I!Ancient, I!AnyPath, I!PicturesAssumption
    <3>. HIDE DEF row, up
    <3>. QED  BY <2>2, <3>1, <3>2, <3>3, Zenon DEF I!PicRows
  <2>. QED  BY <2>1, <2>2
<1>e. /\ up => change[c].new \in bucket /\ change[c].new # I!NoPath
      /\ ~up => change[c].new = I!NoPath
  BY <1>a, PictureConstants DEF PicturesInv, I!TypeOK, Holding, I!PicturesAssumption
<1>f. /\ change'[c].new \in {change[c].new, I!NoPath}
      /\ change'[c].old \in {change[c].old, I!NoPath}
      /\ change'[c].pc # "idle" => /\ change[c].kind = "erase" /\ change'[c].kind = "erase"
                                   /\ change'[c].pc = "drop" /\ change'[c].owner = o
                                   /\ change'[c].old = change[c].old
                                   /\ change'[c].new = change[c].new
      /\ change'[c].pc = "idle" => change'[c] = I!NoChange
  BY <1>a, <1>b DEF I!Changes
<1> HIDE DEF o, up, row
<1>1. I!TypeOK'
  <2>1. change'[c] \in I!Changes
    BY <1>a, <1>b DEF I!Changes
  <2>2. change' \in [Changers -> I!Changes]
    BY <1>b, <2>1 DEF PicturesInv, I!TypeOK
  <2>3. pic' \in [Owners -> I!PicRows]
    BY <1>c, <1>d DEF PicturesInv, I!TypeOK
  <2>. QED  BY <1>c, <2>2, <2>3 DEF PicturesInv, I!TypeOK
<1>2. ASSUME NEW p \in Owners PROVE Shown(p)'
  <2>0. Shown(p)
    BY DEF PicturesInv
  <2>1. CASE p = o
    <3>1. CASE ~up
      BY <1>c, <1>d, <2>0, <2>1, <3>1 DEF Shown, Whole
    <3>0. up /\ o \notin blurred \cup failed => ~pic'[o].erased
      BY <1>a, <1>c DEF PicturesInv, Holding, o, up, row, I!PicRows
    <3>2. CASE up
      <4>1. Week \in Nat /\ Spare \in 1..Week /\ missed \in Nat /\ Week # I!Ancient
        BY PictureConstants DEF PicturesInv, I!TypeOK, I!PicturesAssumption, I!Ancient
      <4>2. Lasting(pic'[o])
        BY <1>c, <1>d, <3>2, <4>1 DEF Lasting
      <4>3. pic'[o].path = change[c].new /\ pic'[o].of = change[c].new /\ pic'[o].left = Week
        BY <1>c, <1>d, <3>2
      <4>4. Whole(p)'
        BY <1>c, <1>e, <2>1, <3>2, <4>1, <4>2, <4>3 DEF Whole
      <4>. QED  BY <1>c, <2>0, <2>1, <3>0, <3>2, <4>2, <4>3, <4>4 DEF Shown
    <3>. QED  BY <3>1, <3>2
  <2>2. CASE p # o
    <3>1. pic'[p] = pic[p] /\ (p \in astray' <=> p \in astray)
      BY <1>c, <2>2
    <3>2. Late(p) => Late(p)'
      BY <1>b, <2>2 DEF Late, o
    <3>3. Whole(p) => Whole(p)'
      BY <1>c, <3>1 DEF Whole
    <3>. QED  BY <1>c, <2>0, <3>1, <3>2, <3>3 DEF Shown
  <2>. QED  BY <2>1, <2>2
<1>3. ASSUME NEW e \in Changers PROVE Holding(e)'
  <2>0. Holding(e) /\ Holding(c) /\ ChangedAlone
    BY DEF PicturesInv
  <2>1. CASE e = c
    <3>1. CASE change'[c].pc = "idle"
      BY <1>a, <1>f, <2>1, <3>1 DEF Holding
    <3>2. CASE change'[c].pc # "idle"
      <4>1. ~up /\ change'[c].new = I!NoPath
        BY <1>e, <1>f, <3>2 DEF up
      <4>2. pic'[o].path = I!NoPath
        BY <1>c, <1>d, <4>1
      <4>. QED  BY <1>f, <2>1, <3>2, <4>1, <4>2 DEF Holding
    <3>. QED  BY <3>1, <3>2
  <2>2. CASE e # c
    <3>1. change'[e] = change[e] /\ change[e] \in I!Changes
      BY <1>b, <2>2 DEF PicturesInv, I!TypeOK
    <3>2. change[e].pc # "idle" /\ change[e].owner \notin blurred \cup failed
          => change[e].owner # o
      BY <1>a, <2>0, <2>2 DEF ChangedAlone, o
    <3>3. change[e].owner \in Owners
      BY <3>1 DEF I!Changes
    <3>. QED  BY <1>c, <2>0, <3>1, <3>2, <3>3 DEF Holding
  <2>. QED  BY <2>1, <2>2
<1>4. ASSUME NEW e \in Changers PROVE NewsOnly(e)'
  <2>0. NewsOnly(e) /\ NewsOnly(c)
    BY DEF PicturesInv
  <2>1. \A d \in Changers : /\ change'[d].new \in {change[d].new, I!NoPath}
                            /\ change'[d].old \in {change[d].old, I!NoPath}
    BY <1>b, <1>f
  <2>2. e = c => change'[e].new = I!NoPath
    BY <1>a, <1>b, <1>e, <1>f DEF up
  <2>3. ASSUME NEW p \in Owners, e # c, change[e].new # I!NoPath
        PROVE  pic'[p].path # change[e].new
    BY <1>c, <1>d, <1>e, <2>0, <2>3 DEF NewsOnly
  <2>. QED  BY <1>c, <2>0, <2>1, <2>2, <2>3 DEF NewsOnly
<1>5. ChangedAlone'
  <2>1. ASSUME NEW d \in Changers
        PROVE  change'[d].pc # "idle" => change[d].pc # "idle" /\ change'[d].owner = change[d].owner
    BY <1>a, <1>b, <1>f DEF o
  <2>2. ChangedAlone
    BY DEF PicturesInv
  <2>. QED  BY <1>c, <2>1, <2>2 DEF ChangedAlone
<1>6. OwnFiles'
  <2>0. OwnFiles /\ NewsOnly(c) /\ I!NoPath \notin fresh
    BY PictureConstants DEF PicturesInv, I!TypeOK, I!PicturesAssumption
  <2>1. ASSUME NEW d \in Changers
        PROVE  /\ change'[d].new \in {change[d].new, I!NoPath}
               /\ \/ change'[d].old = I!NoPath
                  \/ change'[d].old = change[d].old /\ change'[d].owner = change[d].owner
    BY <1>a, <1>b, <1>f DEF o
  <2>2. /\ pic'[o].path \in {change[c].new, I!NoPath}
        /\ \A p \in Owners \ {o} : pic'[p].path = pic[p].path
    BY <1>c, <1>d
  <2>3. \A p, q \in Owners : p # q /\ pic'[p].path = pic'[q].path => pic'[p].path = I!NoPath
    BY <1>a, <2>0, <2>2 DEF OwnFiles, NewsOnly
  <2>4. ASSUME NEW d \in Changers, NEW p \in Owners,
               p # change'[d].owner, change'[d].old = pic'[p].path
        PROVE  change'[d].old = I!NoPath
    BY <2>0, <2>1, <2>2, <2>4 DEF OwnFiles, NewsOnly
  <2>5. ASSUME NEW path \in fresh'
        PROVE  /\ \A p \in Owners : path \notin {pic'[p].path, todo'[p]}
               /\ \A d \in Changers : path \notin {change'[d].old, change'[d].new}
    BY <1>c, <2>0, <2>1, <2>2 DEF OwnFiles
  <2>. QED  BY <2>3, <2>4, <2>5 DEF OwnFiles
<1>7. ASSUME (blurred \cup failed)' = {} PROVE I!NoneLeftBehind'
  <2>0. I!NoneLeftBehind /\ Holding(c) /\ I!NoPath \notin bucket
    BY <1>7, <1>c, PictureConstants DEF PicturesInv, I!TypeOK, I!PicturesAssumption
  <2>1. pic[o].path = change[c].old /\ blurred = {} /\ failed = {}
        /\ (change[c].kind # "erase" => change[c].old \notin bucket)
    BY <1>7, <1>a, <1>c, <2>0 DEF Holding, o
  <2>2. ASSUME NEW file \in bucket, file # change[c].old \/ change'[c].old = file
        PROVE  \/ \E p \in Owners : pic'[p].path = file
               \/ \E d \in Changers : change'[d].new = file \/ change'[d].old = file
    <3>1. CASE \E p \in Owners : pic[p].path = file
      BY <1>c, <2>1, <2>2, <3>1
    <3>2. CASE \E d \in Changers : change[d].new = file
      <4>1. PICK d \in Changers : change[d].new = file
        BY <3>2
      <4>2. CASE d # c
        BY <1>b, <4>1, <4>2
      <4>3. CASE d = c
        <5>1. pic'[o].path = file
          BY <1>c, <1>d, <1>e, <2>0, <4>1, <4>3
        <5>. QED  BY <1>a, <5>1
      <4>. QED  BY <4>2, <4>3
    <3>3. CASE \E d \in Changers : change[d].old = file
      BY <1>b, <2>2, <3>3
    <3>. QED  BY <2>0, <3>1, <3>2, <3>3 DEF I!NoneLeftBehind
  <2>3. change[c].old \in bucket => change'[c].old = change[c].old
    BY <1>a, <1>b, <2>1 DEF I!Changes
  <2>. QED  BY <1>c, <2>2, <2>3 DEF I!NoneLeftBehind
<1>. QED  BY <1>1, <1>2, <1>3, <1>4, <1>5, <1>6, <1>7 DEF PicturesInv

LEMMA StartRunStep ==
    ASSUME PicturesInv, I!StartRun
    PROVE  PicturesInv'
<1>1. I!TypeOK'
  BY PictureConstants
     DEF PicturesInv, I!TypeOK, I!PicRows, I!Changes, I!Kinds, I!AnyPath, I!StartRun
<1>2. ASSUME NEW p \in Owners PROVE Shown(p)'
  <2>1. Shown(p) /\ UNCHANGED <<pic, bucket, change, missed, blurred, astray, failed>>
    BY DEF PicturesInv, I!StartRun
  <2>2. /\ todo'[p] \in {pic[p].path, I!NoPath} /\ signRun'
        /\ pic[p].path # I!NoPath /\ todo'[p] = I!NoPath => pic[p].erased \/ Lasting(pic[p])
    BY PictureConstants DEF PicturesInv, I!TypeOK, I!PicRows, Lasting, I!Ancient,
       I!PicturesAssumption, I!StartRun, I!NeedsResign
  <2>3. p \notin blurred \cup failed => (pic[p].erased => pic[p].path = I!NoPath)
    BY <2>1 DEF Shown
  <2>4. Late(p) => Late(p)'
    BY <2>1 DEF Late
  <2>5. p \notin blurred \cup failed /\ Whole(p) => Whole(p)'
    BY <2>1, <2>2, <2>3 DEF Whole
  <2>. QED  BY <2>1, <2>2, <2>3, <2>4, <2>5 DEF Shown
<1>3. ASSUME NEW e \in Changers PROVE Holding(e)'
  BY PictureConstants DEF PicturesInv, Holding, I!StartRun
<1>4. ASSUME NEW e \in Changers PROVE NewsOnly(e)'
  BY PictureConstants DEF PicturesInv, NewsOnly, I!StartRun
<1>5. ChangedAlone'
  BY PictureConstants DEF PicturesInv, ChangedAlone, I!StartRun
<1>6. OwnFiles'
  BY PictureConstants DEF PicturesInv, Shown, OwnFiles, I!StartRun
<1>7. ASSUME (blurred \cup failed)' = {} PROVE I!NoneLeftBehind'
  BY <1>7, PictureConstants DEF PicturesInv, I!NoneLeftBehind, I!StartRun
<1>. QED  BY <1>1, <1>2, <1>3, <1>4, <1>5, <1>6, <1>7 DEF PicturesInv

LEMMA SignLinkStep ==
    ASSUME PicturesInv, NEW o \in Owners, I!SignLink(o)
    PROVE  PicturesInv'
<1>0. ASSUME NEW p \in Owners
      PROVE  /\ todo'[p] \in {todo[p], I!NoPath}
             /\ todo'[p] # todo[p] => signRun /\ todo[p] \notin bucket
  BY DEF PicturesInv, I!TypeOK, I!SignLink
<1>1. I!TypeOK'
  BY DEF PicturesInv, I!TypeOK, I!AnyPath, I!SignLink
<1>2. ASSUME NEW p \in Owners PROVE Shown(p)'
  BY <1>0 DEF PicturesInv, Shown, Late, Whole, I!SignLink
<1>3. ASSUME NEW e \in Changers PROVE Holding(e)'
  BY DEF PicturesInv, Holding, I!SignLink
<1>4. ASSUME NEW e \in Changers PROVE NewsOnly(e)'
  BY <1>0 DEF PicturesInv, NewsOnly, I!SignLink
<1>5. ChangedAlone'
  BY DEF PicturesInv, ChangedAlone, I!SignLink
<1>6. OwnFiles'
  <2>1. OwnFiles /\ I!NoPath \notin fresh
    BY PictureConstants DEF PicturesInv, I!TypeOK, I!PicturesAssumption
  <2>2. UNCHANGED <<pic, change, fresh>>
    BY DEF I!SignLink
  <2>. QED  BY <1>0, <2>1, <2>2 DEF OwnFiles
<1>7. ASSUME (blurred \cup failed)' = {} PROVE I!NoneLeftBehind'
  BY <1>7 DEF PicturesInv, I!NoneLeftBehind, I!SignLink
<1>. QED  BY <1>1, <1>2, <1>3, <1>4, <1>5, <1>6, <1>7 DEF PicturesInv

LEMMA SaveLinkStep ==
    ASSUME PicturesInv, NEW o \in Owners, I!SaveLink(o)
    PROVE  PicturesInv'
<1>a. /\ pic' = [pic EXCEPT ![o] = [pic[o] EXCEPT !.of = todo[o], !.left = Week]]
      /\ todo' = [todo EXCEPT ![o] = I!NoPath]
      /\ UNCHANGED <<bucket, fresh, change, signRun, missed, blurred, failed>>
  BY DEF I!SaveLink, PicturesInv, I!TypeOK, I!PicRows
<1>b. /\ pic'[o].path = pic[o].path /\ pic'[o].of = todo[o] /\ pic'[o].left = Week
      /\ pic'[o].erased = pic[o].erased
      /\ todo'[o] = I!NoPath /\ pic'[o] \in I!PicRows
      /\ \A p \in Owners \ {o} : pic'[p] = pic[p] /\ todo'[p] = todo[p]
  <2>1. Week \in 0..I!Ancient
    BY PictureConstants DEF I!PicturesAssumption, I!Ancient
  <2>. QED  BY <1>a, <2>1 DEF PicturesInv, I!TypeOK, I!PicRows
<1>0. ASSUME NEW p \in Owners
      PROVE  /\ pic'[p].path = pic[p].path /\ pic'[p].erased = pic[p].erased
             /\ todo'[p] \in {todo[p], I!NoPath}
  BY <1>b
<1>1. I!TypeOK'
  <2>1. pic' \in [Owners -> I!PicRows] /\ todo' \in [Owners -> I!AnyPath]
    BY <1>a, <1>b DEF PicturesInv, I!TypeOK, I!AnyPath
  <2>2. astray' \subseteq Owners /\ signed' \subseteq Owners
    BY DEF PicturesInv, I!TypeOK, I!SaveLink
  <2>. QED  BY <1>a, <2>1, <2>2 DEF PicturesInv, I!TypeOK
<1>2. ASSUME NEW p \in Owners PROVE Shown(p)'
  <2>1. CASE p # o
    <3>1. p \in astray' <=> p \in astray
      BY <2>1 DEF I!SaveLink
    <3>. QED  BY <1>a, <1>b, <2>1, <3>1 DEF PicturesInv, Shown, Late, Whole, Lasting
  <2>2. CASE p = o
    <3>1. o \in astray' \/ pic[o].path = todo[o]
      BY DEF I!SaveLink
    <3>2. signRun /\ Lasting(pic'[o])
      BY <1>b, PictureConstants DEF I!SaveLink, Lasting, I!PicturesAssumption, I!Ancient
    <3>3. missed \in Nat /\ Week \in Nat /\ Spare \in 1..Week
      BY PictureConstants DEF PicturesInv, I!TypeOK, I!PicturesAssumption
    <3>4. Shown(o)
      BY DEF PicturesInv
    <3>. QED  BY <1>a, <1>b, <2>2, <3>1, <3>2, <3>3, <3>4 DEF Shown, Late, Whole, Lasting
  <2>. QED  BY <2>1, <2>2
<1>3. ASSUME NEW e \in Changers PROVE Holding(e)'
  BY <1>0, <1>a DEF PicturesInv, I!TypeOK, I!Changes, Holding
<1>4. ASSUME NEW e \in Changers PROVE NewsOnly(e)'
  BY <1>0, <1>a DEF PicturesInv, NewsOnly
<1>5. ChangedAlone'
  BY <1>a DEF PicturesInv, ChangedAlone
<1>6. OwnFiles'
  <2>1. OwnFiles /\ I!NoPath \notin fresh
    BY PictureConstants DEF PicturesInv, I!TypeOK, I!PicturesAssumption
  <2>. QED  BY <1>0, <1>a, <2>1 DEF OwnFiles
<1>7. ASSUME (blurred \cup failed)' = {} PROVE I!NoneLeftBehind'
  <2>1. I!NoneLeftBehind
    BY <1>7 DEF PicturesInv, I!SaveLink
  <2>. QED  BY <1>0, <1>a, <2>1 DEF I!NoneLeftBehind
<1>. QED  BY <1>1, <1>2, <1>3, <1>4, <1>5, <1>6, <1>7 DEF PicturesInv

LEMMA EndRunStep ==
    ASSUME PicturesInv, I!EndRun
    PROVE  PicturesInv'
<1>1. I!TypeOK'
  <2>1. missed' \in 0..Week
    BY PictureConstants DEF I!PicturesAssumption, I!EndRun
  <2>. QED  BY <2>1 DEF PicturesInv, I!TypeOK, I!EndRun
<1>2. ASSUME NEW p \in Owners PROVE Shown(p)'
  BY PictureConstants DEF PicturesInv, I!TypeOK, I!PicRows, I!Changes, I!Kinds, Shown, Late,
     Whole, Lasting, I!EndRun
<1>3. ASSUME NEW e \in Changers PROVE Holding(e)'
  BY PictureConstants DEF PicturesInv, Holding, I!EndRun
<1>4. ASSUME NEW e \in Changers PROVE NewsOnly(e)'
  BY PictureConstants DEF PicturesInv, NewsOnly, I!EndRun
<1>5. ChangedAlone'
  BY PictureConstants DEF PicturesInv, ChangedAlone, I!EndRun
<1>6. OwnFiles'
  BY PictureConstants DEF PicturesInv, OwnFiles, I!EndRun
<1>7. ASSUME (blurred \cup failed)' = {} PROVE I!NoneLeftBehind'
  BY <1>7, PictureConstants DEF PicturesInv, I!NoneLeftBehind, I!EndRun
<1>. QED  BY <1>1, <1>2, <1>3, <1>4, <1>5, <1>6, <1>7 DEF PicturesInv

LEMMA AbortRunStep ==
    ASSUME PicturesInv, I!AbortRun
    PROVE  PicturesInv'
<1>1. I!TypeOK'
  BY PictureConstants DEF PicturesInv, I!TypeOK, I!AnyPath, I!AbortRun
<1>2. ASSUME NEW p \in Owners PROVE Shown(p)'
  BY PictureConstants DEF PicturesInv, Shown, Late, Whole, I!AbortRun
<1>3. ASSUME NEW e \in Changers PROVE Holding(e)'
  BY PictureConstants DEF PicturesInv, Holding, I!AbortRun
<1>4. ASSUME NEW e \in Changers PROVE NewsOnly(e)'
  BY PictureConstants DEF PicturesInv, NewsOnly, I!AbortRun
<1>5. ChangedAlone'
  BY PictureConstants DEF PicturesInv, ChangedAlone, I!AbortRun
<1>6. OwnFiles'
  BY PictureConstants DEF PicturesInv, I!TypeOK, OwnFiles, I!PicturesAssumption, I!AbortRun
<1>7. ASSUME (blurred \cup failed)' = {} PROVE I!NoneLeftBehind'
  BY <1>7, PictureConstants DEF PicturesInv, I!NoneLeftBehind, I!AbortRun
<1>. QED  BY <1>1, <1>2, <1>3, <1>4, <1>5, <1>6, <1>7 DEF PicturesInv

LEMMA NightStep ==
    ASSUME PicturesInv, I!Night
    PROVE  PicturesInv'
<1>0. ASSUME NEW o \in Owners
      PROVE  /\ pic'[o] \in I!PicRows
             /\ pic'[o].path = pic[o].path /\ pic'[o].of = pic[o].of
             /\ pic'[o].erased = pic[o].erased
             /\ pic'[o].left + 1 >= pic[o].left
             /\ pic'[o].left = I!Ancient => pic[o].left = I!Ancient
  <2>1. pic[o] \in I!PicRows /\ I!Ancient \in Nat /\ I!Ancient > Week
    BY PictureConstants DEF PicturesInv, I!TypeOK, I!Ancient, I!PicturesAssumption
  <2>2. CASE pic[o].left \in {0, I!Ancient}
    BY <2>1, <2>2 DEF I!Night, I!PicRows
  <2>3. CASE pic[o].left \notin {0, I!Ancient}
    <3>1. pic'[o] = [pic[o] EXCEPT !.left = pic[o].left - 1]
      BY <2>3 DEF I!Night
    <3>. QED  BY <2>1, <2>3, <3>1 DEF I!PicRows
  <2>. QED  BY <2>2, <2>3
<1>a. /\ UNCHANGED <<bucket, fresh, change, signRun, todo, signed, blurred, astray, failed>>
      /\ ~signRun /\ missed' = missed + 1
  BY DEF I!Night
<1>1. I!TypeOK'
  <2>1. missed' \in 0..Week
    BY PictureConstants DEF PicturesInv, I!TypeOK, I!PicturesAssumption, I!Night
  <2>2. pic' \in [Owners -> I!PicRows]
    BY <1>0 DEF I!Night
  <2>. QED  BY <1>a, <2>1, <2>2 DEF PicturesInv, I!TypeOK
<1>2. ASSUME NEW p \in Owners PROVE Shown(p)'
  <2>1. Shown(p) /\ missed \in Nat /\ Spare \in Nat
    BY PictureConstants DEF PicturesInv, I!TypeOK, I!PicturesAssumption
  <2>2. Late(p) => Late(p)'
    BY <1>a DEF Late
  <2>3. pic[p].left \in Nat /\ pic'[p].left \in Nat
    BY <1>0, PictureConstants
       DEF PicturesInv, I!TypeOK, I!PicRows, I!Ancient, I!PicturesAssumption
  <2>4. Whole(p) => Whole(p)'
    BY <1>0, <1>a, <2>1, <2>3 DEF Whole
  <2>. QED  BY <1>0, <1>a, <2>1, <2>2, <2>4 DEF Shown
<1>3. ASSUME NEW e \in Changers PROVE Holding(e)'
  BY PictureConstants DEF PicturesInv, I!TypeOK, I!PicRows, I!Changes, I!Kinds, Holding, I!Night
<1>4. ASSUME NEW e \in Changers PROVE NewsOnly(e)'
  BY PictureConstants DEF PicturesInv, NewsOnly, I!Night
<1>5. ChangedAlone'
  BY PictureConstants DEF PicturesInv, ChangedAlone, I!Night
<1>6. OwnFiles'
  BY PictureConstants DEF PicturesInv, OwnFiles, I!Night
<1>7. ASSUME (blurred \cup failed)' = {} PROVE I!NoneLeftBehind'
  BY <1>7, PictureConstants DEF PicturesInv, I!NoneLeftBehind, I!Night
<1>. QED  BY <1>1, <1>2, <1>3, <1>4, <1>5, <1>6, <1>7 DEF PicturesInv

LEMMA PicturesStep ==
    ASSUME PicturesInv, [I!Next]_(I!vars)
    PROVE  PicturesInv'
<1>1. ASSUME NEW c \in Changers, I!Change(c) PROVE PicturesInv'
  BY <1>1, ReadOldStep, DropOldStep, PutNewStep, SignNewStep, FailChangeStep,
     WriteRowStep DEF I!Change
<1>2. CASE UNCHANGED I!vars
  <2>1. UNCHANGED <<pic, bucket, fresh, change, signRun, todo, signed, missed, blurred, astray,
                    failed>>
    BY <1>2 DEF I!vars
  <2>2. \A p \in Owners : Shown(p)'
    BY <2>1 DEF PicturesInv, Shown, Late, Whole
  <2>3. \A e \in Changers : Holding(e)' /\ NewsOnly(e)'
    BY <2>1 DEF PicturesInv, Holding, NewsOnly
  <2>. QED  BY <2>1, <2>2, <2>3
               DEF PicturesInv, I!TypeOK, ChangedAlone, OwnFiles, I!NoneLeftBehind
<1>. QED  BY <1>1, <1>2, StartRunStep, SignLinkStep, SaveLinkStep, EndRunStep, AbortRunStep,
             NightStep
          DEF I!Next

LEMMA PicturesAtFirst == I!Init => PicturesInv
<1>. SUFFICES ASSUME I!Init PROVE PicturesInv
  OBVIOUS
<1>1. PICK first \in [Owners -> I!AnyPath] :
        /\ \A o, p \in Owners : o # p /\ first[o] = first[p] => first[o] = I!NoPath
        /\ pic = [o \in Owners |->
                     IF first[o] = I!NoPath THEN I!Nothing
                     ELSE [path |-> first[o], of |-> first[o], left |-> I!Ancient,
                           erased |-> FALSE]]
        /\ bucket = {first[o] : o \in Owners} \ {I!NoPath}
  BY DEF I!Init
<1>2. /\ fresh = Paths \ bucket
      /\ change = [c \in Changers |-> I!NoChange]
      /\ signRun = FALSE /\ todo = [o \in Owners |-> I!NoPath] /\ missed = 1
      /\ signed = {} /\ blurred = {} /\ astray = {} /\ failed = {}
  BY DEF I!Init
<1>3. ASSUME NEW o \in Owners
      PROVE  /\ pic[o].path = first[o] /\ pic[o].of = first[o] /\ ~pic[o].erased
             /\ first[o] # I!NoPath => pic[o].left = I!Ancient
  BY <1>1 DEF I!Nothing
<1>4. I!TypeOK
  <2>1. I!Nothing \in I!PicRows
        /\ I!Ancient \in 0..I!Ancient
    BY PictureConstants DEF I!PicturesAssumption, I!Nothing, I!PicRows, I!AnyPath, I!Ancient
  <2>2. pic \in [Owners -> I!PicRows]
    BY <1>1, <2>1 DEF I!PicRows
  <2>3. I!NoChange \in I!Changes
    BY PictureConstants DEF I!PicturesAssumption, I!NoChange, I!Changes, I!Kinds, I!AnyPath
  <2>4. bucket \subseteq Paths /\ fresh \subseteq Paths
    BY <1>1, <1>2 DEF I!AnyPath
  <2>5. missed \in 0..Week
    BY <1>2, PictureConstants DEF I!PicturesAssumption
  <2>6. todo \in [Owners -> I!AnyPath]
    BY <1>2 DEF I!AnyPath
  <2>. QED  BY <1>2, <2>2, <2>3, <2>4, <2>5, <2>6 DEF I!TypeOK
<1>5. ASSUME NEW o \in Owners PROVE Shown(o)
  <2>1. first[o] # I!NoPath => first[o] \in bucket
    BY <1>1
  <2>. QED  BY <1>2, <1>3, <2>1, PictureConstants
               DEF Shown, Whole, I!PicturesAssumption, I!Ancient
<1>6. \A c \in Changers : Holding(c) /\ NewsOnly(c)
  BY <1>2 DEF Holding, NewsOnly, I!NoChange
<1>7. ChangedAlone
  BY <1>2 DEF ChangedAlone, I!NoChange
<1>8. OwnFiles
  BY <1>1, <1>2, <1>3, PictureConstants DEF OwnFiles, I!NoChange, I!PicturesAssumption
<1>9. I!NoneLeftBehind
  BY <1>1, <1>3 DEF I!NoneLeftBehind
<1>. QED  BY <1>4, <1>5, <1>6, <1>7, <1>8, <1>9 DEF PicturesInv

LEMMA PicturesInvHolds == I!Spec => []PicturesInv
<1>1. PicturesInv /\ [I!Next]_(I!vars) => PicturesInv'
  BY PicturesStep
<1>. QED  BY <1>1, PicturesAtFirst, PTL DEF I!Spec

LEMMA PicturesInvSays == PicturesInv => I!TypeOK /\ I!PicturesHold
<1>. SUFFICES ASSUME PicturesInv PROVE I!PicturesHold
  BY DEF PicturesInv
<1>1. ASSUME NEW o \in Owners \ (blurred \cup failed), ~I!BeingChanged(o)
      PROVE  I!PictureHolds(o)
  <2>1. Shown(o) /\ ~Late(o)
    BY <1>1 DEF PicturesInv, I!BeingChanged, Late
  <2>2. pic[o].left \in Nat /\ missed \in Nat
    BY PictureConstants DEF PicturesInv, I!TypeOK, I!PicRows, I!Changes, I!Kinds
  <2>. QED  BY <2>1, <2>2, PictureConstants DEF Shown, Whole, I!PictureHolds
<1>. QED  BY <1>1 DEF PicturesInv, I!PicturesHold

-----------------------------------------------------------------------------
(* The invariant of the chats.                                             *)

\* What a request has read is still so, but for what the next step checks anew.
ReadStands(r) == LET q == request[r] IN
    /\ q.pc \in {"edit", "delete"} => q.row \in DOMAIN rows
    /\ q.pc = "edit" => ~rows[q.row].deleted \/ q.row \in caught
    /\ q.pc = "mark" => \A m \in q.seen : <<q.by, m>> \in opened
    /\ q.pc = "remove" => q.row \in DOMAIN seats /\ seats[q.row] \in {q.who, C!Nobody}

\* A direct message is read once opened; one of the group, once its row is in.
ReadWhenOpened(u, m) ==
    /\ rows[m].kind = "direct" => (rows[m].read /\ rows[m].to = u <=> <<u, m>> \in opened)
    /\ m \in C!GroupRows /\ <<u, m>> \in opened /\ u \notin broken =>
          <<u, m>> \in reads \/ C!Marking(u, m)

OpenedRows == reads \subseteq opened /\ opened \subseteq ChatUsers \X DOMAIN rows

Welcoming(u) == {r \in Requests : request[r].pc = "welcome" /\ request[r].who = u}

Noticing(u) == {r \in Requests : request[r].pc = "notice" /\ request[r].who = u}

\* The sum of NoticesMatchSeats, with the notices still to be written.
Counted(u) ==
    Cardinality(C!SeatsOf(u)) + Cardinality(C!Notices("removed", u)) + Cardinality(Noticing(u))
        = Cardinality(C!Notices("added", u)) + Cardinality(Welcoming(u))
              + (IF u = Creator THEN 1 ELSE 0)

ChatsInv ==
    /\ C!TypeOK
    /\ \A r \in Requests : ReadStands(r)
    /\ C!DeletedStaysBlank
    /\ OpenedRows
    /\ \A u \in ChatUsers, m \in DOMAIN rows : ReadWhenOpened(u, m)
    /\ \A u \in ChatUsers \ broken : Counted(u)

-----------------------------------------------------------------------------
(* Steps of the chats.                                                     *)

\* A row written comes after the others.
LEMMA WriteAdds ==
    ASSUME C!TypeOK, NEW row \in C!AnyRow, C!Write(row)
    PROVE  /\ rows' \in Seq(C!AnyRow) /\ Len(rows') <= MaxRows
           /\ DOMAIN rows = 1..Len(rows) /\ Len(rows) \in Nat
           /\ DOMAIN rows' = 1..(Len(rows) + 1)
           /\ Len(rows) + 1 \in 1..MaxRows
           /\ \A m \in DOMAIN rows : rows'[m] = rows[m]
           /\ rows'[Len(rows) + 1] = row
BY ChatConstants DEF C!TypeOK, C!Write, C!ChatsAssumption

\* What a row says may change, and who has read it; not whose it is.
LEMMA RowsRewritten ==
    ASSUME C!TypeOK, DOMAIN rows' = DOMAIN rows,
           rows' = [m \in DOMAIN rows |-> rows'[m]],
           \A m \in DOMAIN rows : rows'[m] \in C!AnyRow
    PROVE  rows' \in Seq(C!AnyRow) /\ Len(rows') = Len(rows)
<1>1. rows \in Seq(C!AnyRow) /\ Len(rows) \in Nat /\ DOMAIN rows = 1..Len(rows)
  BY DEF C!TypeOK
<1>2. rows' \in [1..Len(rows) -> C!AnyRow]
  BY <1>1
<1>3. rows' \in Seq(C!AnyRow)
  BY <1>1, <1>2
<1>. QED  BY <1>1, <1>2, <1>3

LEMMA RowRewritten ==
    ASSUME NEW x \in C!AnyRow
    PROVE  /\ [x EXCEPT !.blank = FALSE] \in C!AnyRow
           /\ [x EXCEPT !.deleted = TRUE, !.blank = TRUE] \in C!AnyRow
           /\ [x EXCEPT !.read = TRUE] \in C!AnyRow
<1>1. [x EXCEPT !.blank = FALSE] \in C!AnyRow
  BY DEF C!AnyRow
<1>2. [x EXCEPT !.deleted = TRUE, !.blank = TRUE] \in C!AnyRow
  BY DEF C!AnyRow
<1>3. [x EXCEPT !.read = TRUE] \in C!AnyRow
  BY DEF C!AnyRow
<1>. QED  BY <1>1, <1>2, <1>3

LEMMA RowOfType ==
    ASSUME NEW kind \in {"direct", "group", "trip", "added", "removed"},
           NEW from \in ChatUsers, NEW to \in ChatUsers
    PROVE  C!Row(kind, from, to) \in C!AnyRow
BY DEF C!Row, C!AnyRow

LEMMA NoRequestOfType == C!NoRequest \in C!AnyRequest
BY ChatConstants DEF C!NoRequest, C!AnyRequest, C!ChatsAssumption

LEMMA RequestGoes ==
    ASSUME C!TypeOK, NEW r \in Requests, C!Goes(r, "idle")
    PROVE  /\ request' \in [Requests -> C!AnyRequest]
           /\ request'[r] = C!NoRequest
           /\ \A q \in Requests \ {r} : request'[q] = request[q]
BY NoRequestOfType DEF C!TypeOK, C!Goes

\* Finite sets are those of FiniteSets, in the instance too.
LEMMA RequestSizes ==
    /\ IsFiniteSet(Requests)
    /\ \A S : (IsFiniteSet(S) <=> C!IsFiniteSet(S)) /\ Cardinality(S) = C!Cardinality(S)
  BY ChatConstants DEF IsFiniteSet, Cardinality, C!IsFiniteSet, C!Cardinality, C!ChatsAssumption

\* The sums of a user.
LEMMA FiniteSums ==
    ASSUME C!TypeOK, NEW u
    PROVE  /\ IsFiniteSet(C!SeatsOf(u)) /\ IsFiniteSet(Welcoming(u)) /\ IsFiniteSet(Noticing(u))
           /\ \A kind : IsFiniteSet(C!Notices(kind, u))
<1>1. /\ DOMAIN rows = 1..Len(rows) /\ Len(rows) \in Nat
      /\ DOMAIN seats = 1..Len(seats) /\ Len(seats) \in Nat
  BY DEF C!TypeOK
<1>2. IsFiniteSet(DOMAIN rows) /\ IsFiniteSet(DOMAIN seats) /\ IsFiniteSet(Requests)
  BY <1>1, FS_Interval, RequestSizes
<1>3. /\ C!SeatsOf(u) \subseteq DOMAIN seats
      /\ Welcoming(u) \subseteq Requests /\ Noticing(u) \subseteq Requests
  BY DEF C!SeatsOf, Welcoming, Noticing
<1>4. ASSUME NEW kind PROVE IsFiniteSet(C!Notices(kind, u))
  <2>1. C!Notices(kind, u) \subseteq DOMAIN rows
    BY DEF C!Notices
  <2>. QED  BY <2>1, <1>2, FS_Subset
<1>. QED  BY <1>2, <1>3, <1>4, FS_Subset

LEMMA SameSums ==
    ASSUME NEW u, Counted(u), C!SeatsOf(u)' = C!SeatsOf(u),
           C!Notices("removed", u)' = C!Notices("removed", u),
           C!Notices("added", u)' = C!Notices("added", u),
           Welcoming(u)' = Welcoming(u), Noticing(u)' = Noticing(u)
    PROVE  Counted(u)'
BY DEF Counted

LEMMA PostDirectStep ==
    ASSUME ChatsInv, NEW u \in ChatUsers, NEW p \in ChatUsers, C!PostDirect(u, p)
    PROVE  ChatsInv'
<1>0. C!TypeOK
  BY DEF ChatsInv
<1>a. C!Row("direct", u, p) \in C!AnyRow
  BY RowOfType
<1>b. C!Write(C!Row("direct", u, p))
  BY DEF C!PostDirect
<1>c. /\ rows' \in Seq(C!AnyRow) /\ Len(rows') <= MaxRows
      /\ DOMAIN rows = 1..Len(rows) /\ Len(rows) \in Nat
      /\ DOMAIN rows' = 1..(Len(rows) + 1) /\ Len(rows) + 1 \in 1..MaxRows
      /\ \A m \in DOMAIN rows : rows'[m] = rows[m]
      /\ rows'[Len(rows) + 1] = C!Row("direct", u, p)
  BY <1>0, <1>a, <1>b, WriteAdds
<1>1. C!TypeOK'
  BY <1>0, <1>c, SMT DEF C!TypeOK, C!PostDirect
<1>2. ASSUME NEW q \in Requests PROVE ReadStands(q)'
  BY <1>c, SMT DEF ChatsInv, ReadStands, C!PostDirect
<1>3. C!DeletedStaysBlank'
  BY <1>c DEF ChatsInv, C!DeletedStaysBlank, C!Row, C!PostDirect
<1>4. OpenedRows'
  BY <1>c DEF ChatsInv, OpenedRows, C!PostDirect
<1>5. ASSUME NEW u1 \in ChatUsers, NEW m \in DOMAIN rows' PROVE ReadWhenOpened(u1, m)'
  <2>1. CASE m \in DOMAIN rows
    BY <2>1, <1>c, SMT DEF ChatsInv, ReadWhenOpened, C!GroupRows, C!Marking, C!PostDirect
  <2>2. CASE m = Len(rows) + 1
    BY <2>2, <1>c DEF ChatsInv, ReadWhenOpened, OpenedRows, C!Row, C!PostDirect
  <2>. QED  BY <1>c, <2>1, <2>2
<1>6. ASSUME NEW x \in ChatUsers \ broken' PROVE Counted(x)'
  <2>1. C!SeatsOf(x)' = C!SeatsOf(x)
    BY DEF C!SeatsOf, C!PostDirect
  <2>2. \A kind \in {"added", "removed"} : C!Notices(kind, x)' = C!Notices(kind, x)
    BY <1>c DEF C!Notices, C!Row, C!PostDirect
  <2>3. Welcoming(x)' = Welcoming(x) /\ Noticing(x)' = Noticing(x)
    BY DEF Welcoming, Noticing, C!NoRequest, C!PostDirect
  <2>4. Counted(x)
    BY DEF ChatsInv, C!PostDirect
  <2>. QED  BY <2>1, <2>2, <2>3, <2>4, SameSums
<1>. QED  BY <1>1, <1>2, <1>3, <1>4, <1>5, <1>6 DEF ChatsInv

LEMMA PostTripStep ==
    ASSUME ChatsInv, NEW u \in ChatUsers, C!PostTrip(u)
    PROVE  ChatsInv'
<1>0. C!TypeOK
  BY DEF ChatsInv
<1>a. C!Row("trip", u, u) \in C!AnyRow
  BY RowOfType
<1>b. C!Write(C!Row("trip", u, u))
  BY DEF C!PostTrip
<1>c. /\ rows' \in Seq(C!AnyRow) /\ Len(rows') <= MaxRows
      /\ DOMAIN rows = 1..Len(rows) /\ Len(rows) \in Nat
      /\ DOMAIN rows' = 1..(Len(rows) + 1) /\ Len(rows) + 1 \in 1..MaxRows
      /\ \A m \in DOMAIN rows : rows'[m] = rows[m]
      /\ rows'[Len(rows) + 1] = C!Row("trip", u, u)
  BY <1>0, <1>a, <1>b, WriteAdds
<1>1. C!TypeOK'
  BY <1>0, <1>c, SMT DEF C!TypeOK, C!PostTrip
<1>2. ASSUME NEW q \in Requests PROVE ReadStands(q)'
  BY <1>c, SMT DEF ChatsInv, ReadStands, C!PostTrip
<1>3. C!DeletedStaysBlank'
  BY <1>c DEF ChatsInv, C!DeletedStaysBlank, C!Row, C!PostTrip
<1>4. OpenedRows'
  BY <1>c DEF ChatsInv, OpenedRows, C!PostTrip
<1>5. ASSUME NEW u1 \in ChatUsers, NEW m \in DOMAIN rows' PROVE ReadWhenOpened(u1, m)'
  <2>1. CASE m \in DOMAIN rows
    BY <2>1, <1>c, SMT DEF ChatsInv, ReadWhenOpened, C!GroupRows, C!Marking, C!PostTrip
  <2>2. CASE m = Len(rows) + 1
    BY <2>2, <1>c DEF ChatsInv, ReadWhenOpened, OpenedRows, C!Row, C!PostTrip
  <2>. QED  BY <1>c, <2>1, <2>2
<1>6. ASSUME NEW x \in ChatUsers \ broken' PROVE Counted(x)'
  <2>1. C!SeatsOf(x)' = C!SeatsOf(x)
    BY DEF C!SeatsOf, C!PostTrip
  <2>2. \A kind \in {"added", "removed"} : C!Notices(kind, x)' = C!Notices(kind, x)
    BY <1>c DEF C!Notices, C!Row, C!PostTrip
  <2>3. Welcoming(x)' = Welcoming(x) /\ Noticing(x)' = Noticing(x)
    BY DEF Welcoming, Noticing, C!NoRequest, C!PostTrip
  <2>4. Counted(x)
    BY DEF ChatsInv, C!PostTrip
  <2>. QED  BY <2>1, <2>2, <2>3, <2>4, SameSums
<1>. QED  BY <1>1, <1>2, <1>3, <1>4, <1>5, <1>6 DEF ChatsInv

LEMMA PostGroupStep ==
    ASSUME ChatsInv, NEW r \in Requests, C!PostGroup(r)
    PROVE  ChatsInv'
<1>0. C!TypeOK
  BY DEF ChatsInv
<1>a. C!Row("group", request[r].by, request[r].by) \in C!AnyRow
  BY <1>0, RowOfType DEF C!TypeOK, C!AnyRequest
<1>b. C!Write(C!Row("group", request[r].by, request[r].by))
  BY DEF C!PostGroup
<1>c. /\ rows' \in Seq(C!AnyRow) /\ Len(rows') <= MaxRows
      /\ DOMAIN rows = 1..Len(rows) /\ Len(rows) \in Nat
      /\ DOMAIN rows' = 1..(Len(rows) + 1) /\ Len(rows) + 1 \in 1..MaxRows
      /\ \A m \in DOMAIN rows : rows'[m] = rows[m]
      /\ rows'[Len(rows) + 1] = C!Row("group", request[r].by, request[r].by)
  BY <1>0, <1>a, <1>b, WriteAdds
<1>d. /\ request' \in [Requests -> C!AnyRequest] /\ request'[r] = C!NoRequest
      /\ \A q \in Requests \ {r} : request'[q] = request[q]
  BY <1>0, RequestGoes DEF C!PostGroup
<1>e. request[r].pc \notin {"idle", "edit", "delete", "mark", "remove"}
  BY DEF C!PostGroup
<1>1. C!TypeOK'
  BY <1>0, <1>c, <1>d, <1>e, SMT DEF C!TypeOK, C!PostGroup
<1>2. ASSUME NEW q \in Requests PROVE ReadStands(q)'
  BY <1>c, <1>d, <1>e, SMT DEF ChatsInv, ReadStands, C!NoRequest, C!PostGroup
<1>3. C!DeletedStaysBlank'
  BY <1>c DEF ChatsInv, C!DeletedStaysBlank, C!Row, C!PostGroup
<1>4. OpenedRows'
  BY <1>c DEF ChatsInv, OpenedRows, C!PostGroup
<1>5. ASSUME NEW u1 \in ChatUsers, NEW m \in DOMAIN rows' PROVE ReadWhenOpened(u1, m)'
  <2>1. CASE m \in DOMAIN rows
    BY <2>1, <1>c, <1>d, <1>e, SMT
       DEF ChatsInv, ReadWhenOpened, C!GroupRows, C!Marking, C!NoRequest, C!PostGroup
  <2>2. CASE m = Len(rows) + 1
    BY <2>2, <1>c DEF ChatsInv, ReadWhenOpened, OpenedRows, C!Row, C!PostGroup
  <2>. QED  BY <1>c, <2>1, <2>2
<1>6. ASSUME NEW x \in ChatUsers \ broken' PROVE Counted(x)'
  <2>1. C!SeatsOf(x)' = C!SeatsOf(x)
    BY DEF C!SeatsOf, C!PostGroup
  <2>2. \A kind \in {"added", "removed"} : C!Notices(kind, x)' = C!Notices(kind, x)
    BY <1>c DEF C!Notices, C!Row, C!PostGroup
  <2>3. Welcoming(x)' = Welcoming(x) /\ Noticing(x)' = Noticing(x)
    BY <1>d DEF Welcoming, Noticing, C!NoRequest, C!PostGroup
  <2>4. Counted(x)
    BY DEF ChatsInv, C!PostGroup
  <2>. QED  BY <2>1, <2>2, <2>3, <2>4, SameSums
<1>. QED  BY <1>1, <1>2, <1>3, <1>4, <1>5, <1>6 DEF ChatsInv

LEMMA WelcomeStep ==
    ASSUME ChatsInv, NEW r \in Requests, C!Welcome(r)
    PROVE  ChatsInv'
<1>0. C!TypeOK
  BY DEF ChatsInv
<1>a. C!Row("added", Creator, request[r].who) \in C!AnyRow
  BY <1>0, RowOfType, ChatConstants DEF C!TypeOK, C!AnyRequest, C!ChatsAssumption
<1>b. C!Write(C!Row("added", Creator, request[r].who))
  BY DEF C!Welcome
<1>c. /\ rows' \in Seq(C!AnyRow) /\ Len(rows') <= MaxRows
      /\ DOMAIN rows = 1..Len(rows) /\ Len(rows) \in Nat
      /\ DOMAIN rows' = 1..(Len(rows) + 1) /\ Len(rows) + 1 \in 1..MaxRows
      /\ \A m \in DOMAIN rows : rows'[m] = rows[m]
      /\ rows'[Len(rows) + 1] = C!Row("added", Creator, request[r].who)
  BY <1>0, <1>a, <1>b, WriteAdds
<1>d. /\ request' \in [Requests -> C!AnyRequest] /\ request'[r] = C!NoRequest
      /\ \A q \in Requests \ {r} : request'[q] = request[q]
  BY <1>0, RequestGoes DEF C!Welcome
<1>e. request[r].pc \notin {"idle", "edit", "delete", "mark", "remove"}
  BY DEF C!Welcome
<1>1. C!TypeOK'
  BY <1>0, <1>c, <1>d, <1>e, SMT DEF C!TypeOK, C!Welcome
<1>2. ASSUME NEW q \in Requests PROVE ReadStands(q)'
  BY <1>c, <1>d, <1>e, SMT DEF ChatsInv, ReadStands, C!NoRequest, C!Welcome
<1>3. C!DeletedStaysBlank'
  BY <1>c DEF ChatsInv, C!DeletedStaysBlank, C!Row, C!Welcome
<1>4. OpenedRows'
  BY <1>c DEF ChatsInv, OpenedRows, C!Welcome
<1>5. ASSUME NEW u1 \in ChatUsers, NEW m \in DOMAIN rows' PROVE ReadWhenOpened(u1, m)'
  <2>1. CASE m \in DOMAIN rows
    BY <2>1, <1>c, <1>d, <1>e, SMT
       DEF ChatsInv, ReadWhenOpened, C!GroupRows, C!Marking, C!NoRequest, C!Welcome
  <2>2. CASE m = Len(rows) + 1
    BY <2>2, <1>c DEF ChatsInv, ReadWhenOpened, OpenedRows, C!Row, C!Welcome
  <2>. QED  BY <1>c, <2>1, <2>2
<1>6. ASSUME NEW x \in ChatUsers \ broken' PROVE Counted(x)'
  <2>1. C!SeatsOf(x)' = C!SeatsOf(x)
    BY DEF C!SeatsOf, C!Welcome
  <2>2. C!Notices("removed", x)' = C!Notices("removed", x)
    BY <1>c DEF C!Notices, C!Row
  <2>3. Noticing(x)' = Noticing(x)
    BY <1>d DEF Noticing, C!NoRequest, C!Welcome
  <2>4. Counted(x)
    BY DEF ChatsInv, C!Welcome
  <2>5. CASE x = request[r].who
    <3>1. C!Notices("added", x)' = C!Notices("added", x) \cup {Len(rows) + 1}
      BY <1>c, <2>5 DEF C!Notices, C!Row
    <3>2. Len(rows) + 1 \notin C!Notices("added", x)
      BY <1>c DEF C!Notices
    <3>3. Welcoming(x)' = Welcoming(x) \ {r} /\ r \in Welcoming(x)
      BY <1>d, <2>5 DEF Welcoming, C!NoRequest, C!Welcome
    <3>4. Cardinality(C!Notices("added", x)') = Cardinality(C!Notices("added", x)) + 1
      BY <1>0, <3>1, <3>2, FiniteSums, FS_AddElement
    <3>5. Cardinality(Welcoming(x)') = Cardinality(Welcoming(x)) - 1
      BY <1>0, <3>3, FiniteSums, FS_RemoveElement
    <3>6. /\ Cardinality(C!SeatsOf(x)) \in Nat /\ Cardinality(Noticing(x)) \in Nat
          /\ Cardinality(C!Notices("added", x)) \in Nat /\ Cardinality(Welcoming(x)) \in Nat
          /\ Cardinality(C!Notices("removed", x)) \in Nat
      BY <1>0, FiniteSums, FS_CardinalityType
    <3>. QED  BY <2>1, <2>2, <2>3, <2>4, <3>4, <3>5, <3>6 DEF Counted
  <2>6. CASE x # request[r].who
    <3>1. C!Notices("added", x)' = C!Notices("added", x)
      BY <1>c, <2>6 DEF C!Notices, C!Row
    <3>2. Welcoming(x)' = Welcoming(x)
      BY <1>d, <2>6 DEF Welcoming, C!NoRequest, C!Welcome
    <3>. QED  BY <2>1, <2>2, <2>3, <2>4, <3>1, <3>2, SameSums
  <2>. QED  BY <2>5, <2>6
<1>. QED  BY <1>1, <1>2, <1>3, <1>4, <1>5, <1>6 DEF ChatsInv

LEMMA NoticeStep ==
    ASSUME ChatsInv, NEW r \in Requests, C!Notice(r)
    PROVE  ChatsInv'
<1>0. C!TypeOK
  BY DEF ChatsInv
<1>a. C!Row("removed", Creator, request[r].who) \in C!AnyRow
  BY <1>0, RowOfType, ChatConstants DEF C!TypeOK, C!AnyRequest, C!ChatsAssumption
<1>b. C!Write(C!Row("removed", Creator, request[r].who))
  BY DEF C!Notice
<1>c. /\ rows' \in Seq(C!AnyRow) /\ Len(rows') <= MaxRows
      /\ DOMAIN rows = 1..Len(rows) /\ Len(rows) \in Nat
      /\ DOMAIN rows' = 1..(Len(rows) + 1) /\ Len(rows) + 1 \in 1..MaxRows
      /\ \A m \in DOMAIN rows : rows'[m] = rows[m]
      /\ rows'[Len(rows) + 1] = C!Row("removed", Creator, request[r].who)
  BY <1>0, <1>a, <1>b, WriteAdds
<1>d. /\ request' \in [Requests -> C!AnyRequest] /\ request'[r] = C!NoRequest
      /\ \A q \in Requests \ {r} : request'[q] = request[q]
  BY <1>0, RequestGoes DEF C!Notice
<1>e. request[r].pc \notin {"idle", "edit", "delete", "mark", "remove"}
  BY DEF C!Notice
<1>1. C!TypeOK'
  BY <1>0, <1>c, <1>d, <1>e, SMT DEF C!TypeOK, C!Notice
<1>2. ASSUME NEW q \in Requests PROVE ReadStands(q)'
  BY <1>c, <1>d, <1>e, SMT DEF ChatsInv, ReadStands, C!NoRequest, C!Notice
<1>3. C!DeletedStaysBlank'
  BY <1>c DEF ChatsInv, C!DeletedStaysBlank, C!Row, C!Notice
<1>4. OpenedRows'
  BY <1>c DEF ChatsInv, OpenedRows, C!Notice
<1>5. ASSUME NEW u1 \in ChatUsers, NEW m \in DOMAIN rows' PROVE ReadWhenOpened(u1, m)'
  <2>1. CASE m \in DOMAIN rows
    BY <2>1, <1>c, <1>d, <1>e, SMT
       DEF ChatsInv, ReadWhenOpened, C!GroupRows, C!Marking, C!NoRequest, C!Notice
  <2>2. CASE m = Len(rows) + 1
    BY <2>2, <1>c DEF ChatsInv, ReadWhenOpened, OpenedRows, C!Row, C!Notice
  <2>. QED  BY <1>c, <2>1, <2>2
<1>6. ASSUME NEW x \in ChatUsers \ broken' PROVE Counted(x)'
  <2>1. C!SeatsOf(x)' = C!SeatsOf(x)
    BY DEF C!SeatsOf, C!Notice
  <2>2. C!Notices("added", x)' = C!Notices("added", x)
    BY <1>c DEF C!Notices, C!Row
  <2>3. Welcoming(x)' = Welcoming(x)
    BY <1>d DEF Welcoming, C!NoRequest, C!Notice
  <2>4. Counted(x)
    BY DEF ChatsInv, C!Notice
  <2>5. CASE x = request[r].who
    <3>1. C!Notices("removed", x)' = C!Notices("removed", x) \cup {Len(rows) + 1}
      BY <1>c, <2>5 DEF C!Notices, C!Row
    <3>2. Len(rows) + 1 \notin C!Notices("removed", x)
      BY <1>c DEF C!Notices
    <3>3. Noticing(x)' = Noticing(x) \ {r} /\ r \in Noticing(x)
      BY <1>d, <2>5 DEF Noticing, C!NoRequest, C!Notice
    <3>4. Cardinality(C!Notices("removed", x)') = Cardinality(C!Notices("removed", x)) + 1
      BY <1>0, <3>1, <3>2, FiniteSums, FS_AddElement
    <3>5. Cardinality(Noticing(x)') = Cardinality(Noticing(x)) - 1
      BY <1>0, <3>3, FiniteSums, FS_RemoveElement
    <3>6. /\ Cardinality(C!SeatsOf(x)) \in Nat /\ Cardinality(Welcoming(x)) \in Nat
          /\ Cardinality(C!Notices("removed", x)) \in Nat /\ Cardinality(Noticing(x)) \in Nat
          /\ Cardinality(C!Notices("added", x)) \in Nat
      BY <1>0, FiniteSums, FS_CardinalityType
    <3>. QED  BY <2>1, <2>2, <2>3, <2>4, <3>4, <3>5, <3>6 DEF Counted
  <2>6. CASE x # request[r].who
    <3>1. C!Notices("removed", x)' = C!Notices("removed", x)
      BY <1>c, <2>6 DEF C!Notices, C!Row
    <3>2. Noticing(x)' = Noticing(x)
      BY <1>d, <2>6 DEF Noticing, C!NoRequest, C!Notice
    <3>. QED  BY <2>1, <2>2, <2>3, <2>4, <3>1, <3>2, SameSums
  <2>. QED  BY <2>5, <2>6
<1>. QED  BY <1>1, <1>2, <1>3, <1>4, <1>5, <1>6 DEF ChatsInv

LEMMA CheckPostStep ==
    ASSUME ChatsInv, NEW r \in Requests, NEW u \in ChatUsers, C!CheckPost(r, u)
    PROVE  ChatsInv'
<1>0. C!TypeOK
  BY DEF ChatsInv
<1>a. /\ request[r].pc = "idle" /\ request' = [request EXCEPT ![r] = request'[r]]
      /\ request'[r] = [pc |-> "post", by |-> u, who |-> Creator,
                       row |-> 0, seen |-> {}]
  BY <1>0 DEF C!TypeOK, C!Begin, C!NoRequest, C!CheckPost
<1>b. request'[r] \in C!AnyRequest
  BY <1>0, <1>a, ChatConstants DEF C!TypeOK, C!AnyRequest, C!ChatsAssumption
<1>c. /\ request' \in [Requests -> C!AnyRequest]
      /\ \A q \in Requests \ {r} : request'[q] = request[q]
  <2>1. request \in [Requests -> C!AnyRequest]
    BY <1>0 DEF C!TypeOK
  <2>. QED  BY <1>a, <1>b, <2>1
<1>d. request'[r].pc = "post"
  BY <1>a
<1>1. C!TypeOK'
  BY <1>0, <1>c DEF C!TypeOK, C!CheckPost
<1>2. ASSUME NEW q \in Requests PROVE ReadStands(q)'
  <2>1. CASE q = r
    BY <1>0, <1>a, <2>1 DEF C!TypeOK, ReadStands, C!CheckPost
  <2>2. CASE q # r
    BY <1>c, <2>2 DEF ChatsInv, ReadStands, C!CheckPost
  <2>. QED  BY <2>1, <2>2
<1>3. C!DeletedStaysBlank'
  BY DEF ChatsInv, C!DeletedStaysBlank, C!CheckPost
<1>4. OpenedRows'
  BY <1>0 DEF ChatsInv, C!TypeOK, OpenedRows, C!GroupRows, C!CheckPost
<1>5. ASSUME NEW x \in ChatUsers, NEW m \in DOMAIN rows' PROVE ReadWhenOpened(x, m)'
  BY <1>a, <1>c, <1>d DEF ChatsInv, ReadWhenOpened, C!GroupRows, C!Marking, C!CheckPost
<1>6. ASSUME NEW x \in ChatUsers \ broken' PROVE Counted(x)'
  <2>1. C!SeatsOf(x)' = C!SeatsOf(x) /\ \A kind : C!Notices(kind, x)' = C!Notices(kind, x)
    BY DEF C!SeatsOf, C!Notices, C!CheckPost
  <2>2. Welcoming(x)' = Welcoming(x) /\ Noticing(x)' = Noticing(x)
    BY <1>a, <1>c, <1>d DEF Welcoming, Noticing
  <2>3. Counted(x)
    BY DEF ChatsInv, C!CheckPost
  <2>. QED  BY <2>1, <2>2, <2>3, SameSums
<1>. QED  BY <1>1, <1>2, <1>3, <1>4, <1>5, <1>6 DEF ChatsInv

LEMMA ReadForEditStep ==
    ASSUME ChatsInv, NEW r \in Requests, NEW u \in ChatUsers, NEW m0 \in DOMAIN rows,
           C!ReadForEdit(r, u, m0)
    PROVE  ChatsInv'
<1>0. C!TypeOK
  BY DEF ChatsInv
<1>a. /\ request[r].pc = "idle" /\ request' = [request EXCEPT ![r] = request'[r]]
      /\ request'[r] = [pc |-> "edit", by |-> u, who |-> Creator,
                       row |-> m0, seen |-> {}]
  BY <1>0 DEF C!TypeOK, C!Begin, C!NoRequest, C!ReadForEdit
<1>b. request'[r] \in C!AnyRequest
  <2>1. m0 \in 0..(MaxRows + MaxSeats)
    BY <1>0, ChatConstants DEF C!TypeOK, C!ChatsAssumption
  <2>. QED  BY <1>a, <2>1, ChatConstants DEF C!AnyRequest, C!ChatsAssumption
<1>c. /\ request' \in [Requests -> C!AnyRequest]
      /\ \A q \in Requests \ {r} : request'[q] = request[q]
  <2>1. request \in [Requests -> C!AnyRequest]
    BY <1>0 DEF C!TypeOK
  <2>. QED  BY <1>a, <1>b, <2>1
<1>d. request'[r].pc = "edit"
  BY <1>a
<1>1. C!TypeOK'
  BY <1>0, <1>c DEF C!TypeOK, C!ReadForEdit
<1>2. ASSUME NEW q \in Requests PROVE ReadStands(q)'
  <2>1. CASE q = r
    BY <1>0, <1>a, <2>1 DEF C!TypeOK, ReadStands, C!ReadForEdit
  <2>2. CASE q # r
    BY <1>c, <2>2 DEF ChatsInv, ReadStands, C!ReadForEdit
  <2>. QED  BY <2>1, <2>2
<1>3. C!DeletedStaysBlank'
  BY DEF ChatsInv, C!DeletedStaysBlank, C!ReadForEdit
<1>4. OpenedRows'
  BY <1>0 DEF ChatsInv, C!TypeOK, OpenedRows, C!GroupRows, C!ReadForEdit
<1>5. ASSUME NEW x \in ChatUsers, NEW m \in DOMAIN rows' PROVE ReadWhenOpened(x, m)'
  BY <1>a, <1>c, <1>d DEF ChatsInv, ReadWhenOpened, C!GroupRows, C!Marking, C!ReadForEdit
<1>6. ASSUME NEW x \in ChatUsers \ broken' PROVE Counted(x)'
  <2>1. C!SeatsOf(x)' = C!SeatsOf(x) /\ \A kind : C!Notices(kind, x)' = C!Notices(kind, x)
    BY DEF C!SeatsOf, C!Notices, C!ReadForEdit
  <2>2. Welcoming(x)' = Welcoming(x) /\ Noticing(x)' = Noticing(x)
    BY <1>a, <1>c, <1>d DEF Welcoming, Noticing
  <2>3. Counted(x)
    BY DEF ChatsInv, C!ReadForEdit
  <2>. QED  BY <2>1, <2>2, <2>3, SameSums
<1>. QED  BY <1>1, <1>2, <1>3, <1>4, <1>5, <1>6 DEF ChatsInv

LEMMA ReadForDeleteStep ==
    ASSUME ChatsInv, NEW r \in Requests, NEW u \in ChatUsers, NEW m0 \in DOMAIN rows,
           C!ReadForDelete(r, u, m0)
    PROVE  ChatsInv'
<1>0. C!TypeOK
  BY DEF ChatsInv
<1>a. /\ request[r].pc = "idle" /\ request' = [request EXCEPT ![r] = request'[r]]
      /\ request'[r] = [pc |-> "delete", by |-> u, who |-> Creator,
                       row |-> m0, seen |-> {}]
  BY <1>0 DEF C!TypeOK, C!Begin, C!NoRequest, C!ReadForDelete
<1>b. request'[r] \in C!AnyRequest
  <2>1. m0 \in 0..(MaxRows + MaxSeats)
    BY <1>0, ChatConstants DEF C!TypeOK, C!ChatsAssumption
  <2>. QED  BY <1>a, <2>1, ChatConstants DEF C!AnyRequest, C!ChatsAssumption
<1>c. /\ request' \in [Requests -> C!AnyRequest]
      /\ \A q \in Requests \ {r} : request'[q] = request[q]
  <2>1. request \in [Requests -> C!AnyRequest]
    BY <1>0 DEF C!TypeOK
  <2>. QED  BY <1>a, <1>b, <2>1
<1>d. request'[r].pc = "delete"
  BY <1>a
<1>1. C!TypeOK'
  BY <1>0, <1>c DEF C!TypeOK, C!ReadForDelete
<1>2. ASSUME NEW q \in Requests PROVE ReadStands(q)'
  <2>1. CASE q = r
    BY <1>0, <1>a, <2>1 DEF C!TypeOK, ReadStands, C!ReadForDelete
  <2>2. CASE q # r
    BY <1>c, <2>2 DEF ChatsInv, ReadStands, C!ReadForDelete
  <2>. QED  BY <2>1, <2>2
<1>3. C!DeletedStaysBlank'
  BY DEF ChatsInv, C!DeletedStaysBlank, C!ReadForDelete
<1>4. OpenedRows'
  BY <1>0 DEF ChatsInv, C!TypeOK, OpenedRows, C!GroupRows, C!ReadForDelete
<1>5. ASSUME NEW x \in ChatUsers, NEW m \in DOMAIN rows' PROVE ReadWhenOpened(x, m)'
  BY <1>a, <1>c, <1>d DEF ChatsInv, ReadWhenOpened, C!GroupRows, C!Marking, C!ReadForDelete
<1>6. ASSUME NEW x \in ChatUsers \ broken' PROVE Counted(x)'
  <2>1. C!SeatsOf(x)' = C!SeatsOf(x) /\ \A kind : C!Notices(kind, x)' = C!Notices(kind, x)
    BY DEF C!SeatsOf, C!Notices, C!ReadForDelete
  <2>2. Welcoming(x)' = Welcoming(x) /\ Noticing(x)' = Noticing(x)
    BY <1>a, <1>c, <1>d DEF Welcoming, Noticing
  <2>3. Counted(x)
    BY DEF ChatsInv, C!ReadForDelete
  <2>. QED  BY <2>1, <2>2, <2>3, SameSums
<1>. QED  BY <1>1, <1>2, <1>3, <1>4, <1>5, <1>6 DEF ChatsInv

LEMMA CheckAddStep ==
    ASSUME ChatsInv, NEW r \in Requests, NEW u \in ChatUsers, NEW x0 \in ChatUsers,
           C!CheckAdd(r, u, x0)
    PROVE  ChatsInv'
<1>0. C!TypeOK
  BY DEF ChatsInv
<1>a. /\ request[r].pc = "idle" /\ request' = [request EXCEPT ![r] = request'[r]]
      /\ request'[r] = [pc |-> "add", by |-> u, who |-> x0,
                       row |-> 0, seen |-> {}]
  BY <1>0 DEF C!TypeOK, C!Begin, C!NoRequest, C!CheckAdd
<1>b. request'[r] \in C!AnyRequest
  BY <1>0, <1>a, ChatConstants DEF C!TypeOK, C!AnyRequest, C!ChatsAssumption
<1>c. /\ request' \in [Requests -> C!AnyRequest]
      /\ \A q \in Requests \ {r} : request'[q] = request[q]
  <2>1. request \in [Requests -> C!AnyRequest]
    BY <1>0 DEF C!TypeOK
  <2>. QED  BY <1>a, <1>b, <2>1
<1>d. request'[r].pc = "add"
  BY <1>a
<1>1. C!TypeOK'
  BY <1>0, <1>c DEF C!TypeOK, C!CheckAdd
<1>2. ASSUME NEW q \in Requests PROVE ReadStands(q)'
  <2>1. CASE q = r
    BY <1>0, <1>a, <2>1 DEF C!TypeOK, ReadStands, C!CheckAdd
  <2>2. CASE q # r
    BY <1>c, <2>2 DEF ChatsInv, ReadStands, C!CheckAdd
  <2>. QED  BY <2>1, <2>2
<1>3. C!DeletedStaysBlank'
  BY DEF ChatsInv, C!DeletedStaysBlank, C!CheckAdd
<1>4. OpenedRows'
  BY <1>0 DEF ChatsInv, C!TypeOK, OpenedRows, C!GroupRows, C!CheckAdd
<1>5. ASSUME NEW x \in ChatUsers, NEW m \in DOMAIN rows' PROVE ReadWhenOpened(x, m)'
  BY <1>a, <1>c, <1>d DEF ChatsInv, ReadWhenOpened, C!GroupRows, C!Marking, C!CheckAdd
<1>6. ASSUME NEW x \in ChatUsers \ broken' PROVE Counted(x)'
  <2>1. C!SeatsOf(x)' = C!SeatsOf(x) /\ \A kind : C!Notices(kind, x)' = C!Notices(kind, x)
    BY DEF C!SeatsOf, C!Notices, C!CheckAdd
  <2>2. Welcoming(x)' = Welcoming(x) /\ Noticing(x)' = Noticing(x)
    BY <1>a, <1>c, <1>d DEF Welcoming, Noticing
  <2>3. Counted(x)
    BY DEF ChatsInv, C!CheckAdd
  <2>. QED  BY <2>1, <2>2, <2>3, SameSums
<1>. QED  BY <1>1, <1>2, <1>3, <1>4, <1>5, <1>6 DEF ChatsInv

LEMMA CheckRemoveStep ==
    ASSUME ChatsInv, NEW r \in Requests, NEW u \in ChatUsers, NEW s \in DOMAIN seats,
           C!CheckRemove(r, u, s)
    PROVE  ChatsInv'
<1>0. C!TypeOK
  BY DEF ChatsInv
<1>a. /\ request[r].pc = "idle" /\ request' = [request EXCEPT ![r] = request'[r]]
      /\ request'[r] = [pc |-> "remove", by |-> u, who |-> seats[s],
                       row |-> s, seen |-> {}]
  BY <1>0 DEF C!TypeOK, C!Begin, C!NoRequest, C!CheckRemove
<1>b. request'[r] \in C!AnyRequest
  <2>1. s \in 0..(MaxRows + MaxSeats) /\ seats[s] \in ChatUsers
    BY <1>0, ChatConstants DEF C!TypeOK, C!ChatsAssumption, C!CheckRemove
  <2>. QED  BY <1>a, <2>1 DEF C!AnyRequest
<1>c. /\ request' \in [Requests -> C!AnyRequest]
      /\ \A q \in Requests \ {r} : request'[q] = request[q]
  <2>1. request \in [Requests -> C!AnyRequest]
    BY <1>0 DEF C!TypeOK
  <2>. QED  BY <1>a, <1>b, <2>1
<1>d. request'[r].pc = "remove"
  BY <1>a
<1>1. C!TypeOK'
  BY <1>0, <1>c DEF C!TypeOK, C!CheckRemove
<1>2. ASSUME NEW q \in Requests PROVE ReadStands(q)'
  <2>1. CASE q = r
    BY <1>0, <1>a, <2>1 DEF C!TypeOK, ReadStands, C!CheckRemove
  <2>2. CASE q # r
    BY <1>c, <2>2 DEF ChatsInv, ReadStands, C!CheckRemove
  <2>. QED  BY <2>1, <2>2
<1>3. C!DeletedStaysBlank'
  BY DEF ChatsInv, C!DeletedStaysBlank, C!CheckRemove
<1>4. OpenedRows'
  BY <1>0 DEF ChatsInv, C!TypeOK, OpenedRows, C!GroupRows, C!CheckRemove
<1>5. ASSUME NEW x \in ChatUsers, NEW m \in DOMAIN rows' PROVE ReadWhenOpened(x, m)'
  BY <1>a, <1>c, <1>d DEF ChatsInv, ReadWhenOpened, C!GroupRows, C!Marking, C!CheckRemove
<1>6. ASSUME NEW x \in ChatUsers \ broken' PROVE Counted(x)'
  <2>1. C!SeatsOf(x)' = C!SeatsOf(x) /\ \A kind : C!Notices(kind, x)' = C!Notices(kind, x)
    BY DEF C!SeatsOf, C!Notices, C!CheckRemove
  <2>2. Welcoming(x)' = Welcoming(x) /\ Noticing(x)' = Noticing(x)
    BY <1>a, <1>c, <1>d DEF Welcoming, Noticing
  <2>3. Counted(x)
    BY DEF ChatsInv, C!CheckRemove
  <2>. QED  BY <2>1, <2>2, <2>3, SameSums
<1>. QED  BY <1>1, <1>2, <1>3, <1>4, <1>5, <1>6 DEF ChatsInv

LEMMA FindUnreadStep ==
    ASSUME ChatsInv, NEW r \in Requests, NEW u \in ChatUsers, C!FindUnread(r, u)
    PROVE  ChatsInv'
<1>0. C!TypeOK
  BY DEF ChatsInv
<1> DEFINE unread == {m \in C!GroupRows : rows[m].from # u /\ <<u, m>> \notin reads}
<1>a. /\ request[r].pc = "idle" /\ request' = [request EXCEPT ![r] = request'[r]]
      /\ request'[r] = [pc |-> "mark", by |-> u, who |-> Creator, row |-> 0, seen |-> unread]
      /\ opened' = opened \cup {<<u, m>> : m \in unread}
      /\ UNCHANGED <<rows, reads, seats, groupGone, hidden, caught, broken>>
  BY <1>0 DEF C!TypeOK, C!Begin, C!NoRequest, C!FindUnread
<1>b. unread \subseteq DOMAIN rows /\ DOMAIN rows \subseteq 1..MaxRows
  BY <1>0, ChatConstants DEF C!TypeOK, C!GroupRows, C!ChatsAssumption
<1>c. /\ request' \in [Requests -> C!AnyRequest]
      /\ \A q \in Requests \ {r} : request'[q] = request[q]
  <2>1. request'[r] \in C!AnyRequest
    BY <1>a, <1>b, ChatConstants DEF C!AnyRequest, C!ChatsAssumption
  <2>. QED  BY <1>0, <1>a, <2>1 DEF C!TypeOK
<1>d. opened' \subseteq ChatUsers \X DOMAIN rows
  <2>1. ASSUME NEW z \in opened' PROVE z \in ChatUsers \X DOMAIN rows
    <3>1. CASE z \in opened
      BY <3>1 DEF ChatsInv, OpenedRows
    <3>2. CASE \E m \in unread : z = <<u, m>>
      BY <1>b, <3>2
    <3>. QED  BY <1>a, <2>1, <3>1, <3>2
  <2>. QED  BY <2>1
<1>1. C!TypeOK'
  BY <1>0, <1>a, <1>b, <1>c, <1>d DEF C!TypeOK
<1>2. ASSUME NEW q \in Requests PROVE ReadStands(q)'
  <2>1. CASE q = r
    BY <1>a, <2>1 DEF ReadStands
  <2>2. CASE q # r
    BY <1>a, <1>c, <2>2 DEF ChatsInv, ReadStands
  <2>. QED  BY <2>1, <2>2
<1>3. C!DeletedStaysBlank'
  BY <1>a DEF ChatsInv, C!DeletedStaysBlank
<1>4. OpenedRows'
  BY <1>a, <1>d DEF ChatsInv, OpenedRows
<1>5. ASSUME NEW x \in ChatUsers, NEW m \in DOMAIN rows' PROVE ReadWhenOpened(x, m)'
  <2>1. C!GroupRows' = C!GroupRows /\ ReadWhenOpened(x, m)
    BY <1>a DEF ChatsInv, C!GroupRows
  <2>2. C!Marking(x, m) => C!Marking(x, m)'
    BY <1>a, <1>c DEF C!Marking
  <2>3. <<x, m>> \in opened' \ opened => x = u /\ m \in unread
    BY <1>a
  <2>4. x = u /\ m \in unread => C!Marking(x, m)' /\ rows[m].kind # "direct"
    BY <1>a DEF C!Marking, C!GroupRows
  <2>. QED  BY <1>a, <2>1, <2>2, <2>3, <2>4 DEF ReadWhenOpened
<1>6. ASSUME NEW x \in ChatUsers \ broken' PROVE Counted(x)'
  <2>1. C!SeatsOf(x)' = C!SeatsOf(x) /\ \A kind : C!Notices(kind, x)' = C!Notices(kind, x)
    BY <1>a DEF C!SeatsOf, C!Notices
  <2>2. Welcoming(x)' = Welcoming(x) /\ Noticing(x)' = Noticing(x)
    <3>1. request'[r].pc = "mark"
      BY <1>a
    <3>. QED  BY <1>a, <1>c, <3>1 DEF Welcoming, Noticing
  <2>3. Counted(x)
    BY <1>a DEF ChatsInv
  <2>. QED  BY <2>1, <2>2, <2>3, SameSums
<1>. QED  BY <1>1, <1>2, <1>3, <1>4, <1>5, <1>6 DEF ChatsInv

LEMMA WriteEditStep ==
    ASSUME ChatsInv, NEW r \in Requests, C!WriteEdit(r)
    PROVE  ChatsInv'
<1>0. C!TypeOK
  BY DEF ChatsInv
<1>a. /\ request' \in [Requests -> C!AnyRequest] /\ request'[r] = C!NoRequest
      /\ \A q \in Requests \ {r} : request'[q] = request[q]
  BY <1>0, RequestGoes DEF C!WriteEdit
<1>b. /\ DOMAIN rows' = DOMAIN rows
      /\ \A m \in DOMAIN rows \ {request[r].row} : rows'[m] = rows[m]
      /\ request[r].row \in DOMAIN rows
      /\ rows'[request[r].row] = [rows[request[r].row] EXCEPT !.blank = FALSE]
      /\ rows' = [m \in DOMAIN rows |-> rows'[m]]
  BY DEF ChatsInv, ReadStands, C!WriteEdit
<1>c. \A m \in DOMAIN rows : rows[m] \in C!AnyRow
  BY <1>0 DEF C!TypeOK
<1>d. \A m \in DOMAIN rows : rows'[m] \in C!AnyRow
  <2>1. ASSUME NEW m \in DOMAIN rows PROVE rows'[m] \in C!AnyRow
    <3>1. rows'[m] = rows[m] \/ rows'[m] = [rows[m] EXCEPT !.blank = FALSE]
      BY <1>b
    <3>2. rows[m] \in C!AnyRow
      BY <1>c
    <3>3. [rows[m] EXCEPT !.blank = FALSE] \in C!AnyRow
      BY <3>2, RowRewritten
    <3>. QED  BY <3>1, <3>2, <3>3
  <2>. QED  BY <2>1
<1>e. \A m \in DOMAIN rows : /\ rows'[m].kind = rows[m].kind /\ rows'[m].from = rows[m].from
                             /\ rows'[m].to = rows[m].to /\ rows'[m].read = rows[m].read
  <2>1. ASSUME NEW m \in DOMAIN rows, m = request[r].row
        PROVE  /\ rows'[m].kind = rows[m].kind /\ rows'[m].from = rows[m].from
               /\ rows'[m].to = rows[m].to /\ rows'[m].read = rows[m].read
    BY <1>b, <1>c, <2>1 DEF C!AnyRow
  <2>. QED  BY <1>b, <2>1
<1>f. rows' \in Seq(C!AnyRow) /\ Len(rows') = Len(rows)
  BY <1>0, <1>b, <1>d, RowsRewritten
<1>g. \A m \in DOMAIN rows : rows'[m].deleted = rows[m].deleted
  <2>1. rows'[request[r].row].deleted = rows[request[r].row].deleted
    BY <1>b, <1>c DEF C!AnyRow
  <2>. QED  BY <1>b, <2>1
<1>1. C!TypeOK'
  BY <1>0, <1>a, <1>f DEF C!TypeOK, C!WriteEdit
<1>2. ASSUME NEW q \in Requests PROVE ReadStands(q)'
  <2>1. CASE q = r
    BY <1>a, <2>1 DEF ReadStands, C!NoRequest
  <2>2. CASE q # r
    <3>1. request'[q] = request[q] /\ ReadStands(q)
      BY <1>a, <2>2 DEF ChatsInv
    <3>2. ASSUME request[q].pc = "edit"
          PROVE  ~rows'[request[q].row].deleted \/ request[q].row \in caught'
      BY <1>b, <1>g, <3>1, <3>2 DEF ReadStands, C!WriteEdit
    <3>. QED  BY <1>b, <3>1, <3>2 DEF ReadStands, C!WriteEdit
  <2>. QED  BY <2>1, <2>2
<1>3. C!DeletedStaysBlank'
  BY <1>b, <1>g DEF ChatsInv, ReadStands, C!DeletedStaysBlank, C!WriteEdit
<1>4. OpenedRows'
  BY <1>b DEF ChatsInv, OpenedRows, C!WriteEdit
<1>5. ASSUME NEW x \in ChatUsers, NEW m \in DOMAIN rows' PROVE ReadWhenOpened(x, m)'
  BY <1>a, <1>b, <1>e, SMT
     DEF ChatsInv, ReadWhenOpened, C!GroupRows, C!Marking, C!NoRequest, C!WriteEdit
<1>6. ASSUME NEW x \in ChatUsers \ broken' PROVE Counted(x)'
  <2>1. C!SeatsOf(x)' = C!SeatsOf(x) /\ \A kind : C!Notices(kind, x)' = C!Notices(kind, x)
    BY <1>b, <1>e DEF C!SeatsOf, C!Notices, C!WriteEdit
  <2>2. Welcoming(x)' = Welcoming(x) /\ Noticing(x)' = Noticing(x)
    BY <1>a DEF Welcoming, Noticing, C!NoRequest, C!WriteEdit
  <2>3. Counted(x)
    BY DEF ChatsInv, C!WriteEdit
  <2>. QED  BY <2>1, <2>2, <2>3, SameSums
<1>. QED  BY <1>1, <1>2, <1>3, <1>4, <1>5, <1>6 DEF ChatsInv

LEMMA WriteDeleteStep ==
    ASSUME ChatsInv, NEW r \in Requests, C!WriteDelete(r)
    PROVE  ChatsInv'
<1>0. C!TypeOK
  BY DEF ChatsInv
<1>a. /\ request' \in [Requests -> C!AnyRequest] /\ request'[r] = C!NoRequest
      /\ \A q \in Requests \ {r} : request'[q] = request[q]
  BY <1>0, RequestGoes DEF C!WriteDelete
<1>b. /\ DOMAIN rows' = DOMAIN rows
      /\ \A m \in DOMAIN rows \ {request[r].row} : rows'[m] = rows[m]
      /\ request[r].row \in DOMAIN rows
      /\ rows'[request[r].row] = [rows[request[r].row] EXCEPT !.deleted = TRUE, !.blank = TRUE]
      /\ rows' = [m \in DOMAIN rows |-> rows'[m]]
  BY DEF ChatsInv, ReadStands, C!WriteDelete
<1>c. \A m \in DOMAIN rows : rows[m] \in C!AnyRow
  BY <1>0 DEF C!TypeOK
<1>d. \A m \in DOMAIN rows : rows'[m] \in C!AnyRow
  <2>1. ASSUME NEW m \in DOMAIN rows PROVE rows'[m] \in C!AnyRow
    <3>1. rows'[m] = rows[m] \/ rows'[m] = [rows[m] EXCEPT !.deleted = TRUE, !.blank = TRUE]
      BY <1>b
    <3>2. rows[m] \in C!AnyRow
      BY <1>c
    <3>3. [rows[m] EXCEPT !.deleted = TRUE, !.blank = TRUE] \in C!AnyRow
      BY <3>2, RowRewritten
    <3>. QED  BY <3>1, <3>2, <3>3
  <2>. QED  BY <2>1
<1>e. \A m \in DOMAIN rows : /\ rows'[m].kind = rows[m].kind /\ rows'[m].from = rows[m].from
                             /\ rows'[m].to = rows[m].to /\ rows'[m].read = rows[m].read
  <2>1. ASSUME NEW m \in DOMAIN rows, m = request[r].row
        PROVE  /\ rows'[m].kind = rows[m].kind /\ rows'[m].from = rows[m].from
               /\ rows'[m].to = rows[m].to /\ rows'[m].read = rows[m].read
    BY <1>b, <1>c, <2>1 DEF C!AnyRow
  <2>. QED  BY <1>b, <2>1
<1>f. rows' \in Seq(C!AnyRow) /\ Len(rows') = Len(rows)
  BY <1>0, <1>b, <1>d, RowsRewritten
<1>g. rows'[request[r].row].blank
  BY <1>b, <1>c DEF C!AnyRow
<1>h. DOMAIN rows \subseteq 1..MaxRows
  BY <1>0, ChatConstants DEF C!TypeOK, C!ChatsAssumption
<1>1. C!TypeOK'
  BY <1>0, <1>a, <1>f, <1>b, <1>h DEF C!TypeOK, C!WriteDelete
<1>2. ASSUME NEW q \in Requests PROVE ReadStands(q)'
  <2>1. CASE q = r
    BY <1>a, <2>1 DEF ReadStands, C!NoRequest
  <2>2. CASE q # r
    <3>1. request'[q] = request[q] /\ ReadStands(q)
      BY <1>a, <2>2 DEF ChatsInv
    <3>2. ASSUME request[q].pc = "edit"
          PROVE  ~rows'[request[q].row].deleted \/ request[q].row \in caught'
      BY <1>b, <1>g, <3>1, <3>2 DEF ReadStands, C!WriteDelete
    <3>. QED  BY <1>b, <3>1, <3>2 DEF ReadStands, C!WriteDelete
  <2>. QED  BY <2>1, <2>2
<1>3. C!DeletedStaysBlank'
  BY <1>b, <1>g DEF ChatsInv, ReadStands, C!DeletedStaysBlank, C!WriteDelete
<1>4. OpenedRows'
  BY <1>b DEF ChatsInv, OpenedRows, C!WriteDelete
<1>5. ASSUME NEW x \in ChatUsers, NEW m \in DOMAIN rows' PROVE ReadWhenOpened(x, m)'
  BY <1>a, <1>b, <1>e, SMT
     DEF ChatsInv, ReadWhenOpened, C!GroupRows, C!Marking, C!NoRequest, C!WriteDelete
<1>6. ASSUME NEW x \in ChatUsers \ broken' PROVE Counted(x)'
  <2>1. C!SeatsOf(x)' = C!SeatsOf(x) /\ \A kind : C!Notices(kind, x)' = C!Notices(kind, x)
    BY <1>b, <1>e DEF C!SeatsOf, C!Notices, C!WriteDelete
  <2>2. Welcoming(x)' = Welcoming(x) /\ Noticing(x)' = Noticing(x)
    BY <1>a DEF Welcoming, Noticing, C!NoRequest, C!WriteDelete
  <2>3. Counted(x)
    BY DEF ChatsInv, C!WriteDelete
  <2>. QED  BY <2>1, <2>2, <2>3, SameSums
<1>. QED  BY <1>1, <1>2, <1>3, <1>4, <1>5, <1>6 DEF ChatsInv

LEMMA MarkDirectStep ==
    ASSUME ChatsInv, NEW u \in ChatUsers, NEW p \in ChatUsers, C!MarkDirect(u, p)
    PROVE  ChatsInv'
<1>0. C!TypeOK
  BY DEF ChatsInv
<1> DEFINE unread == {m \in C!Between(u, p) : rows[m].to = u /\ ~rows[m].read}
<1>b. /\ DOMAIN rows' = DOMAIN rows
      /\ rows' = [m \in DOMAIN rows |-> rows'[m]]
      /\ \A m \in DOMAIN rows :
            \/ rows'[m] = rows[m]
            \/ rows'[m] = [rows[m] EXCEPT !.read = TRUE]
  BY DEF C!MarkDirect
<1>c. \A m \in DOMAIN rows : rows[m] \in C!AnyRow
  BY <1>0 DEF C!TypeOK
<1>d. \A m \in DOMAIN rows : rows'[m] \in C!AnyRow
  <2>1. ASSUME NEW m \in DOMAIN rows PROVE rows'[m] \in C!AnyRow
    <3>1. rows'[m] = rows[m] \/ rows'[m] = [rows[m] EXCEPT !.read = TRUE]
      BY <1>b
    <3>2. rows[m] \in C!AnyRow
      BY <1>c
    <3>3. [rows[m] EXCEPT !.read = TRUE] \in C!AnyRow
      BY <3>2, RowRewritten
    <3>. QED  BY <3>1, <3>2, <3>3
  <2>. QED  BY <2>1
<1>e. \A m \in DOMAIN rows :
         /\ rows'[m].kind = rows[m].kind /\ rows'[m].from = rows[m].from
         /\ rows'[m].to = rows[m].to /\ rows'[m].deleted = rows[m].deleted
         /\ rows'[m].blank = rows[m].blank
         /\ rows[m].read \in BOOLEAN /\ rows'[m].read \in BOOLEAN
         /\ rows'[m].read <=> (rows[m].read \/ m \in unread)
  <2>. SUFFICES ASSUME NEW m \in DOMAIN rows
                PROVE  /\ rows'[m].kind = rows[m].kind /\ rows'[m].from = rows[m].from
                       /\ rows'[m].to = rows[m].to /\ rows'[m].deleted = rows[m].deleted
                       /\ rows'[m].blank = rows[m].blank
                       /\ rows[m].read \in BOOLEAN /\ rows'[m].read \in BOOLEAN
                       /\ rows'[m].read <=> (rows[m].read \/ m \in unread)
    OBVIOUS
  <2>1. rows[m] \in C!AnyRow
    BY <1>c
  <2>2. CASE m \in unread
    <3>1. rows'[m] = [rows[m] EXCEPT !.read = TRUE]
      BY <2>2 DEF C!MarkDirect
    <3>. QED  BY <2>1, <2>2, <3>1 DEF C!AnyRow
  <2>3. CASE m \notin unread
    <3>1. rows'[m] = rows[m]
      BY <2>3 DEF C!MarkDirect
    <3>2. ~(m \in unread)
      BY <2>3
    <3>3. rows[m].read \in BOOLEAN
      BY <2>1 DEF C!AnyRow
    <3>. QED  BY <3>1, <3>2, <3>3, Zenon
  <2>. QED  BY <2>2, <2>3
<1>f. rows' \in Seq(C!AnyRow) /\ Len(rows') = Len(rows)
  BY <1>0, <1>b, <1>d, RowsRewritten
<1>g. DOMAIN rows \subseteq 1..MaxRows
  BY <1>0, ChatConstants DEF C!TypeOK, C!ChatsAssumption
<1>h. /\ unread \subseteq DOMAIN rows
      /\ \A m \in unread : rows[m].kind = "direct" /\ rows[m].to = u
  BY DEF C!Between
<1>i. \A x, m : <<x, m>> \in opened' <=> (<<x, m>> \in opened \/ (x = u /\ m \in unread))
  BY DEF C!MarkDirect
<1>j. opened' \subseteq ChatUsers \X DOMAIN rows
  <2>1. ASSUME NEW z \in opened' PROVE z \in ChatUsers \X DOMAIN rows
    <3>1. CASE z \in opened
      BY <3>1 DEF ChatsInv, OpenedRows
    <3>2. CASE \E m \in unread : z = <<u, m>>
      BY <1>h, <3>2
    <3>. QED  BY <2>1, <3>1, <3>2 DEF C!MarkDirect
  <2>. QED  BY <2>1
<1>1. C!TypeOK'
  BY <1>0, <1>f, <1>g, <1>j DEF C!TypeOK, C!MarkDirect
<1>2. ASSUME NEW q \in Requests PROVE ReadStands(q)'
  <2>1. ReadStands(q) /\ UNCHANGED <<request, caught, seats>> /\ opened \subseteq opened'
    BY DEF ChatsInv, C!MarkDirect
  <2>. QED  BY <1>b, <1>e, <2>1 DEF ReadStands
<1>3. C!DeletedStaysBlank'
  BY <1>b, <1>e DEF ChatsInv, C!DeletedStaysBlank, C!MarkDirect
<1>4. OpenedRows'
  BY <1>b, <1>i, <1>j DEF ChatsInv, OpenedRows, C!MarkDirect
<1>5. ASSUME NEW x \in ChatUsers, NEW m \in DOMAIN rows' PROVE ReadWhenOpened(x, m)'
  <2>1. C!GroupRows' = C!GroupRows /\ (C!Marking(x, m)' <=> C!Marking(x, m)) /\ ReadWhenOpened(x, m)
    BY <1>b, <1>e DEF ChatsInv, C!GroupRows, C!Marking, C!MarkDirect
  <2>2. UNCHANGED <<reads, broken>>
    BY DEF C!MarkDirect
  <2>3. m \in C!GroupRows => m \notin unread
    BY <1>h DEF C!GroupRows
  <2>4. rows[m].kind = "direct" => (rows'[m].read /\ rows'[m].to = x <=> <<x, m>> \in opened')
    <3>1. CASE m \in unread
      <4>1. rows'[m].read /\ rows'[m].to = u
        BY <1>b, <1>e, <1>h, <3>1
      <4>2. x # u => <<x, m>> \notin opened
        BY <1>b, <1>h, <2>1, <3>1 DEF ReadWhenOpened
      <4>. QED  BY <1>i, <3>1, <4>1, <4>2
    <3>2. CASE m \notin unread
      BY <1>b, <1>e, <1>i, <2>1, <3>2 DEF ReadWhenOpened
    <3>. QED  BY <3>1, <3>2
  <2>. QED  BY <1>b, <1>e, <1>i, <2>1, <2>2, <2>3, <2>4 DEF ReadWhenOpened
<1>6. ASSUME NEW x \in ChatUsers \ broken' PROVE Counted(x)'
  <2>1. C!SeatsOf(x)' = C!SeatsOf(x) /\ \A kind : C!Notices(kind, x)' = C!Notices(kind, x)
    BY <1>b, <1>e DEF C!SeatsOf, C!Notices, C!MarkDirect
  <2>2. Welcoming(x)' = Welcoming(x) /\ Noticing(x)' = Noticing(x)
    BY DEF Welcoming, Noticing, C!NoRequest, C!MarkDirect
  <2>3. Counted(x)
    BY DEF ChatsInv, C!MarkDirect
  <2>. QED  BY <2>1, <2>2, <2>3, SameSums
<1>. QED  BY <1>1, <1>2, <1>3, <1>4, <1>5, <1>6 DEF ChatsInv

LEMMA CreateReadsStep ==
    ASSUME ChatsInv, NEW r \in Requests, C!CreateReads(r)
    PROVE  ChatsInv'
<1>0. C!TypeOK
  BY DEF ChatsInv
<1>a. /\ request' \in [Requests -> C!AnyRequest] /\ request'[r] = C!NoRequest
      /\ \A q \in Requests \ {r} : request'[q] = request[q]
  BY <1>0, RequestGoes DEF C!CreateReads
<1>1. C!TypeOK'
  BY <1>0, <1>a DEF C!TypeOK, C!AnyRequest, C!CreateReads
<1>2. ASSUME NEW q \in Requests PROVE ReadStands(q)'
  BY <1>a, SMT DEF ChatsInv, ReadStands, C!NoRequest, C!CreateReads
<1>3. C!DeletedStaysBlank'
  BY SMT DEF ChatsInv, ReadStands, C!DeletedStaysBlank, C!CreateReads
<1>4. OpenedRows'
  BY <1>0, SMT DEF ChatsInv, C!TypeOK, ReadStands, OpenedRows, C!CreateReads
<1>5. ASSUME NEW x \in ChatUsers, NEW m \in DOMAIN rows' PROVE ReadWhenOpened(x, m)'
  BY <1>a, SMT DEF ChatsInv, ReadWhenOpened, C!GroupRows, C!Marking, C!NoRequest, C!CreateReads
<1>6. ASSUME NEW x \in ChatUsers \ broken' PROVE Counted(x)'
  <2>1. C!SeatsOf(x)' = C!SeatsOf(x) /\ \A kind : C!Notices(kind, x)' = C!Notices(kind, x)
    BY DEF C!SeatsOf, C!Notices, C!CreateReads
  <2>2. Welcoming(x)' = Welcoming(x) /\ Noticing(x)' = Noticing(x)
    BY <1>a DEF Welcoming, Noticing, C!NoRequest, C!CreateReads
  <2>3. Counted(x)
    BY DEF ChatsInv, C!CreateReads
  <2>. QED  BY <2>1, <2>2, <2>3, SameSums
<1>. QED  BY <1>1, <1>2, <1>3, <1>4, <1>5, <1>6 DEF ChatsInv

LEMMA DieStep ==
    ASSUME ChatsInv, NEW r \in Requests, C!Die(r)
    PROVE  ChatsInv'
<1>0. C!TypeOK
  BY DEF ChatsInv
<1>a. /\ request' \in [Requests -> C!AnyRequest] /\ request'[r] = C!NoRequest
      /\ \A q \in Requests \ {r} : request'[q] = request[q]
  BY <1>0, RequestGoes DEF C!Die
<1>1. C!TypeOK'
  BY <1>0, <1>a DEF C!TypeOK, C!AnyRequest, C!Die
<1>2. ASSUME NEW q \in Requests PROVE ReadStands(q)'
  BY <1>a, SMT DEF ChatsInv, ReadStands, C!NoRequest, C!Die
<1>3. C!DeletedStaysBlank'
  BY SMT DEF ChatsInv, ReadStands, C!DeletedStaysBlank, C!Die
<1>4. OpenedRows'
  BY <1>0, SMT DEF ChatsInv, C!TypeOK, ReadStands, OpenedRows, C!Die
<1>5. ASSUME NEW x \in ChatUsers, NEW m \in DOMAIN rows' PROVE ReadWhenOpened(x, m)'
  BY <1>a, SMT DEF ChatsInv, ReadWhenOpened, C!GroupRows, C!Marking, C!NoRequest, C!Die
<1>6. ASSUME NEW x \in ChatUsers \ broken' PROVE Counted(x)'
  <2>1. C!SeatsOf(x)' = C!SeatsOf(x) /\ \A kind : C!Notices(kind, x)' = C!Notices(kind, x)
    BY DEF C!SeatsOf, C!Notices, C!Die
  <2>2. Welcoming(x)' = Welcoming(x) /\ Noticing(x)' = Noticing(x)
    BY <1>a DEF Welcoming, Noticing, C!NoRequest, C!Die
  <2>3. Counted(x)
    BY DEF ChatsInv, C!Die
  <2>. QED  BY <2>1, <2>2, <2>3, SameSums
<1>. QED  BY <1>1, <1>2, <1>3, <1>4, <1>5, <1>6 DEF ChatsInv

LEMMA HideConversationStep ==
    ASSUME ChatsInv, NEW u \in ChatUsers, NEW p \in ChatUsers, C!HideConversation(u, p)
    PROVE  ChatsInv'
<1>0. C!TypeOK
  BY DEF ChatsInv
<1>1. C!TypeOK'
  BY <1>0, ChatConstants, SMT DEF C!TypeOK, C!ChatsAssumption, C!HideConversation
<1>2. ASSUME NEW q \in Requests PROVE ReadStands(q)'
  BY SMT DEF ChatsInv, ReadStands, C!NoRequest, C!HideConversation
<1>3. C!DeletedStaysBlank'
  BY SMT DEF ChatsInv, ReadStands, C!DeletedStaysBlank, C!HideConversation
<1>4. OpenedRows'
  BY <1>0, SMT DEF ChatsInv, C!TypeOK, ReadStands, OpenedRows, C!HideConversation
<1>5. ASSUME NEW x \in ChatUsers, NEW m \in DOMAIN rows' PROVE ReadWhenOpened(x, m)'
  BY SMT DEF ChatsInv, ReadWhenOpened, C!GroupRows, C!Marking, C!NoRequest, C!HideConversation
<1>6. ASSUME NEW x \in ChatUsers \ broken' PROVE Counted(x)'
  <2>1. C!SeatsOf(x)' = C!SeatsOf(x) /\ \A kind : C!Notices(kind, x)' = C!Notices(kind, x)
    BY DEF C!SeatsOf, C!Notices, C!HideConversation
  <2>2. Welcoming(x)' = Welcoming(x) /\ Noticing(x)' = Noticing(x)
    BY DEF Welcoming, Noticing, C!NoRequest, C!HideConversation
  <2>3. Counted(x)
    BY DEF ChatsInv, C!HideConversation
  <2>. QED  BY <2>1, <2>2, <2>3, SameSums
<1>. QED  BY <1>1, <1>2, <1>3, <1>4, <1>5, <1>6 DEF ChatsInv

LEMMA RemoveGroupStep ==
    ASSUME ChatsInv, C!RemoveGroup
    PROVE  ChatsInv'
<1>0. C!TypeOK
  BY DEF ChatsInv
<1>1. C!TypeOK'
  BY <1>0, ChatConstants, SMT DEF C!TypeOK, C!ChatsAssumption, C!RemoveGroup
<1>2. ASSUME NEW q \in Requests PROVE ReadStands(q)'
  BY SMT DEF ChatsInv, ReadStands, C!NoRequest, C!RemoveGroup
<1>3. C!DeletedStaysBlank'
  BY SMT DEF ChatsInv, ReadStands, C!DeletedStaysBlank, C!RemoveGroup
<1>4. OpenedRows'
  BY <1>0, SMT DEF ChatsInv, C!TypeOK, ReadStands, OpenedRows, C!RemoveGroup
<1>5. ASSUME NEW x \in ChatUsers, NEW m \in DOMAIN rows' PROVE ReadWhenOpened(x, m)'
  BY SMT DEF ChatsInv, ReadWhenOpened, C!GroupRows, C!Marking, C!NoRequest, C!RemoveGroup
<1>6. ASSUME NEW x \in ChatUsers \ broken' PROVE Counted(x)'
  <2>1. C!SeatsOf(x)' = C!SeatsOf(x) /\ \A kind : C!Notices(kind, x)' = C!Notices(kind, x)
    BY DEF C!SeatsOf, C!Notices, C!RemoveGroup
  <2>2. Welcoming(x)' = Welcoming(x) /\ Noticing(x)' = Noticing(x)
    BY DEF Welcoming, Noticing, C!NoRequest, C!RemoveGroup
  <2>3. Counted(x)
    BY DEF ChatsInv, C!RemoveGroup
  <2>. QED  BY <2>1, <2>2, <2>3, SameSums
<1>. QED  BY <1>1, <1>2, <1>3, <1>4, <1>5, <1>6 DEF ChatsInv

LEMMA AddSeatStep ==
    ASSUME ChatsInv, NEW r \in Requests, C!AddSeat(r)
    PROVE  ChatsInv'
<1>0. C!TypeOK
  BY DEF ChatsInv
<1>a. /\ request' \in [Requests -> C!AnyRequest]
      /\ request'[r] = [request[r] EXCEPT !.pc = "welcome"]
      /\ \A q \in Requests \ {r} : request'[q] = request[q]
      /\ request'[r].pc = "welcome" /\ request'[r].who = request[r].who
  <2>1. request[r] \in C!AnyRequest
    BY <1>0 DEF C!TypeOK
  <2>2. /\ [request[r] EXCEPT !.pc = "welcome"] \in C!AnyRequest
        /\ [request[r] EXCEPT !.pc = "welcome"].pc = "welcome"
        /\ [request[r] EXCEPT !.pc = "welcome"].who = request[r].who
    BY <2>1 DEF C!AnyRequest
  <2>3. request' = [request EXCEPT ![r] = [request[r] EXCEPT !.pc = "welcome"]]
    BY DEF C!Goes, C!AddSeat
  <2>. QED  BY <1>0, <2>2, <2>3 DEF C!TypeOK
<1>b. /\ seats' \in Seq(ChatUsers \cup {C!Nobody}) /\ Len(seats') <= MaxSeats
      /\ DOMAIN seats = 1..Len(seats) /\ Len(seats) \in Nat
      /\ DOMAIN seats' = 1..(Len(seats) + 1)
      /\ \A s \in DOMAIN seats : seats'[s] = seats[s]
      /\ seats'[Len(seats) + 1] = request[r].who
  BY <1>0, ChatConstants DEF C!TypeOK, C!AnyRequest, C!ChatsAssumption, C!AddSeat
<1>1. C!TypeOK'
  BY <1>0, <1>a, <1>b DEF C!TypeOK, C!AddSeat
<1>2. ASSUME NEW q \in Requests PROVE ReadStands(q)'
  <2>1. CASE q = r
    BY <1>a, <2>1 DEF ReadStands
  <2>2. CASE q # r
    <3>1. request'[q] = request[q] /\ ReadStands(q)
      BY <1>a, <2>2 DEF ChatsInv
    <3>2. request[q].row \in DOMAIN seats =>
              request[q].row \in DOMAIN seats' /\ seats'[request[q].row] = seats[request[q].row]
      BY <1>b
    <3>. QED  BY <3>1, <3>2 DEF ReadStands, C!AddSeat
  <2>. QED  BY <2>1, <2>2
<1>3. C!DeletedStaysBlank'
  BY DEF ChatsInv, C!DeletedStaysBlank, C!AddSeat
<1>4. OpenedRows'
  BY DEF ChatsInv, OpenedRows, C!AddSeat
<1>5. ASSUME NEW x \in ChatUsers, NEW m \in DOMAIN rows' PROVE ReadWhenOpened(x, m)'
  BY <1>a DEF ChatsInv, ReadWhenOpened, C!GroupRows, C!Marking, C!AddSeat
<1>6. ASSUME NEW x \in ChatUsers \ broken' PROVE Counted(x)'
  <2>1. Noticing(x)' = Noticing(x)
    BY <1>a DEF Noticing, C!AddSeat
  <2>2. \A kind : C!Notices(kind, x)' = C!Notices(kind, x)
    BY DEF C!Notices, C!AddSeat
  <2>3. Counted(x)
    BY DEF ChatsInv, C!AddSeat
  <2>4. CASE x = request[r].who
    <3>1. C!SeatsOf(x)' = C!SeatsOf(x) \cup {Len(seats) + 1} /\ Len(seats) + 1 \notin C!SeatsOf(x)
      BY <1>b, <2>4 DEF C!SeatsOf
    <3>2. Welcoming(x)' = Welcoming(x) \cup {r} /\ r \notin Welcoming(x)
      <4>1. request[r].pc = "add"
        BY DEF C!AddSeat
      <4>2. \A q \in Requests : q \in Welcoming(x)' <=> q \in Welcoming(x) \/ q = r
        BY <1>a, <2>4 DEF Welcoming
      <4>. QED  BY <4>1, <4>2 DEF Welcoming
    <3>3. Cardinality(C!SeatsOf(x)') = Cardinality(C!SeatsOf(x)) + 1
      BY <1>0, <3>1, FiniteSums, FS_AddElement
    <3>4. Cardinality(Welcoming(x)') = Cardinality(Welcoming(x)) + 1
      BY <1>0, <3>2, FiniteSums, FS_AddElement
    <3>5. /\ Cardinality(C!SeatsOf(x)) \in Nat /\ Cardinality(Welcoming(x)) \in Nat
          /\ Cardinality(Noticing(x)) \in Nat /\ Cardinality(C!Notices("added", x)) \in Nat
          /\ Cardinality(C!Notices("removed", x)) \in Nat
      BY <1>0, FiniteSums, FS_CardinalityType
    <3>. QED  BY <2>1, <2>2, <2>3, <3>3, <3>4, <3>5 DEF Counted
  <2>5. CASE x # request[r].who
    <3>1. C!SeatsOf(x)' = C!SeatsOf(x)
      BY <1>b, <2>5 DEF C!SeatsOf
    <3>2. Welcoming(x)' = Welcoming(x)
      BY <1>a, <2>5 DEF Welcoming, C!AddSeat
    <3>. QED  BY <2>1, <2>2, <2>3, <3>1, <3>2, SameSums
  <2>. QED  BY <2>4, <2>5
<1>. QED  BY <1>1, <1>2, <1>3, <1>4, <1>5, <1>6 DEF ChatsInv

LEMMA DropSeatStep ==
    ASSUME ChatsInv, NEW r \in Requests, C!DropSeat(r)
    PROVE  ChatsInv'
<1>0. C!TypeOK
  BY DEF ChatsInv
<1>a. /\ request' \in [Requests -> C!AnyRequest]
      /\ \A q \in Requests \ {r} : request'[q] = request[q]
      /\ IF seats[request[r].row] = C!Nobody THEN request'[r] = C!NoRequest
         ELSE request'[r].pc = "notice" /\ request'[r].who = request[r].who
  BY <1>0, NoRequestOfType DEF C!TypeOK, C!AnyRequest, C!Goes, C!DropSeat
<1>b. /\ DOMAIN seats' = DOMAIN seats /\ request[r].row \in DOMAIN seats
      /\ seats[request[r].row] \in {request[r].who, C!Nobody}
      /\ seats' = [seats EXCEPT ![request[r].row] = C!Nobody]
      /\ seats'[request[r].row] = C!Nobody
      /\ \A s \in DOMAIN seats : s # request[r].row => seats'[s] = seats[s]
  BY DEF ChatsInv, ReadStands, C!DropSeat
<1>c. seats' \in Seq(ChatUsers \cup {C!Nobody}) /\ Len(seats') <= MaxSeats
  BY <1>0, <1>b DEF C!TypeOK
<1>d. request[r].who \in ChatUsers /\ C!Nobody \notin ChatUsers /\ request[r].pc = "remove"
  BY <1>0, ChatConstants DEF C!TypeOK, C!AnyRequest, C!ChatsAssumption, C!DropSeat
<1>1. C!TypeOK'
  BY <1>0, <1>a, <1>c DEF C!TypeOK, C!DropSeat
<1>2. ASSUME NEW q \in Requests PROVE ReadStands(q)'
  BY <1>a, <1>b, SMT DEF ChatsInv, ReadStands, C!NoRequest, C!DropSeat
<1>3. C!DeletedStaysBlank'
  BY DEF ChatsInv, C!DeletedStaysBlank, C!DropSeat
<1>4. OpenedRows'
  BY DEF ChatsInv, OpenedRows, C!DropSeat
<1>5. ASSUME NEW x \in ChatUsers, NEW m \in DOMAIN rows' PROVE ReadWhenOpened(x, m)'
  BY <1>a, <1>d DEF ChatsInv, ReadWhenOpened, C!GroupRows, C!Marking, C!DropSeat
<1>6. ASSUME NEW x \in ChatUsers \ broken' PROVE Counted(x)'
  <2>1. Welcoming(x)' = Welcoming(x)
    BY <1>a, <1>d DEF Welcoming, C!NoRequest
  <2>2. \A kind : C!Notices(kind, x)' = C!Notices(kind, x)
    BY DEF C!Notices, C!DropSeat
  <2>3. Counted(x)
    BY DEF ChatsInv, C!DropSeat
  <2>4. CASE x = request[r].who /\ seats[request[r].row] # C!Nobody
    <3>1. C!SeatsOf(x)' = C!SeatsOf(x) \ {request[r].row} /\ request[r].row \in C!SeatsOf(x)
      BY <1>b, <1>d, <2>4 DEF C!SeatsOf
    <3>2. Noticing(x)' = Noticing(x) \cup {r} /\ r \notin Noticing(x)
      BY <1>a, <1>d, <2>4 DEF Noticing
    <3>3. Cardinality(C!SeatsOf(x)') = Cardinality(C!SeatsOf(x)) - 1
      <4>1. IsFiniteSet(C!SeatsOf(x))
        BY <1>0, FiniteSums
      <4>2. Cardinality(C!SeatsOf(x) \ {request[r].row}) = Cardinality(C!SeatsOf(x)) - 1
        BY <3>1, <4>1, FS_RemoveElement
      <4>. QED  BY <3>1, <4>2
    <3>4. Cardinality(Noticing(x)') = Cardinality(Noticing(x)) + 1
      BY <1>0, <3>2, FiniteSums, FS_AddElement
    <3>5. /\ Cardinality(C!SeatsOf(x)) \in Nat /\ Cardinality(Welcoming(x)) \in Nat
          /\ Cardinality(Noticing(x)) \in Nat /\ Cardinality(C!Notices("added", x)) \in Nat
          /\ Cardinality(C!Notices("removed", x)) \in Nat
      BY <1>0, FiniteSums, FS_CardinalityType
    <3>. QED  BY <2>1, <2>2, <2>3, <3>3, <3>4, <3>5 DEF Counted
  <2>5. CASE x # request[r].who \/ seats[request[r].row] = C!Nobody
    <3>1. C!SeatsOf(x)' = C!SeatsOf(x)
      BY <1>b, <1>d, <2>5 DEF C!SeatsOf
    <3>2. Noticing(x)' = Noticing(x)
      BY <1>a, <1>d, <2>5 DEF Noticing, C!NoRequest
    <3>. QED  BY <2>1, <2>2, <2>3, <3>1, <3>2, SameSums
  <2>. QED  BY <2>4, <2>5
<1>. QED  BY <1>1, <1>2, <1>3, <1>4, <1>5, <1>6 DEF ChatsInv

LEMMA ChatsStep ==
    ASSUME ChatsInv, [C!Next]_(C!vars)
    PROVE  ChatsInv'
<1>1. ASSUME NEW r \in Requests, NEW u \in ChatUsers, C!Talk(r, u) PROVE ChatsInv'
  BY <1>1, CheckPostStep, FindUnreadStep, ReadForEditStep, ReadForDeleteStep, CheckAddStep,
     CheckRemoveStep DEF C!Talk
<1>2. ASSUME NEW r \in Requests, C!Step(r) PROVE ChatsInv'
  BY <1>2, PostGroupStep, WriteEditStep, WriteDeleteStep, CreateReadsStep, AddSeatStep,
     WelcomeStep, DropSeatStep, NoticeStep, DieStep DEF C!Step
<1>3. CASE UNCHANGED C!vars
  <2>1. UNCHANGED <<rows, reads, seats, groupGone, hidden, request, opened, caught, broken>>
    BY <1>3 DEF C!vars
  <2>2. \A r \in Requests : ReadStands(r)'
    BY <2>1 DEF ChatsInv, ReadStands
  <2>3. \A u \in ChatUsers, m \in DOMAIN rows' : ReadWhenOpened(u, m)'
    BY <2>1 DEF ChatsInv, ReadWhenOpened, C!GroupRows, C!Marking
  <2>4. \A u \in ChatUsers \ broken' : Counted(u)'
    BY <2>1 DEF ChatsInv, Counted, C!SeatsOf, C!Notices, Welcoming, Noticing
  <2>. QED  BY <2>1, <2>2, <2>3, <2>4 DEF ChatsInv, C!TypeOK, C!DeletedStaysBlank, OpenedRows
<1>. QED  BY <1>1, <1>2, <1>3, PostDirectStep, MarkDirectStep, HideConversationStep,
             PostTripStep, RemoveGroupStep DEF C!Next

LEMMA ChatsAtFirst == C!Init => ChatsInv
<1>. SUFFICES ASSUME C!Init PROVE ChatsInv
  OBVIOUS
<1>1. C!TypeOK
  <2>1. rows \in Seq(C!AnyRow) /\ Len(rows) = 0
    BY DEF C!Init
  <2>2. seats \in Seq(ChatUsers \cup {C!Nobody}) /\ Len(seats) = 1
    BY ChatConstants DEF C!Init, C!ChatsAssumption
  <2>3. request \in [Requests -> C!AnyRequest] /\ hidden \in [ChatUsers \X ChatUsers -> 0..MaxRows]
    BY NoRequestOfType, ChatConstants DEF C!Init, C!ChatsAssumption
  <2>4. /\ reads = {} /\ opened = {} /\ caught = {} /\ broken = {} /\ groupGone = FALSE
        /\ 0 <= MaxRows /\ 1 <= MaxSeats
    BY ChatConstants DEF C!Init, C!ChatsAssumption
  <2>. QED  BY <2>1, <2>2, <2>3, <2>4 DEF C!TypeOK
<1>2. \A r \in Requests : ReadStands(r)
  BY DEF C!Init, ReadStands, C!NoRequest
<1>3. ASSUME NEW u \in ChatUsers PROVE Counted(u)
  <2>1. C!Notices("added", u) = {} /\ C!Notices("removed", u) = {}
        /\ Welcoming(u) = {} /\ Noticing(u) = {}
    BY DEF C!Init, C!Notices, Welcoming, Noticing, C!NoRequest
  <2>2. C!SeatsOf(u) = IF u = Creator THEN {1} ELSE {}
    BY DEF C!Init, C!SeatsOf
  <2>3. Cardinality({}) = 0 /\ Cardinality({1}) = 1
    BY FS_EmptySet, FS_Singleton
  <2>4. Cardinality(C!SeatsOf(u)) = IF u = Creator THEN 1 ELSE 0
    BY <2>2, <2>3
  <2>. QED  BY <2>1, <2>3, <2>4 DEF Counted
<1>. QED  BY <1>1, <1>2, <1>3 DEF C!Init, ChatsInv, C!DeletedStaysBlank, OpenedRows

LEMMA ChatsInvHolds == C!Spec => []ChatsInv
<1>1. ChatsInv /\ [C!Next]_(C!vars) => ChatsInv'
  BY ChatsStep
<1>. QED  BY <1>1, ChatsAtFirst, PTL DEF C!Spec

LEMMA ChatsInvSays == ChatsInv => C!TypeOK /\ C!ChatsHold
<1>. SUFFICES ASSUME ChatsInv PROVE C!ChatsHold
  BY DEF ChatsInv
<1>0. C!TypeOK /\ DOMAIN rows = 1..Len(rows) /\ Len(rows) \in Nat
  BY DEF ChatsInv, C!TypeOK
<1>1. ASSUME NEW u \in ChatUsers \ broken, NEW m \in DOMAIN rows, <<u, m>> \in opened,
             ~C!Marking(u, m)
      PROVE  m \notin C!UnreadDirect(u) \cup C!UnreadGroup(u)
  BY <1>1 DEF ChatsInv, ReadWhenOpened, C!UnreadDirect, C!UnreadGroup
<1>2. ASSUME NEW u \in ChatUsers \ broken, NEW m \in DOMAIN rows, <<u, m>> \notin opened,
             rows[m].kind = "direct", rows[m].to = u, ~(hidden[<<u, rows[m].from>>] >= m)
      PROVE  m \in C!UnreadDirect(u)
  <2>1. hidden[<<u, rows[m].from>>] \in Nat /\ m \in Nat
    <3>1. rows[m] \in C!AnyRow
      BY <1>0 DEF C!TypeOK
    <3>2. rows[m].from \in ChatUsers
      BY <3>1 DEF C!AnyRow
    <3>. QED  BY <1>0, <3>2, ChatConstants DEF C!TypeOK, C!ChatsAssumption
  <2>2. m \in C!Between(u, rows[m].from) /\ m > hidden[<<u, rows[m].from>>]
    BY <1>2, <2>1 DEF C!Between
  <2>3. ~rows[m].read
    BY <1>2 DEF ChatsInv, ReadWhenOpened
  <2>. QED  BY <1>2, <2>2, <2>3 DEF C!UnreadDirect
<1>3. ASSUME NEW u \in ChatUsers \ broken, NEW m \in C!GroupRows, <<u, m>> \notin opened,
             rows[m].from # u, u = Creator \/ C!SeatsOf(u) # {}
      PROVE  m \in C!UnreadGroup(u)
  BY <1>3 DEF ChatsInv, OpenedRows, C!UnreadGroup
<1>4. C!BellsTellTruth
  BY <1>1, <1>2, <1>3 DEF C!BellsTellTruth
<1>5. ASSUME NEW u \in ChatUsers \ broken, ~C!BeingSeated(u)
      PROVE  Cardinality(C!SeatsOf(u)) + Cardinality(C!Notices("removed", u))
                 = Cardinality(C!Notices("added", u)) + (IF u = Creator THEN 1 ELSE 0)
  <2>1. Welcoming(u) = {} /\ Noticing(u) = {}
    BY <1>5 DEF C!BeingSeated, Welcoming, Noticing
  <2>2. Cardinality(Welcoming(u)) = 0 /\ Cardinality(Noticing(u)) = 0
    BY <2>1, FS_EmptySet
  <2>3. /\ Cardinality(C!SeatsOf(u)) \in Nat /\ Cardinality(C!Notices("removed", u)) \in Nat
        /\ Cardinality(C!Notices("added", u)) \in Nat
    BY <1>0, FiniteSums, FS_CardinalityType
  <2>4. Counted(u)
    BY DEF ChatsInv
  <2>. QED  BY <2>2, <2>3, <2>4 DEF Counted
<1>. QED  BY <1>4, <1>5, RequestSizes DEF ChatsInv, C!ChatsHold, C!NoticesMatchSeats

-----------------------------------------------------------------------------
(* What is proved of each module holds in every scene.                     *)

\* An alarm is put off, or ticked off, only after it has rung for every time that
\* is passed over, however runs overlap and wherever the server restarts; but
\* for an alarm that its user changed while a run held it.
THEOREM AlarmsRingBeforePutOff == Spec => PutOffAfterRinging
<1>1. A!PutOffAfterRinging => PutOffAfterRinging
  BY DEF PutOffAfterRinging
<1>. QED  BY <1>1, ScenesOfAlarms, PutOffAfterRingingHolds, PTL

\* A device in use keeps its row in its user's name, whatever late sign-outs and
\* pushes meet it; but for one that lost its row to a push of which a chunk
\* failed, or to its own user's late sign-out.
THEOREM DevicesInUseStayRegistered == Spec => []DevicesStayRegistered
<1>1. PushesInv => DevicesStayRegistered
  BY DEF PushesInv, DevicesStayRegistered
<1>. QED  BY <1>1, ScenesOfPushes, PushesInvHolds, PTL

\* A batch is saved whole or not at all, a live row has its file and a tombstone
\* none, and no photo waits beside a free slot, whatever overlaps or fails; but
\* for a file of which a deletion failed or that was deleted by hand.
THEOREM RowsAndFilesAgree == Spec => []FilesAgree
<1>1. FilesInv => FilesAgree
  BY FilesInvSays DEF FilesAgree
<1>. QED  BY <1>1, ScenesOfFiles, FilesInvHolds, PTL

\* The picture of a row is the one its link shows, is in the bucket, and its link
\* lives, and no file is left that no row names; but for an owner whom two writes
\* met side by side or of whom a change failed halfway.
THEOREM PicturesAreThere == Spec => []PicturesHold
<1>1. PicturesInv => PicturesHold
  BY PicturesInvSays DEF PicturesHold
<1>. QED  BY <1>1, ScenesOfPictures, PicturesInvHolds, PTL

\* A deleted message stays blank unless an edit was under way, bells count what
\* is unread, and the notices in the group add up to who sits in it; but for users
\* of whom a request has died halfway.
THEOREM ChatsStayTrue == Spec => []ChatsHold
<1>1. ChatsInv => ChatsHold
  BY ChatsInvSays DEF ChatsHold
<1>. QED  BY <1>1, ScenesOfChats, ChatsInvHolds, PTL

\* In every scene the five modules keep their types.
THEOREM TypeCorrect == Spec => []TypeOK
<1>1. AlarmsInv => A!TypeOK
  BY DEF AlarmsInv
<1>2. PushesInv => P!TypeOK
  BY DEF PushesInv
<1>3. FilesInv => F!TypeOK
  BY DEF FilesInv
<1>4. PicturesInv => I!TypeOK
  BY DEF PicturesInv
<1>5. ChatsInv => C!TypeOK
  BY DEF ChatsInv
<1>6. Spec => []A!TypeOK
  BY <1>1, ScenesOfAlarms, AlarmsInvHolds, PTL
<1>7. Spec => []P!TypeOK /\ []F!TypeOK
  BY <1>2, <1>3, ScenesOfPushes, PushesInvHolds, ScenesOfFiles, FilesInvHolds, PTL
<1>8. Spec => []I!TypeOK /\ []C!TypeOK
  BY <1>4, <1>5, ScenesOfPictures, PicturesInvHolds, ScenesOfChats, ChatsInvHolds, PTL
<1>. QED  BY <1>6, <1>7, <1>8, PTL DEF TypeOK

=============================================================================
