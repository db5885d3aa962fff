------------------------------- MODULE Alarms -------------------------------
(***************************************************************************)
(* Alarm clocks (AlarmsService): rows that a user sets for himself or a    *)
(* colleague, and the job that looks for due ones every minute, rings them *)
(* and puts them off to the next day, or ticks them off.                   *)
(*                                                                         *)
(* The job works alarm by alarm on rows read at its start, with a push     *)
(* before each write, and nothing keeps a run from being joined by the     *)
(* next one.  A tick of the clock stands for many minutes, so a run may    *)
(* start at any time.                                                      *)
(*                                                                         *)
(* Left out: titles and notes, who may set an alarm for whom, time zones   *)
(* (a day is Day ticks), weekly alarms (another number of days).           *)
(*                                                                         *)
(* A definition marked Mutant is a faulty form of the one that follows it. *)
(***************************************************************************)
EXTENDS Integers

CONSTANTS
    AlarmIds,
    Runs,           \* runs of the job that may be under way at once
    Day,            \* ticks between two times of a daily alarm
    MaxTime,        \* bound: the last tick
    MaxEvents       \* bound: changes, removals and restarts of the server

AlarmsAssumption == Day \in Nat \ {0} /\ MaxTime \in Nat /\ MaxEvents \in Nat

VARIABLES
    now,            \* the clock
    alarm,          \* alarm[a]: the row, or Gone
    run,            \* run[r]: the rows that a run has still to ring, and the one in hand
    heard,          \* heard[a]: when it last rang, since its user set its time
    caught,         \* alarms changed by their user while a run held the row
    events

vars == <<now, alarm, run, heard, caught, events>>

Gone == [there |-> FALSE, time |-> 0, isSent |-> FALSE, recurrence |-> "NONE"]

Times == 0 .. MaxTime + Day

Never == -1

AlarmRows == [there : BOOLEAN, time : Times, isSent : BOOLEAN,
              recurrence : {"NONE", "DAILY"}]

\* held: the rows as they were read, Gone when done with; rung: the one whose row
\* is to be written next; now: the clock at the start.
NoRun == [now |-> 0, held |-> [a \in AlarmIds |-> Gone], rung |-> {}]

AnyRun == [now : 0 .. MaxTime, held : [AlarmIds -> AlarmRows], rung : SUBSET AlarmIds]

TypeOK ==
    /\ now \in 0 .. MaxTime
    /\ alarm \in [AlarmIds -> AlarmRows]
    /\ run \in [Runs -> AnyRun]
    /\ heard \in [AlarmIds -> {Never} \cup 0 .. MaxTime]
    /\ caught \subseteq AlarmIds
    /\ events \in 0 .. MaxEvents

Init ==
    /\ now = 0
    /\ alarm = [a \in AlarmIds |-> Gone]
    /\ run = [r \in Runs |-> NoRun]
    /\ heard = [a \in AlarmIds |-> Never]
    /\ caught = {}
    /\ events = 0

IsDue(a) == alarm[a].there /\ alarm[a].time <= now /\ ~alarm[a].isSent

\* Some run has read a and not finished with it.
Held(a) == \E r \in Runs : run[r].held[a].there

\* The times of an alarm, by whole days, within reach of a run at this clock.
Recurring(row, clock) == {row.time + days * Day : days \in 1..clock + 2}

\* Mutant: the loop adds a day once too often.
NextFireTimeLate(row, clock) ==
    CHOOSE t \in Recurring(row, clock) : clock + Day < t /\ t <= clock + 2 * Day

\* nextFireTime: by whole days, the first time after the start of the run; the
\* times missed while the server was down are skipped.
NextFireTime(row, clock) ==
    CHOOSE t \in Recurring(row, clock) : clock < t /\ t <= clock + Day

Tick ==
    /\ now < MaxTime
    /\ now' = now + 1
    /\ UNCHANGED <<alarm, run, heard, caught, events>>

-----------------------------------------------------------------------------
(* Requests: the row is read first, but what is written is the caller's.   *)

Create(a, time, recurrence) ==
    /\ ~alarm[a].there /\ ~Held(a)
    /\ time \in now .. MaxTime
    /\ alarm' = [alarm EXCEPT ![a] = [there |-> TRUE, time |-> time, isSent |-> FALSE,
                                      recurrence |-> recurrence]]
    /\ heard' = [heard EXCEPT ![a] = Never]
    /\ caught' = caught \ {a}
    /\ UNCHANGED <<now, run, events>>

\* A new time makes the alarm unsent again.
UpdateTime(a, time) ==
    /\ alarm[a].there
    /\ time \in now .. MaxTime
    /\ alarm' = [alarm EXCEPT ![a].time = time, ![a].isSent = FALSE]
    /\ heard' = [heard EXCEPT ![a] = Never]
    /\ caught' = IF Held(a) THEN caught \cup {a} ELSE caught \ {a}
    /\ events < MaxEvents /\ events' = events + 1
    /\ UNCHANGED <<now, run>>

UpdateRecurrence(a, recurrence) ==
    /\ alarm[a].there
    /\ alarm' = [alarm EXCEPT ![a].recurrence = recurrence]
    /\ caught' = IF Held(a) THEN caught \cup {a} ELSE caught
    /\ events < MaxEvents /\ events' = events + 1
    /\ UNCHANGED <<now, run, heard>>

Remove(a) ==
    /\ alarm[a].there
    /\ alarm' = [alarm EXCEPT ![a] = Gone]
    /\ heard' = [heard EXCEPT ![a] = Never]
    /\ caught' = caught \ {a}
    /\ events < MaxEvents /\ events' = events + 1
    /\ UNCHANGED <<now, run>>

-----------------------------------------------------------------------------
(* checkAlarms.                                                            *)

\* Mutant: a run looks for the alarms of its own minute.
CheckAlarmsOfMinute(r) ==
    LET due == {a \in AlarmIds : alarm[a].there /\ alarm[a].time = now /\ ~alarm[a].isSent} IN
    /\ run[r] = NoRun
    /\ due # {}
    /\ run' = [run EXCEPT ![r].now = now,
                          ![r].held = [a \in AlarmIds |-> IF a \in due THEN alarm[a]
                                                          ELSE Gone]]
    /\ UNCHANGED <<now, alarm, heard, caught, events>>

CheckAlarms(r) ==
    LET due == {a \in AlarmIds : IsDue(a)} IN
    /\ run[r] = NoRun
    /\ due # {}
    /\ run' = [run EXCEPT ![r].now = now,
                          ![r].held = [a \in AlarmIds |-> IF a \in due THEN alarm[a]
                                                          ELSE Gone]]
    /\ UNCHANGED <<now, alarm, heard, caught, events>>

\* The push, whose failure is caught, and the socket event.
Ring(r, a) ==
    /\ run[r].rung = {} /\ run[r].held[a].there
    /\ run' = [run EXCEPT ![r].rung = {a}]
    /\ heard' = IF alarm[a].there THEN [heard EXCEPT ![a] = now] ELSE heard
    /\ UNCHANGED <<now, alarm, caught, events>>

\* The run goes on to its next row, or ends.
DoneWith(r, a) ==
    IF \E b \in AlarmIds \ {a} : run[r].held[b].there
    THEN [run[r] EXCEPT !.held[a] = Gone, !.rung = {}]
    ELSE NoRun

\* Mutant: the next time is counted from the end of the push.
RescheduledByClock(r, a) ==
    LET row == run[r].held[a] IN
    IF row.recurrence = "DAILY"
    THEN [alarm[a] EXCEPT !.time = NextFireTime(row, now), !.isSent = FALSE]
    ELSE [alarm[a] EXCEPT !.isSent = TRUE]

\* What the run writes over a row: the next time, or isSent.
Rescheduled(r, a) ==
    LET row == run[r].held[a] IN
    IF row.recurrence = "DAILY"
    THEN [alarm[a] EXCEPT !.time = NextFireTime(row, run[r].now), !.isSent = FALSE]
    ELSE [alarm[a] EXCEPT !.isSent = TRUE]

Reschedule(r, a) ==
    /\ a \in run[r].rung
    /\ alarm[a].there
    /\ alarm' = [alarm EXCEPT ![a] = Rescheduled(r, a)]
    /\ run' = [run EXCEPT ![r] = DoneWith(r, a)]
    /\ UNCHANGED <<now, heard, caught, events>>

\* The row has been removed: update throws, and the rest is left to a later run.
Abort(r, a) ==
    /\ a \in run[r].rung
    /\ ~alarm[a].there
    /\ run' = [run EXCEPT ![r] = NoRun]
    /\ UNCHANGED <<now, alarm, heard, caught, events>>

\* The server restarts.
Crash ==
    /\ events < MaxEvents
    /\ events' = events + 1
    /\ run' = [r \in Runs |-> NoRun]
    /\ UNCHANGED <<now, alarm, heard, caught>>

Request(a) ==
    \/ \E time \in 0 .. MaxTime, recurrence \in {"NONE", "DAILY"} : Create(a, time, recurrence)
    \/ \E time \in 0 .. MaxTime : UpdateTime(a, time)
    \/ \E recurrence \in {"NONE", "DAILY"} : UpdateRecurrence(a, recurrence)
    \/ Remove(a)

Step(r) == \E a \in AlarmIds : Ring(r, a) \/ Reschedule(r, a) \/ Abort(r, a)

Next ==
    \/ Tick
    \/ \E a \in AlarmIds : Request(a)
    \/ \E r \in Runs : CheckAlarms(r) \/ Step(r)
    \/ Crash

\* The job is started every minute, and a push comes to an end.
Fairness == WF_vars(\E r \in Runs : CheckAlarms(r)) /\ \A r \in Runs : WF_vars(Step(r))

Spec == Init /\ [][Next]_vars /\ Fairness

-----------------------------------------------------------------------------

\* A due alarm does not stay due: whatever is removed under a run, however often
\* runs overlap or the server restarts, some run puts it off or ticks it off.
AlarmsRing == \A a \in AlarmIds : IsDue(a) ~> ~IsDue(a)

\* The job puts an alarm off, or ticks it off, only after it has rung for every
\* time it passes over: a crash rings it twice rather than never, and a time that
\* comes while a run is pushing is left to the next run.  A row that its user
\* changes meanwhile is written over all the same (alarms.service l.274).
PutOffAfterRinging == [][
    \A a \in AlarmIds \ caught :
        (alarm[a].there /\ alarm'[a] # alarm[a] /\ run' # run) =>
            heard[a] >= IF alarm'[a].isSent THEN alarm[a].time ELSE alarm'[a].time - Day]_vars

=============================================================================
