------------------------- MODULE ChatSessions_proofs -------------------------
(***************************************************************************)
(* Proofs about ChatSessions, for every set of trips, users, sessions and  *)
(* workers: that a trip has one chat and keeps it ended, that its chats    *)
(* are those of PairChat, that the chat is of the row's pair, and that     *)
(* nobody loses a conversation.                                            *)
(***************************************************************************)
EXTENDS ChatSessions, TLAPS

-----------------------------------------------------------------------------
(* Type correctness, for any number of workers.  TypeOK is not inductive:  *)
(* a task must be about a row that exists, and the session it has read     *)
(* must be one, or its update would leave a row half filled.               *)

JobsOfTrips == \A w \in Workers : Busy(w) => Exists(job[w].trip)

RestOfTrips == \A w \in Workers : \A k \in rest[w] : Exists(k.trip)

ActsAreSessions ==
    \A w \in Workers : job[w].act # None => session[job[w].act].trip \in Trips

TypeInv == TypeOK /\ JobsOfTrips /\ RestOfTrips /\ ActsAreSessions

\* What the type of a task says of each kind of task.
LEMMA TaskFields ==
    ASSUME NEW j \in Tasks
    PROVE  /\ j.pc = "idle" => j = Idle
           /\ j.pc # "idle" => j.trip \in Trips
           /\ j.pc \in {"openInitial", "setDriver", "setManager", "txRead", "txCommit"}
                => j.driver \in Drivers /\ j.manager \in Managers /\ j.changed \in BOOLEAN
           /\ j.pc \in {"openInitial", "setDriver", "setManager", "txRead"}
                => j \in PairTasks({j.pc}, {None})
           /\ j.pc = "setTruck" => j \in MoveTasks
           /\ j.pc \in {"complete", "closeRead"} => j \in CloseTasks({j.pc}, {None})
           /\ j.pc = "txCommit" => j \in PairTasks({"txCommit"}, Sessions \cup {None})
           /\ j.pc = "closeWrite" => j \in CloseTasks({"closeWrite"}, Sessions)
           /\ j.act \in Sessions \cup {None}
<1>1. CASE j = Idle
  BY <1>1 DEF Idle
<1>2. CASE j \in MoveTasks
  BY <1>2 DEF MoveTasks
<1>3. CASE j \in PairTasks({"openInitial", "setDriver", "setManager", "txRead"}, {None})
  BY <1>3 DEF PairTasks
<1>4. CASE j \in PairTasks({"txCommit"}, Sessions \cup {None})
  BY <1>4 DEF PairTasks
<1>5. CASE j \in CloseTasks({"complete", "closeRead"}, {None})
  BY <1>5 DEF CloseTasks
<1>6. CASE j \in CloseTasks({"closeWrite"}, Sessions)
  BY <1>6 DEF CloseTasks
<1>. QED  BY <1>1, <1>2, <1>3, <1>4, <1>5, <1>6 DEF Tasks

\* A task left for later is a task, has read no session and is not idle.
LEMMA LaterFields ==
    ASSUME NEW k \in LaterTasks
    PROVE  k \in Tasks /\ k.trip \in Trips /\ k.act = None
           /\ k.pc \in {"setTruck", "setManager", "complete"}
  BY DEF LaterTasks, Tasks, MoveTasks, PairTasks, CloseTasks

LEMMA InitTypeInv == Init => TypeInv
  BY NoneIsNoId DEF Init, TypeInv, TypeOK, JobsOfTrips, RestOfTrips,
     ActsAreSessions, NoTrip, TripRows, NoSession, SessionRows, Idle, Tasks, Busy

-----------------------------------------------------------------------------
(* Every action sets the task of at most one worker, and no action removes *)
(* a trip's row or a session's.                                            *)

RowsKept ==
    /\ \A t \in Trips : Exists(t) => Exists(t)'
    /\ \A s \in Sessions : session[s].trip \in Trips => session'[s].trip \in Trips

JobInv ==
    /\ job \in [Workers -> Tasks]
    /\ rest \in [Workers -> SUBSET LaterTasks]
    /\ JobsOfTrips /\ RestOfTrips /\ ActsAreSessions

LEMMA JobStep ==
    ASSUME TypeInv, RowsKept, NEW w \in Workers, NEW task \in Tasks,
           task.pc # "idle" => Exists(task.trip)',
           task.act # None => session'[task.act].trip \in Trips,
           job' = [job EXCEPT ![w] = task],
           NEW others \in SUBSET LaterTasks,
           \A k \in others : Exists(k.trip)',
           rest' = [rest EXCEPT ![w] = others]
    PROVE  JobInv'
<1>1. job' \in [Workers -> Tasks] /\ rest' \in [Workers -> SUBSET LaterTasks]
  BY DEF TypeInv, TypeOK
<1>2. JobsOfTrips'
  <2>. SUFFICES ASSUME NEW v \in Workers, Busy(v)' PROVE Exists(job[v].trip)'
    BY DEF JobsOfTrips
  <2>1. CASE v = w
    BY <2>1 DEF TypeInv, TypeOK, Busy, Exists
  <2>2. CASE v # w
    <3>1. job'[v] = job[v] /\ job[v] \in Tasks
      BY <2>2 DEF TypeInv, TypeOK
    <3>2. job[v].trip \in Trips /\ Exists(job[v].trip)
      BY <3>1, TaskFields DEF TypeInv, JobsOfTrips, Busy
    <3>. QED  BY <3>1, <3>2 DEF RowsKept, Exists
  <2>. QED  BY <2>1, <2>2
<1>3. RestOfTrips'
  <2>. SUFFICES ASSUME NEW v \in Workers, NEW k \in rest'[v] PROVE Exists(k.trip)'
    BY DEF RestOfTrips
  <2>1. CASE v = w
    BY <2>1 DEF TypeInv, TypeOK
  <2>2. CASE v # w
    <3>1. k \in rest[v] /\ k \in LaterTasks
      BY <2>2 DEF TypeInv, TypeOK
    <3>. QED  BY <3>1, LaterFields DEF TypeInv, RestOfTrips, RowsKept
  <2>. QED  BY <2>1, <2>2
<1>4. ActsAreSessions'
  <2>. SUFFICES ASSUME NEW v \in Workers, job'[v].act # None
                PROVE  session'[job'[v].act].trip \in Trips
    BY DEF ActsAreSessions
  <2>1. CASE v = w
    BY <2>1 DEF TypeInv, TypeOK
  <2>2. CASE v # w
    <3>1. job'[v] = job[v] /\ job[v] \in Tasks
      BY <2>2 DEF TypeInv, TypeOK
    <3>2. job[v].act \in Sessions
      BY <3>1, TaskFields
    <3>. QED  BY <3>1, <3>2 DEF TypeInv, ActsAreSessions, RowsKept
  <2>. QED  BY <2>1, <2>2
<1>. QED  BY <1>1, <1>2, <1>3, <1>4 DEF JobInv

\* A worker that is done with its task goes on to another one or idles.
LEMMA DoneStep ==
    ASSUME TypeInv, RowsKept, NEW w \in Workers, Done(w)
    PROVE  JobInv'
<1>1. Idle \in Tasks /\ Idle.pc = "idle" /\ Idle.act = None
  BY DEF Tasks, Idle
<1>2. CASE /\ rest[w] = {}
           /\ job' = [job EXCEPT ![w] = Idle]
           /\ UNCHANGED rest
  <2>1. rest' = [rest EXCEPT ![w] = {}] /\ {} \in SUBSET LaterTasks
    BY <1>2 DEF TypeInv, TypeOK
  <2>. QED  BY <1>1, <1>2, <2>1, JobStep
<1>3. CASE \E task \in rest[w] :
             /\ job' = [job EXCEPT ![w] = task]
             /\ rest' = [rest EXCEPT ![w] = rest[w] \ {task}]
  <2>1. PICK task \in rest[w] :
             /\ job' = [job EXCEPT ![w] = task]
             /\ rest' = [rest EXCEPT ![w] = rest[w] \ {task}]
    BY <1>3
  <2>2. rest[w] \in SUBSET LaterTasks
    BY DEF TypeInv, TypeOK
  <2>3. \A k \in rest[w] : Exists(k.trip)'
    BY <2>2, LaterFields DEF TypeInv, RestOfTrips, RowsKept
  <2>4. task \in Tasks /\ task.act = None
    BY <2>2, LaterFields
  <2>5. rest[w] \ {task} \in SUBSET LaterTasks
    BY <2>2
  <2>. QED  BY <2>1, <2>3, <2>4, <2>5, JobStep
<1>. QED  BY <1>2, <1>3 DEF Done

-----------------------------------------------------------------------------
(* The tasks the handlers make are tasks, and a row that exists is full.   *)

LEMMA RowFields ==
    ASSUME TypeOK, NEW t \in Trips, Exists(t)
    PROVE  trip[t] \in [driver : Drivers, manager : Managers,
                        state : TripStates \ {"none"}]
  BY DEF TypeOK, TripRows, Exists, NoTrip

LEMMA LiveExists == ASSUME NEW t \in Trips, Live(t) PROVE Exists(t)
  BY DEF Live, Exists

LEMMA OpenTaskType ==
    ASSUME NEW t \in Trips, NEW d \in Drivers, NEW m \in Managers
    PROVE  /\ OpenTask(t, d, m) \in Tasks
           /\ OpenTask(t, d, m).trip = t /\ OpenTask(t, d, m).act = None
  BY DEF OpenTask, Idle, Tasks, PairTasks

LEMMA DriverTaskType ==
    ASSUME TypeOK, NEW t \in Trips, Exists(t), NEW d \in Drivers
    PROVE  /\ DriverTask(t, d) \in Tasks
           /\ DriverTask(t, d).trip = t /\ DriverTask(t, d).act = None
  BY RowFields DEF DriverTask, Idle, Tasks, PairTasks

LEMMA ManagerTaskType ==
    ASSUME TypeOK, NEW t \in Trips, Exists(t), NEW m \in Managers
    PROVE  /\ ManagerTask(t, m) \in LaterTasks
           /\ ManagerTask(t, m).trip = t
  BY RowFields DEF ManagerTask, Idle, LaterTasks, PairTasks

LEMMA TruckTaskType ==
    ASSUME NEW t \in Trips, NEW d \in Drivers
    PROVE  TruckTask(t, d) \in LaterTasks /\ TruckTask(t, d).trip = t
  BY DEF TruckTask, Idle, LaterTasks, MoveTasks

LEMMA CompleteTaskType ==
    ASSUME NEW t \in Trips
    PROVE  CompleteTask(t) \in LaterTasks /\ CompleteTask(t).trip = t
  BY DEF CompleteTask, Idle, LaterTasks, CloseTasks

-----------------------------------------------------------------------------
(* The steps.  What is left of TypeInv' besides JobInv'.                   *)

LEMMA TypeInvParts ==
    ASSUME JobInv', trip' \in [Trips -> TripRows],
           session' \in [Sessions -> SessionRows], torn' \subseteq Trips
    PROVE  TypeInv'
  BY DEF JobInv, TypeInv, TypeOK

LEMMA RowsUnchanged ==
    ASSUME UNCHANGED trip, UNCHANGED session
    PROVE  RowsKept
  BY DEF RowsKept, Exists

\* A request's first task, about rows that exist.
LEMMA StartStep ==
    ASSUME TypeInv, RowsKept, NEW w \in Workers, NEW task \in Tasks,
           task.act = None, trip'[task.trip].state # "none",
           NEW others \in SUBSET LaterTasks, \A k \in others : Exists(k.trip)',
           Start(w, task, others)
    PROVE  JobInv'
<1>1. Exists(task.trip)'
  BY DEF Exists
<1>. QED  BY <1>1, JobStep DEF Start

LEMMA CreateType ==
    ASSUME TypeInv, NEW w \in Workers, NEW t \in Trips, NEW d \in Drivers,
           NEW m \in Managers, Create(w, t, d, m)
    PROVE  TypeInv'
<1>1. /\ trip' = [trip EXCEPT ![t] = [driver |-> d, manager |-> m, state |-> "open"]]
      /\ Start(w, OpenTask(t, d, m), {})
      /\ UNCHANGED <<session, torn>>
  BY DEF Create
<1>2. trip' \in [Trips -> TripRows]
  BY <1>1 DEF TypeInv, TypeOK, TripRows, TripStates
<1>3. Exists(t)'
  BY <1>1 DEF TypeInv, TypeOK, Exists
<1>4. RowsKept
  BY <1>1 DEF RowsKept, Exists, TypeInv, TypeOK
<1>5. JobInv'
  <2>1. trip'[OpenTask(t, d, m).trip].state # "none"
    BY <1>3, OpenTaskType DEF Exists
  <2>. QED  BY <1>1, <1>4, <2>1, OpenTaskType, StartStep
<1>. QED  BY <1>1, <1>2, <1>5, TypeInvParts DEF TypeInv, TypeOK

LEMMA AssignDriverType ==
    ASSUME TypeInv, NEW w \in Workers, NEW t \in Trips, NEW d \in Drivers,
           AssignDriver(w, t, d)
    PROVE  TypeInv'
<1>1. Exists(t) /\ Start(w, DriverTask(t, d), {}) /\ UNCHANGED <<trip, session, torn>>
  BY LiveExists DEF AssignDriver
<1>2. DriverTask(t, d) \in Tasks /\ DriverTask(t, d).trip = t /\ DriverTask(t, d).act = None
  BY <1>1, DriverTaskType DEF TypeInv
<1>3. trip'[DriverTask(t, d).trip].state # "none"
  BY <1>1, <1>2 DEF Exists
<1>4. RowsKept
  BY <1>1, RowsUnchanged
<1>5. JobInv'
  BY <1>1, <1>2, <1>3, <1>4, StartStep
<1>. QED  BY <1>1, <1>5, TypeInvParts DEF TypeInv, TypeOK

LEMMA AssignManagerType ==
    ASSUME TypeInv, NEW w \in Workers, NEW t \in Trips, NEW m \in Managers,
           AssignManager(w, t, m)
    PROVE  TypeInv'
<1>1. Exists(t) /\ Start(w, ManagerTask(t, m), {}) /\ UNCHANGED <<trip, session, torn>>
  BY LiveExists DEF AssignManager
<1>2. ManagerTask(t, m) \in LaterTasks /\ ManagerTask(t, m).trip = t
  BY <1>1, ManagerTaskType DEF TypeInv
<1>3. trip'[ManagerTask(t, m).trip].state # "none"
  BY <1>1, <1>2 DEF Exists
<1>4. RowsKept
  BY <1>1, RowsUnchanged
<1>5. ManagerTask(t, m) \in Tasks /\ ManagerTask(t, m).act = None
  BY <1>2, LaterFields
<1>6. JobInv'
  BY <1>1, <1>3, <1>4, <1>5, StartStep
<1>. QED  BY <1>1, <1>6, TypeInvParts DEF TypeInv, TypeOK

LEMMA AssignTruckType ==
    ASSUME TypeInv, NEW w \in Workers, NEW t \in Trips, NEW d \in Drivers,
           NEW b \in Trips, NEW e \in Drivers, AssignTruck(w, t, d, b, e)
    PROVE  TypeInv'
<1>1. /\ Exists(t)
      /\ UNCHANGED <<trip, session, torn>>
  BY LiveExists DEF AssignTruck
<1>2. PICK others \in {{}, {TruckTask(b, e)}, {CompleteTask(b)}} :
         /\ others # {} => b # t /\ trip[b].state = "open"
         /\ Start(w, TruckTask(t, d), others)
  BY DEF AssignTruck
<1>3. TruckTask(t, d) \in Tasks /\ TruckTask(t, d).act = None /\ TruckTask(t, d).trip = t
  BY TruckTaskType, LaterFields
<1>4. trip'[TruckTask(t, d).trip].state # "none"
  BY <1>1, <1>3 DEF Exists
<1>5. others \in SUBSET LaterTasks /\ \A k \in others : k.trip = b
  BY TruckTaskType, CompleteTaskType
<1>6. \A k \in others : Exists(k.trip)'
  BY <1>1, <1>2, <1>5 DEF Exists
<1>7. RowsKept
  BY <1>1, RowsUnchanged
<1>8. JobInv'
  BY <1>2, <1>3, <1>4, <1>5, <1>6, <1>7, StartStep
<1>. QED  BY <1>1, <1>8, TypeInvParts DEF TypeInv, TypeOK

LEMMA ChangeTruckManagerType ==
    ASSUME TypeInv, NEW w \in Workers, NEW m \in Managers, ChangeTruckManager(w, m)
    PROVE  TypeInv'
<1>1. UNCHANGED <<trip, session, torn>>
  BY DEF ChangeTruckManager
<1>. DEFINE Led == {t \in Trips : /\ trip[t].state = "open"
                                 /\ trip[t].manager # m}
<1>2. PICK onTruck \in SUBSET Led :
         \E first \in onTruck :
            Start(w, ManagerTask(first, m),
                  {ManagerTask(t, m) : t \in onTruck \ {first}})
  BY DEF ChangeTruckManager
<1>. PICK first \in onTruck :
         Start(w, ManagerTask(first, m), {ManagerTask(t, m) : t \in onTruck \ {first}})
  BY <1>2
<1>3. \A t \in onTruck : t \in Trips /\ Exists(t)
  BY DEF Exists
<1>4. \A t \in onTruck : ManagerTask(t, m) \in LaterTasks /\ ManagerTask(t, m).trip = t
  BY <1>3, ManagerTaskType DEF TypeInv
<1>5. ManagerTask(first, m) \in Tasks /\ ManagerTask(first, m).act = None
  BY <1>4, LaterFields
<1>6. trip'[ManagerTask(first, m).trip].state # "none"
  BY <1>1, <1>3, <1>4 DEF Exists
<1>. DEFINE others == {ManagerTask(t, m) : t \in onTruck \ {first}}
<1>7. others \in SUBSET LaterTasks /\ \A k \in others : k.trip \in onTruck
  BY <1>4
<1>8. \A k \in others : Exists(k.trip)'
  BY <1>1, <1>3, <1>7 DEF Exists
<1>9. RowsKept
  BY <1>1, RowsUnchanged
<1>10. JobInv'
  <2>. HIDE DEF others
  <2>1. Start(w, ManagerTask(first, m), others)
    BY <1>2 DEF others
  <2>. QED  BY <2>1, <1>5, <1>6, <1>7, <1>8, <1>9, StartStep
<1>. QED  BY <1>1, <1>10, TypeInvParts DEF TypeInv, TypeOK

-----------------------------------------------------------------------------
\* A worker that goes on with its task leaves the tasks that wait alone.
LEMMA GoOnStep ==
    ASSUME TypeInv, RowsKept, NEW w \in Workers, Busy(w), NEW task \in Tasks,
           task.trip = job[w].trip,
           task.act # None => session'[task.act].trip \in Trips,
           job' = [job EXCEPT ![w] = task], UNCHANGED rest
    PROVE  JobInv'
<1>1. job[w].trip \in Trips /\ Exists(job[w].trip)
  BY TaskFields DEF TypeInv, TypeOK, Busy, JobsOfTrips
<1>2. Exists(task.trip)'
  BY <1>1 DEF RowsKept, Exists
<1>3. rest' = [rest EXCEPT ![w] = rest[w]] /\ rest[w] \in SUBSET LaterTasks
  BY DEF TypeInv, TypeOK
<1>4. \A k \in rest[w] : Exists(k.trip)'
  BY <1>3, LaterFields DEF TypeInv, RestOfTrips, RowsKept
<1>. QED  BY <1>2, <1>3, <1>4, JobStep

LEMMA HandOverOrDoneStep ==
    ASSUME TypeInv, RowsKept, NEW w \in Workers,
           job[w].pc \in {"setDriver", "setManager"}, HandOverOrDone(w)
    PROVE  JobInv'
<1>1. CASE job[w].changed
  <2>. DEFINE task == [job[w] EXCEPT !.pc = "txRead"]
  <2>1. job' = [job EXCEPT ![w] = task] /\ UNCHANGED rest
    BY <1>1 DEF HandOverOrDone
  <2>2. task \in Tasks /\ task.trip = job[w].trip /\ task.act = None
    <3>1. job[w] \in PairTasks({job[w].pc}, {None})
      BY TaskFields DEF TypeInv, TypeOK
    <3>2. task \in PairTasks({"txRead"}, {None}) /\ task.trip = job[w].trip /\ task.act = None
      BY <3>1 DEF PairTasks
    <3>. QED  BY <3>2 DEF Tasks, PairTasks
  <2>3. Busy(w)
    BY DEF Busy
  <2>. HIDE DEF task
  <2>. QED  BY <2>1, <2>2, <2>3, GoOnStep
<1>2. CASE ~job[w].changed
  BY <1>2, DoneStep DEF HandOverOrDone
<1>. QED  BY <1>1, <1>2

LEMMA OpenInitialType ==
    ASSUME TypeInv, NEW w \in Workers, OpenInitial(w)
    PROVE  TypeInv'
<1>1. PICK s \in FreeSessions :
         session' = [session EXCEPT ![s] =
                        NewSession(job[w].trip, job[w].driver, job[w].manager)]
  BY DEF OpenInitial
<1>2. job[w].pc = "openInitial" /\ Done(w) /\ UNCHANGED <<trip, torn>>
  BY DEF OpenInitial
<1>3. job[w].trip \in Trips /\ job[w].driver \in Drivers /\ job[w].manager \in Managers
  BY <1>2, TaskFields DEF TypeInv, TypeOK
<1>4. session' \in [Sessions -> SessionRows]
  BY <1>1, <1>3 DEF TypeInv, TypeOK, SessionRows, NewSession, FreeSessions
<1>5. RowsKept
  BY <1>1, <1>2, <1>3 DEF RowsKept, Exists, TypeInv, TypeOK, NewSession, FreeSessions
<1>6. JobInv'
  BY <1>2, <1>5, DoneStep
<1>. QED  BY <1>2, <1>4, <1>6, TypeInvParts DEF TypeInv, TypeOK

\* The row of a trip that exists changes its driver, manager or state.
LEMMA RowUpdate ==
    ASSUME TypeInv, NEW t \in Trips, Exists(t), UNCHANGED session,
           NEW row \in [driver : Drivers, manager : Managers,
                        state : TripStates \ {"none"}],
           trip' = [trip EXCEPT ![t] = row]
    PROVE  trip' \in [Trips -> TripRows] /\ RowsKept
  BY DEF TypeInv, TypeOK, TripRows, RowsKept, Exists

\* The trip of a worker that is at work has a full row.
LEMMA JobRow ==
    ASSUME TypeInv, NEW w \in Workers, Busy(w)
    PROVE  /\ job[w].trip \in Trips /\ Exists(job[w].trip)
           /\ trip[job[w].trip] \in [driver : Drivers, manager : Managers,
                                     state : TripStates \ {"none"}]
  BY TaskFields, RowFields DEF TypeInv, TypeOK, JobsOfTrips, Busy

LEMMA SetDriverType ==
    ASSUME TypeInv, NEW w \in Workers, SetDriver(w)
    PROVE  TypeInv'
<1>. DEFINE row == [trip[job[w].trip] EXCEPT !.driver = job[w].driver]
<1>1. /\ job[w].pc = "setDriver"
      /\ trip' = [trip EXCEPT ![job[w].trip] = row]
      /\ HandOverOrDone(w) /\ UNCHANGED <<session, torn>>
  BY DEF SetDriver
<1>2. /\ job[w].trip \in Trips /\ Exists(job[w].trip)
      /\ row \in [driver : Drivers, manager : Managers, state : TripStates \ {"none"}]
  BY <1>1, JobRow, TaskFields DEF Busy, TypeInv, TypeOK
<1>3. trip' \in [Trips -> TripRows] /\ RowsKept
  <2>. HIDE DEF row
  <2>. QED  BY <1>1, <1>2, RowUpdate
<1>4. JobInv'
  BY <1>1, <1>3, HandOverOrDoneStep
<1>. QED  BY <1>1, <1>3, <1>4, TypeInvParts DEF TypeInv, TypeOK

LEMMA SetManagerType ==
    ASSUME TypeInv, NEW w \in Workers, SetManager(w)
    PROVE  TypeInv'
<1>. DEFINE row == [trip[job[w].trip] EXCEPT !.manager = job[w].manager]
<1>1. /\ job[w].pc = "setManager"
      /\ trip' = [trip EXCEPT ![job[w].trip] = row]
      /\ HandOverOrDone(w) /\ UNCHANGED <<session, torn>>
  BY DEF SetManager
<1>2. /\ job[w].trip \in Trips /\ Exists(job[w].trip)
      /\ row \in [driver : Drivers, manager : Managers, state : TripStates \ {"none"}]
  BY <1>1, JobRow, TaskFields DEF Busy, TypeInv, TypeOK
<1>3. trip' \in [Trips -> TripRows] /\ RowsKept
  <2>. HIDE DEF row
  <2>. QED  BY <1>1, <1>2, RowUpdate
<1>4. JobInv'
  BY <1>1, <1>3, HandOverOrDoneStep
<1>. QED  BY <1>1, <1>3, <1>4, TypeInvParts DEF TypeInv, TypeOK

LEMMA SetTruckType ==
    ASSUME TypeInv, NEW w \in Workers, SetTruck(w)
    PROVE  TypeInv'
<1>. DEFINE row == [trip[job[w].trip] EXCEPT !.driver = job[w].driver,
                                             !.state = Restate(job[w].trip, "open")]
            task == [job[w] EXCEPT !.pc = "txRead", !.manager = trip[job[w].trip].manager]
<1>1. /\ job[w].pc = "setTruck"
      /\ trip' = [trip EXCEPT ![job[w].trip] = row]
      /\ job' = [job EXCEPT ![w] = task]
      /\ UNCHANGED <<session, rest, torn>>
  BY DEF SetTruck
<1>2. job[w] \in MoveTasks /\ Busy(w)
  BY <1>1, TaskFields DEF Busy, TypeInv, TypeOK
<1>3. /\ job[w].trip \in Trips /\ Exists(job[w].trip)
      /\ trip[job[w].trip] \in [driver : Drivers, manager : Managers,
                                state : TripStates \ {"none"}]
  BY <1>2, JobRow
<1>4. row \in [driver : Drivers, manager : Managers, state : TripStates \ {"none"}]
  BY <1>2, <1>3 DEF MoveTasks, Restate, TripStates
<1>5. task \in Tasks /\ task.trip = job[w].trip /\ task.act = None
  <2>1. trip[job[w].trip].manager \in Managers
    BY <1>3
  <2>. QED  BY <1>2, <2>1 DEF MoveTasks, Tasks, PairTasks
<1>. HIDE DEF row, task
<1>6. trip' \in [Trips -> TripRows] /\ RowsKept
  BY <1>1, <1>3, <1>4, RowUpdate
<1>7. JobInv'
  BY <1>1, <1>2, <1>5, <1>6, GoOnStep
<1>. QED  BY <1>1, <1>6, <1>7, TypeInvParts DEF TypeInv, TypeOK


\* What findFirst returns is null or a session of the trip that has not ended.
LEMMA ActiveReadsType ==
    ASSUME NEW t \in Trips, NEW s \in ActiveReads(t)
    PROVE  /\ s \in Sessions \cup {None}
           /\ s # None => s \in Active(t) /\ session[s].trip \in Trips
           /\ s = None => Active(t) = {}
  BY NoneIsNoId DEF ActiveReads, Active

LEMMA TxReadType ==
    ASSUME TypeInv, NEW w \in Workers, TxRead(w)
    PROVE  TypeInv'
<1>1. job[w].pc = "txRead" /\ UNCHANGED <<trip, session, rest, torn>>
  BY DEF TxRead
<1>2. Busy(w) /\ job[w] \in PairTasks({"txRead"}, {None}) /\ job[w].trip \in Trips
  BY <1>1, TaskFields DEF Busy, TypeInv, TypeOK
<1>3. PICK s \in ActiveReads(job[w].trip) :
         job' = [job EXCEPT ![w] = [job[w] EXCEPT !.pc = "txCommit", !.act = s]]
  BY DEF TxRead
<1>. DEFINE task == [job[w] EXCEPT !.pc = "txCommit", !.act = s]
<1>4. s \in Sessions \cup {None} /\ (s # None => session[s].trip \in Trips)
  BY <1>2, ActiveReadsType
<1>5. task \in Tasks /\ task.trip = job[w].trip /\ task.act = s
  BY <1>2, <1>4 DEF Tasks, PairTasks
<1>. HIDE DEF task
<1>6. job' = [job EXCEPT ![w] = task]
  BY <1>3 DEF task
<1>7. RowsKept
  BY <1>1, RowsUnchanged
<1>8. JobInv'
  BY <1>1, <1>2, <1>4, <1>5, <1>6, <1>7, GoOnStep
<1>. QED  BY <1>1, <1>8, TypeInvParts DEF TypeInv, TypeOK

\* The two updates of a transaction leave every row full.
LEMMA HandOverRows ==
    ASSUME TypeInv, NEW w \in Workers, job[w].pc = "txCommit",
           NEW s \in FreeSessions, session' = HandOver(job[w], s)
    PROVE  /\ session' \in [Sessions -> SessionRows]
           /\ \A r \in Sessions : session[r].trip \in Trips => session'[r].trip \in Trips
<1>1. /\ job[w].trip \in Trips /\ job[w].driver \in Drivers /\ job[w].manager \in Managers
      /\ job[w].act \in Sessions \cup {None}
  BY TaskFields DEF TypeInv, TypeOK
<1>2. job[w].act # None => session[job[w].act].trip \in Trips
  BY DEF TypeInv, ActsAreSessions
<1>3. \A r \in Sessions : session[r] \in SessionRows
  BY DEF TypeInv, TypeOK
<1>4. ASSUME NEW r \in Sessions
      PROVE  /\ session'[r] \in SessionRows
             /\ session[r].trip \in Trips => session'[r].trip \in Trips
  <2>1. CASE r = s
    BY <1>1, <2>1 DEF HandOver, NewSession, SessionRows
  <2>2. CASE r # s /\ r = job[w].act
    <3>1. session'[r] = [session[r] EXCEPT !.end = "REASSIGNED"]
      BY <2>2 DEF HandOver
    <3>2. session[r] # NoSession
      BY <1>2, <2>2, NoneIsNoId DEF NoSession
    <3>. QED  BY <1>3, <3>1, <3>2 DEF SessionRows, EndReasons
  <2>3. CASE r # s /\ r # job[w].act
    BY <1>3, <2>3 DEF HandOver
  <2>. QED  BY <2>1, <2>2, <2>3
<1>5. session' \in [Sessions -> SessionRows]
  BY <1>4 DEF HandOver
<1>. QED  BY <1>4, <1>5

LEMMA TxCommitType ==
    ASSUME TypeInv, NEW w \in Workers, TxCommit(w)
    PROVE  TypeInv'
<1>1. job[w].pc = "txCommit" /\ torn' = torn \ {job[w].trip} /\ Done(w) /\ UNCHANGED trip
  BY DEF TxCommit
<1>2. PICK s \in FreeSessions : session' = HandOver(job[w], s)
  BY DEF TxCommit
<1>3. /\ session' \in [Sessions -> SessionRows]
      /\ \A r \in Sessions : session[r].trip \in Trips => session'[r].trip \in Trips
  BY <1>1, <1>2, HandOverRows
<1>4. RowsKept
  BY <1>1, <1>3 DEF RowsKept, Exists
<1>5. JobInv'
  BY <1>1, <1>4, DoneStep
<1>. QED  BY <1>1, <1>3, <1>5, TypeInvParts DEF TypeInv, TypeOK

LEMMA CompleteOtherType ==
    ASSUME TypeInv, NEW w \in Workers, CompleteOther(w)
    PROVE  TypeInv'
<1>. DEFINE row == [trip[job[w].trip] EXCEPT !.state = Restate(job[w].trip, "closed")]
            task == [job[w] EXCEPT !.pc = "closeRead"]
<1>1. /\ job[w].pc = "complete"
      /\ trip' = [trip EXCEPT ![job[w].trip] = row]
      /\ job' = [job EXCEPT ![w] = task]
      /\ UNCHANGED <<session, rest, torn>>
  BY DEF CompleteOther
<1>2. Busy(w) /\ job[w] \in CloseTasks({"complete"}, {None})
  BY <1>1, TaskFields DEF Busy, TypeInv, TypeOK
<1>3. /\ job[w].trip \in Trips /\ Exists(job[w].trip)
      /\ trip[job[w].trip] \in [driver : Drivers, manager : Managers,
                                state : TripStates \ {"none"}]
  BY <1>2, JobRow
<1>4. row \in [driver : Drivers, manager : Managers, state : TripStates \ {"none"}]
  BY <1>3 DEF Restate, TripStates
<1>5. task \in Tasks /\ task.trip = job[w].trip /\ task.act = None
  BY <1>2 DEF Tasks, CloseTasks
<1>. HIDE DEF row, task
<1>6. trip' \in [Trips -> TripRows] /\ RowsKept
  BY <1>1, <1>3, <1>4, RowUpdate
<1>7. JobInv'
  BY <1>1, <1>2, <1>5, <1>6, GoOnStep
<1>. QED  BY <1>1, <1>6, <1>7, TypeInvParts DEF TypeInv, TypeOK

LEMMA CloseReadType ==
    ASSUME TypeInv, NEW w \in Workers, CloseRead(w)
    PROVE  TypeInv'
<1>1. job[w].pc = "closeRead" /\ UNCHANGED <<trip, session, torn>>
  BY DEF CloseRead
<1>2. Busy(w) /\ job[w] \in CloseTasks({"closeRead"}, {None}) /\ job[w].trip \in Trips
  BY <1>1, TaskFields DEF Busy, TypeInv, TypeOK
<1>3. PICK s \in ActiveReads(job[w].trip) :
         IF s = None THEN Done(w)
         ELSE /\ job' = [job EXCEPT ![w] = [job[w] EXCEPT !.pc = "closeWrite", !.act = s]]
              /\ UNCHANGED rest
  BY DEF CloseRead
<1>4. RowsKept
  BY <1>1, RowsUnchanged
<1>5. JobInv'
  <2>1. CASE s = None
    BY <1>3, <1>4, <2>1, DoneStep
  <2>2. CASE s # None
    <3>. DEFINE task == [job[w] EXCEPT !.pc = "closeWrite", !.act = s]
    <3>1. s \in Sessions /\ session[s].trip \in Trips
      BY <1>2, <2>2, ActiveReadsType
    <3>2. task \in Tasks /\ task.trip = job[w].trip /\ task.act = s
      BY <1>2, <3>1 DEF Tasks, CloseTasks
    <3>3. job' = [job EXCEPT ![w] = task] /\ UNCHANGED rest
      BY <1>3, <2>2
    <3>. HIDE DEF task
    <3>. QED  BY <1>1, <1>2, <1>4, <3>1, <3>2, <3>3, GoOnStep
  <2>. QED  BY <2>1, <2>2
<1>. QED  BY <1>1, <1>5, TypeInvParts DEF TypeInv, TypeOK

LEMMA CloseWriteType ==
    ASSUME TypeInv, NEW w \in Workers, CloseWrite(w)
    PROVE  TypeInv'
<1>1. /\ job[w].pc = "closeWrite" /\ Done(w) /\ UNCHANGED <<trip, torn>>
      /\ session' = [session EXCEPT ![job[w].act].end = "TRIP_COMPLETED"]
  BY DEF CloseWrite
<1>2. job[w].act \in Sessions
  BY <1>1, TaskFields DEF TypeInv, TypeOK, CloseTasks
<1>3. session[job[w].act].trip \in Trips
  BY <1>2, NoneIsNoId DEF TypeInv, ActsAreSessions
<1>4. session[job[w].act] \in SessionRows /\ session[job[w].act] # NoSession
  BY <1>2, <1>3, NoneIsNoId DEF TypeInv, TypeOK, NoSession
<1>5. session' \in [Sessions -> SessionRows]
  BY <1>1, <1>2, <1>4 DEF TypeInv, TypeOK, SessionRows, EndReasons
<1>6. RowsKept
  BY <1>1, <1>2, <1>4 DEF RowsKept, Exists, TypeInv, TypeOK, SessionRows
<1>7. JobInv'
  BY <1>1, <1>6, DoneStep
<1>. QED  BY <1>1, <1>5, <1>7, TypeInvParts DEF TypeInv, TypeOK

LEMMA DieType ==
    ASSUME TypeInv, NEW w \in Workers, Die(w)
    PROVE  TypeInv'
<1>1. /\ Busy(w) /\ torn' \subseteq torn \cup {job[w].trip}
      /\ job' = [job EXCEPT ![w] = Idle] /\ rest' = [rest EXCEPT ![w] = {}]
      /\ UNCHANGED <<trip, session>>
  BY DEF Die
<1>2. torn' \subseteq Trips
  BY <1>1, JobRow DEF TypeInv, TypeOK
<1>3. Idle \in Tasks /\ Idle.pc = "idle" /\ Idle.act = None
  BY DEF Tasks, Idle
<1>4. RowsKept
  BY <1>1, RowsUnchanged
<1>5. JobInv'
  BY <1>1, <1>3, <1>4, JobStep
<1>. QED  BY <1>1, <1>2, <1>5, TypeInvParts DEF TypeInv, TypeOK

\* A step that leaves the handlers alone.
LEMMA JobsUnchanged ==
    ASSUME TypeInv, RowsKept, UNCHANGED <<job, rest>>
    PROVE  JobInv'
<1>1. job' \in [Workers -> Tasks] /\ rest' \in [Workers -> SUBSET LaterTasks]
  BY DEF TypeInv, TypeOK
<1>2. JobsOfTrips'
  BY TaskFields DEF TypeInv, TypeOK, JobsOfTrips, Busy, RowsKept, Exists
<1>3. RestOfTrips'
  BY LaterFields DEF TypeInv, TypeOK, RestOfTrips, RowsKept, Exists
<1>4. ActsAreSessions'
  BY TaskFields DEF TypeInv, TypeOK, ActsAreSessions, RowsKept
<1>. QED  BY <1>1, <1>2, <1>3, <1>4 DEF JobInv

LEMMA SetStateType ==
    ASSUME TypeInv, NEW t \in Trips, Live(t), NEW state \in TripStates \ {"none"},
           trip' = [trip EXCEPT ![t].state = state],
           UNCHANGED <<session, job, rest, torn>>
    PROVE  TypeInv'
<1>. DEFINE row == [trip[t] EXCEPT !.state = state]
<1>1. Exists(t) /\ row \in [driver : Drivers, manager : Managers,
                            state : TripStates \ {"none"}]
  BY LiveExists, RowFields DEF TypeInv
<1>2. trip' = [trip EXCEPT ![t] = row]
  OBVIOUS
<1>. HIDE DEF row
<1>3. trip' \in [Trips -> TripRows] /\ RowsKept
  BY <1>1, <1>2, RowUpdate
<1>4. JobInv'
  BY <1>3, JobsUnchanged
<1>. QED  BY <1>3, <1>4, TypeInvParts DEF TypeInv, TypeOK

LEMMA NextTypeInv == TypeInv /\ [Next]_vars => TypeInv'
<1>. SUFFICES ASSUME TypeInv, [Next]_vars PROVE TypeInv'
  OBVIOUS
<1>1. ASSUME NEW w \in Workers, WorkerStep(w) PROVE TypeInv'
  <2>1. ASSUME NEW t \in Trips, NEW d \in Drivers, NEW m \in Managers, Create(w, t, d, m)
        PROVE  TypeInv'
    BY <2>1, CreateType
  <2>2. ASSUME NEW t \in Trips, NEW d \in Drivers, AssignDriver(w, t, d) PROVE TypeInv'
    BY <2>2, AssignDriverType
  <2>3. ASSUME NEW t \in Trips, NEW m \in Managers, AssignManager(w, t, m) PROVE TypeInv'
    BY <2>3, AssignManagerType
  <2>4. ASSUME NEW t \in Trips, NEW b \in Trips, NEW d \in Drivers, NEW e \in Drivers,
               AssignTruck(w, t, d, b, e)
        PROVE  TypeInv'
    BY <2>4, AssignTruckType
  <2>5. ASSUME NEW m \in Managers, ChangeTruckManager(w, m) PROVE TypeInv'
    BY <2>5, ChangeTruckManagerType
  <2>. QED
    BY <1>1, <2>1, <2>2, <2>3, <2>4, <2>5, OpenInitialType, SetDriverType,
       SetManagerType, SetTruckType, TxReadType, TxCommitType, CompleteOtherType,
       CloseReadType, CloseWriteType, DieType DEF WorkerStep
<1>2. ASSUME NEW t \in Trips, NEW state \in {"open", "closed"}, SetStatus(t, state)
      PROVE  TypeInv'
  BY <1>2, SetStateType DEF SetStatus, TripStates
<1>3. ASSUME NEW t \in Trips, Remove(t) PROVE TypeInv'
  BY <1>3, SetStateType DEF Remove, TripStates
<1>4. CASE UNCHANGED vars
  <2>1. UNCHANGED <<trip, session, job, rest, torn>>
    BY <1>4 DEF vars
  <2>2. RowsKept
    BY <2>1, RowsUnchanged
  <2>3. JobInv'
    BY <2>1, <2>2, JobsUnchanged
  <2>. QED  BY <2>1, <2>3, TypeInvParts DEF TypeInv, TypeOK
<1>. QED  BY <1>1, <1>2, <1>3, <1>4 DEF Next

\* Whatever the workers' statements interleave to and wherever they die, every
\* Trip and TripChatSession row is complete, and every task is about a trip and
\* a session that the database holds.
THEOREM TypeInvariant == Spec => []TypeInv
  BY InitTypeInv, NextTypeInv, PTL DEF Spec

\* In particular every row and every task is well typed.
THEOREM TypeCorrect == Spec => []TypeOK
  BY TypeInvariant, PTL DEF TypeInv

-----------------------------------------------------------------------------
(* One chat at a time.  The claim fails as soon as two handlers are at the *)
(* same trip; it holds of every behaviour in which no two ever are.  The   *)
(* inductive part says what a handler may trust between its statements:    *)
(* the trip it has just created has no session, the session it has read is *)
(* still active, and it is the only one when the transaction commits.      *)

NoOverlap ==
    \A v, w \in Workers : Busy(v) /\ Busy(w) /\ job[v].trip = job[w].trip => v = w

NoChatYet == \A t \in Trips : ~Exists(t) => Active(t) = {}

TaskOk(j) ==
    /\ j.pc = "openInitial" => Active(j.trip) = {}
    /\ j.act # None => j.act \in Active(j.trip)
    /\ j.pc = "txCommit" => Active(j.trip) \subseteq {j.act}

Exclusive ==
    AtMostOneActive /\ NoChatYet /\ \A w \in Workers : TaskOk(job[w])

\* A task about which TaskOk says nothing.
Plain(j) == j.pc \notin {"openInitial", "txCommit"} /\ j.act = None

OnlyJobOf(w) == \A v \in Workers \ {w} : job'[v] = job[v]

LEMMA InitExclusive == Init => Exclusive
  BY NoneIsNoId DEF Init, Exclusive, AtMostOneActive, NoChatYet, TaskOk, Active, Idle,
     NoSession

LEMMA PlainOk ==
    ASSUME NEW w \in Workers, Plain(job'[w])
    PROVE  TaskOk(job[w])'
  BY DEF Plain, TaskOk

LEMMA SameActive ==
    ASSUME UNCHANGED session
    PROVE  \A t : Active(t)' = Active(t)
  BY DEF Active

\* A step of w that changes the sessions of trip t at most.
LEMMA ExclusiveStep ==
    ASSUME TypeInv, Exclusive, RowsKept, NEW w \in Workers, OnlyJobOf(w),
           NEW t \in Trips,
           \A u \in Trips \ {t} : Active(u)' = Active(u),
           \/ Active(t)' = Active(t)
           \/ \A v \in Workers \ {w} : Busy(v) => job[v].trip # t,
           \A r, s \in Active(t)' : r = s,
           Exists(t)' \/ Active(t)' = {},
           TaskOk(job[w])'
    PROVE  Exclusive'
<1>1. AtMostOneActive'
  BY DEF Exclusive, AtMostOneActive
<1>2. NoChatYet'
  BY DEF Exclusive, NoChatYet, RowsKept
<1>3. ASSUME NEW v \in Workers PROVE TaskOk(job[v])'
  <2>1. CASE v = w
    BY <2>1
  <2>2. CASE v # w /\ ~Busy(v)
    <3>1. job'[v] = Idle
      BY <2>2, TaskFields DEF OnlyJobOf, Busy, TypeInv, TypeOK
    <3>. QED  BY <3>1 DEF TaskOk, Idle
  <2>3. CASE v # w /\ Busy(v)
    <3>1. job'[v] = job[v] /\ job[v].trip \in Trips
      BY <2>3, JobRow DEF OnlyJobOf
    <3>2. Active(job[v].trip)' = Active(job[v].trip)
      <4>. PICK u \in Trips : u = job[v].trip
        BY <3>1
      <4>1. Active(u)' = Active(u)
        BY <2>3
      <4>. QED  BY <4>1, <3>1 DEF Active
    <3>3. TaskOk(job[v])
      BY DEF Exclusive
    <3>. QED  BY <3>1, <3>2, <3>3 DEF TaskOk
  <2>. QED  BY <2>1, <2>2, <2>3
<1>. QED  BY <1>1, <1>2, <1>3 DEF Exclusive

\* A step that leaves the sessions alone.
LEMMA SameChatsStep ==
    ASSUME Exclusive, RowsKept, UNCHANGED session,
           NEW w \in Workers, OnlyJobOf(w), TaskOk(job[w])'
    PROVE  Exclusive'
<1>1. \A u : Active(u)' = Active(u)
  BY SameActive
<1>2. AtMostOneActive' /\ NoChatYet'
  BY <1>1 DEF Exclusive, AtMostOneActive, NoChatYet, RowsKept
<1>3. ASSUME NEW v \in Workers PROVE TaskOk(job[v])'
  <2>1. CASE v = w
    BY <2>1
  <2>2. CASE v # w
    BY <1>1, <2>2 DEF OnlyJobOf, Exclusive, TaskOk, Active
  <2>. QED  BY <2>1, <2>2
<1>. QED  BY <1>2, <1>3 DEF Exclusive

\* The task a worker goes on to when it is done, and the one it begins with.
LEMMA DonePlain ==
    ASSUME TypeInv, NEW w \in Workers, Done(w)
    PROVE  OnlyJobOf(w) /\ Plain(job'[w])
<1>1. rest[w] \in SUBSET LaterTasks
  BY DEF TypeInv, TypeOK
<1>2. \A k \in rest[w] : Plain(k)
  BY <1>1, LaterFields DEF Plain
<1>3. Plain(Idle)
  BY DEF Plain, Idle
<1>. QED  BY <1>2, <1>3 DEF Done, OnlyJobOf, TypeInv, TypeOK

LEMMA StartOnly ==
    ASSUME TypeInv, NEW w \in Workers, NEW task, NEW others, Start(w, task, others)
    PROVE  OnlyJobOf(w) /\ job'[w] = task
  BY DEF Start, OnlyJobOf, TypeInv, TypeOK

LEMMA StartPlain ==
    /\ \A t, d : Plain(DriverTask(t, d)) /\ Plain(TruckTask(t, d))
    /\ \A t, m : Plain(ManagerTask(t, m))
  BY DEF Plain, Idle, DriverTask, TruckTask, ManagerTask

\* A handler that starts on a trip that exists, or takes a step that leaves
\* the sessions alone, knows nothing of a session yet.
LEMMA PlainStep ==
    ASSUME Exclusive, RowsKept, UNCHANGED session,
           NEW w \in Workers, OnlyJobOf(w), Plain(job'[w])
    PROVE  Exclusive'
  BY PlainOk, SameChatsStep

LEMMA CreateExclusive ==
    ASSUME TypeInv, Exclusive, NEW w \in Workers, NEW t \in Trips, NEW d \in Drivers,
           NEW m \in Managers, Create(w, t, d, m)
    PROVE  Exclusive'
<1>1. ~Exists(t) /\ Start(w, OpenTask(t, d, m), {}) /\ UNCHANGED session
  BY DEF Create
<1>2. RowsKept
  BY <1>1 DEF Create, RowsKept, Exists, TypeInv, TypeOK
<1>3. OnlyJobOf(w) /\ job'[w] = OpenTask(t, d, m)
  BY <1>1, StartOnly
<1>4. job'[w].trip = t /\ job'[w].act = None /\ job'[w].pc = "openInitial"
  BY <1>3 DEF OpenTask, Idle
<1>5. Active(t)' = {}
  BY <1>1, SameActive DEF Exclusive, NoChatYet
<1>6. TaskOk(job[w])'
  BY <1>4, <1>5 DEF TaskOk, Active
<1>. QED  BY <1>1, <1>2, <1>3, <1>6, SameChatsStep

LEMMA RequestExclusive ==
    ASSUME TypeInv, Exclusive, NEW w \in Workers,
           \/ \E t \in Trips, d \in Drivers : AssignDriver(w, t, d)
           \/ \E t \in Trips, m \in Managers : AssignManager(w, t, m)
           \/ \E t, b \in Trips, d, e \in Drivers : AssignTruck(w, t, d, b, e)
           \/ \E m \in Managers : ChangeTruckManager(w, m)
    PROVE  Exclusive'
<1>1. OnlyJobOf(w) /\ Plain(job'[w]) /\ UNCHANGED <<trip, session>>
  <2>1. CASE \E t \in Trips, d \in Drivers : AssignDriver(w, t, d)
    BY <2>1, StartOnly, StartPlain DEF AssignDriver
  <2>2. CASE \E t \in Trips, m \in Managers : AssignManager(w, t, m)
    BY <2>2, StartOnly, StartPlain DEF AssignManager
  <2>3. CASE \E t, b \in Trips, d, e \in Drivers : AssignTruck(w, t, d, b, e)
    BY <2>3, StartOnly, StartPlain DEF AssignTruck
  <2>4. CASE \E m \in Managers : ChangeTruckManager(w, m)
    BY <2>4, StartOnly, StartPlain DEF ChangeTruckManager
  <2>. QED  BY <2>1, <2>2, <2>3, <2>4
<1>2. RowsKept
  BY <1>1, RowsUnchanged
<1>. QED  BY <1>1, <1>2, PlainStep

LEMMA NobodyElse ==
    ASSUME NoOverlap, NEW w \in Workers, Busy(w)
    PROVE  \A v \in Workers \ {w} : Busy(v) => job[v].trip # job[w].trip
  BY DEF NoOverlap

LEMMA OpenInitialExclusive ==
    ASSUME TypeInv, Exclusive, NoOverlap, NEW w \in Workers, OpenInitial(w)
    PROVE  Exclusive'
<1>1. /\ job[w].pc = "openInitial" /\ Busy(w) /\ Done(w) /\ UNCHANGED trip
      /\ job[w].trip \in Trips
  BY TaskFields DEF OpenInitial, Busy, TypeInv, TypeOK
<1>. PICK t \in Trips : t = job[w].trip
  BY <1>1
<1>2. PICK s \in FreeSessions :
         session' = [session EXCEPT ![s] = NewSession(t, job[w].driver, job[w].manager)]
  BY DEF OpenInitial
<1>3. Active(t) = {}
  BY <1>1 DEF Exclusive, TaskOk
<1>4. Active(t)' = {s}
  BY <1>2, <1>3 DEF Active, NewSession, FreeSessions, TypeInv, TypeOK
<1>5. \A u \in Trips \ {t} : Active(u)' = Active(u)
  BY <1>2, NoneIsNoId DEF Active, NewSession, NoSession, FreeSessions, TypeInv, TypeOK
<1>6. RowsKept
  BY <1>1, <1>2 DEF RowsKept, Exists, NewSession, TypeInv, TypeOK
<1>7. Exists(t)'
  BY <1>1, <1>6, JobRow DEF RowsKept
<1>8. OnlyJobOf(w) /\ TaskOk(job[w])'
  BY <1>1, DonePlain, PlainOk
<1>9. \A v \in Workers \ {w} : Busy(v) => job[v].trip # t
  BY <1>1, NobodyElse
<1>. QED  BY <1>4, <1>5, <1>6, <1>7, <1>8, <1>9, ExclusiveStep


\* An update of the trip row, by a worker that has read no session.
LEMMA RowStepExclusive ==
    ASSUME TypeInv, Exclusive, NEW w \in Workers,
           SetDriver(w) \/ SetManager(w) \/ SetTruck(w) \/ CompleteOther(w)
    PROVE  Exclusive'
<1>1. UNCHANGED session
  BY DEF SetDriver, SetManager, SetTruck, CompleteOther
<1>2. job[w].act = None
  BY TaskFields DEF SetDriver, SetManager, SetTruck, CompleteOther, PairTasks,
     MoveTasks, CloseTasks, TypeInv, TypeOK
<1>3. RowsKept
  <2>1. /\ trip \in [Trips -> TripRows]
        /\ \A t \in Trips : Exists(t) => trip[t] \in [driver : Drivers,
                                manager : Managers, state : TripStates \ {"none"}]
        /\ job[w].trip \in Trips /\ Exists(job[w].trip)
    BY JobRow, RowFields DEF SetDriver, SetManager, SetTruck, CompleteOther, Busy,
       TypeInv, TypeOK
  <2>2. CASE SetDriver(w)
    BY <1>1, <2>1, <2>2 DEF SetDriver, RowsKept, Exists
  <2>3. CASE SetManager(w)
    BY <1>1, <2>1, <2>3 DEF SetManager, RowsKept, Exists
  <2>4. CASE SetTruck(w)
    BY <1>1, <2>1, <2>4 DEF SetTruck, RowsKept, Exists, Restate
  <2>5. CASE CompleteOther(w)
    BY <1>1, <2>1, <2>5 DEF CompleteOther, RowsKept, Exists, Restate
  <2>. QED  BY <2>2, <2>3, <2>4, <2>5
<1>4. OnlyJobOf(w) /\ Plain(job'[w])
  <2>1. CASE Done(w)
    BY <2>1, DonePlain
  <2>2. CASE SetDriver(w) \/ SetManager(w)
    <3>1. job[w] \in PairTasks({job[w].pc}, {None}) /\ HandOverOrDone(w)
      BY <2>2, TaskFields DEF SetDriver, SetManager, TypeInv, TypeOK
    <3>2. CASE job' = [job EXCEPT ![w] = [job[w] EXCEPT !.pc = "txRead"]]
      <4>1. OnlyJobOf(w) /\ job'[w] = [job[w] EXCEPT !.pc = "txRead"]
        BY <3>2 DEF OnlyJobOf, TypeInv, TypeOK
      <4>. QED  BY <3>1, <4>1 DEF PairTasks, Plain
    <3>. QED  BY <2>1, <3>1, <3>2 DEF HandOverOrDone
  <2>3. CASE SetTruck(w)
    <3>1. job[w] \in MoveTasks
      BY <2>3, TaskFields DEF SetTruck, TypeInv, TypeOK
    <3>2. /\ OnlyJobOf(w)
          /\ job'[w] = [job[w] EXCEPT !.pc = "txRead",
                                      !.manager = trip[job[w].trip].manager]
      BY <2>3 DEF SetTruck, OnlyJobOf, TypeInv, TypeOK
    <3>. QED  BY <3>1, <3>2 DEF MoveTasks, Plain
  <2>4. CASE CompleteOther(w)
    <3>1. job[w] \in CloseTasks({"complete"}, {None})
      BY <2>4, TaskFields DEF CompleteOther, TypeInv, TypeOK
    <3>2. OnlyJobOf(w) /\ job'[w] = [job[w] EXCEPT !.pc = "closeRead"]
      BY <2>4 DEF CompleteOther, OnlyJobOf, TypeInv, TypeOK
    <3>. QED  BY <3>1, <3>2 DEF CloseTasks, Plain
  <2>. QED  BY <2>2, <2>3, <2>4
<1>. QED  BY <1>1, <1>3, <1>4, PlainStep

LEMMA TxReadExclusive ==
    ASSUME TypeInv, Exclusive, NEW w \in Workers, TxRead(w)
    PROVE  Exclusive'
<1>1. job[w].pc = "txRead" /\ UNCHANGED <<trip, session>>
  BY DEF TxRead
<1>2. job[w] \in PairTasks({"txRead"}, {None}) /\ job[w].trip \in Trips
  BY <1>1, TaskFields DEF TypeInv, TypeOK
<1>. PICK t \in Trips : t = job[w].trip
  BY <1>2
<1>3. PICK s \in ActiveReads(t) :
         job' = [job EXCEPT ![w] = [job[w] EXCEPT !.pc = "txCommit", !.act = s]]
  BY DEF TxRead
<1>4. OnlyJobOf(w) /\ job'[w] = [job[w] EXCEPT !.pc = "txCommit", !.act = s]
  BY <1>3 DEF OnlyJobOf, TypeInv, TypeOK
<1>5. job'[w].pc = "txCommit" /\ job'[w].trip = t /\ job'[w].act = s
  BY <1>2, <1>4 DEF PairTasks
<1>6. (s # None => s \in Active(t)) /\ Active(t) \subseteq {s}
  BY ActiveReadsType DEF Exclusive, AtMostOneActive
<1>7. Active(t)' = Active(t)
  BY <1>1, SameActive
<1>8. TaskOk(job[w])'
  BY <1>5, <1>6, <1>7 DEF TaskOk, Active
<1>. QED  BY <1>1, <1>4, <1>8, RowsUnchanged, SameChatsStep

\* What a committed hand-over makes of the trip's sessions: the new one only.
LEMMA HandOverActive ==
    ASSUME TypeInv, Exclusive, NEW w \in Workers, job[w].pc = "txCommit",
           NEW s \in FreeSessions, session' = HandOver(job[w], s),
           NEW t \in Trips, t = job[w].trip
    PROVE  /\ Active(t)' = {s}
           /\ \A u \in Trips \ {t} : Active(u)' = Active(u)
<1>1. Active(t) \subseteq {job[w].act} /\ (job[w].act # None => job[w].act \in Active(t))
  BY DEF Exclusive, TaskOk
<1>2. job[w].act \in Sessions \cup {None} /\ s \in Sessions /\ session[s].trip = None
  BY TaskFields DEF TypeInv, TypeOK, FreeSessions, NoSession
<1>3. \A r \in Sessions : session[r].end # None => session'[r].end # None \/ r = s
  BY NoneIsNoId DEF HandOver, EndReasons, TypeInv, TypeOK
<1>4. session'[s].trip = t /\ session'[s].end = None
  BY <1>2 DEF HandOver, NewSession
<1>5. ASSUME NEW r \in Sessions, r # s, r = job[w].act
      PROVE  session'[r].trip = t /\ session'[r].end # None
  <2>1. r \in Active(t)
    BY <1>1, <1>5, NoneIsNoId
  <2>2. session'[r] = [session[r] EXCEPT !.end = "REASSIGNED"]
    BY <1>5 DEF HandOver
  <2>3. session[r] \in SessionRows
    BY DEF TypeInv, TypeOK
  <2>. QED  BY <2>1, <2>2, <2>3, NoneIsNoId DEF Active, SessionRows, NoSession, EndReasons
<1>6. ASSUME NEW r \in Sessions, r # s, r # job[w].act
      PROVE  session'[r] = session[r]
  BY <1>6 DEF HandOver
<1>7. Active(t)' = {s}
  BY <1>1, <1>2, <1>4, <1>5, <1>6 DEF Active
<1>8. ASSUME NEW u \in Trips \ {t} PROVE Active(u)' = Active(u)
  <2>1. job[w].act \in Sessions => session[job[w].act].trip = t
    BY <1>1, NoneIsNoId DEF Active
  <2>. QED  BY <1>2, <1>4, <1>5, <1>6, <2>1, NoneIsNoId DEF Active
<1>. QED  BY <1>7, <1>8

LEMMA TxCommitExclusive ==
    ASSUME TypeInv, Exclusive, NoOverlap, NEW w \in Workers, TxCommit(w)
    PROVE  Exclusive'
<1>1. /\ job[w].pc = "txCommit" /\ Busy(w) /\ Done(w) /\ UNCHANGED trip
      /\ job[w].trip \in Trips
  BY TaskFields DEF TxCommit, Busy, TypeInv, TypeOK
<1>. PICK t \in Trips : t = job[w].trip
  BY <1>1
<1>2. PICK s \in FreeSessions : session' = HandOver(job[w], s)
  BY DEF TxCommit
<1>3. Active(t)' = {s} /\ \A u \in Trips \ {t} : Active(u)' = Active(u)
  BY <1>1, <1>2, HandOverActive
<1>4. RowsKept
  BY <1>1, <1>2, HandOverRows DEF RowsKept, Exists
<1>5. Exists(t)'
  BY <1>1, <1>4, JobRow DEF RowsKept
<1>6. OnlyJobOf(w) /\ TaskOk(job[w])'
  BY <1>1, DonePlain, PlainOk
<1>7. \A v \in Workers \ {w} : Busy(v) => job[v].trip # t
  BY <1>1, NobodyElse
<1>. QED  BY <1>3, <1>4, <1>5, <1>6, <1>7, ExclusiveStep

LEMMA CloseReadExclusive ==
    ASSUME TypeInv, Exclusive, NEW w \in Workers, CloseRead(w)
    PROVE  Exclusive'
<1>1. job[w].pc = "closeRead" /\ UNCHANGED <<trip, session>>
  BY DEF CloseRead
<1>2. job[w] \in CloseTasks({"closeRead"}, {None}) /\ job[w].trip \in Trips
  BY <1>1, TaskFields DEF TypeInv, TypeOK
<1>. PICK t \in Trips : t = job[w].trip
  BY <1>2
<1>3. PICK s \in ActiveReads(t) :
         IF s = None THEN Done(w)
         ELSE job' = [job EXCEPT ![w] = [job[w] EXCEPT !.pc = "closeWrite", !.act = s]]
  BY DEF CloseRead
<1>4. RowsKept
  BY <1>1, RowsUnchanged
<1>5. CASE s = None
  BY <1>1, <1>3, <1>4, <1>5, DonePlain, PlainStep
<1>6. CASE s # None
  <2>1. OnlyJobOf(w) /\ job'[w] = [job[w] EXCEPT !.pc = "closeWrite", !.act = s]
    BY <1>3, <1>6 DEF OnlyJobOf, TypeInv, TypeOK
  <2>2. job'[w].pc = "closeWrite" /\ job'[w].trip = t /\ job'[w].act = s
    BY <1>2, <2>1 DEF CloseTasks
  <2>3. s \in Active(t) /\ Active(t)' = Active(t)
    BY <1>1, <1>6, ActiveReadsType, SameActive
  <2>4. TaskOk(job[w])'
    BY <2>2, <2>3 DEF TaskOk, Active
  <2>. QED  BY <1>1, <1>4, <2>1, <2>4, SameChatsStep
<1>. QED  BY <1>5, <1>6

LEMMA CloseWriteExclusive ==
    ASSUME TypeInv, Exclusive, NoOverlap, NEW w \in Workers, CloseWrite(w)
    PROVE  Exclusive'
<1>1. /\ job[w].pc = "closeWrite" /\ Busy(w) /\ Done(w) /\ UNCHANGED trip
      /\ session' = [session EXCEPT ![job[w].act].end = "TRIP_COMPLETED"]
      /\ job[w].trip \in Trips
  BY TaskFields DEF CloseWrite, Busy, TypeInv, TypeOK
<1>. PICK t \in Trips : t = job[w].trip
  BY <1>1
<1>2. job[w].act \in Sessions
  BY <1>1, TaskFields DEF TypeInv, TypeOK, CloseTasks
<1>3. job[w].act \in Active(t)
  BY <1>2, NoneIsNoId DEF Exclusive, TaskOk
<1>4. session[job[w].act] \in SessionRows \ {NoSession}
  BY <1>3, NoneIsNoId DEF Active, TypeInv, TypeOK, NoSession
<1>5. /\ session'[job[w].act].trip = t /\ session'[job[w].act].end = "TRIP_COMPLETED"
      /\ \A r \in Sessions \ {job[w].act} : session'[r] = session[r]
  BY <1>1, <1>2, <1>3, <1>4 DEF Active, SessionRows, TypeInv, TypeOK
<1>6. Active(t)' = {}
  BY <1>3, <1>5, NoneIsNoId DEF Active, EndReasons, Exclusive, AtMostOneActive
<1>7. \A u \in Trips \ {t} : Active(u)' = Active(u)
  BY <1>3, <1>5 DEF Active
<1>8. RowsKept
  BY <1>1, <1>5 DEF RowsKept, Exists
<1>9. OnlyJobOf(w) /\ TaskOk(job[w])'
  BY <1>1, DonePlain, PlainOk
<1>10. \A v \in Workers \ {w} : Busy(v) => job[v].trip # t
  BY <1>1, NobodyElse
<1>. QED  BY <1>6, <1>7, <1>8, <1>9, <1>10, ExclusiveStep

LEMMA DieExclusive ==
    ASSUME TypeInv, Exclusive, NEW w \in Workers, Die(w)
    PROVE  Exclusive'
<1>1. OnlyJobOf(w) /\ Plain(job'[w]) /\ UNCHANGED <<trip, session>>
  BY DEF Die, OnlyJobOf, Plain, Idle, TypeInv, TypeOK
<1>. QED  BY <1>1, RowsUnchanged, PlainStep

\* A step of no worker.
LEMMA NoJobExclusive ==
    ASSUME Exclusive, RowsKept, UNCHANGED <<session, job>>
    PROVE  Exclusive'
<1>1. \A u : Active(u)' = Active(u)
  BY SameActive
<1>. QED  BY <1>1 DEF Exclusive, AtMostOneActive, NoChatYet, RowsKept, TaskOk, Active

LEMMA NextExclusive == TypeInv /\ Exclusive /\ NoOverlap /\ [Next]_vars => Exclusive'
<1>. SUFFICES ASSUME TypeInv, Exclusive, NoOverlap, [Next]_vars PROVE Exclusive'
  OBVIOUS
<1>1. ASSUME NEW w \in Workers, WorkerStep(w) PROVE Exclusive'
  BY <1>1, CreateExclusive, RequestExclusive, OpenInitialExclusive, RowStepExclusive,
     TxReadExclusive, TxCommitExclusive, CloseReadExclusive, CloseWriteExclusive,
     DieExclusive DEF WorkerStep
<1>2. ASSUME NEW t \in Trips, NEW state \in {"open", "closed"}, SetStatus(t, state)
      PROVE  Exclusive'
  <2>1. RowsKept
    BY <1>2 DEF SetStatus, RowsKept, Exists, TypeInv, TypeOK, Live, TripRows, NoTrip
  <2>. QED  BY <1>2, <2>1, NoJobExclusive DEF SetStatus
<1>3. ASSUME NEW t \in Trips, Remove(t) PROVE Exclusive'
  <2>1. RowsKept
    BY <1>3 DEF Remove, RowsKept, Exists, TypeInv, TypeOK, Live, TripRows, NoTrip
  <2>. QED  BY <1>3, <2>1, NoJobExclusive DEF Remove
<1>4. CASE UNCHANGED vars
  BY <1>4, RowsUnchanged, NoJobExclusive DEF vars
<1>. QED  BY <1>1, <1>2, <1>3, <1>4 DEF Next

\* As long as no two handlers are at the same trip, a trip never has two chat
\* sessions that have not ended, and what a handler has read stays true until
\* it commits, whatever dies half way.
THEOREM ExclusiveInvariant == Spec /\ []NoOverlap => []Exclusive
  BY TypeInvariant, InitExclusive, NextExclusive, PTL DEF Spec

\* So a trip has one conversation that goes on, or none (closeAndOpenNew).
THEOREM OneActiveChat == Spec /\ []NoOverlap => []AtMostOneActive
  BY ExclusiveInvariant, PTL DEF Exclusive

-----------------------------------------------------------------------------
(* What a step may do to the sessions: nothing, open the first one of a    *)
(* trip, hand a chat over, or close one that is active.                    *)

SessionStep ==
    \/ UNCHANGED session
    \/ \E t \in Trips, s \in FreeSessions, d \in Drivers, m \in Managers :
         /\ Active(t) = {}
         /\ session' = [session EXCEPT ![s] = NewSession(t, d, m)]
    \/ \E w \in Workers, s \in FreeSessions :
         /\ job[w].pc = "txCommit"
         /\ session' = HandOver(job[w], s)
    \/ \E t \in Trips : \E a \in Active(t) :
         session' = [session EXCEPT ![a].end = "TRIP_COMPLETED"]

LEMMA NextSessionStep ==
    ASSUME TypeInv, Exclusive, [Next]_vars
    PROVE  SessionStep
<1>1. ASSUME NEW w \in Workers, OpenInitial(w) PROVE SessionStep
  <2>1. /\ job[w].trip \in Trips /\ job[w].driver \in Drivers /\ job[w].manager \in Managers
        /\ Active(job[w].trip) = {}
    BY <1>1, TaskFields DEF OpenInitial, TypeInv, TypeOK, Exclusive, TaskOk
  <2>. QED  BY <1>1, <2>1 DEF OpenInitial, SessionStep
<1>2. ASSUME NEW w \in Workers, TxCommit(w) PROVE SessionStep
  BY <1>2 DEF TxCommit, SessionStep
<1>3. ASSUME NEW w \in Workers, CloseWrite(w) PROVE SessionStep
  <2>1. job[w].trip \in Trips /\ job[w].act \in Sessions
    BY <1>3, TaskFields DEF CloseWrite, TypeInv, TypeOK, CloseTasks
  <2>2. job[w].act \in Active(job[w].trip)
    BY <2>1, NoneIsNoId DEF Exclusive, TaskOk
  <2>. QED  BY <1>3, <2>1, <2>2 DEF CloseWrite, SessionStep
<1>4. ASSUME NEW w \in Workers, WorkerStep(w),
             ~OpenInitial(w), ~TxCommit(w), ~CloseWrite(w)
      PROVE  UNCHANGED session
  BY <1>4 DEF WorkerStep, Create, AssignDriver, AssignManager, AssignTruck,
     ChangeTruckManager, SetDriver, SetManager, SetTruck, TxRead, CompleteOther,
     CloseRead, Die
<1>5. CASE \E w \in Workers : WorkerStep(w)
  BY <1>1, <1>2, <1>3, <1>4, <1>5 DEF SessionStep
<1>6. CASE ~\E w \in Workers : WorkerStep(w)
  BY <1>6 DEF Next, SetStatus, Remove, vars, SessionStep
<1>. QED  BY <1>5, <1>6

\* A row of the session table that is in use, and what a hand-over does to it.
LEMMA SessionRow ==
    ASSUME TypeInv, NEW s \in Sessions
    PROVE  /\ session[s] = NoSession \/ session[s] \in [trip : Trips, driver : Drivers,
                                          manager : Managers, end : EndReasons \cup {None}]
           /\ session[s].end # None => session[s] # NoSession
           /\ session[s].trip = None <=> session[s] = NoSession
  BY NoneIsNoId DEF TypeInv, TypeOK, SessionRows, NoSession

LEMMA EndedStep ==
    ASSUME TypeInv, Exclusive, [Next]_vars, NEW s \in Sessions, session[s].end # None
    PROVE  session'[s].end = session[s].end
<1>1. s \notin FreeSessions /\ \A t : s \notin Active(t)
  BY SessionRow DEF FreeSessions, Active
<1>2. ASSUME NEW w \in Workers, job[w].pc = "txCommit" PROVE s # job[w].act
  BY <1>1, <1>2, NoneIsNoId DEF Exclusive, TaskOk
<1>. QED  BY <1>1, <1>2, NextSessionStep DEF SessionStep, HandOver, TypeInv, TypeOK

\* A conversation that has ended stays ended, for the reason it ended: as long
\* as no two handlers are at the same trip, what a handler closes by its id is
\* still active.
THEOREM EndedStaysEnded == Spec /\ []NoOverlap => EndedForGood
<1>1. TypeInv /\ Exclusive /\ [Next]_vars =>
        [\A s \in Sessions :
           session[s].end # None => session'[s].end = session[s].end]_vars
  BY EndedStep
<1>. QED  BY <1>1, TypeInvariant, ExclusiveInvariant, PTL DEF Spec, EndedForGood

-----------------------------------------------------------------------------
(* The rows and the handlers implement the abstract chat.                  *)

LEMMA InitPairChat == Init => Chat!Init
  BY NoneIsNoId DEF Init, Chat!Init, Active, PairOf, NoSession

LEMMA NextPairChat ==
    ASSUME TypeInv, Exclusive, [Next]_vars
    PROVE  [Chat!Next]_(Chat!pairChatVars)
<1>1. CASE UNCHANGED session
  <2>1. \A t : Active(t)' = Active(t)
    BY <1>1, SameActive
  <2>2. \A s : PairOf(s)' = PairOf(s)
    BY <1>1 DEF PairOf
  <2>. QED  BY <2>1, <2>2 DEF Chat!pairChatVars
<1>2. ASSUME NEW t \in Trips, NEW s \in FreeSessions, NEW d \in Drivers, NEW m \in Managers,
             Active(t) = {}, session' = [session EXCEPT ![s] = NewSession(t, d, m)]
      PROVE  Chat!BeginChat(t, s)
  <2>1. Active(t)' = {s} /\ \A u \in Trips \ {t} : Active(u)' = Active(u)
    BY <1>2, NoneIsNoId DEF Active, NewSession, NoSession, FreeSessions, TypeInv, TypeOK
  <2>2. PairOf(s) = None /\ PairOf(s)' = <<t, d, m>>
    BY <1>2, NoneIsNoId DEF PairOf, NewSession, NoSession, FreeSessions, TypeInv, TypeOK
  <2>3. \A r \in Sessions \ {s} : PairOf(r)' = PairOf(r)
    BY <1>2 DEF PairOf, TypeInv, TypeOK
  <2>. QED  BY <2>1, <2>2, <2>3 DEF Chat!BeginChat, FreeSessions
<1>3. ASSUME NEW w \in Workers, NEW s \in FreeSessions, job[w].pc = "txCommit",
             session' = HandOver(job[w], s)
      PROVE  Chat!BeginChat(job[w].trip, s) /\ job[w].trip \in Trips
  <2>1. job[w].trip \in Trips /\ job[w].driver \in Drivers /\ job[w].manager \in Managers
    BY <1>3, TaskFields DEF TypeInv, TypeOK
  <2>. PICK t \in Trips, d \in Drivers, m \in Managers :
          t = job[w].trip /\ d = job[w].driver /\ m = job[w].manager
    BY <2>1
  <2>2. Active(t)' = {s} /\ \A u \in Trips \ {t} : Active(u)' = Active(u)
    BY <1>3, HandOverActive
  <2>3. PairOf(s) = None /\ PairOf(s)' = <<t, d, m>>
    BY <1>3, NoneIsNoId DEF PairOf, HandOver, NewSession, NoSession, FreeSessions
  <2>4. ASSUME NEW r \in Sessions \ {s} PROVE PairOf(r)' = PairOf(r)
    <3>1. session'[r] = session[r] \/ session'[r] = [session[r] EXCEPT !.end = "REASSIGNED"]
      BY <1>3 DEF HandOver
    <3>. QED  BY <3>1, SessionRow DEF PairOf, NoSession
  <2>. QED  BY <2>2, <2>3, <2>4 DEF Chat!BeginChat, FreeSessions
<1>4. ASSUME NEW t \in Trips, NEW a \in Active(t),
             session' = [session EXCEPT ![a].end = "TRIP_COMPLETED"]
      PROVE  Chat!EndChat(t)
  <2>1. a \in Sessions /\ session[a].trip = t /\ session[a] # NoSession
    BY NoneIsNoId DEF Active, NoSession
  <2>2. Active(t) = {a}
    BY DEF Exclusive, AtMostOneActive
  <2>3. /\ session'[a].trip = t /\ session'[a].end # None
        /\ \A r \in Sessions \ {a} : session'[r] = session[r]
    BY <1>4, <2>1, SessionRow, NoneIsNoId DEF EndReasons, TypeInv, TypeOK
  <2>4. Active(t)' = {} /\ \A u \in Trips \ {t} : Active(u)' = Active(u)
    BY <2>1, <2>2, <2>3 DEF Active
  <2>5. \A r \in Sessions : PairOf(r)' = PairOf(r)
    BY <1>4, <2>1, SessionRow DEF PairOf, TypeInv, TypeOK
  <2>. QED  BY <2>2, <2>4, <2>5 DEF Chat!EndChat
<1>5. SessionStep
  BY NextSessionStep
<1>. QED  BY <1>1, <1>2, <1>3, <1>4, <1>5 DEF SessionStep, Chat!Next, FreeSessions

\* As long as no two handlers are at the same trip, the statements and the
\* transactions add up to the abstract chat of PairChat: one conversation at a
\* time, each of one pair for good, ended and replaced in one step.
THEOREM RefinesPairChat == Spec /\ []NoOverlap => ImplementsPairChat
<1>1. TypeInv /\ Exclusive /\ [Next]_vars => [Chat!Next]_(Chat!pairChatVars)
  BY NextPairChat
<1>. QED  BY <1>1, InitPairChat, TypeInvariant, ExclusiveInvariant, PTL
          DEF Spec, ImplementsPairChat, Chat!Spec

-----------------------------------------------------------------------------
(* A handler that updates several trips has read them all when it begins,  *)
(* so what must not overlap is every trip it has at hand, not only the one *)
(* it is at.                                                               *)

AtHand(w) ==
    {t \in Trips : (Busy(w) /\ job[w].trip = t) \/ \E k \in rest[w] : k.trip = t}

NoConflict == \A v, w \in Workers : v # w => AtHand(v) \cap AtHand(w) = {}

\* One handler has each of its trips once.
OncePerTrip(w) ==
    /\ ~Busy(w) => rest[w] = {}
    /\ \A k \in rest[w] : k.trip # job[w].trip
    /\ \A k, l \in rest[w] : k.trip = l.trip => k = l

HasNewPair(j) == j.pc \in {"openInitial", "txRead", "txCommit"}

\* What a task says of the row is still true.
KnowsRow(j) ==
    /\ HasNewPair(j) => /\ j.driver = trip[j.trip].driver
                        /\ j.manager = trip[j.trip].manager
    /\ j.pc = "setDriver" => /\ j.manager = trip[j.trip].manager
                             /\ j.changed = (trip[j.trip].driver # j.driver)
    /\ j.pc = "setManager" => /\ j.driver = trip[j.trip].driver
                              /\ j.changed = (trip[j.trip].manager # j.manager)

KnowsRows(w) == KnowsRow(job[w]) /\ \A k \in rest[w] : KnowsRow(k)

HasItsChat(t) ==
    \E s \in Active(t) : /\ session[s].driver = trip[t].driver
                         /\ session[s].manager = trip[t].manager

Fine(t) == t \in torn \/ ChatCompleted(t) \/ HasItsChat(t)

\* Some handler is about to give t the chat of its new pair.
InHand(t) == \E w \in Workers : HasNewPair(job[w]) /\ job[w].trip = t

Agreed == \A t \in Trips : Exists(t) => Fine(t) \/ InHand(t)

Matching == Agreed /\ \A w \in Workers : OncePerTrip(w) /\ KnowsRows(w)

LEMMA InitMatching == Init => Matching
  BY NoneIsNoId DEF Init, Matching, OncePerTrip, KnowsRows, KnowsRow, HasNewPair, Agreed,
     Idle, Busy, NoTrip, Exists

-----------------------------------------------------------------------------
(* What a step leaves as it was.                                           *)

SameTask(v) == job'[v] = job[v] /\ rest'[v] = rest[v]

OnlyTasksOf(w) == \A v \in Workers \ {w} : SameTask(v)

SamePair(t) == trip'[t].driver = trip[t].driver /\ trip'[t].manager = trip[t].manager

SameChat(t) ==
    \A s \in Sessions : session'[s].trip = t \/ session[s].trip = t => session'[s] = session[s]

LEMMA SamePairKnows ==
    ASSUME NEW j, KnowsRow(j), SamePair(j.trip)
    PROVE  KnowsRow(j)'
  BY DEF KnowsRow, SamePair, HasNewPair

LEMMA SameTaskKnows ==
    ASSUME NEW v \in Workers, SameTask(v), KnowsRows(v), OncePerTrip(v),
           SamePair(job[v].trip), \A k \in rest[v] : SamePair(k.trip)
    PROVE  KnowsRows(v)' /\ OncePerTrip(v)'
<1>1. KnowsRow(job[v])'
  BY DEF KnowsRows, KnowsRow, SameTask, SamePair, HasNewPair
<1>2. \A k \in rest'[v] : KnowsRow(k)'
  BY SamePairKnows DEF KnowsRows, SameTask
<1>. QED  BY <1>1, <1>2 DEF KnowsRows, OncePerTrip, SameTask, Busy

LEMMA IdleKnows ==
    ASSUME TypeInv, Matching, NEW v \in Workers, ~Busy(v), SameTask(v)
    PROVE  OncePerTrip(v)' /\ KnowsRows(v)'
<1>1. job'[v] = Idle /\ rest'[v] = {}
  BY TaskFields DEF Matching, OncePerTrip, SameTask, Busy, TypeInv, TypeOK
<1>. QED  BY <1>1 DEF OncePerTrip, KnowsRows, KnowsRow, HasNewPair, Idle, Busy

LEMMA SameFine ==
    ASSUME NEW t \in Trips, Fine(t), SamePair(t), SameChat(t), t \in torn => t \in torn'
    PROVE  Fine(t)'
<1>1. \A s \in Sessions : s \in Active(t) => s \in Active(t)' /\ session'[s] = session[s]
  BY DEF SameChat, Active
<1>2. Active(t)' = Active(t)
  BY DEF SameChat, Active
<1>3. CASE t \in torn
  BY <1>3 DEF Fine
<1>4. CASE ChatCompleted(t)
  BY <1>2, <1>4 DEF Fine, ChatCompleted, SameChat
<1>5. CASE HasItsChat(t)
  <2>1. PICK s \in Active(t) : /\ session[s].driver = trip[t].driver
                               /\ session[s].manager = trip[t].manager
    BY <1>5 DEF HasItsChat
  <2>2. s \in Active(t)' /\ session'[s] = session[s]
    BY <1>1, <2>1 DEF Active
  <2>. QED  BY <2>1, <2>2 DEF Fine, HasItsChat, SamePair
<1>. QED  BY <1>3, <1>4, <1>5 DEF Fine

\* A step that no chat and no pair notices: w goes on, or takes up a request.
LEMMA QuietStep ==
    ASSUME TypeInv, Matching,
           \A t \in Trips : SamePair(t) /\ (Exists(t)' => Exists(t)),
           UNCHANGED <<session, torn>>, NEW w \in Workers, OnlyTasksOf(w),
           OncePerTrip(w)', KnowsRows(w)',
           HasNewPair(job[w]) => HasNewPair(job'[w]) /\ job'[w].trip = job[w].trip
    PROVE  Matching'
<1>1. ASSUME NEW v \in Workers PROVE OncePerTrip(v)' /\ KnowsRows(v)'
  <2>1. CASE v = w
    BY <2>1
  <2>2. CASE v # w /\ Busy(v)
    <3>1. job[v].trip \in Trips /\ \A k \in rest[v] : k.trip \in Trips
      BY <2>2, JobRow, LaterFields DEF TypeInv, TypeOK
    <3>. QED  BY <2>2, <3>1, SameTaskKnows DEF Matching, OnlyTasksOf
  <2>3. CASE v # w /\ ~Busy(v)
    BY <2>3, IdleKnows DEF OnlyTasksOf
  <2>. QED  BY <2>1, <2>2, <2>3
<1>2. ASSUME NEW t \in Trips, Exists(t)' PROVE (Fine(t) \/ InHand(t))'
  <2>1. CASE Fine(t)
    <3>1. SameChat(t)
      BY DEF SameChat
    <3>. QED  BY <2>1, <3>1, SameFine
  <2>2. CASE InHand(t)
    BY <2>2 DEF InHand, OnlyTasksOf, SameTask, HasNewPair
  <2>. QED  BY <1>2, <2>1, <2>2 DEF Matching, Agreed
<1>. QED  BY <1>1, <1>2 DEF Matching, Agreed

\* A step of w about trip t, which no other worker has at hand.
LEMMA TripStep ==
    ASSUME TypeInv, Matching, NEW w \in Workers, OnlyTasksOf(w),
           NEW t \in Trips, \A v \in Workers \ {w} : t \notin AtHand(v),
           \A u \in Trips \ {t} : /\ trip'[u] = trip[u] /\ SameChat(u)
                                  /\ u \in torn => u \in torn',
           HasNewPair(job[w]) => job[w].trip = t,
           OncePerTrip(w)', KnowsRows(w)', (Fine(t) \/ InHand(t))'
    PROVE  Matching'
<1>1. ASSUME NEW v \in Workers PROVE OncePerTrip(v)' /\ KnowsRows(v)'
  <2>1. CASE v = w
    BY <2>1
  <2>2. CASE v # w /\ Busy(v)
    <3>1. job[v].trip \in Trips \ {t} /\ \A k \in rest[v] : k.trip \in Trips \ {t}
      BY <2>2, JobRow, LaterFields DEF AtHand, TypeInv, TypeOK
    <3>2. SamePair(job[v].trip) /\ \A k \in rest[v] : SamePair(k.trip)
      BY <3>1 DEF SamePair
    <3>. QED  BY <2>2, <3>2, SameTaskKnows DEF Matching, OnlyTasksOf
  <2>3. CASE v # w /\ ~Busy(v)
    BY <2>3, IdleKnows DEF OnlyTasksOf
  <2>. QED  BY <2>1, <2>2, <2>3
<1>2. ASSUME NEW u \in Trips, Exists(u)' PROVE (Fine(u) \/ InHand(u))'
  <2>1. CASE u = t
    BY <2>1
  <2>2. CASE u # t /\ Fine(u)
    BY <2>2, SameFine DEF SamePair
  <2>3. CASE u # t /\ InHand(u)
    BY <2>3 DEF InHand, OnlyTasksOf, SameTask, HasNewPair
  <2>4. Exists(u) \/ u = t
    BY <1>2 DEF Exists
  <2>. QED  BY <2>1, <2>2, <2>3, <2>4 DEF Matching, Agreed
<1>. QED  BY <1>1, <1>2 DEF Matching, Agreed

-----------------------------------------------------------------------------
(* The tasks of the worker that steps.                                     *)

LEMMA DoneTasks ==
    ASSUME TypeInv, Matching, NEW w \in Workers, Done(w),
           \A k \in rest[w] : SamePair(k.trip)
    PROVE  OnlyTasksOf(w) /\ OncePerTrip(w)' /\ KnowsRows(w)'
<1>. /\ job \in [Workers -> Tasks] /\ rest \in [Workers -> SUBSET LaterTasks]
     /\ OncePerTrip(w) /\ KnowsRows(w)
  BY DEF TypeInv, TypeOK, Matching
<1>1. CASE /\ rest[w] = {}
           /\ job' = [job EXCEPT ![w] = Idle]
           /\ UNCHANGED rest
  BY <1>1 DEF OnlyTasksOf, SameTask, OncePerTrip, KnowsRows, KnowsRow, HasNewPair, Idle, Busy
<1>2. CASE \E task \in rest[w] :
             /\ job' = [job EXCEPT ![w] = task]
             /\ rest' = [rest EXCEPT ![w] = rest[w] \ {task}]
  <2>. PICK task \in rest[w] :
             /\ job' = [job EXCEPT ![w] = task]
             /\ rest' = [rest EXCEPT ![w] = rest[w] \ {task}]
    BY <1>2
  <2>1. job'[w] = task /\ rest'[w] = rest[w] \ {task} /\ task.pc # "idle"
    BY LaterFields
  <2>2. \A k \in rest[w] : KnowsRow(k)'
    BY SamePairKnows DEF KnowsRows
  <2>3. KnowsRows(w)'
    BY <2>1, <2>2 DEF KnowsRows, KnowsRow, HasNewPair
  <2>4. OncePerTrip(w)'
    BY <2>1 DEF OncePerTrip, Busy
  <2>5. OnlyTasksOf(w)
    BY DEF OnlyTasksOf, SameTask
  <2>. QED  BY <2>3, <2>4, <2>5
<1>. QED  BY <1>1, <1>2 DEF Done

\* w goes on with its task as j.
LEMMA GoOnTasks ==
    ASSUME TypeInv, Matching, NEW w \in Workers, Busy(w), NEW j,
           job' = [job EXCEPT ![w] = j], UNCHANGED rest,
           j.trip = job[w].trip, j.pc # "idle", \A k \in rest[w] : SamePair(k.trip)
    PROVE  /\ OnlyTasksOf(w) /\ OncePerTrip(w)' /\ job'[w] = j
           /\ KnowsRow(job[w])' => KnowsRows(w)'
<1>. /\ job \in [Workers -> Tasks] /\ rest \in [Workers -> SUBSET LaterTasks]
     /\ OncePerTrip(w) /\ KnowsRows(w)
  BY DEF TypeInv, TypeOK, Matching
<1>1. \A k \in rest'[w] : KnowsRow(k)'
  BY SamePairKnows DEF KnowsRows
<1>. QED  BY <1>1 DEF OnlyTasksOf, SameTask, OncePerTrip, KnowsRows, Busy

LEMMA StartTasks ==
    ASSUME TypeInv, NEW w \in Workers, NEW task, NEW others, Start(w, task, others),
           task.pc # "idle", \A k \in others : k.trip # task.trip,
           \A k, l \in others : k.trip = l.trip => k = l
    PROVE  /\ OnlyTasksOf(w) /\ OncePerTrip(w)' /\ ~HasNewPair(job[w])
           /\ job'[w] = task /\ rest'[w] = others
  BY DEF Start, OnlyTasksOf, SameTask, OncePerTrip, Busy, HasNewPair, TypeInv, TypeOK

\* What w has waiting is not about the trip it is at.
LEMMA RestElsewhere ==
    ASSUME TypeInv, Matching, NEW w \in Workers, NEW k \in rest[w]
    PROVE  k.trip \in Trips \ {job[w].trip}
  BY LaterFields DEF Matching, OncePerTrip, TypeInv, TypeOK

LEMMA NobodyElseHas ==
    ASSUME TypeInv, NoConflict, NEW w \in Workers, Busy(w)
    PROVE  \A v \in Workers \ {w} : job[w].trip \notin AtHand(v)
<1>1. job[w].trip \in AtHand(w)
  BY JobRow DEF AtHand
<1>. QED  BY <1>1 DEF NoConflict

\* Of a trip whose handler has no new pair for it, the chat is fine.
LEMMA FineBefore ==
    ASSUME TypeInv, Matching, NoConflict, NEW w \in Workers, Busy(w), ~HasNewPair(job[w])
    PROVE  Fine(job[w].trip)
<1>1. job[w].trip \in Trips /\ Exists(job[w].trip)
  BY JobRow
<1>2. ASSUME InHand(job[w].trip) PROVE FALSE
  <2>. PICK v \in Workers : HasNewPair(job[v]) /\ job[v].trip = job[w].trip
    BY <1>2 DEF InHand
  <2>1. v # w /\ job[w].trip \in AtHand(v) \cap AtHand(w)
    BY <1>1 DEF AtHand, Busy, HasNewPair
  <2>. QED  BY <2>1 DEF NoConflict
<1>. QED  BY <1>1, <1>2 DEF Matching, Agreed

-----------------------------------------------------------------------------
(* The steps.                                                              *)

LEMMA CreateMatching ==
    ASSUME TypeInv, Matching, NEW w \in Workers, NEW t \in Trips, NEW d \in Drivers,
           NEW m \in Managers, Create(w, t, d, m)
    PROVE  Matching'
<1>1. /\ ~Exists(t) /\ Start(w, OpenTask(t, d, m), {}) /\ UNCHANGED <<session, torn>>
      /\ trip' = [trip EXCEPT ![t] = [driver |-> d, manager |-> m, state |-> "open"]]
  BY DEF Create
<1>2. /\ OpenTask(t, d, m).pc = "openInitial" /\ OpenTask(t, d, m).trip = t
      /\ OpenTask(t, d, m).driver = d /\ OpenTask(t, d, m).manager = m
  BY DEF OpenTask, Idle
<1>3. /\ OnlyTasksOf(w) /\ OncePerTrip(w)' /\ ~HasNewPair(job[w])
      /\ job'[w] = OpenTask(t, d, m) /\ rest'[w] = {}
  BY <1>1, <1>2, StartTasks
<1>4. trip'[t].driver = d /\ trip'[t].manager = m /\ \A u \in Trips \ {t} : trip'[u] = trip[u]
  BY <1>1 DEF TypeInv, TypeOK
<1>5. KnowsRows(w)'
  BY <1>2, <1>3, <1>4 DEF KnowsRows, KnowsRow, HasNewPair
<1>6. InHand(t)'
  BY <1>2, <1>3 DEF InHand, HasNewPair
<1>7. \A v \in Workers \ {w} : t \notin AtHand(v)
  BY <1>1 DEF AtHand, TypeInv, JobsOfTrips, RestOfTrips
<1>8. \A u \in Trips : SameChat(u)
  BY <1>1 DEF SameChat
<1>. QED  BY <1>1, <1>3, <1>4, <1>5, <1>6, <1>7, <1>8, TripStep

LEMMA RequestMatching ==
    ASSUME TypeInv, Matching, NEW w \in Workers, UNCHANGED <<trip, session, torn>>,
           NEW task, NEW others, Start(w, task, others),
           task.pc # "idle", \A k \in others : k.trip # task.trip,
           \A k, l \in others : k.trip = l.trip => k = l,
           KnowsRow(task), \A k \in others : KnowsRow(k)
    PROVE  Matching'
<1>1. /\ OnlyTasksOf(w) /\ OncePerTrip(w)' /\ ~HasNewPair(job[w])
      /\ job'[w] = task /\ rest'[w] = others
  BY StartTasks
<1>2. \A t : SamePair(t)
  BY DEF SamePair
<1>3. KnowsRows(w)'
  BY <1>1 DEF KnowsRows, KnowsRow, HasNewPair
<1>. QED  BY <1>1, <1>2, <1>3, QuietStep DEF Exists

LEMMA NewTasksKnow ==
    /\ \A t, d : KnowsRow(DriverTask(t, d)) /\ DriverTask(t, d).pc = "setDriver"
    /\ \A t, m : /\ KnowsRow(ManagerTask(t, m)) /\ ManagerTask(t, m).pc = "setManager"
                 /\ ManagerTask(t, m).trip = t
    /\ \A t, d : /\ KnowsRow(TruckTask(t, d)) /\ TruckTask(t, d).pc = "setTruck"
                 /\ TruckTask(t, d).trip = t
    /\ \A t : KnowsRow(CompleteTask(t)) /\ CompleteTask(t).trip = t
  BY DEF KnowsRow, HasNewPair, DriverTask, ManagerTask, TruckTask, CompleteTask, Idle

LEMMA AssignMatching ==
    ASSUME TypeInv, Matching, NEW w \in Workers,
           \/ \E t \in Trips, d \in Drivers : AssignDriver(w, t, d)
           \/ \E t \in Trips, m \in Managers : AssignManager(w, t, m)
           \/ \E t, b \in Trips, d, e \in Drivers : AssignTruck(w, t, d, b, e)
           \/ \E m \in Managers : ChangeTruckManager(w, m)
    PROVE  Matching'
<1>1. CASE \E t \in Trips, d \in Drivers : AssignDriver(w, t, d)
  BY <1>1, NewTasksKnow, RequestMatching DEF AssignDriver
<1>2. CASE \E t \in Trips, m \in Managers : AssignManager(w, t, m)
  BY <1>2, NewTasksKnow, RequestMatching DEF AssignManager
<1>3. ASSUME NEW t \in Trips, NEW b \in Trips, NEW d \in Drivers, NEW e \in Drivers,
             AssignTruck(w, t, d, b, e)
      PROVE  Matching'
  <2>. PICK others \in {{}, {TruckTask(b, e)}, {CompleteTask(b)}} :
           /\ others # {} => b # t /\ trip[b].state = "open"
           /\ Start(w, TruckTask(t, d), others)
    BY <1>3 DEF AssignTruck
  <2>1. TruckTask(t, d).trip = t /\ \A k \in others : k.trip = b /\ KnowsRow(k)
    BY NewTasksKnow
  <2>2. \A k, l \in others : k = l
    OBVIOUS
  <2>. QED  BY <1>3, <2>1, <2>2, NewTasksKnow, RequestMatching DEF AssignTruck
<1>4. ASSUME NEW m \in Managers, ChangeTruckManager(w, m) PROVE Matching'
  <2>. PICK onTruck \in SUBSET {t \in Trips : /\ trip[t].state = "open"
                                              /\ trip[t].manager # m} :
         \E first \in onTruck :
            Start(w, ManagerTask(first, m),
                  {ManagerTask(t, m) : t \in onTruck \ {first}})
    BY <1>4 DEF ChangeTruckManager
  <2>. PICK first \in onTruck :
         Start(w, ManagerTask(first, m), {ManagerTask(t, m) : t \in onTruck \ {first}})
    OBVIOUS
  <2>. DEFINE others == {ManagerTask(t, m) : t \in onTruck \ {first}}
  <2>1. /\ \A k \in others : k.trip # first /\ KnowsRow(k) /\ k = ManagerTask(k.trip, m)
        /\ ManagerTask(first, m).trip = first /\ ManagerTask(first, m).pc = "setManager"
        /\ KnowsRow(ManagerTask(first, m))
    BY NewTasksKnow
  <2>2. Start(w, ManagerTask(first, m), others) /\ UNCHANGED <<trip, session, torn>>
    BY <1>4 DEF ChangeTruckManager
  <2>. HIDE DEF others
  <2>. QED  BY <2>1, <2>2, RequestMatching
<1>. QED  BY <1>1, <1>2, <1>3, <1>4


\* A row gets a new driver or manager, and its worker goes on to hand over.
LEMMA PairStep ==
    ASSUME TypeInv, Matching, NoConflict, NEW w \in Workers, Busy(w), ~HasNewPair(job[w]),
           NEW t \in Trips, job[w].trip = t,
           NEW j, job' = [job EXCEPT ![w] = j], UNCHANGED rest,
           j.trip = t, j.pc = "txRead",
           j.driver = trip'[t].driver, j.manager = trip'[t].manager,
           \A u \in Trips \ {t} : trip'[u] = trip[u], UNCHANGED <<session, torn>>
    PROVE  Matching'
<1>1. \A k \in rest[w] : SamePair(k.trip)
  BY RestElsewhere DEF SamePair
<1>2. /\ OnlyTasksOf(w) /\ OncePerTrip(w)' /\ job'[w] = j
      /\ KnowsRow(job[w])' => KnowsRows(w)'
  BY <1>1, GoOnTasks
<1>3. KnowsRow(job[w])' /\ InHand(t)'
  BY <1>2 DEF KnowsRow, HasNewPair, InHand
<1>4. \A v \in Workers \ {w} : t \notin AtHand(v)
  BY NobodyElseHas
<1>5. \A u \in Trips : SameChat(u)
  BY DEF SameChat
<1>. QED  BY <1>2, <1>3, <1>4, <1>5, TripStep

LEMMA SetDriverMatching ==
    ASSUME TypeInv, Matching, NoConflict, NEW w \in Workers, SetDriver(w)
    PROVE  Matching'
<1>1. /\ job[w].pc = "setDriver" /\ Busy(w) /\ ~HasNewPair(job[w])
      /\ trip' = [trip EXCEPT ![job[w].trip].driver = job[w].driver]
      /\ HandOverOrDone(w) /\ UNCHANGED <<session, torn>>
  BY DEF SetDriver, Busy, HasNewPair
<1>. PICK t \in Trips : t = job[w].trip
  BY <1>1, JobRow
<1>2. /\ job[w] \in PairTasks({"setDriver"}, {None})
      /\ trip[t] \in [driver : Drivers, manager : Managers, state : TripStates \ {"none"}]
  BY <1>1, TaskFields, JobRow DEF TypeInv, TypeOK
<1>3. /\ trip'[t].driver = job[w].driver /\ trip'[t].manager = trip[t].manager
      /\ trip'[t].state = trip[t].state
      /\ \A u \in Trips \ {t} : trip'[u] = trip[u]
  BY <1>1, <1>2 DEF TypeInv, TypeOK
<1>4. /\ job[w].manager = trip[t].manager
      /\ job[w].changed = (trip[t].driver # job[w].driver)
  BY <1>1 DEF Matching, KnowsRows, KnowsRow
<1>5. CASE job[w].changed
  <2>. DEFINE j == [job[w] EXCEPT !.pc = "txRead"]
  <2>1. job' = [job EXCEPT ![w] = j] /\ UNCHANGED rest
    BY <1>1, <1>5 DEF HandOverOrDone
  <2>2. /\ j.trip = job[w].trip /\ j.pc = "txRead"
        /\ j.driver = job[w].driver /\ j.manager = job[w].manager
    BY <1>2 DEF PairTasks
  <2>. HIDE DEF j
  <2>3. /\ j.trip = t /\ j.pc = "txRead"
        /\ j.driver = trip'[t].driver /\ j.manager = trip'[t].manager
    BY <1>3, <1>4, <2>2
  <2>. QED  BY <1>1, <1>3, <2>1, <2>3, PairStep, ZenonT(60)
<1>6. CASE ~job[w].changed
  <2>1. \A u \in Trips : SamePair(u)
    BY <1>2, <1>3, <1>4, <1>6 DEF SamePair, PairTasks
  <2>2. Done(w)
    BY <1>1, <1>6 DEF HandOverOrDone
  <2>3. \A u \in Trips : Exists(u)' => Exists(u)
    BY <1>3 DEF Exists
  <2>4. \A k \in rest[w] : SamePair(k.trip)
    BY <2>1, RestElsewhere
  <2>. QED  BY <1>1, <2>1, <2>2, <2>3, <2>4, DoneTasks, QuietStep
<1>. QED  BY <1>5, <1>6

LEMMA SetManagerMatching ==
    ASSUME TypeInv, Matching, NoConflict, NEW w \in Workers, SetManager(w)
    PROVE  Matching'
<1>1. /\ job[w].pc = "setManager" /\ Busy(w) /\ ~HasNewPair(job[w])
      /\ trip' = [trip EXCEPT ![job[w].trip].manager = job[w].manager]
      /\ HandOverOrDone(w) /\ UNCHANGED <<session, torn>>
  BY DEF SetManager, Busy, HasNewPair
<1>. PICK t \in Trips : t = job[w].trip
  BY <1>1, JobRow
<1>2. /\ job[w] \in PairTasks({"setManager"}, {None})
      /\ trip[t] \in [driver : Drivers, manager : Managers, state : TripStates \ {"none"}]
  BY <1>1, TaskFields, JobRow DEF TypeInv, TypeOK
<1>3. /\ trip'[t].manager = job[w].manager /\ trip'[t].driver = trip[t].driver
      /\ trip'[t].state = trip[t].state
      /\ \A u \in Trips \ {t} : trip'[u] = trip[u]
  BY <1>1, <1>2 DEF TypeInv, TypeOK
<1>4. /\ job[w].driver = trip[t].driver
      /\ job[w].changed = (trip[t].manager # job[w].manager)
  BY <1>1 DEF Matching, KnowsRows, KnowsRow
<1>5. CASE job[w].changed
  <2>. DEFINE j == [job[w] EXCEPT !.pc = "txRead"]
  <2>1. job' = [job EXCEPT ![w] = j] /\ UNCHANGED rest
    BY <1>1, <1>5 DEF HandOverOrDone
  <2>2. /\ j.trip = job[w].trip /\ j.pc = "txRead"
        /\ j.driver = job[w].driver /\ j.manager = job[w].manager
    BY <1>2 DEF PairTasks
  <2>. HIDE DEF j
  <2>3. /\ j.trip = t /\ j.pc = "txRead"
        /\ j.driver = trip'[t].driver /\ j.manager = trip'[t].manager
    BY <1>3, <1>4, <2>2
  <2>. QED  BY <1>1, <1>3, <2>1, <2>3, PairStep, ZenonT(60)
<1>6. CASE ~job[w].changed
  <2>1. \A u \in Trips : SamePair(u)
    BY <1>2, <1>3, <1>4, <1>6 DEF SamePair, PairTasks
  <2>2. Done(w)
    BY <1>1, <1>6 DEF HandOverOrDone
  <2>3. \A u \in Trips : Exists(u)' => Exists(u)
    BY <1>3 DEF Exists
  <2>4. \A k \in rest[w] : SamePair(k.trip)
    BY <2>1, RestElsewhere
  <2>. QED  BY <1>1, <2>1, <2>2, <2>3, <2>4, DoneTasks, QuietStep
<1>. QED  BY <1>5, <1>6

LEMMA SetTruckMatching ==
    ASSUME TypeInv, Matching, NoConflict, NEW w \in Workers, SetTruck(w)
    PROVE  Matching'
<1>. DEFINE j == [job[w] EXCEPT !.pc = "txRead", !.manager = trip[job[w].trip].manager]
<1>1. /\ job[w].pc = "setTruck" /\ Busy(w) /\ ~HasNewPair(job[w])
      /\ trip' = [trip EXCEPT ![job[w].trip].driver = job[w].driver,
                              ![job[w].trip].state = Restate(job[w].trip, "open")]
      /\ job' = [job EXCEPT ![w] = j] /\ UNCHANGED <<session, rest, torn>>
  BY DEF SetTruck, Busy, HasNewPair
<1>. PICK t \in Trips : t = job[w].trip
  BY <1>1, JobRow
<1>2. /\ job[w] \in MoveTasks
      /\ trip[t] \in [driver : Drivers, manager : Managers, state : TripStates \ {"none"}]
  BY <1>1, TaskFields, JobRow DEF TypeInv, TypeOK
<1>3. /\ trip'[t].driver = job[w].driver /\ trip'[t].manager = trip[t].manager
      /\ \A u \in Trips \ {t} : trip'[u] = trip[u]
  BY <1>1, <1>2 DEF TypeInv, TypeOK
<1>4. /\ j.trip = job[w].trip /\ j.pc = "txRead"
      /\ j.driver = job[w].driver /\ j.manager = trip[job[w].trip].manager
  BY <1>2 DEF MoveTasks
<1>. HIDE DEF j
<1>5. /\ j.trip = t /\ j.pc = "txRead"
      /\ j.driver = trip'[t].driver /\ j.manager = trip'[t].manager
  BY <1>3, <1>4
<1>. QED  BY <1>1, <1>3, <1>5, PairStep, ZenonT(60)

LEMMA TxReadMatching ==
    ASSUME TypeInv, Matching, NEW w \in Workers, TxRead(w)
    PROVE  Matching'
<1>1. job[w].pc = "txRead" /\ Busy(w) /\ UNCHANGED <<trip, session, rest, torn>>
  BY DEF TxRead, Busy
<1>2. job[w] \in PairTasks({"txRead"}, {None})
  BY <1>1, TaskFields DEF TypeInv, TypeOK
<1>. PICK s \in ActiveReads(job[w].trip) :
         job' = [job EXCEPT ![w] = [job[w] EXCEPT !.pc = "txCommit", !.act = s]]
  BY DEF TxRead
<1>. DEFINE j == [job[w] EXCEPT !.pc = "txCommit", !.act = s]
<1>3. /\ j.trip = job[w].trip /\ j.pc = "txCommit"
      /\ j.driver = job[w].driver /\ j.manager = job[w].manager
  BY <1>2 DEF PairTasks
<1>4. job' = [job EXCEPT ![w] = j]
  OBVIOUS
<1>. HIDE DEF j
<1>5. \A u : SamePair(u)
  BY <1>1 DEF SamePair
<1>6. /\ OnlyTasksOf(w) /\ OncePerTrip(w)' /\ job'[w] = j
      /\ KnowsRow(job[w])' => KnowsRows(w)'
  BY <1>1, <1>3, <1>4, <1>5, GoOnTasks
<1>7. KnowsRow(job[w])
  BY DEF Matching, KnowsRows
<1>8. KnowsRow(job[w])'
  BY <1>1, <1>3, <1>6, <1>7 DEF KnowsRow, HasNewPair
<1>. QED  BY <1>1, <1>3, <1>5, <1>6, <1>8, QuietStep DEF HasNewPair, Exists


LEMMA ConflictIsOverlap == ASSUME TypeInv, NoConflict PROVE NoOverlap
<1>. SUFFICES ASSUME NEW v \in Workers, NEW w \in Workers, Busy(v), Busy(w),
                     job[v].trip = job[w].trip, v # w
              PROVE  FALSE
  BY DEF NoOverlap
<1>1. job[w].trip \in AtHand(w) /\ job[w].trip \in AtHand(v)
  BY JobRow DEF AtHand
<1>. QED  BY <1>1 DEF NoConflict

\* The trip gets its chat: session s, of the pair the task has.
LEMMA NewChatStep ==
    ASSUME TypeInv, Matching, NoConflict, NEW w \in Workers, Busy(w), Done(w),
           UNCHANGED trip, NEW t \in Trips, job[w].trip = t, HasNewPair(job[w]),
           NEW s \in Sessions, s \in Active(t)',
           session'[s].driver = job[w].driver, session'[s].manager = job[w].manager,
           \A u \in Trips \ {t} : SameChat(u) /\ (u \in torn => u \in torn')
    PROVE  Matching'
<1>1. \A k \in rest[w] : SamePair(k.trip)
  BY DEF SamePair
<1>2. OnlyTasksOf(w) /\ OncePerTrip(w)' /\ KnowsRows(w)'
  BY <1>1, DoneTasks
<1>3. job[w].driver = trip[t].driver /\ job[w].manager = trip[t].manager
  BY DEF Matching, KnowsRows, KnowsRow
<1>4. Fine(t)'
  BY <1>3 DEF Fine, HasItsChat
<1>5. \A v \in Workers \ {w} : t \notin AtHand(v)
  BY NobodyElseHas
<1>. QED  BY <1>2, <1>4, <1>5, TripStep

LEMMA OpenInitialMatching ==
    ASSUME TypeInv, Matching, NoConflict, NEW w \in Workers, OpenInitial(w)
    PROVE  Matching'
<1>1. /\ job[w].pc = "openInitial" /\ Busy(w) /\ HasNewPair(job[w])
      /\ Done(w) /\ UNCHANGED <<trip, torn>>
  BY DEF OpenInitial, Busy, HasNewPair
<1>. PICK t \in Trips : t = job[w].trip
  BY <1>1, JobRow
<1>2. PICK s \in FreeSessions :
         session' = [session EXCEPT ![s] = NewSession(t, job[w].driver, job[w].manager)]
  BY DEF OpenInitial
<1>3. /\ s \in Sessions /\ session[s].trip = None
      /\ session'[s] = NewSession(t, job[w].driver, job[w].manager)
      /\ \A r \in Sessions \ {s} : session'[r] = session[r]
  BY <1>2 DEF FreeSessions, NoSession, TypeInv, TypeOK
<1>4. s \in Active(t)' /\ session'[s].driver = job[w].driver
      /\ session'[s].manager = job[w].manager /\ session'[s].trip = t
  BY <1>3 DEF Active, NewSession
<1>5. \A u \in Trips \ {t} : SameChat(u)
  BY <1>3, <1>4, NoneIsNoId DEF SameChat
<1>. QED  BY <1>1, <1>3, <1>4, <1>5, NewChatStep

LEMMA TxCommitMatching ==
    ASSUME TypeInv, Exclusive, Matching, NoConflict, NEW w \in Workers, TxCommit(w)
    PROVE  Matching'
<1>1. /\ job[w].pc = "txCommit" /\ Busy(w) /\ HasNewPair(job[w])
      /\ Done(w) /\ UNCHANGED trip /\ torn' = torn \ {job[w].trip}
  BY DEF TxCommit, Busy, HasNewPair
<1>. PICK t \in Trips : t = job[w].trip
  BY <1>1, JobRow
<1>2. PICK s \in FreeSessions : session' = HandOver(job[w], s)
  BY DEF TxCommit
<1>3. /\ s \in Sessions /\ session[s].trip = None
      /\ session'[s] = NewSession(t, job[w].driver, job[w].manager)
      /\ \A r \in Sessions \ {s} : r # job[w].act => session'[r] = session[r]
  BY <1>2 DEF FreeSessions, NoSession, HandOver
<1>4. s \in Active(t)' /\ session'[s].driver = job[w].driver
      /\ session'[s].manager = job[w].manager /\ session'[s].trip = t
  BY <1>3 DEF Active, NewSession
<1>5. ASSUME NEW r \in Sessions \ {s}, r = job[w].act
      PROVE  session[r].trip = t /\ session'[r].trip = t
  <2>1. session[r].trip = t
    BY <1>5, NoneIsNoId DEF Exclusive, TaskOk, Active
  <2>2. session'[r] = [session[r] EXCEPT !.end = "REASSIGNED"]
    BY <1>2, <1>5 DEF HandOver
  <2>. QED  BY <2>1, <2>2, SessionRow, NoneIsNoId DEF NoSession
<1>6. \A u \in Trips \ {t} : SameChat(u)
  BY <1>3, <1>4, <1>5, NoneIsNoId DEF SameChat
<1>. QED  BY <1>1, <1>3, <1>4, <1>6, NewChatStep

LEMMA CompleteOtherMatching ==
    ASSUME TypeInv, Matching, NEW w \in Workers, CompleteOther(w)
    PROVE  Matching'
<1>. DEFINE j == [job[w] EXCEPT !.pc = "closeRead"]
<1>1. /\ job[w].pc = "complete" /\ Busy(w) /\ ~HasNewPair(job[w])
      /\ trip' = [trip EXCEPT ![job[w].trip].state = Restate(job[w].trip, "closed")]
      /\ job' = [job EXCEPT ![w] = j] /\ UNCHANGED <<session, rest, torn>>
  BY DEF CompleteOther, Busy, HasNewPair
<1>. PICK t \in Trips : t = job[w].trip /\ Exists(t)
  BY <1>1, JobRow
<1>2. /\ job[w] \in CloseTasks({"complete"}, {None})
      /\ trip[t] \in [driver : Drivers, manager : Managers, state : TripStates \ {"none"}]
  BY <1>1, TaskFields, JobRow DEF TypeInv, TypeOK
<1>3. \A u \in Trips : SamePair(u) /\ (Exists(u)' => Exists(u))
  BY <1>1, <1>2 DEF SamePair, Exists, TypeInv, TypeOK
<1>4. j.trip = t /\ j.pc = "closeRead"
  BY <1>2 DEF CloseTasks
<1>. HIDE DEF j
<1>5. \A k \in rest[w] : SamePair(k.trip)
  BY <1>3, RestElsewhere
<1>6. /\ OnlyTasksOf(w) /\ OncePerTrip(w)' /\ job'[w] = j
      /\ KnowsRow(job[w])' => KnowsRows(w)'
  BY <1>1, <1>4, <1>5, GoOnTasks
<1>7. KnowsRow(job[w])'
  BY <1>4, <1>6 DEF KnowsRow, HasNewPair
<1>. QED  BY <1>1, <1>3, <1>6, <1>7, QuietStep

LEMMA CloseReadMatching ==
    ASSUME TypeInv, Matching, NEW w \in Workers, CloseRead(w)
    PROVE  Matching'
<1>1. /\ job[w].pc = "closeRead" /\ Busy(w) /\ ~HasNewPair(job[w])
      /\ UNCHANGED <<trip, session, torn>>
  BY DEF CloseRead, Busy, HasNewPair
<1>2. job[w] \in CloseTasks({"closeRead"}, {None})
  BY <1>1, TaskFields DEF TypeInv, TypeOK
<1>3. \A u : SamePair(u)
  BY <1>1 DEF SamePair
<1>. PICK s \in ActiveReads(job[w].trip) :
         IF s = None THEN Done(w)
         ELSE /\ job' = [job EXCEPT ![w] = [job[w] EXCEPT !.pc = "closeWrite", !.act = s]]
              /\ UNCHANGED rest
  BY DEF CloseRead
<1>4. CASE s = None
  BY <1>1, <1>3, <1>4, DoneTasks, QuietStep DEF Exists
<1>5. CASE s # None
  <2>. DEFINE j == [job[w] EXCEPT !.pc = "closeWrite", !.act = s]
  <2>1. job' = [job EXCEPT ![w] = j] /\ UNCHANGED rest
    BY <1>5
  <2>2. j.trip = job[w].trip /\ j.pc = "closeWrite"
    BY <1>2 DEF CloseTasks
  <2>. HIDE DEF j
  <2>3. /\ OnlyTasksOf(w) /\ OncePerTrip(w)' /\ job'[w] = j
        /\ KnowsRow(job[w])' => KnowsRows(w)'
    BY <1>1, <1>3, <2>1, <2>2, GoOnTasks
  <2>4. KnowsRow(job[w])'
    BY <2>2, <2>3 DEF KnowsRow, HasNewPair
  <2>. QED  BY <1>1, <1>3, <2>3, <2>4, QuietStep DEF Exists
<1>. QED  BY <1>4, <1>5

LEMMA CloseWriteMatching ==
    ASSUME TypeInv, Exclusive, Matching, NoConflict, NEW w \in Workers, CloseWrite(w)
    PROVE  Matching'
<1>1. /\ job[w].pc = "closeWrite" /\ Busy(w) /\ ~HasNewPair(job[w])
      /\ session' = [session EXCEPT ![job[w].act].end = "TRIP_COMPLETED"]
      /\ Done(w) /\ UNCHANGED <<trip, torn>>
  BY DEF CloseWrite, Busy, HasNewPair
<1>. PICK t \in Trips : t = job[w].trip
  BY <1>1, JobRow
<1>2. job[w].act \in Sessions
  BY <1>1, TaskFields DEF TypeInv, TypeOK, CloseTasks
<1>. PICK a \in Sessions : a = job[w].act
  BY <1>2
<1>3. Active(t) = {a} /\ session[a].trip = t /\ session[a] # NoSession
  BY NoneIsNoId DEF Exclusive, TaskOk, AtMostOneActive, Active, NoSession
<1>4. /\ session'[a].trip = t /\ session'[a].end = "TRIP_COMPLETED"
      /\ \A r \in Sessions \ {a} : session'[r] = session[r]
  BY <1>1, <1>3, SessionRow DEF TypeInv, TypeOK
<1>5. Active(t)' = {}
  BY <1>3, <1>4, NoneIsNoId DEF Active, EndReasons
<1>6. Fine(t)'
  BY <1>4, <1>5 DEF Fine, ChatCompleted
<1>7. \A k \in rest[w] : SamePair(k.trip)
  BY <1>1 DEF SamePair
<1>8. OnlyTasksOf(w) /\ OncePerTrip(w)' /\ KnowsRows(w)'
  BY <1>1, <1>7, DoneTasks
<1>9. \A v \in Workers \ {w} : t \notin AtHand(v)
  BY <1>1, NobodyElseHas
<1>10. \A u \in Trips \ {t} : SameChat(u)
  BY <1>3, <1>4 DEF SameChat
<1>. QED  BY <1>1, <1>6, <1>8, <1>9, <1>10, TripStep

LEMMA DieMatching ==
    ASSUME TypeInv, Matching, NoConflict, NEW w \in Workers, Die(w)
    PROVE  Matching'
<1>1. /\ Busy(w) /\ UNCHANGED <<trip, session>>
      /\ torn' = IF HasNewPair(job[w]) THEN torn \cup {job[w].trip} ELSE torn
      /\ job' = [job EXCEPT ![w] = Idle] /\ rest' = [rest EXCEPT ![w] = {}]
  BY DEF Die, HasNewPair
<1>. PICK t \in Trips : t = job[w].trip
  BY <1>1, JobRow
<1>2. OnlyTasksOf(w) /\ OncePerTrip(w)' /\ KnowsRows(w)'
  BY <1>1 DEF OnlyTasksOf, SameTask, OncePerTrip, KnowsRows, KnowsRow, HasNewPair, Idle,
     Busy, TypeInv, TypeOK
<1>3. \A u : SamePair(u) /\ SameChat(u) /\ (u \in torn => u \in torn')
  BY <1>1 DEF SamePair, SameChat
<1>4. Fine(t)'
  <2>1. CASE HasNewPair(job[w])
    BY <1>1, <2>1 DEF Fine
  <2>2. CASE ~HasNewPair(job[w])
    BY <1>1, <1>3, <2>2, FineBefore, SameFine
  <2>. QED  BY <2>1, <2>2
<1>5. \A v \in Workers \ {w} : t \notin AtHand(v)
  BY <1>1, NobodyElseHas
<1>. QED  BY <1>1, <1>2, <1>3, <1>4, <1>5, TripStep

\* A step of no worker, which changes no trip's pair.
LEMMA NoWorkerMatching ==
    ASSUME TypeInv, Matching, \A t \in Trips : SamePair(t) /\ (Exists(t)' => Exists(t)),
           UNCHANGED <<session, job, rest, torn>>
    PROVE  Matching'
<1>1. ASSUME NEW v \in Workers PROVE OncePerTrip(v)' /\ KnowsRows(v)'
  <2>1. CASE Busy(v)
    <3>1. job[v].trip \in Trips /\ \A k \in rest[v] : k.trip \in Trips
      BY <2>1, JobRow, LaterFields DEF TypeInv, TypeOK
    <3>. QED  BY <3>1, SameTaskKnows DEF Matching, SameTask
  <2>2. CASE ~Busy(v)
    BY <2>2, IdleKnows DEF SameTask
  <2>. QED  BY <2>1, <2>2
<1>2. ASSUME NEW t \in Trips, Exists(t)' PROVE (Fine(t) \/ InHand(t))'
  <2>1. SameChat(t)
    BY DEF SameChat
  <2>2. Fine(t) => Fine(t)'
    BY <2>1, SameFine
  <2>3. InHand(t) => InHand(t)'
    BY DEF InHand, HasNewPair
  <2>. QED  BY <1>2, <2>2, <2>3 DEF Matching, Agreed
<1>. QED  BY <1>1, <1>2 DEF Matching, Agreed

LEMMA NextMatching ==
    TypeInv /\ Exclusive /\ Matching /\ NoConflict /\ [Next]_vars => Matching'
<1>. SUFFICES ASSUME TypeInv, Exclusive, Matching, NoConflict, [Next]_vars PROVE Matching'
  OBVIOUS
<1>1. ASSUME NEW w \in Workers, WorkerStep(w) PROVE Matching'
  BY <1>1, CreateMatching, AssignMatching, OpenInitialMatching, SetDriverMatching,
     SetManagerMatching, SetTruckMatching, TxReadMatching, TxCommitMatching,
     CompleteOtherMatching, CloseReadMatching, CloseWriteMatching, DieMatching
     DEF WorkerStep
<1>2. ASSUME NEW t \in Trips, NEW state, Live(t),
             trip' = [trip EXCEPT ![t].state = state],
             UNCHANGED <<session, job, rest, torn>>
      PROVE  Matching'
  <2>1. trip[t] \in [driver : Drivers, manager : Managers, state : TripStates \ {"none"}]
    BY <1>2, LiveExists, RowFields DEF TypeInv
  <2>2. \A u \in Trips : SamePair(u) /\ (Exists(u)' => Exists(u))
    BY <1>2, <2>1, LiveExists DEF SamePair, Exists, TypeInv, TypeOK
  <2>. QED  BY <1>2, <2>2, NoWorkerMatching
<1>3. CASE UNCHANGED vars
  BY <1>3, NoWorkerMatching DEF vars, SamePair, Exists
<1>. QED  BY <1>1, <1>2, <1>3 DEF Next, SetStatus, Remove

\* As long as no two handlers have the same trip at hand, what a handler has
\* read of its trips stays true, and a trip whose last change ran to its end
\* has the chat of its pair, or none because it was completed.
THEOREM MatchingInvariant == Spec /\ []NoConflict => [](TypeInv /\ Exclusive /\ Matching)
<1>1. Init => TypeInv /\ Exclusive /\ Matching
  BY InitTypeInv, InitExclusive, InitMatching
<1>2. (TypeInv /\ Exclusive /\ Matching) /\ NoConflict /\ [Next]_vars
        => (TypeInv /\ Exclusive /\ Matching)'
  BY NextTypeInv, NextExclusive, NextMatching, ConflictIsOverlap
<1>. QED  BY <1>1, <1>2, PTL DEF Spec

\* When no change is under way, the trip's chat is the chat of the driver and
\* the manager its row names.
THEOREM ChatFollowsTrip == Spec /\ []NoConflict => []ChatMatchesTrip
<1>1. TypeInv /\ Matching => ChatMatchesTrip
  BY DEF Matching, Agreed, Fine, InHand, HasItsChat, ChatMatchesTrip, Settled
<1>. QED  BY <1>1, MatchingInvariant, PTL

\* Nobody loses a conversation: an active one is the pair's, and an ended one
\* is in the archive of both who took part in it.
THEOREM HistoryKept == Spec /\ []NoConflict => []NoHistoryLost
<1>1. ASSUME Exclusive, Matching PROVE NoHistoryLost
  <2>. SUFFICES ASSUME NEW t \in Trips, Settled(t), Live(t), NEW u \in Users,
                       NEW s \in SessionsOf(t, u), session[s].end = None
                PROVE  s \in VisibleSessions(t, u)
    BY DEF NoHistoryLost, ArchivedSessions
  <2>1. /\ s \in Sessions /\ s \in Active(t) /\ session[s].trip = t
        /\ u \in {session[s].driver, session[s].manager}
    BY DEF SessionsOf, Active
  <2>2. HasItsChat(t)
    BY <1>1, <2>1 DEF Matching, Agreed, Fine, InHand, Settled, ChatCompleted
  <2>3. session[s].driver = trip[t].driver /\ session[s].manager = trip[t].manager
    BY <1>1, <2>1, <2>2 DEF HasItsChat, Exclusive, AtMostOneActive
  <2>. QED  BY <2>1, <2>3 DEF VisibleSessions
<1>. QED  BY <1>1, MatchingInvariant, PTL

=============================================================================
