---------------------------- MODULE Fleet_proofs ----------------------------
(***************************************************************************)
(* Proofs about Fleet, for every set of trucks, trips, drivers, managers   *)
(* and workers.                                                            *)
(***************************************************************************)
EXTENDS Fleet, TLAPS

-----------------------------------------------------------------------------
(* Type correctness, for any number of workers.  TypeOK is not inductive:  *)
(* what a task names must be there when the step that uses it comes.       *)

Exists(t) == trip[t] # NoTrip

Moving == {"moveTrip", "moveBlocking", "complete", "sync", "synced"}

Stage(j) ==
    /\ j.pc \in {"findPrevious", "detach", "write", "announce", "findTrips",
                 "leaders", "releaseOthers", "take"} \cup Moving
         => j.truck \in Trucks
    /\ j.pc \in {"findPrevious", "detach", "release", "releaseOthers", "take",
                 "announceCard"} \cup Moving => j.driver \in Drivers
    /\ j.pc \in {"findTrips", "leaders"} \cup Moving => j.manager \in Managers
    /\ j.pc = "detach" => j.prev \in Trucks
    /\ j.pc \in Moving => j.trip \in Trips /\ j.source \in Trucks
    /\ j.pc \in Moving /\ j.mode # "plain" => j.block \in Trips
    /\ j.pc \in Moving /\ j.mode = "SWAP" =>
         j.sourceDriver \in Drivers /\ j.blockManager \in Managers
    /\ j.pc = "moveBlocking" => j.mode = "SWAP"
    /\ j.pc = "complete" => j.mode = "COMPLETE_OTHER"

\* The trips a task names have a row.
Rows(j) ==
    /\ \A t \in j.trips : Exists(t)
    /\ j.trip # None => Exists(j.trip)
    /\ j.block # None => Exists(j.block)

TaskInv ==
    /\ task \in [Workers -> Tasks]
    /\ \A w \in Workers : Stage(task[w]) /\ Rows(task[w])

TypeInv == TypeOK /\ TaskInv

RowsKept == \A t \in Trips : Exists(t) => Exists(t)'

\* The type of a task spelled out.
LEMMA TaskOf ==
    ASSUME TypeInv, NEW w \in Workers
    PROVE  task[w] \in Tasks /\ Stage(task[w]) /\ Rows(task[w])
  BY DEF TypeInv, TaskInv

\* A task that is set is well formed; the others stay so.
LEMMA TaskStep ==
    ASSUME TypeInv, RowsKept, NEW w \in Workers, NEW j \in Tasks, Stage(j),
           Rows(j), task' = [task EXCEPT ![w] = j]
    PROVE  TaskInv'
<1>1. task' \in [Workers -> Tasks]
  BY DEF TypeInv, TaskInv
<1>2. ASSUME NEW v \in Workers PROVE Stage(task[v])' /\ Rows(task[v])'
  <2>1. PICK k \in Tasks : task'[v] = k /\ Stage(k) /\ Rows(k)
    BY TaskOf DEF TypeInv, TaskInv
  <2>2. /\ k.trips \subseteq Trips /\ k.trip \in Trips \cup {None}
        /\ k.block \in Trips \cup {None}
    BY DEF Tasks
  <2>3. Stage(task[v])'
    BY <2>1 DEF Stage, Moving
  <2>4. Rows(task[v])'
    BY <2>1, <2>2 DEF Rows, RowsKept
  <2>. QED  BY <2>3, <2>4
<1>. QED  BY <1>1, <1>2 DEF TaskInv

\* Tasks with other fields are tasks.
LEMMA SetPc ==
    ASSUME NEW j \in Tasks, NEW pc \in Steps
    PROVE  [j EXCEPT !.pc = pc] \in Tasks
  BY DEF Tasks

LEMMA SetPrev ==
    ASSUME NEW j \in Tasks, NEW k \in Trucks \cup {None}
    PROVE  [j EXCEPT !.prev = k] \in Tasks
  BY DEF Tasks

LEMMA SetTrips ==
    ASSUME NEW j \in Tasks, NEW S \in SUBSET Trips
    PROVE  [j EXCEPT !.trips = S] \in Tasks
  BY DEF Tasks

LEMMA IdleTask == Idle \in Tasks /\ Stage(Idle) /\ Rows(Idle)
<1>1. Idle \in Tasks
  BY DEF Idle, Tasks, Steps
<1>2. Stage(Idle) /\ Rows(Idle)
  BY DEF Idle, Stage, Rows, Moving
<1>. QED  BY <1>1, <1>2

LEMMA ReturnStep ==
    ASSUME TypeInv, RowsKept, NEW w \in Workers, Return(w)
    PROVE  TaskInv'
  BY IdleTask, TaskStep DEF Return

\* A task that goes on to another step keeps all else.
LEMMA GotoStep ==
    ASSUME TypeInv, RowsKept, NEW w \in Workers, NEW pc \in Steps, Goto(w, pc),
           Stage([task[w] EXCEPT !.pc = pc])
    PROVE  TaskInv'
<1>. DEFINE j == [task[w] EXCEPT !.pc = pc]
<1>1. task[w] \in Tasks /\ Rows(task[w])
  BY TaskOf
<1>2. j \in Tasks
  BY <1>1 DEF Tasks
<1>3. j.trips = task[w].trips /\ j.trip = task[w].trip /\ j.block = task[w].block
  BY <1>1 DEF Tasks
<1>4. Rows(j)
  BY <1>1, <1>3 DEF Rows
<1>5. task' = [task EXCEPT ![w] = j]
  BY DEF Goto
<1>. QED  BY <1>2, <1>4, <1>5, TaskStep

LEMMA InitTypeInv == Init => TypeInv
<1>. SUFFICES ASSUME Init PROVE TypeInv
  OBVIOUS
<1>1. TypeOK
  BY IdleTask DEF Init, TypeOK, TruckRows, TripRows
<1>2. TaskInv
  BY IdleTask DEF Init, TaskInv
<1>. QED  BY <1>1, <1>2 DEF TypeInv

-----------------------------------------------------------------------------
(* One lemma per action.                                                   *)

\* A step that leaves the trips alone keeps their rows.
LEMMA SameRows == ASSUME UNCHANGED trip PROVE RowsKept
  BY DEF RowsKept, Exists

LEMMA UpdateTruckType ==
    ASSUME TypeInv, NEW w \in Workers, NEW k \in Trucks,
           NEW d \in Drivers \cup {None, Keep}, NEW m \in Managers \cup {None, Keep},
           UpdateTruck(w, k, d, m)
    PROVE  TypeInv'
<1>1. /\ truck[k].driver \in Drivers \cup {None}
      /\ truck[k].manager \in Managers \cup {None}
  BY DEF TypeInv, TypeOK, TruckRows
<1>. DEFINE pc == IF d \in Drivers /\ d # truck[k].driver THEN "findPrevious" ELSE "write"
            j == [Idle EXCEPT !.pc = pc,
                              !.truck = k, !.driver = d, !.manager = m,
                              !.oldDriver = truck[k].driver,
                              !.oldManager = truck[k].manager]
<1>2. j \in Tasks
  <2>1. pc \in Steps
    BY DEF Steps
  <2>. HIDE DEF pc
  <2>. QED  BY <1>1, <2>1 DEF Tasks, Idle
<1>3. Stage(j) /\ Rows(j)
  BY DEF Stage, Rows, Idle, Moving
<1>4. TaskInv'
  BY <1>2, <1>3, SameRows, TaskStep DEF UpdateTruck
<1>. QED  BY <1>4 DEF UpdateTruck, TypeInv, TypeOK, TaskInv

LEMMA FindPreviousType ==
    ASSUME TypeInv, NEW w \in Workers, FindPrevious(w)
    PROVE  TypeInv'
<1>1. task[w] \in Tasks /\ Stage(task[w]) /\ Rows(task[w]) /\ task[w].pc = "findPrevious"
  BY TaskOf DEF FindPrevious
<1>2. PICK p \in FirstOf(TrucksOf(task[w].driver) \ {task[w].truck}) :
         task' = [task EXCEPT ![w].pc = IF p = None THEN "write" ELSE "detach",
                              ![w].prev = p]
  BY DEF FindPrevious
<1>3. p \in Trucks \cup {None}
  BY DEF FirstOf, TrucksOf
<1>. DEFINE pc == IF p = None THEN "write" ELSE "detach"
            j == [task[w] EXCEPT !.pc = pc, !.prev = p]
<1>4. j \in Tasks
  <2>1. pc \in Steps
    BY DEF Steps
  <2>. HIDE DEF pc
  <2>. QED  BY <1>1, <1>3, <2>1, SetPc, SetPrev
<1>5. Stage(j)
  BY <1>1, <1>3 DEF Stage, Moving, Tasks
<1>6. Rows(j)
  BY <1>1 DEF Rows, Tasks
<1>7. task' = [task EXCEPT ![w] = j]
  BY <1>2
<1>8. TaskInv'
  BY <1>4, <1>5, <1>6, <1>7, SameRows, TaskStep DEF FindPrevious
<1>. QED  BY <1>8 DEF FindPrevious, TypeInv, TypeOK, TaskInv

LEMMA DetachType ==
    ASSUME TypeInv, NEW w \in Workers, Detach(w)
    PROVE  TypeInv'
<1>1. task[w] \in Tasks /\ Stage(task[w]) /\ task[w].pc = "detach"
  BY TaskOf DEF Detach
<1>2. Stage([task[w] EXCEPT !.pc = "write"])
  BY <1>1 DEF Stage, Moving, Tasks
<1>3. TaskInv'
  BY <1>2, SameRows, GotoStep DEF Detach, Steps
<1>4. truck' \in [Trucks -> TruckRows]
  BY <1>1 DEF Detach, TypeInv, TypeOK, TruckRows
<1>. QED  BY <1>3, <1>4 DEF Detach, TypeInv, TypeOK, TaskInv

LEMMA BreakOffType ==
    ASSUME TypeInv, NEW w \in Workers, BreakOff(w), UNCHANGED <<truck, trip, gone>>
    PROVE  TypeInv'
<1>1. TaskInv'
  BY SameRows, ReturnStep DEF BreakOff
<1>2. told' \in [Drivers -> Trucks \cup {None, Unsaid}]
  BY DEF BreakOff, TypeInv, TypeOK
<1>. QED  BY <1>1, <1>2 DEF TypeInv, TypeOK, TaskInv

LEMMA WriteTruckType ==
    ASSUME TypeInv, NEW w \in Workers, WriteTruck(w)
    PROVE  TypeInv'
<1>1. task[w] \in Tasks /\ Stage(task[w]) /\ task[w].pc = "write"
  BY TaskOf DEF WriteTruck
<1>2. CASE Rejected(task[w].truck, task[w].driver)
  BY <1>2, BreakOffType DEF WriteTruck
<1>3. CASE ~Rejected(task[w].truck, task[w].driver)
  <2>1. Stage([task[w] EXCEPT !.pc = "announce"])
    BY <1>1 DEF Stage, Moving, Tasks
  <2>2. TaskInv'
    BY <1>3, <2>1, SameRows, GotoStep DEF WriteTruck, Steps
  <2>3. task[w].truck \in Trucks /\ truck[task[w].truck] \in TruckRows
    BY <1>1 DEF Stage, TypeInv, TypeOK
  <2>4. truck' \in [Trucks -> TruckRows]
    BY <1>1, <1>3, <2>3 DEF WriteTruck, TypeInv, TypeOK, TruckRows, Tasks
  <2>. QED  BY <1>3, <2>2, <2>4 DEF WriteTruck, TypeInv, TypeOK, TaskInv
<1>. QED  BY <1>2, <1>3

LEMMA AnnounceType ==
    ASSUME TypeInv, NEW w \in Workers, Announce(w)
    PROVE  TypeInv'
<1>1. task[w] \in Tasks /\ Stage(task[w]) /\ task[w].pc = "announce"
  BY TaskOf DEF Announce
<1>2. TaskInv'
  <2>1. CASE task[w].manager \notin {Keep, None, task[w].oldManager}
    <3>1. Stage([task[w] EXCEPT !.pc = "findTrips"])
      BY <1>1, <2>1 DEF Stage, Moving, Tasks
    <3>. QED  BY <2>1, <3>1, SameRows, GotoStep DEF Announce, Steps
  <2>2. CASE task[w].manager \in {Keep, None, task[w].oldManager}
    BY <2>2, SameRows, ReturnStep DEF Announce
  <2>. QED  BY <2>1, <2>2
<1>3. told' \in [Drivers -> Trucks \cup {None, Unsaid}]
  BY <1>1 DEF Announce, TypeInv, TypeOK, Tasks
<1>. QED  BY <1>2, <1>3 DEF Announce, TypeInv, TypeOK, TaskInv

LEMMA FindTripsType ==
    ASSUME TypeInv, NEW w \in Workers, FindTrips(w)
    PROVE  TypeInv'
<1>1. task[w] \in Tasks /\ Stage(task[w]) /\ Rows(task[w]) /\ task[w].pc = "findTrips"
  BY TaskOf DEF FindTrips
<1>. DEFINE others == {t \in OpenOn(task[w].truck) : trip[t].manager # task[w].manager}
            j == [task[w] EXCEPT !.pc = "leaders", !.trips = others]
<1>2. others \subseteq Trips /\ \A t \in others : Exists(t)
  BY DEF OpenOn, Open, Exists, NoTrip
<1>3. j \in Tasks
  <2>1. "leaders" \in Steps
    BY DEF Steps
  <2>. HIDE DEF others
  <2>. QED  BY <1>1, <1>2, <2>1, SetPc, SetTrips
<1>4. Stage(j)
  BY <1>1 DEF Stage, Moving, Tasks
<1>5. Rows(j)
  BY <1>1, <1>2 DEF Rows, Tasks
<1>6. task' = [task EXCEPT ![w] = j]
  BY DEF FindTrips
<1>7. TaskInv'
  BY <1>3, <1>4, <1>5, <1>6, SameRows, TaskStep DEF FindTrips
<1>. QED  BY <1>7 DEF FindTrips, TypeInv, TypeOK, TaskInv

\* A row that is there is complete.
LEMMA RowFields ==
    ASSUME TypeInv, NEW t \in Trips, Exists(t)
    PROVE  trip[t] \in [truck : Trucks, driver : Drivers, manager : Managers,
                        state : {"open", "closed", "deleted"}]
  BY DEF TypeInv, TypeOK, TripRows, Exists

\* A complete row in the place of another one is one.
LEMMA WriteRow ==
    ASSUME TypeInv, NEW t \in Trips,
           NEW row \in [truck : Trucks, driver : Drivers, manager : Managers,
                        state : {"open", "closed", "deleted"}],
           trip' = [trip EXCEPT ![t] = row]
    PROVE  trip' \in [Trips -> TripRows] /\ RowsKept
<1>1. trip' \in [Trips -> TripRows]
  BY DEF TypeInv, TypeOK, TripRows
<1>2. row # NoTrip
  BY DEF NoTrip
<1>. QED  BY <1>1, <1>2 DEF RowsKept, Exists, TypeInv, TypeOK

LEMMA ChangeLeaderType ==
    ASSUME TypeInv, NEW w \in Workers, ChangeLeader(w)
    PROVE  TypeInv'
<1>1. task[w] \in Tasks /\ Stage(task[w]) /\ Rows(task[w]) /\ task[w].pc = "leaders"
  BY TaskOf DEF ChangeLeader
<1>2. PICK t \in task[w].trips :
         /\ trip' = [trip EXCEPT ![t].manager = task[w].manager]
         /\ task' = [task EXCEPT ![w].trips = task[w].trips \ {t}]
  BY DEF ChangeLeader
<1>3. t \in Trips /\ Exists(t) /\ task[w].manager \in Managers
  BY <1>1 DEF Tasks, Rows, Stage
<1>. DEFINE row == [trip[t] EXCEPT !.manager = task[w].manager]
            j == [task[w] EXCEPT !.trips = task[w].trips \ {t}]
<1>4. row \in [truck : Trucks, driver : Drivers, manager : Managers,
               state : {"open", "closed", "deleted"}]
  BY <1>3, RowFields
<1>5. trip' \in [Trips -> TripRows] /\ RowsKept
  BY <1>2, <1>3, <1>4, WriteRow
<1>6. j \in Tasks
  BY <1>1 DEF Tasks
<1>7. Stage(j)
  BY <1>1 DEF Stage, Tasks, Moving
<1>8. Rows(j)
  BY <1>1 DEF Rows, Tasks
<1>9. TaskInv'
  BY <1>2, <1>5, <1>6, <1>7, <1>8, TaskStep
<1>. QED  BY <1>5, <1>9 DEF ChangeLeader, TypeInv, TypeOK, TaskInv

LEMMA UpdateDriverType ==
    ASSUME TypeInv, NEW w \in Workers, NEW d \in Drivers,
           NEW k \in Trucks \cup {None}, UpdateDriver(w, d, k)
    PROVE  TypeInv'
<1>1. PICK p \in FirstOf(TrucksOf(d)) : task' = [task EXCEPT ![w] =
           [Idle EXCEPT !.pc = "release", !.truck = k, !.driver = d, !.prev = p]]
  BY DEF UpdateDriver
<1>2. p \in Trucks \cup {None}
  BY DEF FirstOf, TrucksOf
<1>. DEFINE j == [Idle EXCEPT !.pc = "release", !.truck = k, !.driver = d, !.prev = p]
<1>3. j \in Tasks
  BY <1>2 DEF Tasks, Steps, Idle
<1>4. Stage(j) /\ Rows(j)
  BY DEF Stage, Rows, Idle, Moving
<1>5. TaskInv'
  BY <1>1, <1>3, <1>4, SameRows, TaskStep DEF UpdateDriver
<1>. QED  BY <1>5 DEF UpdateDriver, TypeInv, TypeOK, TaskInv

LEMMA ReleaseType ==
    ASSUME TypeInv, NEW w \in Workers, Release(w)
    PROVE  TypeInv'
<1>1. /\ task[w] \in Tasks /\ Stage(task[w])
      /\ task[w].pc \in {"release", "releaseOthers"}
  BY TaskOf DEF Release
<1>2. TaskInv'
  <2>. DEFINE pc == IF task[w].pc = "releaseOthers" THEN "take"
                    ELSE IF task[w].truck = None THEN "announceCard"
                    ELSE "releaseOthers"
  <2>1. pc \in Steps /\ Goto(w, pc)
    BY DEF Release, Steps
  <2>2. Stage([task[w] EXCEPT !.pc = pc])
    BY <1>1 DEF Stage, Moving, Tasks
  <2>. QED  BY <2>1, <2>2, SameRows, GotoStep DEF Release
<1>3. truck' \in [Trucks -> TruckRows]
  BY DEF Release, TypeInv, TypeOK, TruckRows
<1>. QED  BY <1>2, <1>3 DEF Release, TypeInv, TypeOK, TaskInv

LEMMA TakeType ==
    ASSUME TypeInv, NEW w \in Workers, Take(w)
    PROVE  TypeInv'
<1>1. task[w] \in Tasks /\ Stage(task[w]) /\ task[w].pc = "take"
  BY TaskOf DEF Take
<1>2. CASE Rejected(task[w].truck, task[w].driver)
  BY <1>2, BreakOffType DEF Take
<1>3. CASE ~Rejected(task[w].truck, task[w].driver)
  <2>1. Stage([task[w] EXCEPT !.pc = "announceCard"])
    BY <1>1 DEF Stage, Moving, Tasks
  <2>2. TaskInv'
    BY <1>3, <2>1, SameRows, GotoStep DEF Take, Steps
  <2>3. truck' \in [Trucks -> TruckRows]
    BY <1>1, <1>3 DEF Take, Stage, TypeInv, TypeOK, TruckRows
  <2>. QED  BY <1>3, <2>2, <2>3 DEF Take, TypeInv, TypeOK, TaskInv
<1>. QED  BY <1>2, <1>3

LEMMA AnnounceCardType ==
    ASSUME TypeInv, NEW w \in Workers, AnnounceCard(w)
    PROVE  TypeInv'
<1>1. task[w] \in Tasks /\ Stage(task[w]) /\ task[w].pc = "announceCard"
  BY TaskOf DEF AnnounceCard
<1>2. TaskInv'
  BY SameRows, ReturnStep DEF AnnounceCard
<1>3. told' \in [Drivers -> Trucks \cup {None, Unsaid}]
  BY <1>1 DEF AnnounceCard, Stage, TypeInv, TypeOK, Tasks
<1>. QED  BY <1>2, <1>3 DEF AnnounceCard, TypeInv, TypeOK, TaskInv

LEMMA LeaveType ==
    ASSUME TypeInv, NEW w \in Workers, NEW d \in Drivers, Leave(w, d)
    PROVE  TypeInv'
<1>1. truck' \in [Trucks -> TruckRows]
  BY DEF Leave, TypeInv, TypeOK, TruckRows
<1>2. told' \in [Drivers -> Trucks \cup {None, Unsaid}]
  BY DEF Leave, TypeInv, TypeOK
<1>3. TaskInv'
  BY DEF Leave, TypeInv, TaskInv, Rows, Exists
<1>. QED  BY <1>1, <1>2, <1>3 DEF Leave, TypeInv, TypeOK

LEMMA AssignTruckType ==
    ASSUME TypeInv, NEW w \in Workers, NEW t \in Trips, NEW k \in Trucks,
           NEW b \in Trips \cup {None},
           NEW mode \in {"plain", "SWAP", "COMPLETE_OTHER"},
           AssignTruck(w, t, k, b, mode)
    PROVE  TypeInv'
<1>1. Exists(t) /\ trip[t].truck \in Trucks /\ trip[t].manager \in Managers
  <2>1. Exists(t)
    BY DEF AssignTruck, Live, Exists, NoTrip
  <2>. QED  BY <2>1, RowFields
<1>2. b # None => b \in Trips /\ Exists(b) /\ trip[b].manager \in Managers
  <2>. SUFFICES ASSUME b # None
                PROVE  b \in Trips /\ Exists(b) /\ trip[b].manager \in Managers
    OBVIOUS
  <2>1. b \in Trips /\ Exists(b)
    BY DEF AssignTruck, FirstOf, OpenOn, Open, Exists, NoTrip
  <2>. QED  BY <2>1, RowFields
<1>. DEFINE source == trip[t].truck
            lead == IF b = None THEN None ELSE trip[b].manager
            j == [Idle EXCEPT !.pc = "moveTrip", !.trip = t, !.truck = k,
                      !.driver = truck[k].driver, !.manager = trip[t].manager,
                      !.oldManager = truck[k].manager,
                      !.mode = mode, !.block = b, !.blockManager = lead,
                      !.source = source, !.sourceDriver = truck[source].driver]
<1>3. /\ truck[k].driver \in Drivers
      /\ truck[k].manager \in Managers \cup {None}
      /\ truck[source].driver \in Drivers \cup {None}
      /\ mode = "SWAP" => truck[source].driver \in Drivers
      /\ mode # "plain" => b # None
      /\ lead \in Managers \cup {None} /\ (b # None => lead \in Managers)
  BY <1>1, <1>2 DEF AssignTruck, Crewed, TypeInv, TypeOK, TruckRows
<1>. HIDE DEF lead
<1>4. j \in Tasks
  BY <1>1, <1>3, ZenonT(60) DEF Tasks, Steps, Idle
<1>5. Stage(j)
  BY <1>1, <1>2, <1>3 DEF Stage, Moving, Idle
<1>6. Rows(j)
  BY <1>1, <1>2 DEF Rows, Idle
<1>7. task' = [task EXCEPT ![w] = j]
  BY DEF AssignTruck, lead
<1>8. TaskInv'
  BY <1>4, <1>5, <1>6, <1>7, SameRows, TaskStep DEF AssignTruck
<1>. QED  BY <1>8 DEF AssignTruck, TypeInv, TypeOK, TaskInv

\* The row a moved trip gets is complete.
LEMMA MovedRow ==
    ASSUME TypeInv, NEW t \in Trips, Exists(t), NEW k \in Trucks, NEW d \in Drivers
    PROVE  Moved(t, k, d) \in [truck : Trucks, driver : Drivers, manager : Managers,
                               state : {"open", "closed", "deleted"}]
  BY RowFields DEF Moved

LEMMA MoveTripType ==
    ASSUME TypeInv, NEW w \in Workers, MoveTrip(w)
    PROVE  TypeInv'
<1>1. /\ task[w] \in Tasks /\ Stage(task[w]) /\ Rows(task[w])
      /\ task[w].pc = "moveTrip"
  BY TaskOf DEF MoveTrip
<1>2. /\ task[w].trip \in Trips /\ Exists(task[w].trip)
      /\ task[w].truck \in Trucks /\ task[w].driver \in Drivers
  BY <1>1, NoIds DEF Stage, Moving, Rows
<1>3. trip' \in [Trips -> TripRows] /\ RowsKept
  BY <1>2, MovedRow, WriteRow DEF MoveTrip
<1>4. TaskInv'
  <2>1. CASE task[w].mode = "SWAP"
    <3>1. Stage([task[w] EXCEPT !.pc = "moveBlocking"])
      BY <1>1, <2>1 DEF Stage, Moving, Tasks
    <3>. QED  BY <1>3, <2>1, <3>1, GotoStep DEF MoveTrip, Steps
  <2>2. CASE task[w].mode = "COMPLETE_OTHER"
    <3>1. Stage([task[w] EXCEPT !.pc = "complete"])
      BY <1>1, <2>2 DEF Stage, Moving, Tasks
    <3>. QED  BY <1>3, <2>2, <3>1, GotoStep DEF MoveTrip, Steps
  <2>3. CASE task[w].mode \notin {"SWAP", "COMPLETE_OTHER"}
    <3>1. Stage([task[w] EXCEPT !.pc = "sync"])
      BY <1>1, <2>3 DEF Stage, Moving, Tasks
    <3>. QED  BY <1>3, <2>3, <3>1, GotoStep DEF MoveTrip, Steps
  <2>. QED  BY <2>1, <2>2, <2>3
<1>. QED  BY <1>3, <1>4 DEF MoveTrip, TypeInv, TypeOK, TaskInv

LEMMA MoveBlockingType ==
    ASSUME TypeInv, NEW w \in Workers, MoveBlocking(w)
    PROVE  TypeInv'
<1>1. /\ task[w] \in Tasks /\ Stage(task[w]) /\ Rows(task[w])
      /\ task[w].pc = "moveBlocking"
  BY TaskOf DEF MoveBlocking
<1>2. /\ task[w].block \in Trips /\ Exists(task[w].block)
      /\ task[w].source \in Trucks /\ task[w].sourceDriver \in Drivers
  BY <1>1, NoIds DEF Stage, Moving, Rows
<1>3. trip' \in [Trips -> TripRows] /\ RowsKept
  BY <1>2, MovedRow, WriteRow DEF MoveBlocking
<1>4. Stage([task[w] EXCEPT !.pc = "sync"])
  BY <1>1 DEF Stage, Moving, Tasks
<1>5. TaskInv'
  BY <1>3, <1>4, GotoStep DEF MoveBlocking, Steps
<1>. QED  BY <1>3, <1>5 DEF MoveBlocking, TypeInv, TypeOK, TaskInv

LEMMA CompleteOtherType ==
    ASSUME TypeInv, NEW w \in Workers, CompleteOther(w)
    PROVE  TypeInv'
<1>1. /\ task[w] \in Tasks /\ Stage(task[w]) /\ Rows(task[w])
      /\ task[w].pc = "complete"
  BY TaskOf DEF CompleteOther
<1>2. task[w].block \in Trips /\ Exists(task[w].block)
  BY <1>1, NoIds DEF Stage, Moving, Rows
<1>. DEFINE b == task[w].block
            row == [trip[b] EXCEPT !.state = IF @ = "deleted" THEN @ ELSE "closed"]
<1>3. row \in [truck : Trucks, driver : Drivers, manager : Managers,
               state : {"open", "closed", "deleted"}]
  BY <1>2, RowFields
<1>4. trip' = [trip EXCEPT ![b] = row]
  BY DEF CompleteOther
<1>5. trip' \in [Trips -> TripRows] /\ RowsKept
  BY <1>2, <1>3, <1>4, WriteRow
<1>6. Stage([task[w] EXCEPT !.pc = "sync"])
  BY <1>1 DEF Stage, Moving, Tasks
<1>7. TaskInv'
  BY <1>5, <1>6, GotoStep DEF CompleteOther, Steps
<1>. QED  BY <1>5, <1>7 DEF CompleteOther, TypeInv, TypeOK, TaskInv

LEMMA SyncOwnersType ==
    ASSUME TypeInv, NEW w \in Workers, SyncOwners(w)
    PROVE  TypeInv'
<1>1. task[w] \in Tasks /\ Stage(task[w]) /\ task[w].pc = "sync"
  BY TaskOf DEF SyncOwners
<1>2. /\ task[w].manager \in Managers
      /\ SourceOwner(task[w]) \in Managers \cup {None}
  BY <1>1 DEF Stage, Moving, Tasks, SourceOwner
<1>3. truck' \in [Trucks -> TruckRows]
  BY <1>2 DEF SyncOwners, TypeInv, TypeOK, TruckRows
<1>4. Stage([task[w] EXCEPT !.pc = "synced"])
  BY <1>1 DEF Stage, Moving, Tasks
<1>5. TaskInv'
  BY <1>4, SameRows, GotoStep DEF SyncOwners, Steps
<1>. QED  BY <1>3, <1>5 DEF SyncOwners, TypeInv, TypeOK, TaskInv

LEMMA FinishType ==
    ASSUME TypeInv, NEW w \in Workers, Finish(w)
    PROVE  TypeInv'
<1>1. TaskInv'
  BY SameRows, ReturnStep DEF Finish
<1>. QED  BY <1>1 DEF Finish, TypeInv, TypeOK, TaskInv

LEMMA DieType ==
    ASSUME TypeInv, NEW w \in Workers, Die(w)
    PROVE  TypeInv'
  BY BreakOffType DEF Die

\* A step that writes one complete row and leaves the tasks alone.
LEMMA RowStep ==
    ASSUME TypeInv, NEW t \in Trips,
           NEW row \in [truck : Trucks, driver : Drivers, manager : Managers,
                        state : {"open", "closed", "deleted"}],
           trip' = [trip EXCEPT ![t] = row],
           UNCHANGED <<truck, gone, told, task>>
    PROVE  TypeInv'
<1>1. trip' \in [Trips -> TripRows] /\ RowsKept
  BY WriteRow
<1>2. TaskInv'
  <2>1. task' \in [Workers -> Tasks]
    BY DEF TypeInv, TaskInv
  <2>2. ASSUME NEW v \in Workers PROVE Stage(task[v])' /\ Rows(task[v])'
    <3>1. PICK k \in Tasks : task'[v] = k /\ Stage(k) /\ Rows(k)
      BY TaskOf
    <3>2. /\ k.trips \subseteq Trips /\ k.trip \in Trips \cup {None}
          /\ k.block \in Trips \cup {None}
      BY DEF Tasks
    <3>3. Stage(task[v])'
      BY <3>1 DEF Stage, Moving
    <3>4. Rows(task[v])'
      BY <1>1, <3>1, <3>2 DEF Rows, RowsKept
    <3>. QED  BY <3>3, <3>4
  <2>. QED  BY <2>1, <2>2 DEF TaskInv
<1>. QED  BY <1>1, <1>2 DEF TypeInv, TypeOK

LEMMA RowHandlersType ==
    ASSUME TypeInv, NEW t \in Trips,
           \/ \E w \in Workers, k \in Trucks, d \in Drivers, m \in Managers :
                Create(w, t, k, d, m)
           \/ \E w \in Workers, d \in Drivers : AssignDriver(w, t, d)
           \/ \E w \in Workers, m \in Managers : AssignManager(w, t, m)
           \/ \E w \in Workers : Reopen(w, t)
           \/ \E state \in {"closed", "deleted"} : Close(t, state)
    PROVE  TypeInv'
<1>. DEFINE Complete == [truck : Trucks, driver : Drivers, manager : Managers,
                         state : {"open", "closed", "deleted"}]
<1>1. CASE \E w \in Workers, k \in Trucks, d \in Drivers, m \in Managers :
             Create(w, t, k, d, m)
  <2>1. PICK w \in Workers, k \in Trucks, d \in Drivers, m \in Managers :
          Create(w, t, k, d, m)
    BY <1>1
  <2>. DEFINE row == [truck |-> k, driver |-> d, manager |-> m, state |-> "open"]
  <2>2. row \in Complete /\ trip' = [trip EXCEPT ![t] = row]
    BY <2>1 DEF Create
  <2>. QED  BY <2>1, <2>2, RowStep DEF Create
<1>2. CASE \E w \in Workers, d \in Drivers : AssignDriver(w, t, d)
  <2>1. PICK w \in Workers, d \in Drivers : AssignDriver(w, t, d)
    BY <1>2
  <2>. DEFINE row == [trip[t] EXCEPT !.driver = d]
  <2>2. Exists(t)
    BY <2>1 DEF AssignDriver, Live, Exists, NoTrip
  <2>3. row \in Complete /\ trip' = [trip EXCEPT ![t] = row]
    BY <2>1, <2>2, RowFields DEF AssignDriver
  <2>. QED  BY <2>1, <2>3, RowStep DEF AssignDriver
<1>3. CASE \E w \in Workers, m \in Managers : AssignManager(w, t, m)
  <2>1. PICK w \in Workers, m \in Managers : AssignManager(w, t, m)
    BY <1>3
  <2>. DEFINE row == [trip[t] EXCEPT !.manager = m]
  <2>2. Exists(t)
    BY <2>1 DEF AssignManager, Live, Exists, NoTrip
  <2>3. row \in Complete /\ trip' = [trip EXCEPT ![t] = row]
    BY <2>1, <2>2, RowFields DEF AssignManager
  <2>. QED  BY <2>1, <2>3, RowStep DEF AssignManager
<1>4. CASE \E w \in Workers : Reopen(w, t)
  <2>. DEFINE row == [trip[t] EXCEPT !.state = "open"]
  <2>1. Exists(t)
    BY <1>4 DEF Reopen, Exists, NoTrip
  <2>2. row \in Complete /\ trip' = [trip EXCEPT ![t] = row]
    BY <1>4, <2>1, RowFields DEF Reopen
  <2>. QED  BY <1>4, <2>2, RowStep DEF Reopen
<1>5. CASE \E state \in {"closed", "deleted"} : Close(t, state)
  <2>1. PICK state \in {"closed", "deleted"} : Close(t, state)
    BY <1>5
  <2>. DEFINE row == [trip[t] EXCEPT !.state = state]
  <2>2. Exists(t)
    BY <2>1 DEF Close, Live, Exists, NoTrip
  <2>3. row \in Complete /\ trip' = [trip EXCEPT ![t] = row]
    BY <2>1, <2>2, RowFields DEF Close
  <2>. QED  BY <2>1, <2>3, RowStep DEF Close
<1>. QED  BY <1>1, <1>2, <1>3, <1>4, <1>5

LEMMA NextTypeInv == TypeInv /\ [Next]_vars => TypeInv'
<1>. SUFFICES ASSUME TypeInv, [Next]_vars PROVE TypeInv'
  OBVIOUS
<1>1. CASE UNCHANGED vars
  BY <1>1 DEF vars, TypeInv, TypeOK, TaskInv, Rows, Exists
<1>2. ASSUME NEW w \in Workers, TruckRequest(w) PROVE TypeInv'
  BY <1>2, UpdateTruckType, FindPreviousType, DetachType, WriteTruckType,
     AnnounceType, FindTripsType, ChangeLeaderType, UpdateDriverType, ReleaseType,
     TakeType, AnnounceCardType, LeaveType DEF TruckRequest
<1>3. ASSUME NEW w \in Workers, TripRequest(w) PROVE TypeInv'
  BY <1>3, AssignTruckType, MoveTripType, MoveBlockingType, CompleteOtherType,
     SyncOwnersType, RowHandlersType DEF TripRequest
<1>4. ASSUME NEW w \in Workers, Finish(w) \/ Die(w) PROVE TypeInv'
  BY <1>4, FinishType, DieType
<1>5. ASSUME NEW t \in Trips, NEW state \in {"closed", "deleted"}, Close(t, state)
      PROVE  TypeInv'
  BY <1>5, RowHandlersType
<1>. QED  BY <1>1, <1>2, <1>3, <1>4, <1>5 DEF Next

\* Trucks, trips and tasks are well formed, however many requests interleave
\* and break off.
THEOREM TypeCorrect == Spec => []TypeOK
<1>1. Spec => []TypeInv
  BY InitTypeInv, NextTypeInv, PTL DEF Spec
<1>2. TypeInv => TypeOK
  BY DEF TypeInv
<1>. QED  BY <1>1, <1>2, PTL

-----------------------------------------------------------------------------
(* One holder per truck and none who has left, however many requests       *)
(* overlap, on the same trucks too, as long as they are about different    *)
(* drivers.  With two requests for the same driver, one may give them      *)
(* another truck between FindPrevious and WriteTruck of the other.         *)

Giving == {"findPrevious", "detach", "write", "release", "releaseOthers", "take"}

\* The worker is to give d a truck, or to take theirs away.
Gives(w, d) == task[w].pc \in Giving /\ task[w].driver = d

\* No two requests give trucks to the same driver at the same time.
GivesApart ==
    \A v, w \in Workers : \A d \in Drivers : Gives(v, d) /\ Gives(w, d) => v = w

\* No driver leaves between the check of a request that gives them a truck and
\* its last write.
NoneLeavesMidway == \A w \in Workers : \A d \in gone : ~Gives(w, d)

UniqueHolder ==
    \A k, l \in Trucks :
        truck[k].driver \in Drivers /\ truck[k].driver = truck[l].driver => k = l

\* What is left to take from the driver, given what the request has read.
Ready(w) ==
    LET j == task[w] IN
    /\ j.pc = "detach" => TrucksOf(j.driver) \ {j.truck} \subseteq {j.prev}
    /\ j.pc \in {"write", "take"} => ~Rejected(j.truck, j.driver)
    /\ j.pc = "releaseOthers" => TrucksOf(j.driver) = {}

\* The other steps give no truck to anybody.
NotGiving(w) ==
    \/ Announce(w) \/ FindTrips(w) \/ ChangeLeader(w) \/ AnnounceCard(w)
    \/ \E t \in Trips, k \in Trucks, b \in Trips \cup {None},
          mode \in {"plain", "SWAP", "COMPLETE_OTHER"} : AssignTruck(w, t, k, b, mode)
    \/ MoveTrip(w) \/ MoveBlocking(w) \/ CompleteOther(w) \/ SyncOwners(w)
    \/ Finish(w) \/ Die(w)

LEMMA NotGivingSteps ==
    ASSUME TypeInv, NEW w \in Workers, NotGiving(w)
    PROVE  /\ \A k \in Trucks : truck'[k].driver = truck[k].driver
           /\ UNCHANGED gone
           /\ task'[w].pc \notin Giving
<1>. DEFINE Goal == /\ \A k \in Trucks : truck'[k].driver = truck[k].driver
                    /\ UNCHANGED gone
                    /\ task'[w].pc \notin Giving
<1>1. task[w] \in Tasks /\ Idle.pc = "idle"
  BY TaskOf DEF Idle
<1>2. ASSUME Return(w) PROVE task'[w].pc \notin Giving
  BY <1>1, <1>2 DEF Return, Giving, TypeInv, TaskInv
<1>3. ASSUME NEW pc, Goto(w, pc) PROVE task'[w].pc = pc
  BY <1>1, <1>3 DEF Goto, TypeInv, TaskInv, Tasks
<1>4. CASE Announce(w)
  BY <1>2, <1>3, <1>4 DEF Announce, Giving
<1>5. CASE FindTrips(w)
  BY <1>1, <1>5 DEF FindTrips, Giving, TypeInv, TaskInv, Tasks
<1>6. CASE ChangeLeader(w)
  BY <1>1, <1>6 DEF ChangeLeader, Giving, TypeInv, TaskInv, Tasks
<1>7. CASE AnnounceCard(w)
  BY <1>2, <1>7 DEF AnnounceCard
<1>8. CASE \E t \in Trips, k \in Trucks, b \in Trips \cup {None},
             mode \in {"plain", "SWAP", "COMPLETE_OTHER"} : AssignTruck(w, t, k, b, mode)
  BY <1>8 DEF AssignTruck, Idle, Giving, TypeInv, TaskInv
<1>9. CASE MoveTrip(w)
  BY <1>3, <1>9 DEF MoveTrip, Giving
<1>10. CASE MoveBlocking(w)
  BY <1>3, <1>10 DEF MoveBlocking, Giving
<1>11. CASE CompleteOther(w)
  BY <1>3, <1>11 DEF CompleteOther, Giving
<1>12. CASE SyncOwners(w)
  <2>1. \A k \in Trucks : truck'[k].driver = truck[k].driver
    BY <1>12 DEF SyncOwners, TypeInv, TypeOK, TruckRows
  <2>. QED  BY <1>3, <1>12, <2>1 DEF SyncOwners, Giving
<1>13. CASE Finish(w) \/ Die(w)
  BY <1>2, <1>13 DEF Finish, Die, BreakOff
<1>. QED
  BY <1>4, <1>5, <1>6, <1>7, <1>8, <1>9, <1>10, <1>11, <1>12, <1>13 DEF NotGiving

\* Handlers of one statement on the trip row.
RowHandler ==
    \/ \E w \in Workers, t \in Trips, k \in Trucks, d \in Drivers, m \in Managers :
         Create(w, t, k, d, m)
    \/ \E w \in Workers, t \in Trips, d \in Drivers : AssignDriver(w, t, d)
    \/ \E w \in Workers, t \in Trips, m \in Managers : AssignManager(w, t, m)
    \/ \E w \in Workers, t \in Trips : Reopen(w, t)
    \/ \E t \in Trips, state \in {"closed", "deleted"} : Close(t, state)

LEMMA RowHandlerKeeps ==
    ASSUME RowHandler
    PROVE  UNCHANGED <<truck, gone, told, task>>
  BY DEF RowHandler, Create, AssignDriver, AssignManager, Reopen, Close

\* Next by what it means for the holders.
Step(w) ==
    \/ \E k \in Trucks, d \in Drivers \cup {None, Keep}, m \in Managers \cup {None, Keep} :
         UpdateTruck(w, k, d, m)
    \/ FindPrevious(w) \/ Detach(w) \/ WriteTruck(w)
    \/ \E d \in Drivers, k \in Trucks \cup {None} : UpdateDriver(w, d, k)
    \/ Release(w) \/ Take(w)
    \/ \E d \in Drivers : Leave(w, d)
    \/ NotGiving(w)

LEMMA NextCases ==
    ASSUME Next
    PROVE  RowHandler \/ \E w \in Workers : Step(w)
  BY DEF Next, TruckRequest, TripRequest, NotGiving, RowHandler, Step

\* A worker's step is no other's.
LEMMA OneTask ==
    ASSUME TypeInv, NEW w \in Workers, Step(w), NEW v \in Workers, v # w
    PROVE  task'[v] = task[v]
<1>. DEFINE Same == task'[v] = task[v]
<1>1. ASSUME NEW pc, Goto(w, pc) PROVE Same
  BY <1>1 DEF Goto, TypeInv, TaskInv
<1>2. ASSUME Return(w) PROVE Same
  BY <1>2 DEF Return, TypeInv, TaskInv
<1>3. CASE \E k \in Trucks, d \in Drivers \cup {None, Keep},
              m \in Managers \cup {None, Keep} : UpdateTruck(w, k, d, m)
  BY <1>3 DEF UpdateTruck, TypeInv, TaskInv
<1>4. CASE FindPrevious(w)
  BY <1>4 DEF FindPrevious, TypeInv, TaskInv
<1>5. CASE Detach(w) \/ Release(w)
  BY <1>1, <1>5 DEF Detach, Release
<1>6. CASE WriteTruck(w) \/ Take(w)
  BY <1>1, <1>2, <1>6 DEF WriteTruck, Take, BreakOff
<1>7. CASE \E d \in Drivers, k \in Trucks \cup {None} : UpdateDriver(w, d, k)
  BY <1>7 DEF UpdateDriver, TypeInv, TaskInv
<1>8. CASE \E d \in Drivers : Leave(w, d)
  BY <1>8 DEF Leave
<1>9. CASE NotGiving(w)
  <2>1. CASE Announce(w) \/ AnnounceCard(w) \/ Finish(w) \/ Die(w)
    BY <1>1, <1>2, <2>1 DEF Announce, AnnounceCard, Finish, Die, BreakOff
  <2>2. CASE FindTrips(w) \/ ChangeLeader(w)
    BY <2>2 DEF FindTrips, ChangeLeader, TypeInv, TaskInv
  <2>3. CASE \E t \in Trips, k \in Trucks, b \in Trips \cup {None},
               mode \in {"plain", "SWAP", "COMPLETE_OTHER"} : AssignTruck(w, t, k, b, mode)
    BY <2>3 DEF AssignTruck, TypeInv, TaskInv
  <2>4. CASE MoveTrip(w) \/ MoveBlocking(w) \/ CompleteOther(w) \/ SyncOwners(w)
    BY <1>1, <2>4 DEF MoveTrip, MoveBlocking, CompleteOther, SyncOwners
  <2>. QED  BY <1>9, <2>1, <2>2, <2>3, <2>4 DEF NotGiving
<1>. QED  BY <1>3, <1>4, <1>5, <1>6, <1>7, <1>8, <1>9 DEF Step

\* The only way to get a truck: from a request that gives it to its driver,
\* which the unique index lets through and which touches no other truck.
LEMMA OnlyGiven ==
    ASSUME TypeInv, NEW w \in Workers, Step(w), NEW k \in Trucks,
           truck'[k].driver \notin {truck[k].driver, None}
    PROVE  /\ Gives(w, truck'[k].driver) /\ ~Rejected(k, truck'[k].driver)
           /\ \A l \in Trucks \ {k} : truck'[l].driver = truck[l].driver
           /\ UNCHANGED gone
<1>. DEFINE j == task[w]
<1>1. j \in Tasks /\ Stage(j)
  BY TaskOf
<1>2. CASE WriteTruck(w)
  <2>1. j.pc = "write" /\ j.truck \in Trucks
    BY <1>1, <1>2 DEF WriteTruck, Stage
  <2>2. /\ ~Rejected(j.truck, j.driver) /\ UNCHANGED gone
        /\ \A l \in Trucks : truck'[l].driver =
              IF l = j.truck /\ j.driver # Keep THEN j.driver ELSE truck[l].driver
    BY <1>2, <2>1 DEF WriteTruck, TypeInv, TypeOK, TruckRows
  <2>. QED  BY <2>1, <2>2 DEF Gives, Giving
<1>3. CASE Take(w)
  <2>1. j.pc = "take" /\ j.truck \in Trucks
    BY <1>1, <1>3 DEF Take, Stage
  <2>2. /\ ~Rejected(j.truck, j.driver) /\ UNCHANGED gone
        /\ \A l \in Trucks : truck'[l].driver =
              IF l = j.truck THEN j.driver ELSE truck[l].driver
    BY <1>3, <2>1 DEF Take, TypeInv, TypeOK, TruckRows
  <2>. QED  BY <2>1, <2>2 DEF Gives, Giving
<1>4. CASE Detach(w) \/ Release(w) \/ \E d \in Drivers : Leave(w, d)
  BY <1>4 DEF Detach, Release, Leave, TypeInv, TypeOK, TruckRows
<1>5. CASE NotGiving(w)
  BY <1>5, NotGivingSteps
<1>6. CASE \/ FindPrevious(w)
           \/ \E e \in Drivers \cup {None, Keep}, l \in Trucks,
                 m \in Managers \cup {None, Keep} : UpdateTruck(w, l, e, m)
           \/ \E e \in Drivers, l \in Trucks \cup {None} : UpdateDriver(w, e, l)
  BY <1>6 DEF FindPrevious, UpdateTruck, UpdateDriver
<1>. QED  BY <1>2, <1>3, <1>4, <1>5, <1>6 DEF Step

\* A driver to whom the worker gives nothing gets nothing.
LEMMA NothingGained ==
    ASSUME TypeInv, NEW w \in Workers, Step(w), NEW d \in Drivers, ~Gives(w, d)
    PROVE  TrucksOf(d)' \subseteq TrucksOf(d)
  BY OnlyGiven, NoIds DEF TrucksOf

LEMMA StepUnique ==
    ASSUME TypeInv, UniqueHolder, NEW w \in Workers, Step(w)
    PROVE  UniqueHolder'
<1>. SUFFICES ASSUME NEW k \in Trucks, NEW l \in Trucks, truck'[k].driver \in Drivers,
                     truck'[k].driver = truck'[l].driver, k # l
              PROVE  FALSE
  BY DEF UniqueHolder
<1>1. truck'[k].driver # None
  BY NoIds
<1>2. CASE truck'[k].driver # truck[k].driver
  BY <1>1, <1>2, OnlyGiven DEF Rejected, TrucksOf
<1>3. CASE truck'[l].driver # truck[l].driver
  BY <1>1, <1>3, OnlyGiven DEF Rejected, TrucksOf
<1>4. CASE truck'[k].driver = truck[k].driver /\ truck'[l].driver = truck[l].driver
  BY <1>4 DEF UniqueHolder
<1>. QED  BY <1>2, <1>3, <1>4

LEMMA NextUnique ==
    ASSUME TypeInv, UniqueHolder, [Next]_vars
    PROVE  UniqueHolder'
<1>1. CASE UNCHANGED truck
  BY <1>1 DEF UniqueHolder
<1>2. CASE UNCHANGED vars
  BY <1>1, <1>2 DEF vars
<1>3. CASE RowHandler
  BY <1>1, <1>3, RowHandlerKeeps
<1>. QED  BY <1>2, <1>3, NextCases, StepUnique

UniqueInv == TypeInv /\ UniqueHolder

LEMMA NextUniqueInv == UniqueInv /\ [Next]_vars => UniqueInv'
  BY NextTypeInv, NextUnique DEF UniqueInv

LEMMA InitUniqueInv == Init => UniqueInv
<1>1. Init => UniqueHolder
  BY NoIds DEF Init, UniqueHolder
<1>. QED  BY <1>1, InitTypeInv DEF UniqueInv

\* What another worker is ready for stays so, if it is for another driver.
LEMMA OthersReady ==
    ASSUME UniqueInv, GivesApart, NEW w \in Workers, Step(w),
           NEW v \in Workers, v # w, Ready(v)
    PROVE  Ready(v)'
<1>. DEFINE j == task[v]
<1>1. task'[v] = j /\ TypeInv
  BY OneTask DEF UniqueInv
<1>2. CASE j.pc \notin Giving
  BY <1>1, <1>2 DEF Ready, Giving
<1>3. CASE j.pc \in Giving /\ j.driver \notin Drivers
  <2>1. Stage(j)
    BY <1>1, TaskOf
  <2>2. j.pc \notin {"detach", "releaseOthers", "take"}
    BY <1>3, <2>1 DEF Stage
  <2>. QED  BY <1>1, <1>3, <2>2 DEF Ready, Rejected
<1>4. CASE j.pc \in Giving /\ j.driver \in Drivers
  <2>1. ~Gives(w, j.driver)
    BY <1>4 DEF GivesApart, Gives
  <2>2. TrucksOf(j.driver)' \subseteq TrucksOf(j.driver)
    <3>1. TrucksOf(j.driver)' = {k \in Trucks : truck'[k].driver = task'[v].driver}
      BY DEF TrucksOf
    <3>2. \A d \in Drivers : ~Gives(w, d) =>
             {k \in Trucks : truck'[k].driver = d} \subseteq TrucksOf(d)
      BY <1>1, NothingGained DEF TrucksOf
    <3>. QED  BY <1>1, <1>4, <2>1, <3>1, <3>2
  <2>3. TrucksOf(task[v].driver)' \subseteq TrucksOf(j.driver)
    BY <1>1, <2>2
  <2>. QED  BY <1>1, <2>3 DEF Ready, Rejected, TrucksOf
<1>. QED  BY <1>2, <1>3, <1>4

LEMMA UpdateTruckReady ==
    ASSUME UniqueInv, NEW w \in Workers, NEW k \in Trucks,
           NEW d \in Drivers \cup {None, Keep}, NEW m \in Managers \cup {None, Keep},
           UpdateTruck(w, k, d, m)
    PROVE  Ready(w)'
<1>1. /\ task'[w].pc = IF d \in Drivers /\ d # truck[k].driver
                       THEN "findPrevious" ELSE "write"
      /\ task'[w].truck = k /\ task'[w].driver = d
  BY DEF UpdateTruck, Idle, UniqueInv, TypeInv, TaskInv
<1>2. UNCHANGED truck
  BY DEF UpdateTruck
<1>3. d \in Drivers /\ d = truck[k].driver => ~Rejected(k, d)
  BY DEF Rejected, TrucksOf, UniqueInv, UniqueHolder
<1>4. d \notin Drivers => ~Rejected(k, d)
  BY DEF Rejected
<1>. QED  BY <1>1, <1>2, <1>3, <1>4 DEF Ready, Rejected, TrucksOf

LEMMA FindPreviousReady ==
    ASSUME UniqueInv, NEW w \in Workers, FindPrevious(w)
    PROVE  Ready(w)'
<1>. DEFINE j == task[w]
<1>1. /\ j \in Tasks /\ Stage(j) /\ j.pc = "findPrevious"
  BY TaskOf DEF FindPrevious, UniqueInv
<1>2. j.driver \in Drivers
  BY <1>1 DEF Stage
<1>3. PICK p \in FirstOf(TrucksOf(j.driver) \ {j.truck}) :
         task' = [task EXCEPT ![w].pc = IF p = None THEN "write" ELSE "detach",
                              ![w].prev = p]
  BY DEF FindPrevious
<1>4. /\ task'[w].pc = IF p = None THEN "write" ELSE "detach"
      /\ task'[w].prev = p /\ task'[w].truck = j.truck /\ task'[w].driver = j.driver
      /\ UNCHANGED truck
  BY <1>1, <1>3 DEF FindPrevious, UniqueInv, TypeInv, TaskInv, Tasks
<1>5. p = None => ~Rejected(j.truck, j.driver)
  BY NoIds DEF FirstOf, TrucksOf, Rejected
<1>6. p # None => TrucksOf(j.driver) \ {j.truck} \subseteq {p}
  BY <1>2 DEF FirstOf, TrucksOf, UniqueInv, UniqueHolder
<1>. QED  BY <1>4, <1>5, <1>6 DEF Ready, Rejected, TrucksOf

LEMMA DetachReady ==
    ASSUME UniqueInv, NEW w \in Workers, Ready(w), Detach(w)
    PROVE  Ready(w)'
<1>. DEFINE j == task[w]
<1>1. /\ j \in Tasks /\ Stage(j) /\ j.pc = "detach"
  BY TaskOf DEF Detach, UniqueInv
<1>2. j.driver \in Drivers /\ j.prev \in Trucks
  BY <1>1 DEF Stage
<1>3. /\ task'[w].pc = "write" /\ task'[w].truck = j.truck /\ task'[w].driver = j.driver
  BY <1>1 DEF Detach, Goto, UniqueInv, TypeInv, TaskInv, Tasks
<1>4. \A k \in Trucks : truck'[k].driver = IF k = j.prev THEN None ELSE truck[k].driver
  BY <1>2 DEF Detach, UniqueInv, TypeInv, TypeOK, TruckRows
<1>5. \A k \in Trucks \ {j.truck} : truck'[k].driver # j.driver
  BY <1>1, <1>2, <1>4, NoIds DEF Ready, TrucksOf
<1>. QED  BY <1>3, <1>5 DEF Ready, Rejected, TrucksOf

LEMMA ReleaseReady ==
    ASSUME UniqueInv, NEW w \in Workers, Ready(w), Release(w)
    PROVE  Ready(w)'
<1>. DEFINE j == task[w]
<1>1. /\ j \in Tasks /\ Stage(j) /\ j.pc \in {"release", "releaseOthers"}
  BY TaskOf DEF Release, UniqueInv
<1>2. j.driver \in Drivers
  BY <1>1 DEF Stage
<1>3. /\ task'[w].driver = j.driver /\ task'[w].truck = j.truck
      /\ task'[w].pc \in {"take", "announceCard", "releaseOthers"}
  BY <1>1 DEF Release, Goto, UniqueInv, TypeInv, TaskInv, Tasks
<1>4. \A k \in Trucks : truck'[k].driver # j.driver
  BY <1>1, <1>2, NoIds DEF Release, TrucksOf, Ready, UniqueInv, TypeInv, TypeOK, TruckRows
<1>. QED  BY <1>3, <1>4 DEF Ready, Rejected, TrucksOf

\* Every other step of a worker leaves it nothing to be ready for.
LEMMA OwnReady ==
    ASSUME UniqueInv, NEW w \in Workers, Ready(w), Step(w)
    PROVE  Ready(w)'
<1>1. ASSUME task'[w].pc \notin Giving PROVE Ready(w)'
  BY <1>1 DEF Ready, Giving
<1>2. task[w] \in Tasks /\ Idle.pc = "idle"
  BY TaskOf DEF Idle, UniqueInv
<1>3. CASE WriteTruck(w) \/ Take(w)
  BY <1>1, <1>2, <1>3 DEF WriteTruck, Take, BreakOff, Return, Goto, Giving, UniqueInv,
                          TypeInv, TaskInv, Tasks
<1>4. CASE \E d \in Drivers, k \in Trucks \cup {None} : UpdateDriver(w, d, k)
  <2>1. task'[w].pc = "release"
    BY <1>4 DEF UpdateDriver, Idle, UniqueInv, TypeInv, TaskInv
  <2>. QED  BY <2>1 DEF Ready
<1>5. CASE \E d \in Drivers : Leave(w, d)
  BY <1>1, <1>5 DEF Leave, Free, Idle, Giving
<1>6. CASE NotGiving(w)
  BY <1>1, <1>6, NotGivingSteps DEF UniqueInv
<1>. QED
  BY <1>3, <1>4, <1>5, <1>6, UpdateTruckReady, FindPreviousReady, DetachReady,
     ReleaseReady DEF Step

AllReady == \A w \in Workers : Ready(w)

LEMMA NextReady ==
    ASSUME UniqueInv, GivesApart, AllReady, [Next]_vars
    PROVE  AllReady'
<1>1. CASE UNCHANGED <<truck, gone, told, task>>
  BY <1>1 DEF AllReady, Ready, Rejected, TrucksOf
<1>2. CASE UNCHANGED vars
  BY <1>1, <1>2 DEF vars
<1>3. CASE RowHandler
  BY <1>1, <1>3, RowHandlerKeeps
<1>4. ASSUME NEW w \in Workers, Step(w) PROVE AllReady'
  BY <1>4, OwnReady, OthersReady DEF AllReady
<1>. QED  BY <1>2, <1>3, <1>4, NextCases

\* Requests may overlap as long as no two give a truck to the same driver: the
\* unique index never fails one that has already taken the driver's old truck
\* away.
THEOREM AttachNeverFails == Spec /\ []GivesApart => []AttachIsFree
<1>1. Init => UniqueInv /\ AllReady
  BY InitUniqueInv DEF Init, AllReady, Ready, Idle
<1>2. UniqueInv /\ AllReady /\ GivesApart /\ [Next]_vars => (UniqueInv /\ AllReady)'
  BY NextUniqueInv, NextReady
<1>3. AllReady => AttachIsFree
  BY DEF AllReady, Ready, AttachIsFree
<1>. QED  BY <1>1, <1>2, <1>3, PTL DEF Spec

LEMMA NextGone ==
    ASSUME TypeInv, NoneLeavesMidway, GoneHoldsNoTruck, [Next]_vars
    PROVE  GoneHoldsNoTruck'
<1>1. CASE UNCHANGED <<truck, gone, told, task>>
  BY <1>1 DEF GoneHoldsNoTruck
<1>2. CASE UNCHANGED vars
  BY <1>1, <1>2 DEF vars
<1>3. CASE RowHandler
  BY <1>1, <1>3, RowHandlerKeeps
<1>4. ASSUME NEW w \in Workers, Step(w), NEW k \in Trucks
      PROVE  truck'[k].driver \notin gone'
  <2>1. truck[k].driver \notin gone /\ None \notin Drivers /\ gone \subseteq Drivers
    BY NoIds DEF GoneHoldsNoTruck, TypeInv, TypeOK
  <2>2. CASE \E d \in Drivers : Leave(w, d)
    <3>1. PICK d \in Drivers : Leave(w, d)
      BY <2>2
    <3>2. /\ gone' = gone \cup {d}
          /\ truck'[k].driver = IF truck[k].driver = d THEN None ELSE truck[k].driver
      BY <3>1 DEF Leave, TypeInv, TypeOK, TruckRows
    <3>. QED  BY <2>1, <3>2
  <2>3. CASE UNCHANGED gone
    BY <1>4, <2>1, <2>3, OnlyGiven DEF NoneLeavesMidway
  <2>4. CASE NotGiving(w)
    BY <2>3, <2>4, NotGivingSteps
  <2>. QED
    BY <1>4, <2>2, <2>3, <2>4 DEF Step, UpdateTruck, FindPrevious, Detach, WriteTruck,
                                  UpdateDriver, Release, Take
<1>. QED  BY <1>2, <1>3, <1>4, NextCases DEF GoneHoldsNoTruck

\* Requests may overlap in any way, as long as no driver leaves the company
\* while one is giving them a truck: no truck is held by a driver who has left.
THEOREM GoneDriversHoldNothing == Spec /\ []NoneLeavesMidway => []GoneHoldsNoTruck
<1>1. Init => TypeInv /\ GoneHoldsNoTruck
  BY InitTypeInv DEF Init, GoneHoldsNoTruck
<1>2. TypeInv /\ GoneHoldsNoTruck /\ NoneLeavesMidway /\ [Next]_vars
        => (TypeInv /\ GoneHoldsNoTruck)'
  BY NextTypeInv, NextGone
<1>. QED  BY <1>1, <1>2, PTL DEF Spec

-----------------------------------------------------------------------------
(* Whoever holds a truck was told of it, or is about to be, or the request *)
(* broke off; as long as the requests that overlap are about different     *)
(* drivers, whichever trucks they are about.                               *)

Handing == Giving \cup {"announce", "announceCard"}

\* The drivers a request is about: the one it names and the one it found.
Concerns(w) ==
    IF task[w].pc \in Handing THEN {task[w].driver, task[w].oldDriver} \cap Drivers
                              ELSE {}

\* No driver is in the hands of two requests at a time.
DriversApart ==
    \A v, w \in Workers : v # w => Concerns(v) \cap Concerns(w) = {}

\* The push about d's truck k that the worker has still to send.
News(w, d, k) ==
    LET j == task[w] IN
    /\ d = j.driver /\ k = j.truck
    /\ \/ j.pc = "announce" /\ d # j.oldDriver
       \/ j.pc = "announceCard" /\ k # j.prev

Knows(d) ==
    \A k \in Trucks :
        truck[k].driver = d =>
            told[d] \in {k, Unsaid} \/ \E w \in Workers : News(w, d, k)

Known == \A d \in Drivers \ gone : Knows(d)

\* d holds no truck but k.
OnlyHolds(d, k) == \A l \in Trucks : truck[l].driver = d => l = k

\* What the pushes rely on: that what was read still holds of the drivers.
Telling(w) ==
    LET j == task[w] IN
    /\ j.pc \in {"findPrevious", "detach", "write"} =>
         /\ j.oldDriver \in Drivers => OnlyHolds(j.oldDriver, j.truck)
         /\ j.driver = j.oldDriver /\ j.driver \in Drivers \ gone =>
              told[j.driver] \in {j.truck, Unsaid}
    /\ j.pc = "announce" =>
         /\ j.driver \in Drivers => OnlyHolds(j.driver, j.truck)
         /\ j.driver \notin {Keep, j.oldDriver} /\ j.oldDriver \in Drivers =>
              \A k \in Trucks : truck[k].driver # j.oldDriver
    /\ j.pc \in {"release", "releaseOthers", "take", "announceCard"} =>
         (j.prev # None /\ j.driver \notin gone => told[j.driver] \in {j.prev, Unsaid})
    /\ j.pc = "announceCard" => OnlyHolds(j.driver, j.truck)

Heard == Known /\ \A w \in Workers : Telling(w)

\* A driver the worker's request is not about gets no truck, and is told
\* nothing unless they leave.
LEMMA Untouched ==
    ASSUME TypeInv, NEW w \in Workers, Step(w), NEW d \in Drivers, d \notin Concerns(w)
    PROVE  /\ \A k \in Trucks : truck'[k].driver = d => truck[k].driver = d
           /\ d \notin gone' => d \notin gone /\ told'[d] = told[d]
<1>1. \A k \in Trucks : truck'[k].driver = d => truck[k].driver = d
  BY OnlyGiven, NoIds DEF Gives, Concerns, Handing
<1>2. gone \subseteq gone'
  <2>1. CASE NotGiving(w)
    BY <2>1, NotGivingSteps
  <2>. QED
    BY <2>1 DEF Step, UpdateTruck, FindPrevious, Detach, WriteTruck, UpdateDriver,
                Release, Take, Leave
<1>. SUFFICES ASSUME d \notin gone' PROVE told'[d] = told[d]
  BY <1>1, <1>2
<1>3. ASSUME BreakOff(w) PROVE told'[d] = told[d]
  BY <1>3 DEF BreakOff, Concerns, Handing, Giving
<1>4. CASE WriteTruck(w) \/ Take(w)
  BY <1>3, <1>4 DEF WriteTruck, Take
<1>5. CASE Announce(w) \/ AnnounceCard(w)
  BY <1>5 DEF Announce, AnnounceCard, Concerns, Handing, TypeInv, TypeOK
<1>6. CASE Die(w)
  BY <1>3, <1>6 DEF Die
<1>7. CASE \E e \in Drivers : Leave(w, e)
  BY <1>7 DEF Leave, TypeInv, TypeOK
<1>8. CASE UNCHANGED told
  BY <1>8
<1>9. CASE NotGiving(w)
  <2>1. CASE \E t \in Trips, k \in Trucks, b \in Trips \cup {None},
               mode \in {"plain", "SWAP", "COMPLETE_OTHER"} : AssignTruck(w, t, k, b, mode)
    BY <1>8, <2>1 DEF AssignTruck
  <2>. QED
    BY <1>5, <1>6, <1>8, <1>9, <2>1 DEF NotGiving, FindTrips, ChangeLeader, MoveTrip,
       MoveBlocking, CompleteOther, SyncOwners, Finish
<1>10. CASE \/ \E k \in Trucks, e \in Drivers \cup {None, Keep},
                 m \in Managers \cup {None, Keep} : UpdateTruck(w, k, e, m)
            \/ \E e \in Drivers, k \in Trucks \cup {None} : UpdateDriver(w, e, k)
            \/ FindPrevious(w) \/ Detach(w) \/ Release(w)
  BY <1>8, <1>10 DEF UpdateTruck, UpdateDriver, FindPrevious, Detach, Release
<1>. QED  BY <1>4, <1>7, <1>9, <1>10 DEF Step

\* Nobody else has news for a driver the worker's request is about.
LEMMA NoOthersNews ==
    ASSUME DriversApart, NEW w \in Workers, NEW d \in Concerns(w), NEW v \in Workers,
           v # w, NEW k
    PROVE  ~News(v, d, k)
  BY DEF DriversApart, Concerns, News, Handing

LEMMA OthersTelling ==
    ASSUME TypeInv, DriversApart, NEW w \in Workers, Step(w), NEW v \in Workers, v # w,
           Telling(v)
    PROVE  Telling(v)'
<1>. DEFINE j == task[v]
<1>1. task'[v] = j /\ Stage(j)
  BY OneTask, TaskOf
<1>2. ASSUME NEW d \in Drivers, d \in {j.driver, j.oldDriver}, j.pc \in Handing
      PROVE  /\ \A k \in Trucks : truck'[k].driver = d => truck[k].driver = d
             /\ d \notin gone' => d \notin gone /\ told'[d] = told[d]
  <2>1. d \notin Concerns(w)
    BY <1>2 DEF DriversApart, Concerns
  <2>. QED  BY <2>1, Untouched
<1>3. CASE j.pc \in {"findPrevious", "detach", "write"}
  BY <1>1, <1>2, <1>3 DEF Telling, OnlyHolds, Handing, Giving
<1>4. CASE j.pc = "announce"
  BY <1>1, <1>2, <1>4 DEF Telling, OnlyHolds, Handing
<1>5. CASE j.pc \in {"release", "releaseOthers", "take", "announceCard"}
  <2>1. j.driver \in Drivers
    BY <1>1, <1>5 DEF Stage
  <2>. QED  BY <1>1, <1>2, <1>5, <2>1 DEF Telling, OnlyHolds, Handing, Giving
<1>. QED  BY <1>1, <1>3, <1>4, <1>5 DEF Telling

\* The other drivers know what they knew, or are about to be told.
LEMMA OthersKnow ==
    ASSUME TypeInv, NEW w \in Workers, Step(w), NEW d \in Drivers, d \notin Concerns(w),
           d \notin gone', Knows(d)
    PROVE  Knows(d)'
<1>1. /\ \A k \in Trucks : truck'[k].driver = d => truck[k].driver = d
      /\ told'[d] = told[d]
  BY Untouched
<1>. SUFFICES ASSUME NEW k \in Trucks, truck[k].driver = d, told[d] \notin {k, Unsaid}
              PROVE  \E v \in Workers : News(v, d, k)'
  BY <1>1 DEF Knows
<1>2. PICK v \in Workers : News(v, d, k)
  BY DEF Knows
<1>3. v # w
  BY <1>2 DEF News, Concerns, Handing
<1>4. News(v, d, k)'
  BY <1>2, <1>3, OneTask DEF News
<1>. QED  BY <1>4

\* A driver the request is about knows, but for what the worker has to tell.
LEMMA OwnKnown ==
    ASSUME DriversApart, Heard, NEW w \in Workers, NEW d \in Concerns(w), d \notin gone,
           NEW k \in Trucks, truck[k].driver = d
    PROVE  told[d] \in {k, Unsaid} \/ News(w, d, k)
  BY NoOthersNews DEF Heard, Known, Knows, Concerns

\* A driver a request turns to knows of their truck.
LEMMA TurnedTo ==
    ASSUME TypeInv, DriversApart', Heard, NEW w \in Workers, Step(w), Free(w),
           UNCHANGED gone, NEW d \in Concerns(w)', NEW k \in Trucks,
           truck[k].driver = d, d \notin gone
    PROVE  told[d] \in {k, Unsaid}
<1>1. d \in Drivers
  BY DEF Concerns
<1>2. ASSUME NEW v \in Workers, News(v, d, k) PROVE FALSE
  <2>1. v # w
    BY <1>2 DEF News, Free, Idle
  <2>2. News(v, d, k)'
    BY <1>2, <2>1, OneTask DEF News
  <2>3. d \in Concerns(v)'
    BY <1>1, <2>2 DEF News, Concerns, Handing
  <2>. QED  BY <2>1, <2>3 DEF DriversApart
<1>. QED  BY <1>1, <1>2 DEF Heard, Known, Knows

\* What a step leaves to show: of its worker, and of the drivers it is about.
LEMMA StepHeard ==
    ASSUME TypeInv, DriversApart, Heard, NEW w \in Workers, Step(w), Telling(w)',
           \A d \in Concerns(w) \ gone' : Knows(d)'
    PROVE  Heard'
<1>1. ASSUME NEW d \in Drivers \ gone' PROVE Knows(d)'
  <2>1. CASE d \in Concerns(w)
    BY <1>1, <2>1
  <2>2. CASE d \notin Concerns(w)
    BY <1>1, <2>2, Untouched, OthersKnow DEF Heard, Known
  <2>. QED  BY <2>1, <2>2
<1>2. ASSUME NEW v \in Workers PROVE Telling(v)'
  BY <1>2, OthersTelling DEF Heard
<1>. QED  BY <1>1, <1>2 DEF Heard, Known

\* A step of a worker without news, which frees trucks at most and tells nobody
\* of another one.
LEMMA QuietKnown ==
    ASSUME TypeInv, DriversApart, Heard, NEW w \in Workers,
           task[w].pc \notin {"announce", "announceCard"}, UNCHANGED gone,
           NEW d \in Concerns(w), d \notin gone', told'[d] \in {told[d], Unsaid},
           \A k \in Trucks : truck'[k].driver \in {truck[k].driver, None}
    PROVE  Knows(d)'
  BY OwnKnown, NoIds DEF Knows, News, Concerns

LEMMA UpdateTruckHeard ==
    ASSUME UniqueInv, DriversApart, DriversApart', Heard, NEW w \in Workers,
           NEW k \in Trucks, NEW d \in Drivers \cup {None, Keep},
           NEW m \in Managers \cup {None, Keep}, UpdateTruck(w, k, d, m)
    PROVE  Heard'
<1>1. /\ task'[w].pc = IF d \in Drivers /\ d # truck[k].driver
                       THEN "findPrevious" ELSE "write"
      /\ task'[w].truck = k /\ task'[w].driver = d
      /\ task'[w].oldDriver = truck[k].driver
  BY DEF UpdateTruck, Idle, UniqueInv, TypeInv, TaskInv
<1>2. UNCHANGED <<truck, gone, told>> /\ Free(w) /\ Step(w)
  BY DEF UpdateTruck, Step
<1>3. Concerns(w) = {}
  BY <1>2 DEF Free, Idle, Concerns, Handing, Giving
<1>4. d \in Drivers => d \in Concerns(w)'
  BY <1>1 DEF Concerns, Handing, Giving
<1>5. d = truck[k].driver /\ d \in Drivers \ gone => told[d] \in {k, Unsaid}
  BY <1>2, <1>4, TurnedTo DEF UniqueInv
<1>6. truck[k].driver \in Drivers => OnlyHolds(truck[k].driver, k)
  BY DEF OnlyHolds, UniqueInv, UniqueHolder
<1>7. Telling(w)'
  BY <1>1, <1>2, <1>5, <1>6 DEF Telling, OnlyHolds
<1>. QED  BY <1>2, <1>3, <1>7, StepHeard DEF UniqueInv

LEMMA FindPreviousHeard ==
    ASSUME UniqueInv, DriversApart, Heard, NEW w \in Workers, FindPrevious(w)
    PROVE  Heard'
<1>. DEFINE j == task[w]
<1>1. j \in Tasks /\ j.pc = "findPrevious" /\ Telling(w)
  BY TaskOf DEF FindPrevious, UniqueInv, Heard
<1>2. /\ task'[w].pc \in {"detach", "write"} /\ task'[w].driver = j.driver
      /\ task'[w].truck = j.truck /\ task'[w].oldDriver = j.oldDriver
  BY <1>1 DEF FindPrevious, UniqueInv, TypeInv, TaskInv, Tasks
<1>3. UNCHANGED <<truck, gone, told>>
  BY DEF FindPrevious
<1>4. Telling(w)'
  BY <1>1, <1>2, <1>3 DEF Telling, OnlyHolds
<1>5. \A d \in Concerns(w) \ gone' : Knows(d)'
  BY <1>1, <1>3, QuietKnown DEF UniqueInv
<1>. QED  BY <1>4, <1>5, StepHeard DEF UniqueInv, Step

LEMMA DetachHeard ==
    ASSUME UniqueInv, DriversApart, Heard, NEW w \in Workers, Detach(w)
    PROVE  Heard'
<1>. DEFINE j == task[w]
<1>1. j \in Tasks /\ Stage(j) /\ j.pc = "detach" /\ Telling(w)
  BY TaskOf DEF Detach, UniqueInv, Heard
<1>2. /\ task'[w].pc = "write" /\ task'[w].driver = j.driver
      /\ task'[w].truck = j.truck /\ task'[w].oldDriver = j.oldDriver
  BY <1>1 DEF Detach, Goto, UniqueInv, TypeInv, TaskInv, Tasks
<1>3. \A k \in Trucks : truck'[k].driver = IF k = j.prev THEN None ELSE truck[k].driver
  BY <1>1 DEF Detach, Stage, UniqueInv, TypeInv, TypeOK, TruckRows
<1>4. UNCHANGED <<gone, told>>
  BY DEF Detach
<1>5. Telling(w)'
  BY <1>1, <1>2, <1>3, <1>4, NoIds DEF Telling, OnlyHolds
<1>6. \A d \in Concerns(w) \ gone' : Knows(d)'
  BY <1>1, <1>3, <1>4, QuietKnown DEF UniqueInv
<1>. QED  BY <1>5, <1>6, StepHeard DEF UniqueInv, Step

LEMMA WriteTruckHeard ==
    ASSUME UniqueInv, DriversApart, Heard, NEW w \in Workers, WriteTruck(w)
    PROVE  Heard'
<1>. DEFINE j == task[w]
            d == IF j.driver = Keep THEN truck[j.truck].driver ELSE j.driver
<1>1. j \in Tasks /\ Stage(j) /\ j.pc = "write" /\ j.truck \in Trucks /\ Telling(w)
  <2>1. j \in Tasks /\ Stage(j) /\ j.pc = "write" /\ Telling(w)
    BY TaskOf DEF WriteTruck, UniqueInv, Heard
  <2>. QED  BY <2>1 DEF Stage
<1>2. CASE Rejected(j.truck, j.driver)
  <2>1. /\ task'[w].pc = "idle" /\ UNCHANGED <<truck, gone>>
        /\ \A e \in Drivers : told'[e] \in {told[e], Unsaid}
    BY <1>2 DEF WriteTruck, BreakOff, Return, Idle, UniqueInv, TypeInv, TaskInv
  <2>2. Telling(w)'
    BY <2>1 DEF Telling
  <2>3. \A e \in Concerns(w) \ gone' : Knows(e)'
    BY <1>1, <2>1, QuietKnown DEF UniqueInv, Concerns
  <2>. QED  BY <2>2, <2>3, StepHeard DEF UniqueInv, Step
<1>3. CASE ~Rejected(j.truck, j.driver)
  <2>1. /\ task'[w].pc = "announce" /\ task'[w].truck = j.truck
        /\ task'[w].oldDriver = j.oldDriver /\ task'[w].driver = j.driver
    BY <1>1, <1>3 DEF WriteTruck, Goto, UniqueInv, TypeInv, TaskInv, Tasks
  <2>2. \A l \in Trucks : truck'[l].driver = IF l = j.truck THEN d ELSE truck[l].driver
    BY <1>1, <1>3 DEF WriteTruck, UniqueInv, TypeInv, TypeOK
  <2>3. UNCHANGED <<gone, told>>
    BY <1>3 DEF WriteTruck
  <2>4. j.driver \in Drivers => d = j.driver
    BY NoIds
  <2>5. Telling(w)'
    <3>1. j.driver \in Drivers => \A l \in Trucks : truck'[l].driver = j.driver => l = j.truck
      BY <1>3, <2>2 DEF Rejected, TrucksOf
    <3>2. j.driver \notin {Keep, j.oldDriver} /\ j.oldDriver \in Drivers =>
            \A k \in Trucks : truck'[k].driver # j.oldDriver
      BY <1>1, <2>2 DEF Telling, OnlyHolds
    <3>. HIDE DEF d
    <3>. QED  BY <2>1, <3>1, <3>2 DEF Telling, OnlyHolds
  <2>6. ASSUME NEW e \in Concerns(w) \ gone' PROVE Knows(e)'
    <3>. SUFFICES ASSUME NEW k \in Trucks, truck'[k].driver = e,
                         told[e] \notin {k, Unsaid}
                  PROVE  News(w, e, k)'
      BY <2>3 DEF Knows
    <3>1. e \in Drivers \ gone /\ e \in Concerns(w)
      BY <2>3, <2>6 DEF Concerns
    <3>2. truck[k].driver # e
      BY <1>1, <3>1, OwnKnown DEF News
    <3>3. k = j.truck /\ e = j.driver
      BY <2>2, <3>2
    <3>4. e # j.oldDriver
      BY <1>1, <3>1, <3>3 DEF Telling
    <3>. QED  BY <2>1, <3>3, <3>4 DEF News
  <2>. QED  BY <2>5, <2>6, StepHeard DEF UniqueInv, Step
<1>. QED  BY <1>2, <1>3

LEMMA AnnounceHeard ==
    ASSUME UniqueInv, DriversApart, Heard, NEW w \in Workers, Announce(w)
    PROVE  Heard'
<1>. DEFINE j == task[w]
<1>1. j \in Tasks /\ j.pc = "announce" /\ Telling(w)
  BY TaskOf DEF Announce, UniqueInv, Heard
<1>2. task'[w].pc \in {"findTrips", "idle"} /\ UNCHANGED <<truck, gone>>
  BY <1>1 DEF Announce, Goto, Return, Idle, UniqueInv, TypeInv, TaskInv, Tasks
<1>3. Telling(w)'
  BY <1>2 DEF Telling
<1>4. ASSUME NEW e \in Concerns(w) \ gone' PROVE Knows(e)'
  <2>. SUFFICES ASSUME NEW k \in Trucks, truck[k].driver = e
                PROVE  told'[e] \in {k, Unsaid}
    BY <1>2 DEF Knows
  <2>1. e \in Drivers \ gone /\ e \in Concerns(w) /\ e \in {j.driver, j.oldDriver}
    BY <1>1, <1>2, <1>4 DEF Concerns
  <2>2. told[e] \in {k, Unsaid} \/ News(w, e, k)
    BY <2>1, OwnKnown
  <2>3. CASE j.driver \in {Keep, j.oldDriver}
    BY <1>1, <2>1, <2>2, <2>3, NoIds DEF Announce, News
  <2>4. CASE j.driver \notin {Keep, j.oldDriver}
    <3>1. e = j.driver
      BY <1>1, <2>1, <2>4 DEF Telling
    <3>2. k = j.truck
      BY <1>1, <2>1, <3>1 DEF Telling, OnlyHolds
    <3>. QED  BY <2>1, <2>4, <3>1, <3>2 DEF Announce
  <2>. QED  BY <2>3, <2>4
<1>. QED  BY <1>3, <1>4, StepHeard DEF UniqueInv, Step, NotGiving

LEMMA UpdateDriverHeard ==
    ASSUME UniqueInv, DriversApart, DriversApart', Heard, NEW w \in Workers,
           NEW d \in Drivers, NEW k \in Trucks \cup {None}, UpdateDriver(w, d, k)
    PROVE  Heard'
<1>1. PICK p \in FirstOf(TrucksOf(d)) : task' = [task EXCEPT ![w] =
           [Idle EXCEPT !.pc = "release", !.truck = k, !.driver = d, !.prev = p]]
  BY DEF UpdateDriver
<1>2. task'[w].pc = "release" /\ task'[w].driver = d /\ task'[w].prev = p
  BY <1>1 DEF Idle, UniqueInv, TypeInv, TaskInv
<1>3. UNCHANGED <<truck, gone, told>> /\ d \notin gone /\ Free(w) /\ Step(w)
  BY DEF UpdateDriver, Step
<1>4. Concerns(w) = {}
  BY <1>3 DEF Free, Idle, Concerns, Handing, Giving
<1>5. d \in Concerns(w)'
  BY <1>2 DEF Concerns, Handing, Giving
<1>6. p # None => told[d] \in {p, Unsaid}
  <2>1. p # None => p \in Trucks /\ truck[p].driver = d
    BY DEF FirstOf, TrucksOf
  <2>. QED  BY <1>3, <1>5, <2>1, TurnedTo DEF UniqueInv
<1>7. Telling(w)'
  BY <1>2, <1>3, <1>6 DEF Telling
<1>. QED  BY <1>3, <1>4, <1>7, StepHeard DEF UniqueInv

LEMMA ReleaseHeard ==
    ASSUME UniqueInv, DriversApart, Heard, NEW w \in Workers, Release(w)
    PROVE  Heard'
<1>. DEFINE j == task[w]
<1>1. /\ j \in Tasks /\ Stage(j) /\ j.pc \in {"release", "releaseOthers"} /\ Telling(w)
  BY TaskOf DEF Release, UniqueInv, Heard
<1>2. /\ task'[w].driver = j.driver /\ task'[w].truck = j.truck /\ task'[w].prev = j.prev
      /\ task'[w].pc \in {"take", "announceCard", "releaseOthers"}
      /\ task'[w].pc = "announceCard" => j.pc = "release"
  BY <1>1 DEF Release, Goto, UniqueInv, TypeInv, TaskInv, Tasks
<1>3. /\ \A k \in Trucks : truck'[k].driver \in {truck[k].driver, None}
      /\ UNCHANGED <<gone, told>>
  BY DEF Release, UniqueInv, TypeInv, TypeOK, TruckRows
<1>4. j.pc = "release" => \A k \in Trucks : truck'[k].driver # j.driver
  BY <1>1, NoIds DEF Release, TrucksOf, Stage, UniqueInv, TypeInv, TypeOK, TruckRows
<1>5. Telling(w)'
  <2>1. j.prev # None /\ j.driver \notin gone => told[j.driver] \in {j.prev, Unsaid}
    BY <1>1 DEF Telling
  <2>2. task'[w].pc = "announceCard" =>
          \A l \in Trucks : truck'[l].driver = task'[w].driver => l = task'[w].truck
    BY <1>2, <1>4
  <2>3. task'[w].prev # None /\ task'[w].driver \notin gone' =>
          told'[task'[w].driver] \in {task'[w].prev, Unsaid}
    BY <1>2, <1>3, <2>1
  <2>4. task'[w].pc \notin {"findPrevious", "detach", "write", "announce"}
    BY <1>2
  <2>. QED  BY <2>2, <2>3, <2>4 DEF Telling, OnlyHolds
<1>6. \A d \in Concerns(w) \ gone' : Knows(d)'
  BY <1>1, <1>3, QuietKnown DEF UniqueInv
<1>. QED  BY <1>5, <1>6, StepHeard DEF UniqueInv, Step

LEMMA TakeHeard ==
    ASSUME UniqueInv, DriversApart, Heard, NEW w \in Workers, Take(w)
    PROVE  Heard'
<1>. DEFINE j == task[w]
<1>1. j \in Tasks /\ Stage(j) /\ j.pc = "take" /\ Telling(w)
  BY TaskOf DEF Take, UniqueInv, Heard
<1>2. j.truck \in Trucks /\ j.driver \in Drivers
  BY <1>1 DEF Stage
<1>3. CASE Rejected(j.truck, j.driver)
  <2>1. /\ task'[w].pc = "idle" /\ UNCHANGED <<truck, gone>>
        /\ \A e \in Drivers : told'[e] \in {told[e], Unsaid}
    BY <1>3 DEF Take, BreakOff, Return, Idle, UniqueInv, TypeInv, TaskInv
  <2>2. Telling(w)'
    BY <2>1 DEF Telling
  <2>3. \A e \in Concerns(w) \ gone' : Knows(e)'
    BY <1>1, <2>1, QuietKnown DEF UniqueInv, Concerns
  <2>. QED  BY <2>2, <2>3, StepHeard DEF UniqueInv, Step
<1>4. CASE ~Rejected(j.truck, j.driver)
  <2>1. /\ task'[w].driver = j.driver /\ task'[w].truck = j.truck
        /\ task'[w].prev = j.prev /\ task'[w].pc = "announceCard"
    BY <1>1, <1>4 DEF Take, Goto, UniqueInv, TypeInv, TaskInv, Tasks
  <2>2. \A l \in Trucks : truck'[l].driver = IF l = j.truck THEN j.driver
                                             ELSE truck[l].driver
    BY <1>2, <1>4 DEF Take, UniqueInv, TypeInv, TypeOK, TruckRows
  <2>3. UNCHANGED <<gone, told>>
    BY <1>4 DEF Take
  <2>4. Telling(w)'
    <3>1. j.prev # None /\ j.driver \notin gone => told[j.driver] \in {j.prev, Unsaid}
      BY <1>1 DEF Telling
    <3>2. \A l \in Trucks : truck'[l].driver = j.driver => l = j.truck
      BY <1>2, <1>4, <2>2 DEF Rejected, TrucksOf
    <3>. QED  BY <2>1, <2>3, <3>1, <3>2 DEF Telling, OnlyHolds
  <2>5. ASSUME NEW e \in Concerns(w) \ gone' PROVE Knows(e)'
    <3>. SUFFICES ASSUME NEW k \in Trucks, truck'[k].driver = e,
                         told[e] \notin {k, Unsaid}
                  PROVE  News(w, e, k)'
      BY <2>3 DEF Knows
    <3>1. e \notin gone /\ e \in Concerns(w)
      BY <2>3, <2>5
    <3>2. truck[k].driver # e
      BY <1>1, <3>1, OwnKnown DEF News
    <3>3. k = j.truck /\ e = j.driver
      BY <2>2, <3>2
    <3>4. k # j.prev
      BY <1>1, <1>2, <3>1, <3>3, NoIds DEF Telling
    <3>. QED  BY <2>1, <3>3, <3>4 DEF News
  <2>. QED  BY <2>4, <2>5, StepHeard DEF UniqueInv, Step
<1>. QED  BY <1>3, <1>4

LEMMA AnnounceCardHeard ==
    ASSUME UniqueInv, DriversApart, Heard, NEW w \in Workers, AnnounceCard(w)
    PROVE  Heard'
<1>. DEFINE j == task[w]
<1>1. j \in Tasks /\ j.pc = "announceCard" /\ Telling(w)
  BY TaskOf DEF AnnounceCard, UniqueInv, Heard
<1>2. task'[w].pc = "idle" /\ UNCHANGED <<truck, gone>>
  BY DEF AnnounceCard, Return, Idle, UniqueInv, TypeInv, TaskInv
<1>3. Telling(w)'
  BY <1>2 DEF Telling
<1>4. ASSUME NEW e \in Concerns(w) \ gone' PROVE Knows(e)'
  <2>. SUFFICES ASSUME NEW k \in Trucks, truck[k].driver = e
                PROVE  told'[e] \in {k, Unsaid}
    BY <1>2 DEF Knows
  <2>1. e \in Drivers \ gone /\ e \in Concerns(w)
    BY <1>2, <1>4 DEF Concerns
  <2>2. told[e] \in {k, Unsaid} \/ News(w, e, k)
    BY <2>1, OwnKnown
  <2>3. \A d \in Drivers : told'[d] = IF d = j.driver /\ j.truck # j.prev THEN j.truck
                                      ELSE told[d]
    BY DEF AnnounceCard, UniqueInv, TypeInv, TypeOK
  <2>4. CASE e = j.driver /\ j.truck # j.prev
    BY <1>1, <2>1, <2>3, <2>4 DEF Telling, OnlyHolds
  <2>5. CASE ~(e = j.driver /\ j.truck # j.prev)
    BY <1>1, <2>1, <2>2, <2>3, <2>5 DEF News
  <2>. QED  BY <2>4, <2>5
<1>. QED  BY <1>3, <1>4, StepHeard DEF UniqueInv, Step, NotGiving

LEMMA DieHeard ==
    ASSUME UniqueInv, DriversApart, Heard, NEW w \in Workers, Die(w)
    PROVE  Heard'
<1>. DEFINE j == task[w]
<1>1. task'[w].pc = "idle" /\ UNCHANGED <<truck, gone>>
  BY DEF Die, BreakOff, Return, Idle, UniqueInv, TypeInv, TaskInv
<1>2. Telling(w)'
  BY <1>1 DEF Telling
<1>3. ASSUME NEW e \in Concerns(w) \ gone' PROVE Knows(e)'
  <2>. SUFFICES ASSUME NEW k \in Trucks, truck[k].driver = e
                PROVE  told'[e] \in {k, Unsaid}
    BY <1>1 DEF Knows
  <2>1. e \in Drivers \ gone /\ e \in Concerns(w)
    BY <1>1, <1>3 DEF Concerns
  <2>2. told[e] \in {k, Unsaid} \/ News(w, e, k)
    BY <2>1, OwnKnown
  <2>3. told'[e] \in {told[e], Unsaid}
    BY <2>1 DEF Die, BreakOff
  <2>4. News(w, e, k) => told'[e] = Unsaid
    BY <2>1, NoIds DEF Die, BreakOff, News
  <2>. QED  BY <2>2, <2>3, <2>4
<1>. QED  BY <1>2, <1>3, StepHeard DEF UniqueInv, Step, NotGiving

LEMMA LeaveHeard ==
    ASSUME UniqueInv, DriversApart, Heard, NEW w \in Workers, NEW d \in Drivers,
           Leave(w, d)
    PROVE  Heard'
<1>1. Free(w) /\ UNCHANGED task
  BY DEF Leave
<1>2. task[w].pc = "idle" /\ Step(w)
  BY <1>1 DEF Free, Idle, Step
<1>3. Telling(w)' /\ Concerns(w) = {}
  BY <1>1, <1>2 DEF Telling, Concerns, Handing, Giving
<1>. QED  BY <1>2, <1>3, StepHeard DEF UniqueInv

\* The steps of assignTruck, and those on the trips of a truck.
Silent(w) ==
    \/ FindTrips(w) \/ ChangeLeader(w)
    \/ \E t \in Trips, k \in Trucks, b \in Trips \cup {None},
          mode \in {"plain", "SWAP", "COMPLETE_OTHER"} : AssignTruck(w, t, k, b, mode)
    \/ MoveTrip(w) \/ MoveBlocking(w) \/ CompleteOther(w) \/ SyncOwners(w)
    \/ Finish(w)

LEMMA SilentHeard ==
    ASSUME UniqueInv, DriversApart, Heard, NEW w \in Workers, Silent(w)
    PROVE  Heard'
<1>1. task[w] \in Tasks /\ Step(w)
  BY TaskOf DEF UniqueInv, Silent, Step, NotGiving
<1>2. task[w].pc \notin Handing /\ task'[w].pc \notin Handing
  <2>1. CASE \E t \in Trips, k \in Trucks, b \in Trips \cup {None},
               mode \in {"plain", "SWAP", "COMPLETE_OTHER"} : AssignTruck(w, t, k, b, mode)
    <3>1. Free(w) /\ task'[w].pc = "moveTrip"
      BY <2>1 DEF AssignTruck, Idle, UniqueInv, TypeInv, TaskInv
    <3>. QED  BY <3>1 DEF Free, Idle, Handing, Giving
  <2>2. CASE FindTrips(w) \/ ChangeLeader(w)
    BY <1>1, <2>2 DEF FindTrips, ChangeLeader, UniqueInv, TypeInv, TaskInv, Tasks, Handing,
                      Giving
  <2>3. CASE MoveTrip(w) \/ MoveBlocking(w) \/ CompleteOther(w) \/ SyncOwners(w)
    BY <1>1, <2>3 DEF MoveTrip, MoveBlocking, CompleteOther, SyncOwners, Goto, UniqueInv,
                      TypeInv, TaskInv, Tasks, Handing, Giving
  <2>4. CASE Finish(w)
    BY <2>4 DEF Finish, Return, Idle, UniqueInv, TypeInv, TaskInv, Handing, Giving
  <2>. QED  BY <2>1, <2>2, <2>3, <2>4 DEF Silent
<1>3. Telling(w)' /\ Concerns(w) = {}
  BY <1>2 DEF Telling, Concerns, Handing, Giving
<1>. QED  BY <1>1, <1>3, StepHeard DEF UniqueInv

LEMMA NextHeard ==
    ASSUME UniqueInv, DriversApart, DriversApart', Heard, [Next]_vars
    PROVE  Heard'
<1>1. CASE UNCHANGED <<truck, gone, told, task>>
  BY <1>1 DEF Heard, Known, Knows, News, Telling, OnlyHolds
<1>2. CASE UNCHANGED vars
  BY <1>1, <1>2 DEF vars
<1>3. CASE RowHandler
  BY <1>1, <1>3, RowHandlerKeeps
<1>4. ASSUME NEW w \in Workers, NotGiving(w) PROVE Heard'
  BY <1>4, AnnounceHeard, AnnounceCardHeard, DieHeard, SilentHeard DEF NotGiving, Silent
<1>5. ASSUME NEW w \in Workers, Step(w) PROVE Heard'
  BY <1>4, <1>5, UpdateTruckHeard, FindPreviousHeard, DetachHeard, WriteTruckHeard,
     UpdateDriverHeard, ReleaseHeard, TakeHeard, LeaveHeard DEF Step
<1>. QED  BY <1>2, <1>3, <1>5, NextCases

LEMMA InitHeard == Init => Heard
  BY NoIds DEF Init, Heard, Known, Knows, Telling, Idle

\* As long as the requests that overlap are about different drivers, be it on
\* the same trucks, whoever holds a truck was last told of that one, whichever
\* card it was given from, unless the request that gave it broke off.
THEOREM HoldersAreTold == Spec /\ []DriversApart => []HolderKnows
<1>1. Init => UniqueInv /\ Heard
  BY InitUniqueInv, InitHeard
<1>2. UniqueInv /\ Heard /\ DriversApart /\ DriversApart' /\ [Next]_vars
        => (UniqueInv /\ Heard)'
  BY NextUniqueInv, NextHeard
<1>3. Heard => HolderKnows
  BY DEF Heard, Known, Knows, News, HolderKnows, AllFree, Free, Idle, TrucksOf
<1>. QED  BY <1>1, <1>2, <1>3, PTL DEF Spec

-----------------------------------------------------------------------------
(* Trips and trucks: what the last step of a handler finds is what its     *)
(* first one read, and what the steps between have written; whatever other *)
(* requests do meanwhile, as long as they write other rows.                *)

KeepsTrip(t) ==
    /\ trip'[t].truck = trip[t].truck /\ trip'[t].driver = trip[t].driver
    /\ trip'[t].manager = trip[t].manager

\* A step keeps what the handler has read and not yet written: the trip that
\* moves and the truck it moves to, in an exchange the two others as well; and
\* that the truck of a new manager gets no trip, nor such a trip a new leader.
\* A trip may change its status.
LeftAlone(j) ==
    /\ j.pc \in Moving => truck'[j.truck] = truck[j.truck] /\ KeepsTrip(j.trip)
    /\ j.pc \in Moving /\ j.mode = "SWAP" =>
         truck'[j.source] = truck[j.source] /\ KeepsTrip(j.block)
    /\ j.pc = "leaders" =>
         \A t \in Trips \ j.trips : (Open(t) /\ trip[t].truck = j.truck)' =>
             Open(t) /\ trip[t].truck = j.truck /\ trip'[t].manager = trip[t].manager

\* What the requests that overlap with one leave to it.
RowsLeftAlone == \A w \in Workers : task'[w] = task[w] => LeftAlone(task[w])

Led(w) ==
    LET j == task[w] IN
    j.pc = "leaders" =>
        \A t \in Trips \ j.trips :
            Open(t) /\ trip[t].truck = j.truck => trip[t].manager = j.manager

\* The trip that moves, and the truck it moves to.
Moves(j) ==
    /\ j.truck # j.source
    /\ truck[j.truck].driver = j.driver
    /\ trip[j.trip].manager = j.manager
    /\ j.pc # "moveTrip" => trip[j.trip].truck = j.truck /\ trip[j.trip].driver = j.driver
    /\ j.pc # "synced" => truck[j.truck].manager = j.oldManager
    /\ j.pc = "synced" => truck[j.truck].manager = j.manager

\* The trip in the way, and the truck that it gets.
MovesBack(j) ==
    /\ j.block # j.trip
    /\ truck[j.source].driver = j.sourceDriver
    /\ trip[j.block].manager = j.blockManager
    /\ j.pc \in {"sync", "synced"} =>
         trip[j.block].truck = j.source /\ trip[j.block].driver = j.sourceDriver
    /\ j.pc = "synced" => truck[j.source].manager = j.blockManager

Exchange(w) ==
    task[w].pc \in Moving =>
        Moves(task[w]) /\ (task[w].mode = "SWAP" => MovesBack(task[w]))

Paired == \A w \in Workers : Led(w) /\ Exchange(w)

\* Who takes no step keeps what they rely on.
LEMMA RestPaired ==
    ASSUME Paired, RowsLeftAlone, NEW w \in Workers, task'[w] = task[w]
    PROVE  Led(w)' /\ Exchange(w)'
<1>1. Led(w) /\ Exchange(w) /\ LeftAlone(task[w])
  BY DEF Paired, RowsLeftAlone
<1>2. Led(w)'
  BY <1>1 DEF Led, LeftAlone, Open
<1>3. ASSUME task[w].pc \in Moving PROVE Moves(task[w])'
  BY <1>1, <1>3 DEF Exchange, Moves, LeftAlone, KeepsTrip
<1>4. ASSUME task[w].pc \in Moving, task[w].mode = "SWAP" PROVE MovesBack(task[w])'
  BY <1>1, <1>4 DEF Exchange, MovesBack, LeftAlone, KeepsTrip
<1>. QED  BY <1>2, <1>3, <1>4 DEF Exchange

LEMMA FindTripsPaired ==
    ASSUME TypeInv, Paired, NEW w \in Workers, FindTrips(w)
    PROVE  Led(w)' /\ Exchange(w)'
<1>. DEFINE j == task[w]
<1>1. j \in Tasks
  BY TaskOf
<1>2. /\ task'[w].pc = "leaders" /\ task'[w].truck = j.truck
      /\ task'[w].manager = j.manager
      /\ task'[w].trips = {t \in OpenOn(j.truck) : trip[t].manager # j.manager}
      /\ UNCHANGED trip
  BY <1>1 DEF FindTrips, TypeInv, TaskInv, Tasks
<1>3. Led(w)'
  BY <1>2 DEF Led, OpenOn, Open
<1>. QED  BY <1>2, <1>3 DEF Exchange, Moving

LEMMA ChangeLeaderPaired ==
    ASSUME TypeInv, Paired, NEW w \in Workers, ChangeLeader(w)
    PROVE  Led(w)' /\ Exchange(w)'
<1>. DEFINE j == task[w]
<1>1. j \in Tasks /\ j.trips \subseteq Trips /\ j.pc = "leaders"
  BY TaskOf DEF ChangeLeader, Tasks
<1>2. PICK t \in j.trips :
         /\ trip' = [trip EXCEPT ![t].manager = j.manager]
         /\ task' = [task EXCEPT ![w].trips = j.trips \ {t}]
  BY DEF ChangeLeader
<1>3. /\ task'[w].pc = "leaders" /\ task'[w].truck = j.truck
      /\ task'[w].manager = j.manager /\ task'[w].trips = j.trips \ {t}
  BY <1>1, <1>2 DEF TypeInv, TaskInv, Tasks
<1>4. t \in Trips /\ Exists(t)
  BY <1>1, TaskOf DEF Rows
<1>5. \A x \in Trips : /\ trip'[x].manager = IF x = t THEN j.manager ELSE trip[x].manager
                       /\ trip'[x].truck = trip[x].truck
                       /\ trip'[x].state = trip[x].state
  BY <1>2, <1>4, RowFields DEF TypeInv, TypeOK
<1>6. Led(w)'
  BY <1>1, <1>3, <1>5 DEF Paired, Led, Open
<1>. QED  BY <1>3, <1>6 DEF Exchange, Moving

LEMMA AssignTruckPaired ==
    ASSUME TypeInv, Paired, NEW w \in Workers, NEW t \in Trips,
           NEW k \in Trucks, NEW b \in Trips \cup {None},
           NEW mode \in {"plain", "SWAP", "COMPLETE_OTHER"},
           AssignTruck(w, t, k, b, mode)
    PROVE  Led(w)' /\ Exchange(w)'
<1>. DEFINE source == trip[t].truck
            lead == IF b = None THEN None ELSE trip[b].manager
            j == [Idle EXCEPT !.pc = "moveTrip", !.trip = t, !.truck = k,
                      !.driver = truck[k].driver, !.manager = trip[t].manager,
                      !.oldManager = truck[k].manager,
                      !.mode = mode, !.block = b, !.blockManager = lead,
                      !.source = source, !.sourceDriver = truck[source].driver]
<1>1. task'[w] = j /\ UNCHANGED <<trip, truck>>
  BY DEF AssignTruck, TypeInv, TaskInv
<1>2. source # k /\ (b # None => b \in Trips /\ trip[b].truck = k)
  BY DEF AssignTruck, FirstOf, OpenOn
<1>3. mode = "SWAP" => b # None
  BY DEF AssignTruck
<1>. HIDE DEF lead
<1>4. /\ task'[w].pc = "moveTrip" /\ task'[w].trip = t /\ task'[w].truck = k
      /\ task'[w].driver = truck[k].driver /\ task'[w].manager = trip[t].manager
      /\ task'[w].oldManager = truck[k].manager /\ task'[w].mode = mode
      /\ task'[w].block = b /\ task'[w].blockManager = lead
      /\ task'[w].source = source /\ task'[w].sourceDriver = truck[source].driver
  BY <1>1 DEF Idle
<1>. HIDE DEF j
<1>5. Moves(task[w])'
  BY <1>1, <1>2, <1>4 DEF Moves
<1>6. mode = "SWAP" => MovesBack(task[w])'
  BY <1>1, <1>2, <1>3, <1>4 DEF MovesBack, lead
<1>. QED  BY <1>4, <1>5, <1>6 DEF Led, Exchange, Moving

LEMMA MoveTripPaired ==
    ASSUME TypeInv, Paired, NEW w \in Workers, MoveTrip(w)
    PROVE  Led(w)' /\ Exchange(w)'
<1>. DEFINE j == task[w]
<1>1. /\ j \in Tasks /\ Stage(j) /\ Rows(j) /\ j.pc = "moveTrip"
      /\ Moves(j) /\ (j.mode = "SWAP" => MovesBack(j))
  BY TaskOf DEF MoveTrip, Paired, Exchange, Moving
<1>2. /\ j.trip \in Trips /\ Exists(j.trip) /\ j.truck \in Trucks /\ j.source \in Trucks
      /\ j.mode = "SWAP" => j.block \in Trips
  BY <1>1, NoIds DEF Stage, Moving, Rows
<1>3. /\ \E pc \in {"moveBlocking", "complete", "sync"} : task'[w] = [j EXCEPT !.pc = pc]
      /\ j.mode = "SWAP" => task'[w].pc = "moveBlocking"
  BY <1>1 DEF MoveTrip, Goto, TypeInv, TaskInv, Tasks
<1>4. PICK pc \in {"moveBlocking", "complete", "sync"} : task'[w] = [j EXCEPT !.pc = pc]
  BY <1>3
<1>5. /\ trip'[j.trip].truck = j.truck /\ trip'[j.trip].driver = j.driver
      /\ trip'[j.trip].manager = trip[j.trip].manager
      /\ \A x \in Trips \ {j.trip} : trip'[x] = trip[x]
      /\ UNCHANGED truck
  BY <1>2, RowFields DEF MoveTrip, Moved, TypeInv, TypeOK
<1>6. /\ task'[w].pc = pc /\ task'[w].trip = j.trip /\ task'[w].truck = j.truck
      /\ task'[w].driver = j.driver /\ task'[w].manager = j.manager
      /\ task'[w].oldManager = j.oldManager /\ task'[w].mode = j.mode
      /\ task'[w].block = j.block /\ task'[w].blockManager = j.blockManager
      /\ task'[w].source = j.source /\ task'[w].sourceDriver = j.sourceDriver
  BY <1>1, <1>4 DEF Tasks
<1>7. Moves(task[w])'
  BY <1>1, <1>5, <1>6 DEF Moves
<1>8. j.mode = "SWAP" => MovesBack(task[w])'
  BY <1>1, <1>2, <1>3, <1>5, <1>6 DEF MovesBack
<1>. QED  BY <1>6, <1>7, <1>8 DEF Led, Exchange, Moving

LEMMA MoveBlockingPaired ==
    ASSUME TypeInv, Paired, NEW w \in Workers, MoveBlocking(w)
    PROVE  Led(w)' /\ Exchange(w)'
<1>. DEFINE j == task[w]
<1>1. /\ j \in Tasks /\ Stage(j) /\ Rows(j) /\ j.pc = "moveBlocking" /\ j.mode = "SWAP"
      /\ Moves(j) /\ MovesBack(j)
  BY TaskOf DEF MoveBlocking, Paired, Exchange, Moving, Stage
<1>2. /\ j.trip \in Trips /\ j.block \in Trips /\ Exists(j.block)
  BY <1>1, NoIds DEF Stage, Moving, Rows
<1>3. /\ trip'[j.block].truck = j.source /\ trip'[j.block].driver = j.sourceDriver
      /\ trip'[j.block].manager = trip[j.block].manager
      /\ \A x \in Trips \ {j.block} : trip'[x] = trip[x]
      /\ UNCHANGED truck
  BY <1>2, RowFields DEF MoveBlocking, Moved, TypeInv, TypeOK
<1>4. /\ task'[w].pc = "sync" /\ task'[w].trip = j.trip /\ task'[w].truck = j.truck
      /\ task'[w].driver = j.driver /\ task'[w].manager = j.manager
      /\ task'[w].oldManager = j.oldManager /\ task'[w].mode = j.mode
      /\ task'[w].block = j.block /\ task'[w].blockManager = j.blockManager
      /\ task'[w].source = j.source /\ task'[w].sourceDriver = j.sourceDriver
  BY <1>1 DEF MoveBlocking, Goto, TypeInv, TaskInv, Tasks
<1>5. Moves(task[w])'
  BY <1>1, <1>2, <1>3, <1>4 DEF Moves, MovesBack
<1>6. MovesBack(task[w])'
  BY <1>1, <1>3, <1>4 DEF MovesBack
<1>. QED  BY <1>4, <1>5, <1>6 DEF Led, Exchange, Moving

LEMMA CompleteOtherPaired ==
    ASSUME TypeInv, Paired, NEW w \in Workers, CompleteOther(w)
    PROVE  Led(w)' /\ Exchange(w)'
<1>. DEFINE j == task[w]
<1>1. /\ j \in Tasks /\ Stage(j) /\ Rows(j) /\ j.pc = "complete"
      /\ j.mode = "COMPLETE_OTHER" /\ Moves(j)
  BY TaskOf DEF CompleteOther, Paired, Exchange, Moving, Stage
<1>2. /\ j.trip \in Trips /\ j.block \in Trips /\ Exists(j.block)
  BY <1>1, NoIds DEF Stage, Moving, Rows
<1>3. /\ \A x \in Trips : /\ trip'[x].truck = trip[x].truck
                          /\ trip'[x].driver = trip[x].driver
                          /\ trip'[x].manager = trip[x].manager
      /\ UNCHANGED truck
  BY <1>2, RowFields DEF CompleteOther, TypeInv, TypeOK
<1>4. /\ task'[w].pc = "sync" /\ task'[w].trip = j.trip /\ task'[w].truck = j.truck
      /\ task'[w].driver = j.driver /\ task'[w].manager = j.manager
      /\ task'[w].oldManager = j.oldManager /\ task'[w].mode = j.mode
      /\ task'[w].source = j.source
  BY <1>1 DEF CompleteOther, Goto, TypeInv, TaskInv, Tasks
<1>5. Moves(task[w])'
  BY <1>1, <1>2, <1>3, <1>4 DEF Moves
<1>. QED  BY <1>1, <1>4, <1>5 DEF Led, Exchange, Moving

LEMMA SyncOwnersPaired ==
    ASSUME TypeInv, Paired, NEW w \in Workers, SyncOwners(w)
    PROVE  Led(w)' /\ Exchange(w)'
<1>. DEFINE j == task[w]
<1>1. /\ j \in Tasks /\ Stage(j) /\ j.pc = "sync"
      /\ Moves(j) /\ (j.mode = "SWAP" => MovesBack(j))
  BY TaskOf DEF SyncOwners, Paired, Exchange, Moving
<1>2. /\ j.truck \in Trucks /\ j.source \in Trucks
      /\ j.mode = "SWAP" => j.blockManager \in Managers
  BY <1>1 DEF Stage, Moving
<1>3. /\ \A x \in Trucks : truck'[x].driver = truck[x].driver
      /\ truck'[j.truck].manager = IF j.oldManager # j.manager THEN j.manager
                                   ELSE truck[j.truck].manager
      /\ j.mode = "SWAP" => truck'[j.source].manager = j.blockManager
      /\ UNCHANGED trip
  BY <1>1, <1>2, NoIds DEF SyncOwners, SourceOwner, Moves, TypeInv, TypeOK, TruckRows
<1>4. /\ task'[w].pc = "synced" /\ task'[w].trip = j.trip /\ task'[w].truck = j.truck
      /\ task'[w].driver = j.driver /\ task'[w].manager = j.manager
      /\ task'[w].oldManager = j.oldManager /\ task'[w].mode = j.mode
      /\ task'[w].block = j.block /\ task'[w].blockManager = j.blockManager
      /\ task'[w].source = j.source /\ task'[w].sourceDriver = j.sourceDriver
  BY <1>1 DEF SyncOwners, Goto, TypeInv, TaskInv, Tasks
<1>5. Moves(task[w])'
  BY <1>1, <1>2, <1>3, <1>4 DEF Moves
<1>6. j.mode = "SWAP" => MovesBack(task[w])'
  BY <1>1, <1>2, <1>3, <1>4 DEF MovesBack
<1>. QED  BY <1>4, <1>5, <1>6 DEF Led, Exchange, Moving

\* The steps after which the worker neither moves trips nor changes leaders.
Elsewhere(w) ==
    \/ \E k \in Trucks, d \in Drivers \cup {None, Keep}, m \in Managers \cup {None, Keep} :
         UpdateTruck(w, k, d, m)
    \/ FindPrevious(w) \/ Detach(w) \/ WriteTruck(w) \/ Announce(w)
    \/ \E d \in Drivers, k \in Trucks \cup {None} : UpdateDriver(w, d, k)
    \/ Release(w) \/ Take(w) \/ AnnounceCard(w)
    \/ \E d \in Drivers : Leave(w, d)
    \/ Finish(w) \/ Die(w)

LEMMA ElsewherePaired ==
    ASSUME TypeInv, NEW w \in Workers, Elsewhere(w)
    PROVE  Led(w)' /\ Exchange(w)'
<1>1. task[w] \in Tasks /\ Idle.pc = "idle"
  BY TaskOf DEF Idle
<1>. DEFINE Ends == task'[w].pc \notin Moving \cup {"leaders"}
<1>. SUFFICES Ends
  BY DEF Led, Exchange
<1>2. ASSUME Return(w) PROVE Ends
  BY <1>1, <1>2 DEF Return, Moving, TypeInv, TaskInv
<1>3. ASSUME NEW pc, Goto(w, pc) PROVE task'[w].pc = pc
  BY <1>1, <1>3 DEF Goto, TypeInv, TaskInv, Tasks
<1>4. CASE \E k \in Trucks, d \in Drivers \cup {None, Keep},
              m \in Managers \cup {None, Keep} : UpdateTruck(w, k, d, m)
  BY <1>4 DEF UpdateTruck, Idle, Moving, TypeInv, TaskInv
<1>5. CASE FindPrevious(w)
  BY <1>1, <1>5 DEF FindPrevious, Moving, TypeInv, TaskInv, Tasks
<1>6. CASE Detach(w)
  BY <1>3, <1>6 DEF Detach, Moving
<1>7. CASE WriteTruck(w)
  BY <1>2, <1>3, <1>7 DEF WriteTruck, BreakOff, Moving
<1>8. CASE Announce(w)
  BY <1>2, <1>3, <1>8 DEF Announce, Moving
<1>9. CASE \E d \in Drivers, k \in Trucks \cup {None} : UpdateDriver(w, d, k)
  BY <1>9 DEF UpdateDriver, Idle, Moving, TypeInv, TaskInv
<1>10. CASE Release(w)
  BY <1>3, <1>10 DEF Release, Moving
<1>11. CASE Take(w)
  BY <1>2, <1>3, <1>11 DEF Take, BreakOff, Moving
<1>12. CASE AnnounceCard(w) \/ Finish(w) \/ Die(w)
  BY <1>2, <1>12 DEF AnnounceCard, Finish, Die, BreakOff
<1>13. CASE \E d \in Drivers : Leave(w, d)
  <2>1. Free(w) /\ UNCHANGED task
    BY <1>13 DEF Leave
  <2>. QED  BY <1>1, <2>1 DEF Free, Moving
<1>. QED
  BY <1>4, <1>5, <1>6, <1>7, <1>8, <1>9, <1>10, <1>11, <1>12, <1>13 DEF Elsewhere

\* The steps that move trips or change leaders.
Pairing(w) ==
    \/ FindTrips(w) \/ ChangeLeader(w)
    \/ \E t \in Trips, k \in Trucks, b \in Trips \cup {None},
          mode \in {"plain", "SWAP", "COMPLETE_OTHER"} : AssignTruck(w, t, k, b, mode)
    \/ MoveTrip(w) \/ MoveBlocking(w) \/ CompleteOther(w) \/ SyncOwners(w)

LEMMA NextPaired ==
    ASSUME TypeInv, Paired, [Next]_vars, [RowsLeftAlone]_vars
    PROVE  Paired'
<1>1. CASE UNCHANGED vars
  BY <1>1 DEF vars, Paired, Led, Exchange, Moves, MovesBack, Open
<1>2. CASE RowsLeftAlone /\ RowHandler
  BY <1>2, RowHandlerKeeps, RestPaired DEF Paired
<1>3. ASSUME RowsLeftAlone, NEW w \in Workers, Step(w) PROVE Paired'
  <2>1. Elsewhere(w) \/ Pairing(w)
    BY <1>3 DEF Step, NotGiving, Elsewhere, Pairing
  <2>2. Led(w)' /\ Exchange(w)'
    BY <2>1, ElsewherePaired, FindTripsPaired, ChangeLeaderPaired, AssignTruckPaired,
       MoveTripPaired, MoveBlockingPaired, CompleteOtherPaired, SyncOwnersPaired
       DEF Pairing
  <2>. QED  BY <1>3, <2>2, OneTask, RestPaired DEF Paired
<1>. QED  BY <1>1, <1>2, <1>3, NextCases

LEMMA AlwaysPaired == Spec /\ [][RowsLeftAlone]_vars => [](TypeInv /\ Paired)
<1>1. Init => TypeInv /\ Paired
  BY InitTypeInv DEF Init, Paired, Led, Exchange, Idle, Moving
<1>2. TypeInv /\ Paired /\ [Next]_vars /\ [RowsLeftAlone]_vars => (TypeInv /\ Paired)'
  BY NextTypeInv, NextPaired
<1>. QED  BY <1>1, <1>2, PTL DEF Spec

\* A truck's new manager leads all its open trips when the request is done, if
\* meanwhile no other request moves a trip onto the truck or hands one over.
THEOREM LeadersFollow == Spec /\ [][RowsLeftAlone]_vars => []LeadersFollowTruck
<1>1. Paired => LeadersFollowTruck
  BY DEF Paired, Led, LeadersFollowTruck, OpenOn
<1>. QED  BY <1>1, AlwaysPaired, PTL

\* An exchange leaves the two trips on the two trucks, each with the driver of
\* its truck, if meanwhile no other request writes these trips and trucks.
THEOREM SwapsEndApart == Spec /\ [][RowsLeftAlone]_vars => []SwapEndsApart
<1>1. Paired => SwapEndsApart
  BY DEF Paired, Exchange, Moves, MovesBack, Moving, SwapEndsApart
<1>. QED  BY <1>1, AlwaysPaired, PTL

\* assignTruck leaves each trip it moves on a truck of the trip's manager, if
\* meanwhile no other request writes these trips and trucks.
THEOREM TrucksFollowTrips == Spec /\ [][RowsLeftAlone]_vars => []TruckFollowsTrip
<1>1. TypeInv /\ Paired => TruckFollowsTrip
  BY DEF Paired, Exchange, Moves, MovesBack, Moving, TruckFollowsTrip
<1>. QED  BY <1>1, AlwaysPaired, PTL

=============================================================================
