---------------------------- MODULE ChatSessions ----------------------------
(***************************************************************************)
(* The life of a trip's chat sessions: the two participants in the Trip    *)
(* row and the TripChatSession rows that follow them.                      *)
(*                                                                         *)
(* A request handler is an asynchronous function that issues one database  *)
(* statement at a time.  It is modelled as a worker that keeps what it has *)
(* read in a task and takes one step per statement, or per half of a       *)
(* transaction: what the transaction reads, then what it commits.  A       *)
(* handler that changes several trips has further tasks waiting.  A worker *)
(* may die between two statements.                                         *)
(*                                                                         *)
(* Postgres runs at READ COMMITTED and nothing locks the trip, so the      *)
(* statements of two workers interleave freely.  One worker is the case in *)
(* which the reassignments of the trips do not overlap.                    *)
(*                                                                         *)
(* Trucks are left out: which trips share a truck, and who drives it, is   *)
(* any choice.  Drivers and Managers are the company's own users.          *)
(*                                                                         *)
(* A definition marked Mutant is a faulty form of the one that follows it, *)
(* which no behaviour of Spec uses.                                        *)
(***************************************************************************)
CONSTANTS
    Trips,          \* trip ids
    Drivers,        \* the company's users with the role DRIVER
    Managers,       \* the company's users with a role of MANAGER_ROLES
    Sessions,       \* the TripChatSession ids the instance may allocate
    Workers,        \* handlers that change trips' participants
    None            \* NULL

\* REASSIGNED stands for DRIVER_CHANGED, MANAGER_CHANGED and TRUCK_CHANGED.
EndReasons == {"REASSIGNED", "TRIP_COMPLETED"}

ASSUME NoneIsNoId ==
    None \notin Trips \cup Drivers \cup Managers \cup Sessions \cup EndReasons

VARIABLES
    trip,       \* the Trip rows
    session,    \* the TripChatSession rows
    job,        \* job[w]: the task worker w is at
    rest,       \* rest[w]: the tasks its handler has still to do
    torn        \* history: trips whose last change died half way

vars == <<trip, session, job, rest, torn>>

Users == Drivers \cup Managers

\* open: the status is one of ACTIVE_STATUSES; closed: it is DELIVERED;
\* deleted: deletedAt is set, and the status no longer matters.
TripStates == {"none", "open", "closed", "deleted"}

NoTrip == [driver |-> None, manager |-> None, state |-> "none"]

TripRows == {NoTrip} \cup [driver : Drivers, manager : Managers,
                          state : TripStates \ {"none"}]

NoSession == [trip |-> None, driver |-> None, manager |-> None, end |-> None]

NewSession(t, d, m) == [trip |-> t, driver |-> d, manager |-> m, end |-> None]

SessionRows == {NoSession} \cup [trip : Trips, driver : Drivers,
                                manager : Managers, end : EndReasons \cup {None}]

Exists(t) == trip[t].state # "none"

\* where: { id, deletedAt: null }
Live(t) == trip[t].state \in {"open", "closed"}

\* What an update of the status leaves of a row's state.
Restate(t, state) == IF Live(t) THEN state ELSE trip[t].state

\* where: { tripId, endedAt: null }
Active(t) == {s \in Sessions : session[s].trip = t /\ session[s].end = None}

\* What findFirst on the active sessions may return: any of them, or null.
ActiveReads(t) == IF Active(t) = {} THEN {None} ELSE Active(t)

FreeSessions == {s \in Sessions : session[s] = NoSession}

\* The sessions of t that u drove or managed.
SessionsOf(t, u) ==
    {s \in Sessions : /\ session[s].trip = t
                      /\ u \in {session[s].driver, session[s].manager}}

-----------------------------------------------------------------------------
(* Tasks.  driver and manager are the pair the next session will get, act  *)
(* the active session the task has read; changed: the chat changes hands.  *)

Idle == [pc |-> "idle", trip |-> None, driver |-> None, manager |-> None,
         act |-> None, changed |-> FALSE]

\* Tasks that know the pair, and those that need not or do not yet know it.
PairTasks(pcs, acts) ==
    [pc : pcs, trip : Trips, driver : Drivers, manager : Managers,
     act : acts, changed : BOOLEAN]

MoveTasks ==
    [pc : {"setTruck"}, trip : Trips, driver : Drivers, manager : {None},
     act : {None}, changed : {TRUE}]

CloseTasks(pcs, acts) ==
    [pc : pcs, trip : Trips, driver : {None}, manager : {None},
     act : acts, changed : {FALSE}]

Tasks ==
    {Idle} \cup MoveTasks
    \cup PairTasks({"openInitial", "setDriver", "setManager", "txRead"}, {None})
    \cup PairTasks({"txCommit"}, Sessions \cup {None})
    \cup CloseTasks({"complete", "closeRead"}, {None})
    \cup CloseTasks({"closeWrite"}, Sessions)

\* What a handler leaves for later: the other trips it changes.
LaterTasks ==
    MoveTasks \cup PairTasks({"setManager"}, {None}) \cup CloseTasks({"complete"}, {None})

OpenTask(t, d, m) ==
    [Idle EXCEPT !.pc = "openInitial", !.trip = t, !.driver = d, !.manager = m]

\* Mutant: the drivers are compared after the update.
DriverTaskAfterUpdate(t, d) ==
    [Idle EXCEPT !.pc = "setDriver", !.trip = t, !.driver = d,
                 !.manager = trip[t].manager]

\* The manager of the next session is the one read with the old driver, and
\* the driver the one read with the old manager.
DriverTask(t, d) ==
    [Idle EXCEPT !.pc = "setDriver", !.trip = t, !.driver = d,
                 !.manager = trip[t].manager,
                 !.changed = (trip[t].driver # d)]

ManagerTask(t, m) ==
    [Idle EXCEPT !.pc = "setManager", !.trip = t, !.driver = trip[t].driver,
                 !.manager = m,
                 !.changed = (trip[t].manager # m)]

TruckTask(t, d) ==
    [Idle EXCEPT !.pc = "setTruck", !.trip = t, !.driver = d,
                 !.changed = TRUE]

CompleteTask(t) == [Idle EXCEPT !.pc = "complete", !.trip = t]

TypeOK ==
    /\ trip \in [Trips -> TripRows]
    /\ session \in [Sessions -> SessionRows]
    /\ job \in [Workers -> Tasks]
    /\ rest \in [Workers -> SUBSET LaterTasks]
    /\ torn \subseteq Trips

Init ==
    /\ trip = [t \in Trips |-> NoTrip]
    /\ session = [s \in Sessions |-> NoSession]
    /\ job = [w \in Workers |-> Idle]
    /\ rest = [w \in Workers |-> {}]
    /\ torn = {}

Busy(w) == job[w].pc # "idle"

\* An idle worker takes up a request.
Start(w, task, others) ==
    /\ ~Busy(w)
    /\ job' = [job EXCEPT ![w] = task]
    /\ rest' = [rest EXCEPT ![w] = others]

\* The task is done: on to another one, or the handler returns.
Done(w) ==
    \/ /\ rest[w] = {}
       /\ job' = [job EXCEPT ![w] = Idle]
       /\ UNCHANGED rest
    \/ \E task \in rest[w] :
         /\ job' = [job EXCEPT ![w] = task]
         /\ rest' = [rest EXCEPT ![w] = rest[w] \ {task}]

-----------------------------------------------------------------------------
(* The handlers' first steps.                                              *)

\* TripsService.create inserts the row and opens the first session after it.
Create(w, t, d, m) ==
    /\ ~Exists(t)
    /\ trip' = [trip EXCEPT ![t] = [driver |-> d, manager |-> m,
                                         state |-> "open"]]
    /\ Start(w, OpenTask(t, d, m), {})
    /\ UNCHANGED <<session, torn>>

\* TripsService.assignDriver and assignManager read the trip.
AssignDriver(w, t, d) ==
    /\ Live(t)
    /\ Start(w, DriverTask(t, d), {})
    /\ UNCHANGED <<trip, session, torn>>

AssignManager(w, t, m) ==
    /\ Live(t)
    /\ Start(w, ManagerTask(t, m), {})
    /\ UNCHANGED <<trip, session, torn>>

\* TripsService.assignTruck: the trip moves to a truck driven by d.  An open
\* trip b that stands in the way moves to the truck driven by e (SWAP) or is
\* completed (COMPLETE_OTHER).
AssignTruck(w, t, d, b, e) ==
    /\ Live(t)
    /\ \E others \in {{}, {TruckTask(b, e)}, {CompleteTask(b)}} :
         /\ others # {} => b # t /\ trip[b].state = "open"
         /\ Start(w, TruckTask(t, d), others)
    /\ UNCHANGED <<trip, session, torn>>

\* TrucksService.update with a new manager m: every open trip of the truck
\* that somebody else leads, in no particular order.
ChangeTruckManager(w, m) ==
    /\ \E onTruck \in SUBSET {t \in Trips : /\ trip[t].state = "open"
                                              /\ trip[t].manager # m} :
         \E first \in onTruck :
            Start(w, ManagerTask(first, m),
                  {ManagerTask(t, m) : t \in onTruck \ {first}})
    /\ UNCHANGED <<trip, session, torn>>

-----------------------------------------------------------------------------
(* The statements that follow.                                             *)

OpenInitial(w) ==
    LET j == job[w] IN
    /\ j.pc = "openInitial"
    /\ \E s \in FreeSessions :
         session' = [session EXCEPT ![s] = NewSession(j.trip, j.driver, j.manager)]
    /\ Done(w)
    /\ UNCHANGED <<trip, torn>>

\* The row is updated; the chat is handed over if the participant differs
\* from the one read.
HandOverOrDone(w) ==
    IF job[w].changed
    THEN job' = [job EXCEPT ![w].pc = "txRead"] /\ UNCHANGED rest
    ELSE Done(w)

SetDriver(w) ==
    LET j == job[w] IN
    /\ j.pc = "setDriver"
    /\ trip' = [trip EXCEPT ![j.trip].driver = j.driver]
    /\ HandOverOrDone(w)
    /\ UNCHANGED <<session, torn>>

SetManager(w) ==
    LET j == job[w] IN
    /\ j.pc = "setManager"
    /\ trip' = [trip EXCEPT ![j.trip].manager = j.manager]
    /\ HandOverOrDone(w)
    /\ UNCHANGED <<session, torn>>

\* Mutant: the manager is not taken from the updated row.
SetTruckPairUnread(w) ==
    LET j == job[w] IN
    /\ j.pc = "setTruck"
    /\ trip' = [trip EXCEPT ![j.trip].driver = j.driver,
                           ![j.trip].state = Restate(j.trip, "open")]
    /\ job' = [job EXCEPT ![w].pc = "txRead"]
    /\ UNCHANGED <<session, rest, torn>>

\* moveTripToTruck: the status goes back to ASSIGNED, and the update returns
\* the manager the row has now.
SetTruck(w) ==
    LET j == job[w] IN
    /\ j.pc = "setTruck"
    /\ trip' = [trip EXCEPT ![j.trip].driver = j.driver,
                           ![j.trip].state = Restate(j.trip, "open")]
    /\ job' = [job EXCEPT ![w].pc = "txRead", ![w].manager = trip[j.trip].manager]
    /\ UNCHANGED <<session, rest, torn>>

\* closeAndOpenNew: the transaction reads the active session ...
TxRead(w) ==
    LET j == job[w] IN
    /\ j.pc = "txRead"
    /\ \E s \in ActiveReads(j.trip) :
         job' = [job EXCEPT ![w].pc = "txCommit", ![w].act = s]
    /\ UNCHANGED <<trip, session, rest, torn>>

\* Mutants: the old session is left open, every session of the trip is closed
\* again, the session is given to the new pair.
HandOverKeepsOld(j, s) ==
    [session EXCEPT ![s] = NewSession(j.trip, j.driver, j.manager)]

HandOverClosesAll(j, s) ==
    [r \in Sessions |->
        IF r = s THEN NewSession(j.trip, j.driver, j.manager)
        ELSE IF session[r].trip = j.trip
             THEN [session[r] EXCEPT !.end = "REASSIGNED"]
        ELSE session[r]]

HandOverInPlace(j, s) ==
    [session EXCEPT ![IF j.act = None THEN s ELSE j.act] =
        NewSession(j.trip, j.driver, j.manager)]

\* ... and closes it by its id, whatever happened to it since, and opens s.
HandOver(j, s) ==
    [r \in Sessions |->
        IF r = s THEN NewSession(j.trip, j.driver, j.manager)
        ELSE IF r = j.act THEN [session[r] EXCEPT !.end = "REASSIGNED"]
        ELSE session[r]]

TxCommit(w) ==
    LET j == job[w] IN
    /\ j.pc = "txCommit"
    /\ \E s \in FreeSessions : session' = HandOver(j, s)
    /\ torn' = torn \ {j.trip}
    /\ Done(w)
    /\ UNCHANGED trip

\* COMPLETE_OTHER: the blocking trip is delivered and its session closed
\* without a successor.
CompleteOther(w) ==
    LET j == job[w] IN
    /\ j.pc = "complete"
    /\ trip' = [trip EXCEPT ![j.trip].state = Restate(j.trip, "closed")]
    /\ job' = [job EXCEPT ![w].pc = "closeRead"]
    /\ UNCHANGED <<session, rest, torn>>

CloseRead(w) ==
    LET j == job[w] IN
    /\ j.pc = "closeRead"
    /\ \E s \in ActiveReads(j.trip) :
         IF s = None
         THEN Done(w)
         ELSE job' = [job EXCEPT ![w].pc = "closeWrite", ![w].act = s]
              /\ UNCHANGED rest
    /\ UNCHANGED <<trip, session, torn>>

CloseWrite(w) ==
    LET j == job[w] IN
    /\ j.pc = "closeWrite"
    /\ session' = [session EXCEPT ![j.act].end = "TRIP_COMPLETED"]
    /\ Done(w)
    /\ UNCHANGED <<trip, torn>>

\* The process stops, or a statement fails, between two statements: what was
\* committed stays, the rest never happens.
Die(w) ==
    /\ Busy(w)
    /\ torn' = IF job[w].pc \in {"openInitial", "txRead", "txCommit"}
               THEN torn \cup {job[w].trip} ELSE torn
    /\ job' = [job EXCEPT ![w] = Idle]
    /\ rest' = [rest EXCEPT ![w] = {}]
    /\ UNCHANGED <<trip, session>>

-----------------------------------------------------------------------------
(* Handlers of one statement on the trip row.                              *)

\* updateStatus and driverUpdateStatus leave the chat sessions alone.
SetStatus(t, state) ==
    /\ Live(t)
    /\ state # trip[t].state
    /\ trip' = [trip EXCEPT ![t].state = state]
    /\ UNCHANGED <<session, job, rest, torn>>

\* TripsService.remove: a soft delete.
Remove(t) ==
    /\ Live(t)
    /\ trip' = [trip EXCEPT ![t].state = "deleted"]
    /\ UNCHANGED <<session, job, rest, torn>>

-----------------------------------------------------------------------------
WorkerStep(w) ==
    \/ \E t \in Trips, d \in Drivers, m \in Managers : Create(w, t, d, m)
    \/ \E t \in Trips, d \in Drivers : AssignDriver(w, t, d)
    \/ \E t \in Trips, m \in Managers : AssignManager(w, t, m)
    \/ \E t, b \in Trips, d, e \in Drivers : AssignTruck(w, t, d, b, e)
    \/ \E m \in Managers : ChangeTruckManager(w, m)
    \/ OpenInitial(w)
    \/ SetDriver(w) \/ SetManager(w) \/ SetTruck(w)
    \/ TxRead(w) \/ TxCommit(w)
    \/ CompleteOther(w) \/ CloseRead(w) \/ CloseWrite(w)
    \/ Die(w)

Next ==
    \/ \E w \in Workers : WorkerStep(w)
    \/ \E t \in Trips, state \in {"open", "closed"} : SetStatus(t, state)
    \/ \E t \in Trips : Remove(t)

Spec == Init /\ [][Next]_vars

-----------------------------------------------------------------------------
(* Properties.                                                             *)

\* A trip whose participants nobody is changing, and whose last change ran to
\* its end.
Settled(t) ==
    /\ Exists(t)
    /\ t \notin torn
    /\ \A w \in Workers : job[w].trip # t

\* COMPLETE_OTHER closed the chat and nobody has been assigned since.
ChatCompleted(t) ==
    /\ Active(t) = {}
    /\ \E s \in Sessions : session[s].trip = t /\ session[s].end = "TRIP_COMPLETED"

\* A trip never has two chat sessions that have not ended: closeAndOpenNew
\* reads the active session and closes the one it read, and openInitial and
\* closeActive trust that nobody is between the two.
AtMostOneActive ==
    \A t \in Trips : \A r, s \in Active(t) : r = s

\* When no change is under way, the trip's chat is the chat of the driver and
\* the manager its row names, although each handler updates the row and hands
\* the chat over in separate statements, with a participant read before.
ChatMatchesTrip ==
    \A t \in Trips : Settled(t) /\ ~ChatCompleted(t) =>
        \E s \in Active(t) : /\ session[s].driver = trip[t].driver
                             /\ session[s].manager = trip[t].manager

\* getVisibleSessionIds: the live view of somebody who is not an ADMIN.
VisibleSessions(t, u) ==
    {s \in Sessions :
        /\ Live(t)
        /\ session[s].trip = t
        /\ \/ trip[t].driver = u /\ session[s].driver = u
           \/ trip[t].manager = u /\ session[s].manager = u}

\* Mutant: the live view's rule applied to the archive.
ArchivedForCurrent(t, u) == {s \in VisibleSessions(t, u) : session[s].end # None}

\* findArchived: the ended sessions u took part in.
ArchivedSessions(t, u) == {s \in SessionsOf(t, u) : session[s].end # None}

\* Nobody loses a conversation they took part in: what the live view no longer
\* shows to a replaced driver or manager has ended, so the archive shows it.
NoHistoryLost ==
    \A t \in Trips : Settled(t) /\ Live(t) =>
        \A u \in Users :
            SessionsOf(t, u) \subseteq VisibleSessions(t, u) \cup ArchivedSessions(t, u)

\* A conversation that has ended stays ended, for the reason it ended: a
\* handler closes by id a session it read earlier.
EndedForGood ==
    [][\A s \in Sessions :
         session[s].end # None => session'[s].end = session[s].end]_vars

\* The rows and the handlers implement the abstract chat: in particular the
\* close of one session and the opening of the next are one step.
PairOf(s) ==
    IF session[s].trip = None THEN None
    ELSE <<session[s].trip, session[s].driver, session[s].manager>>

Chat == INSTANCE PairChat WITH
            going <- [t \in Trips |-> Active(t)],
            pair <- [s \in Sessions |-> PairOf(s)]

ImplementsPairChat == Chat!Spec

=============================================================================
