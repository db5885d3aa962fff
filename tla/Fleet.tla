------------------------------- MODULE Fleet -------------------------------
(***************************************************************************)
(* Who drives a truck, who manages it, and which trips are on it.          *)
(*                                                                         *)
(* A truck changes hands from two sides, its own card (TrucksService) and  *)
(* its driver's (UsersService), and trips move between trucks              *)
(* (TripsService.assignTruck).  As in ChatSessions, a handler is a worker  *)
(* that keeps what it has read in task[w] and takes one step per           *)
(* statement; it may die between two of them.  One worker is the case in   *)
(* which such requests do not overlap.                                     *)
(*                                                                         *)
(* The chats of the trips are in ChatSessions.  Trucks exist from the      *)
(* start, without a driver.  Of the pushes, those that tell a driver which *)
(* truck is theirs are kept, in told.                                      *)
(*                                                                         *)
(* A definition marked Mutant is a faulty form of the one that follows it. *)
(***************************************************************************)
CONSTANTS
    Trucks,         \* the company's trucks
    Trips,          \* trip ids
    Drivers,        \* the company's users with the role DRIVER
    Managers,       \* the company's users with a role of MANAGER_ROLES
    Workers,        \* handlers of requests
    None,           \* NULL
    Keep,           \* a field that a request leaves out
    Unsaid          \* the driver was not told, as the request broke off

ASSUME NoIds ==
    /\ None # Keep /\ Unsaid # None
    /\ {None, Keep, Unsaid} \cap (Trucks \cup Trips \cup Drivers \cup Managers) = {}

VARIABLES
    truck,          \* truck[k]: currentDriverId and managerId
    trip,           \* the Trip rows
    gone,           \* drivers who changed company (DriverTransfers)
    told,           \* told[d]: the truck d was last told to be theirs
    task            \* task[w]: what worker w has read and has still to do

vars == <<truck, trip, gone, told, task>>

TruckRows == [driver : Drivers \cup {None}, manager : Managers \cup {None}]

\* open: one of ACTIVE_STATUSES; deleted: deletedAt is set.
NoTrip == [truck |-> None, driver |-> None, manager |-> None, state |-> "none"]

TripRows == {NoTrip} \cup [truck : Trucks, driver : Drivers, manager : Managers,
                           state : {"open", "closed", "deleted"}]

\* truck, driver, manager: what the request asks for, or the truck and the
\* driver a trip moves to and the manager that trip has.
\* oldDriver, oldManager: what that truck had; prev: the driver's other truck.
\* block: the trip in the way, blockManager its manager; source, sourceDriver:
\* the truck the trip leaves and its driver.
Idle == [pc |-> "idle", truck |-> None, driver |-> None, manager |-> None,
         oldDriver |-> None, oldManager |-> None, prev |-> None,
         trip |-> None, trips |-> {}, mode |-> "plain", block |-> None,
         blockManager |-> None, source |-> None, sourceDriver |-> None]

Steps == {"idle", "findPrevious", "detach", "write", "announce", "findTrips",
          "leaders", "release", "releaseOthers", "take", "announceCard",
          "moveTrip", "moveBlocking", "complete", "sync", "synced"}

Tasks == [pc : Steps, truck : Trucks \cup {None},
          driver : Drivers \cup {None, Keep}, manager : Managers \cup {None, Keep},
          oldDriver : Drivers \cup {None}, oldManager : Managers \cup {None},
          prev : Trucks \cup {None}, trip : Trips \cup {None},
          trips : SUBSET Trips, mode : {"plain", "SWAP", "COMPLETE_OTHER"},
          block : Trips \cup {None}, blockManager : Managers \cup {None},
          source : Trucks \cup {None}, sourceDriver : Drivers \cup {None}]

TypeOK ==
    /\ truck \in [Trucks -> TruckRows]
    /\ trip \in [Trips -> TripRows]
    /\ gone \subseteq Drivers
    /\ told \in [Drivers -> Trucks \cup {None, Unsaid}]
    /\ task \in [Workers -> Tasks]

Init ==
    /\ truck \in [Trucks -> [driver : {None}, manager : Managers \cup {None}]]
    /\ trip = [t \in Trips |-> NoTrip]
    /\ gone = {}
    /\ told = [d \in Drivers |-> None]
    /\ task = [w \in Workers |-> Idle]

Open(t) == trip[t].state = "open"

Live(t) == trip[t].state \in {"open", "closed"}

OpenOn(k) == {t \in Trips : Open(t) /\ trip[t].truck = k}

TrucksOf(d) == {k \in Trucks : truck[k].driver = d}

\* What findFirst returns of a set of rows.
FirstOf(S) == IF S = {} THEN {None} ELSE S

Free(w) == task[w] = Idle

Goto(w, pc) == task' = [task EXCEPT ![w].pc = pc]

Return(w) == task' = [task EXCEPT ![w] = Idle]

\* The unique index on currentDriverId rejects k for d.
Rejected(k, d) == d \in Drivers /\ TrucksOf(d) \ {k} # {}

\* The request ends where it is, by an error or with its process.  The driver
\* it has taken off a truck, or put on one, is not told; nor is the one whose
\* truck it has just written.
BreakOff(w) ==
    LET j == task[w]
        carded == \/ j.pc \in {"releaseOthers", "take", "announceCard"}
                  \/ j.pc = "write" /\ j.prev # None
        written == j.pc = "announce" /\ j.driver \notin {Keep, j.oldDriver}
        untold == (IF carded THEN {j.driver} ELSE {})
                  \cup (IF written THEN {j.driver, j.oldDriver} ELSE {})
    IN
    /\ Return(w)
    /\ told' = [d \in Drivers |-> IF d \in untold THEN Unsaid ELSE told[d]]

-----------------------------------------------------------------------------
(* TrucksService.update.                                                   *)

\* Mutant: the driver's other truck is not looked for.
UpdateTruckAtOnce(w, k, d, m) ==
    /\ Free(w)
    /\ d \notin gone
    /\ task' = [task EXCEPT ![w] =
         [Idle EXCEPT !.pc = "write", !.truck = k, !.driver = d, !.manager = m,
                      !.oldDriver = truck[k].driver,
                      !.oldManager = truck[k].manager]]
    /\ UNCHANGED <<truck, trip, gone, told>>

\* findOne and assertRefs: the truck as it is, a driver still of the company.
UpdateTruck(w, k, d, m) ==
    /\ Free(w)
    /\ d \notin gone
    /\ task' = [task EXCEPT ![w] =
         [Idle EXCEPT !.pc = IF d \in Drivers /\ d # truck[k].driver
                             THEN "findPrevious" ELSE "write",
                      !.truck = k, !.driver = d, !.manager = m,
                      !.oldDriver = truck[k].driver,
                      !.oldManager = truck[k].manager]]
    /\ UNCHANGED <<truck, trip, gone, told>>

FindPrevious(w) ==
    LET j == task[w] IN
    /\ j.pc = "findPrevious"
    /\ \E p \in FirstOf(TrucksOf(j.driver) \ {j.truck}) :
         task' = [task EXCEPT ![w].pc = IF p = None THEN "write" ELSE "detach",
                              ![w].prev = p]
    /\ UNCHANGED <<truck, trip, gone, told>>

\* The other truck is freed by its id.
Detach(w) ==
    LET j == task[w] IN
    /\ j.pc = "detach"
    /\ truck' = [truck EXCEPT ![j.prev].driver = None]
    /\ Goto(w, "write")
    /\ UNCHANGED <<trip, gone, told>>

\* prisma.truck.update with the fields the request names.
WriteTruck(w) ==
    LET j == task[w]
        new == [driver |-> IF j.driver = Keep THEN truck[j.truck].driver ELSE j.driver,
                manager |-> IF j.manager = Keep THEN truck[j.truck].manager ELSE j.manager]
    IN
    /\ j.pc = "write"
    /\ IF Rejected(j.truck, j.driver)
       THEN BreakOff(w) /\ UNCHANGED truck
       ELSE /\ truck' = [truck EXCEPT ![j.truck] = new]
            /\ Goto(w, "announce")
            /\ UNCHANGED told
    /\ UNCHANGED <<trip, gone>>

\* The pushes to the driver who gets the truck and the one who loses it; then,
\* if the manager changed, on to the truck's trips.
Announce(w) ==
    LET j == task[w]
        driverChanged == j.driver \notin {Keep, j.oldDriver}
        managerChanged == j.manager \notin {Keep, None, j.oldManager}
    IN
    /\ j.pc = "announce"
    /\ told' = [d \in Drivers |->
                  IF driverChanged /\ d = j.driver THEN j.truck
                  ELSE IF driverChanged /\ d = j.oldDriver THEN None
                  ELSE told[d]]
    /\ IF managerChanged THEN Goto(w, "findTrips") ELSE Return(w)
    /\ UNCHANGED <<truck, trip, gone>>

\* Mutant: findFirst, one open trip of the truck.
FindOneTrip(w) ==
    LET j == task[w] IN
    /\ j.pc = "findTrips"
    /\ \E t \in FirstOf({x \in OpenOn(j.truck) : trip[x].manager # j.manager}) :
         task' = [task EXCEPT ![w].pc = "leaders", ![w].trips = {t} \ {None}]
    /\ UNCHANGED <<truck, trip, gone, told>>

\* activeTrips, without those the loop will skip.
FindTrips(w) ==
    LET j == task[w] IN
    /\ j.pc = "findTrips"
    /\ task' = [task EXCEPT ![w].pc = "leaders",
                            ![w].trips = {t \in OpenOn(j.truck) :
                                            trip[t].manager # j.manager}]
    /\ UNCHANGED <<truck, trip, gone, told>>

ChangeLeader(w) ==
    LET j == task[w] IN
    /\ j.pc = "leaders"
    /\ \E t \in j.trips :
         /\ trip' = [trip EXCEPT ![t].manager = j.manager]
         /\ task' = [task EXCEPT ![w].trips = j.trips \ {t}]
    /\ UNCHANGED <<truck, gone, told>>

-----------------------------------------------------------------------------
(* UsersService.updateDriver with a truck, or with null for k.             *)

UpdateDriver(w, d, k) ==
    /\ Free(w)
    /\ d \notin gone
    /\ \E p \in FirstOf(TrucksOf(d)) :
         task' = [task EXCEPT ![w] =
           [Idle EXCEPT !.pc = "release", !.truck = k, !.driver = d, !.prev = p]]
    /\ UNCHANGED <<truck, trip, gone, told>>

\* The two updateMany: every truck of the driver, then every other truck.
Release(w) ==
    LET j == task[w]
        freed == IF j.pc = "release" THEN TrucksOf(j.driver)
                                     ELSE TrucksOf(j.driver) \ {j.truck}
    IN
    /\ j.pc \in {"release", "releaseOthers"}
    /\ truck' = [k \in Trucks |-> IF k \in freed
                                  THEN [truck[k] EXCEPT !.driver = None]
                                  ELSE truck[k]]
    /\ Goto(w, IF j.pc = "releaseOthers" THEN "take"
               ELSE IF j.truck = None THEN "announceCard" ELSE "releaseOthers")
    /\ UNCHANGED <<trip, gone, told>>

\* The truck is overwritten, whoever drives it.
Take(w) ==
    LET j == task[w] IN
    /\ j.pc = "take"
    /\ IF Rejected(j.truck, j.driver)
       THEN BreakOff(w) /\ UNCHANGED truck
       ELSE /\ truck' = [truck EXCEPT ![j.truck].driver = j.driver]
            /\ Goto(w, "announceCard")
            /\ UNCHANGED told
    /\ UNCHANGED <<trip, gone>>

\* Mutant: a driver who had no truck is not told of the new one.
AnnounceCardIfMoved(w) ==
    LET j == task[w] IN
    /\ j.pc = "announceCard"
    /\ told' = [told EXCEPT ![j.driver] =
                  IF j.prev # None /\ j.truck # j.prev THEN j.truck ELSE @]
    /\ Return(w)
    /\ UNCHANGED <<truck, trip, gone>>

\* truckChanged: the driver of the card is told; nobody else is.
AnnounceCard(w) ==
    LET j == task[w] IN
    /\ j.pc = "announceCard"
    /\ told' = [told EXCEPT ![j.driver] = IF j.truck # j.prev THEN j.truck ELSE @]
    /\ Return(w)
    /\ UNCHANGED <<truck, trip, gone>>

\* Mutant: the truck keeps its driver.
LeaveWithTruck(w, d) ==
    /\ Free(w)
    /\ d \notin gone
    /\ gone' = gone \cup {d}
    /\ UNCHANGED <<truck, trip, told, task>>

\* DriverTransfersService.accept, one transaction; the app's sessions end.  The
\* erasure of an account is in Accounts: updateDriver does not look for it.
Leave(w, d) ==
    /\ Free(w)
    /\ d \notin gone
    /\ gone' = gone \cup {d}
    /\ truck' = [k \in Trucks |-> IF truck[k].driver = d
                                  THEN [truck[k] EXCEPT !.driver = None]
                                  ELSE truck[k]]
    /\ told' = [told EXCEPT ![d] = None]
    /\ UNCHANGED <<trip, task>>

-----------------------------------------------------------------------------
(* TripsService.assignTruck.                                               *)

\* Mutant: a truck without a driver will do.
KnownTruck(k) == k \in Trucks

\* Else the answer is truckHasNoDriver.
Crewed(k) == truck[k].driver # None

\* The reads.  b is the trip in the way, the newest of the open trips of k;
\* age is left out, so it is any of them.  Without onConflict the request is
\* refused, and SWAP needs a driver on the truck the trip leaves.
AssignTruck(w, t, k, b, mode) ==
    LET source == trip[t].truck IN
    /\ Free(w)
    /\ Live(t) /\ source # k
    /\ Crewed(k)
    /\ b \in FirstOf(OpenOn(k))
    /\ mode = "plain" <=> b = None
    /\ mode = "SWAP" => Crewed(source)
    /\ task' = [task EXCEPT ![w] =
         [Idle EXCEPT !.pc = "moveTrip", !.trip = t, !.truck = k,
                      !.driver = truck[k].driver, !.manager = trip[t].manager,
                      !.oldManager = truck[k].manager,
                      !.mode = mode, !.block = b,
                      !.blockManager = IF b = None THEN None ELSE trip[b].manager,
                      !.source = source, !.sourceDriver = truck[source].driver]]
    /\ UNCHANGED <<truck, trip, gone, told>>

\* moveTripToTruck: truck, driver and status in one update.
Moved(t, k, d) ==
    [trip[t] EXCEPT !.truck = k, !.driver = d,
                    !.state = IF @ = "deleted" THEN @ ELSE "open"]

MoveTrip(w) ==
    LET j == task[w] IN
    /\ j.pc = "moveTrip"
    /\ trip' = [trip EXCEPT ![j.trip] = Moved(j.trip, j.truck, j.driver)]
    /\ Goto(w, CASE j.mode = "SWAP" -> "moveBlocking"
                 [] j.mode = "COMPLETE_OTHER" -> "complete"
                 [] OTHER -> "sync")
    /\ UNCHANGED <<truck, gone, told>>

\* Mutant: the trip in the way keeps its driver.
MoveBlockingWithDriver(w) ==
    LET j == task[w] IN
    /\ j.pc = "moveBlocking"
    /\ trip' = [trip EXCEPT ![j.block] =
                  Moved(j.block, j.source, trip[j.block].driver)]
    /\ Goto(w, "sync")
    /\ UNCHANGED <<truck, gone, told>>

MoveBlocking(w) ==
    LET j == task[w] IN
    /\ j.pc = "moveBlocking"
    /\ trip' = [trip EXCEPT ![j.block] = Moved(j.block, j.source, j.sourceDriver)]
    /\ Goto(w, "sync")
    /\ UNCHANGED <<truck, gone, told>>

CompleteOther(w) ==
    LET j == task[w] IN
    /\ j.pc = "complete"
    /\ trip' = [trip EXCEPT ![j.block].state = IF @ = "deleted" THEN @ ELSE "closed"]
    /\ Goto(w, "sync")
    /\ UNCHANGED <<truck, gone, told>>

\* Mutant: the truck that was left goes to whoever had the other one.
SourceOwnerOfOld(j) == j.oldManager

\* sourceManagerId: null leaves the truck to its manager.
SourceOwner(j) == IF j.mode = "SWAP" THEN j.blockManager ELSE j.oldManager

\* syncTruckOwnership: both trucks in one transaction.
SyncOwners(w) ==
    LET j == task[w] IN
    /\ j.pc = "sync"
    /\ truck' = [k \in Trucks |->
         IF k = j.truck THEN [truck[k] EXCEPT !.manager =
                                IF j.oldManager # j.manager THEN j.manager ELSE @]
         ELSE IF k = j.source /\ SourceOwner(j) # None
              THEN [truck[k] EXCEPT !.manager = SourceOwner(j)]
         ELSE truck[k]]
    /\ Goto(w, "synced")
    /\ UNCHANGED <<trip, gone, told>>

\* The handler returns: after announceTruckManager, whose pushes and chat
\* lines are left out, or after the last trip of a truck's new manager.
Finish(w) ==
    /\ \/ task[w].pc = "synced"
       \/ task[w].pc = "leaders" /\ task[w].trips = {}
    /\ Return(w)
    /\ UNCHANGED <<truck, trip, gone, told>>

Die(w) ==
    /\ ~Free(w)
    /\ BreakOff(w)
    /\ UNCHANGED <<truck, trip, gone>>

-----------------------------------------------------------------------------
(* Handlers of one statement on the trip row.                              *)

\* TripsService.create: any driver and any truck of the company.
Create(w, t, k, d, m) ==
    /\ Free(w)
    /\ trip[t] = NoTrip
    /\ d \notin gone
    /\ trip' = [trip EXCEPT ![t] = [truck |-> k, driver |-> d, manager |-> m,
                                    state |-> "open"]]
    /\ UNCHANGED <<truck, gone, told, task>>

AssignDriver(w, t, d) ==
    /\ Free(w)
    /\ Live(t) /\ d \notin gone
    /\ trip' = [trip EXCEPT ![t].driver = d]
    /\ UNCHANGED <<truck, gone, told, task>>

AssignManager(w, t, m) ==
    /\ Free(w)
    /\ Live(t)
    /\ trip' = [trip EXCEPT ![t].manager = m]
    /\ UNCHANGED <<truck, gone, told, task>>

\* updateStatus back to an open status.
Reopen(w, t) ==
    /\ Free(w)
    /\ trip[t].state = "closed"
    /\ trip' = [trip EXCEPT ![t].state = "open"]
    /\ UNCHANGED <<truck, gone, told, task>>

\* updateStatus and driverUpdateStatus to DELIVERED, and remove: at any time.
Close(t, state) ==
    /\ Live(t) /\ state # trip[t].state
    /\ trip' = [trip EXCEPT ![t].state = state]
    /\ UNCHANGED <<truck, gone, told, task>>

-----------------------------------------------------------------------------
TruckRequest(w) ==
    \/ \E k \in Trucks, d \in Drivers \cup {None, Keep}, m \in Managers \cup {None, Keep} :
         UpdateTruck(w, k, d, m)
    \/ FindPrevious(w) \/ Detach(w) \/ WriteTruck(w) \/ Announce(w)
    \/ FindTrips(w) \/ ChangeLeader(w)
    \/ \E d \in Drivers, k \in Trucks \cup {None} : UpdateDriver(w, d, k)
    \/ Release(w) \/ Take(w) \/ AnnounceCard(w)
    \/ \E d \in Drivers : Leave(w, d)

TripRequest(w) ==
    \/ \E t \in Trips, k \in Trucks, b \in Trips \cup {None},
          mode \in {"plain", "SWAP", "COMPLETE_OTHER"} : AssignTruck(w, t, k, b, mode)
    \/ MoveTrip(w) \/ MoveBlocking(w) \/ CompleteOther(w) \/ SyncOwners(w)
    \/ \E t \in Trips, k \in Trucks, d \in Drivers, m \in Managers : Create(w, t, k, d, m)
    \/ \E t \in Trips, d \in Drivers : AssignDriver(w, t, d)
    \/ \E t \in Trips, m \in Managers : AssignManager(w, t, m)
    \/ \E t \in Trips : Reopen(w, t)

Next ==
    \/ \E w \in Workers : TruckRequest(w) \/ TripRequest(w) \/ Finish(w) \/ Die(w)
    \/ \E t \in Trips, state \in {"closed", "deleted"} : Close(t, state)

Spec == Init /\ [][Next]_vars

-----------------------------------------------------------------------------
(* Properties.                                                             *)

\* A truck that is about to be given to a driver is given: by then the driver
\* has no other truck, which the unique index would reject and the request
\* fail with the driver's old truck already taken away.
AttachIsFree ==
    \A w \in Workers : task[w].pc \in {"write", "take"} =>
        ~Rejected(task[w].truck, task[w].driver)

\* A driver who left the company holds none of its trucks, so that none is
\* kept from the next driver: whatever request comes before or after.
GoneHoldsNoTruck == \A k \in Trucks : truck[k].driver \notin gone

AllFree == \A w \in Workers : Free(w)

\* Whoever holds a truck has been told of it, and of no other since, from
\* whichever card it was given; unless the request broke off before it told.
HolderKnows ==
    AllFree => \A d \in Drivers \ gone : \A k \in TrucksOf(d) : told[d] \in {k, Unsaid}

\* Whoever was told of a truck and holds it no longer has been told that, too:
\* trucks.update pushes to "the driver who previously held THIS truck", and
\* updateDriver is to mirror it, "so both entry points (truck card and driver
\* card) feel identical".
LoserKnows ==
    AllFree => \A d \in Drivers \ gone : told[d] \in Trucks => truck[told[d]].driver = d

\* When the manager of a truck has changed, every open trip on it is led by
\* the new one, trips that were closed meanwhile set aside.
LeadersFollowTruck ==
    \A w \in Workers : task[w].pc = "leaders" /\ task[w].trips = {} =>
        \A t \in OpenOn(task[w].truck) : trip[t].manager = task[w].manager

\* A completed exchange leaves the two trips on the two trucks, each with the
\* driver who is on the truck, although three statements read and write them.
SwapEndsApart ==
    \A w \in Workers : task[w].pc = "sync" /\ task[w].mode = "SWAP" =>
        LET t == trip[task[w].trip]
            b == trip[task[w].block]
        IN  /\ t.truck # b.truck
            /\ t.driver = truck[t.truck].driver
            /\ b.driver = truck[b.truck].driver

\* After assignTruck each trip that moved is on a truck of its own manager:
\* the hand-over of the source truck to the wrong one once left a manager with
\* a trip on somebody else's truck and no access to its chat.
TruckFollowsTrip ==
    \A w \in Workers : task[w].pc = "synced" =>
        \A t \in {task[w].trip} \cup (IF task[w].mode = "SWAP" THEN {task[w].block} ELSE {}) :
            truck[trip[t].truck].manager = trip[t].manager

\* A truck that assignTruck gives to a manager is given to one with an open
\* trip on it, if there is any: "each truck goes to the manager of the trip
\* that is now on it", and "without an exchange the truck is simply free".
EachTruckWithItsTrip ==
    \A w \in Workers : task[w].pc = "synced" =>
        \A k \in {task[w].truck}
                   \cup (IF SourceOwner(task[w]) # None THEN {task[w].source} ELSE {}) :
            OpenOn(k) # {} =>
                truck[k].manager \in {trip[t].manager : t \in OpenOn(k)}

=============================================================================
