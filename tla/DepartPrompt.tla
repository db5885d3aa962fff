---------------------------- MODULE DepartPrompt ----------------------------
(***************************************************************************)
(* "Are we heading to loading?": the question a driver is asked about an   *)
(* accepted trip once nothing else is in progress, asked again until they  *)
(* set off, at most MaxPrompts times.                                      *)
(*                                                                         *)
(* Three kinds of actor touch departPromptCount and departPromptAt without *)
(* a lock: requests that change a trip's status, the driver's answers, and *)
(* the cron job that runs once a minute.  Each keeps what it has read of a *)
(* trip (a Look) and writes later.  Two cron jobs are two instances of the *)
(* program during a deployment, or a run that outlasts its minute.         *)
(*                                                                         *)
(* A trip's id is its rank by createdAt.  ON_WAY stands for ON_WAY,        *)
(* ON_SITE and LOADED, which differ only in which of two trips on the road *)
(* is current.  Trucks are reduced to whether the trip's truck is the one  *)
(* its driver drives now.                                                  *)
(***************************************************************************)
EXTENDS Naturals

CONSTANTS
    NTrips,         \* trips the instance may create
    Drivers,
    MaxPrompts,     \* DEPART_MAX_PROMPTS
    Requests,       \* HTTP requests in flight
    Crons,          \* runs of the cron job
    None            \* NULL

ASSUME PromptAssumption ==
    /\ NTrips \in Nat
    /\ MaxPrompts \in Nat \ {0}
    /\ None \notin Drivers \cup Nat

VARIABLES
    trip,           \* the Trip rows
    request,        \* request[r]: what request r has read
    cron,           \* cron[k]: what run k of the job has read
    asked,          \* history: questions sent since the count was last 0
    stood           \* history: trips the job stood down and nobody touched since

vars == <<trip, request, cron, asked, stood>>

Trips == 1 .. NTrips

Statuses == {"ASSIGNED", "ACCEPTED", "ON_WAY", "DELIVERED"}

\* at is departPromptAt: none, in the future, or due.
Ats == {"null", "later", "due"}

TripRows == [driver : Drivers \cup {None}, aboard : BOOLEAN,
             status : Statuses \cup {"none", "deleted"},
             count : 0 .. MaxPrompts, at : Ats]

NoTrip == [driver |-> None, aboard |-> FALSE, status |-> "none",
           count |-> 0, at |-> "null"]

\* A row whose deletedAt is set: no query looks at the rest of it again.
Deleted == [NoTrip EXCEPT !.status = "deleted"]

Live(t) == trip[t].status \in Statuses

-----------------------------------------------------------------------------
(* findMyActiveTrip: of the driver's open trips on the truck they drive    *)
(* now, the one furthest along, and of those the oldest.                   *)

ProgressRank == [s \in Statuses |->
    CASE s = "ON_WAY" -> 3 [] s = "ACCEPTED" -> 2 [] s = "ASSIGNED" -> 1
      [] OTHER -> 0]

Candidates(d) ==
    {t \in Trips : /\ trip[t].driver = d /\ trip[t].aboard
                   /\ trip[t].status \in Statuses \ {"DELIVERED"}}

Before(t, u) ==
    LET p == ProgressRank[trip[t].status]
        q == ProgressRank[trip[u].status]
    IN  p > q \/ (p = q /\ t <= u)

IsCurrent(t, d) ==
    /\ t \in Candidates(d)
    /\ \A u \in Candidates(d) : Before(t, u)

-----------------------------------------------------------------------------
(* What an actor has read of a trip.                                       *)

Looks == [trip : Trips, driver : Drivers, count : 0 .. MaxPrompts]

LookAt(t) == [trip |-> t, driver |-> trip[t].driver, count |-> trip[t].count]

\* look: None, or the trip read; driver: whose next trip is to be looked up.
Free == [pc |-> "idle", look |-> None, driver |-> None]

RequestStates ==
    {Free} \cup [pc : {"after"}, look : {None}, driver : Drivers]
           \cup [pc : {"claim", "no"}, look : Looks, driver : {None}]

Asleep == [pc |-> "idle", look |-> None, due |-> {}]

CronStates ==
    {Asleep} \cup [pc : {"next"}, look : {None}, due : SUBSET Looks]
             \cup [pc : {"standDown", "giveUp", "claim"}, look : Looks,
                   due : SUBSET Looks]

TypeOK ==
    /\ trip \in [Trips -> TripRows]
    /\ request \in [Requests -> RequestStates]
    /\ cron \in [Crons -> CronStates]
    /\ asked \in [Trips -> Nat]
    /\ stood \subseteq Trips

Init ==
    /\ trip = [t \in Trips |-> NoTrip]
    /\ request = [r \in Requests |-> Free]
    /\ cron = [k \in Crons |-> Asleep]
    /\ asked = [t \in Trips |-> 0]
    /\ stood = {}

-----------------------------------------------------------------------------
(* The trip row's own handlers.                                            *)

\* A count written as 0 starts a new round of questions.
WriteTrip(t, row) ==
    /\ trip' = [trip EXCEPT ![t] = row]
    /\ asked' = IF row.count = 0 THEN [asked EXCEPT ![t] = 0] ELSE asked
    /\ stood' = stood \ {t}

\* An update of the question by id, whatever became of the trip.
WriteQuestion(t, count, at) ==
    trip' = IF trip[t] = Deleted THEN trip
            ELSE [trip EXCEPT ![t].count = count, ![t].at = at]

Create(t, d, aboard) ==
    /\ trip[t] = NoTrip
    /\ \A u \in Trips : u < t => trip[u] # NoTrip
    /\ WriteTrip(t, [NoTrip EXCEPT !.driver = d, !.aboard = aboard,
                                   !.status = "ASSIGNED"])
    /\ UNCHANGED <<request, cron>>

\* departResetFor, applied to the row that gets the status.
WithStatus(row, status) ==
    [row EXCEPT
        !.status = status,
        !.at = IF status = "ACCEPTED" THEN @ ELSE "null",
        !.count = IF status = "ASSIGNED" THEN 0 ELSE @]

\* updateStatus and driverUpdateStatus: the row, then afterStatusChange.
UpdateStatus(r, t, status) ==
    /\ request[r].pc = "idle"
    /\ Live(t)
    /\ WriteTrip(t, WithStatus(trip[t], status))
    /\ request' = IF status \in {"ACCEPTED", "DELIVERED"}
                  THEN [request EXCEPT ![r] =
                          [Free EXCEPT !.pc = "after", !.driver = trip[t].driver]]
                  ELSE request
    /\ UNCHANGED cron

AssignDriver(t, d, aboard) ==
    /\ Live(t)
    /\ WriteTrip(t, [trip[t] EXCEPT !.driver = d, !.aboard = aboard])
    /\ UNCHANGED <<request, cron>>

\* moveTripToTruck: the trip is assigned anew, the question is not reset.
MoveToTruck(t, d) ==
    /\ Live(t)
    /\ WriteTrip(t, [trip[t] EXCEPT !.driver = d, !.aboard = TRUE,
                                    !.status = "ASSIGNED"])
    /\ UNCHANGED <<request, cron>>

\* assignTruck with COMPLETE_OTHER, past departResetFor and afterStatusChange.
CompleteOther(t) ==
    /\ Live(t) /\ trip[t].status # "DELIVERED"
    /\ WriteTrip(t, [trip[t] EXCEPT !.status = "DELIVERED"])
    /\ UNCHANGED <<request, cron>>

Remove(t) ==
    /\ Live(t)
    /\ WriteTrip(t, Deleted)
    /\ UNCHANGED <<request, cron>>

\* TrucksService.update: the truck gets this driver or another one.
ChangeTruckDriver(t) ==
    /\ Live(t)
    /\ trip' = [trip EXCEPT ![t].aboard = ~@]
    /\ UNCHANGED <<request, cron, asked, stood>>

\* Twenty minutes pass.
Elapse(t) ==
    /\ trip[t].at = "later"
    /\ trip' = [trip EXCEPT ![t].at = "due"]
    /\ UNCHANGED <<request, cron, asked, stood>>

-----------------------------------------------------------------------------
(* Asking.                                                                 *)

\* Mutant: the claim does not compare the counter.
ClaimableAlways(look) == trip[look.trip].status = "ACCEPTED"

\* The WHERE of the updateMany in sendDepartPrompt.
Claimable(look) ==
    /\ trip[look.trip].status = "ACCEPTED"
    /\ trip[look.trip].count = look.count

\* sendDepartPrompt: only who moves the counter asks.
SendDepartPrompt(look) ==
    LET t == look.trip IN
    IF Claimable(look)
    THEN /\ trip' = [trip EXCEPT ![t].count = look.count + 1, ![t].at = "later"]
         /\ asked' = [asked EXCEPT ![t] = @ + 1]
         /\ stood' = stood \ {t}
    ELSE UNCHANGED <<trip, asked, stood>>

\* afterStatusChange: is the driver's current trip an accepted one never asked
\* about?
AfterStatusChange(r) ==
    LET d == request[r].driver IN
    /\ request[r].pc = "after"
    /\ request' = [request EXCEPT ![r] =
         IF \E t \in Trips : IsCurrent(t, d) /\ trip[t].status = "ACCEPTED"
                             /\ trip[t].count = 0 /\ trip[t].at = "null"
         THEN [pc |-> "claim", driver |-> None,
               look |-> LookAt(CHOOSE t \in Trips : IsCurrent(t, d))]
         ELSE Free]
    /\ UNCHANGED <<trip, cron, asked, stood>>

ClaimAfterStatus(r) ==
    /\ request[r].pc = "claim"
    /\ SendDepartPrompt(request[r].look)
    /\ request' = [request EXCEPT ![r] = Free]
    /\ UNCHANGED cron

\* answerDepart with "No"; "Yes" is UpdateStatus with ON_WAY.
AnswerNo(r, t) ==
    /\ request[r].pc = "idle"
    /\ trip[t].status = "ACCEPTED"
    /\ request' = [request EXCEPT ![r] = [pc |-> "no", look |-> LookAt(t),
                                          driver |-> None]]
    /\ UNCHANGED <<trip, cron, asked, stood>>

\* Ask again in 20 minutes, or give up (giveUpDepartPrompt, which tells the
\* manager).
WriteAnswer(r) ==
    LET look == request[r].look IN
    /\ request[r].pc = "no"
    /\ WriteQuestion(look.trip, trip[look.trip].count,
                     IF look.count >= MaxPrompts THEN "null" ELSE "later")
    /\ stood' = stood \ {look.trip}
    /\ request' = [request EXCEPT ![r] = Free]
    /\ UNCHANGED <<cron, asked>>

-----------------------------------------------------------------------------
(* checkDepartPrompts.                                                     *)

Due == {t \in Trips : trip[t].status = "ACCEPTED" /\ trip[t].at = "due"}

CronTick(k) ==
    /\ cron[k].pc = "idle"
    /\ Due # {}
    /\ cron' = [cron EXCEPT ![k] = [pc |-> "next", look |-> None,
                                    due |-> {LookAt(t) : t \in Due}]]
    /\ UNCHANGED <<trip, request, asked, stood>>

\* Mutant: a trip asked about often enough is passed over.
CronPlanNoGiveUp(look) ==
    IF ~IsCurrent(look.trip, look.driver) THEN "standDown" ELSE "claim"

\* What the loop's body decides from the driver's current trip, read now, and
\* the count read before.
CronPlan(look) ==
    IF ~IsCurrent(look.trip, look.driver) THEN "standDown"
    ELSE IF look.count >= MaxPrompts THEN "giveUp" ELSE "claim"

\* The trips come in no particular order.
CronNext(k) ==
    /\ cron[k].pc = "next"
    /\ \/ /\ cron[k].due = {}
          /\ cron' = [cron EXCEPT ![k] = Asleep]
       \/ \E look \in cron[k].due :
            cron' = [cron EXCEPT ![k] = [pc |-> CronPlan(look), look |-> look,
                                         due |-> cron[k].due \ {look}]]
    /\ UNCHANGED <<trip, request, asked, stood>>

Proceed(k) ==
    cron' = [cron EXCEPT ![k] = [pc |-> "next", look |-> None, due |-> @.due]]

CronClaim(k) ==
    /\ cron[k].pc = "claim"
    /\ SendDepartPrompt(cron[k].look)
    /\ Proceed(k)
    /\ UNCHANGED request

\* Mutant: the manager is told, the question stays due.
CronGiveUpTellsOnly(k) ==
    /\ cron[k].pc = "giveUp"
    /\ Proceed(k)
    /\ UNCHANGED <<trip, request, asked, stood>>

CronGiveUp(k) ==
    LET t == cron[k].look.trip IN
    /\ cron[k].pc = "giveUp"
    /\ WriteQuestion(t, trip[t].count, "null")
    /\ Proceed(k)
    /\ UNCHANGED <<request, asked, stood>>

\* Another load became current meanwhile: ask no more, for now.
CronStandDown(k) ==
    LET t == cron[k].look.trip IN
    /\ cron[k].pc = "standDown"
    /\ WriteQuestion(t, 0, "null")
    /\ asked' = [asked EXCEPT ![t] = 0]
    /\ stood' = IF Live(t) THEN stood \cup {t} ELSE stood
    /\ Proceed(k)
    /\ UNCHANGED request

-----------------------------------------------------------------------------
RequestStep(r) == AfterStatusChange(r) \/ ClaimAfterStatus(r) \/ WriteAnswer(r)

CronStep(k) ==
    CronTick(k) \/ CronNext(k) \/ CronClaim(k) \/ CronGiveUp(k) \/ CronStandDown(k)

Next ==
    \/ \E t \in Trips, d \in Drivers, aboard \in BOOLEAN :
         Create(t, d, aboard) \/ AssignDriver(t, d, aboard)
    \/ \E t \in Trips, d \in Drivers : MoveToTruck(t, d)
    \/ \E t \in Trips : \/ CompleteOther(t) \/ Remove(t)
                        \/ ChangeTruckDriver(t) \/ Elapse(t)
    \/ \E r \in Requests, t \in Trips :
         AnswerNo(r, t) \/ \E status \in Statuses : UpdateStatus(r, t, status)
    \/ \E r \in Requests : RequestStep(r)
    \/ \E k \in Crons : CronStep(k)

\* The job runs again and again, and a run is carried through.
Spec == Init /\ [][Next]_vars /\ \A k \in Crons : WF_vars(CronStep(k))

\* Time passes too, and a request that was taken up is carried through.
FullyFairSpec ==
    /\ Spec
    /\ \A t \in Trips : WF_vars(Elapse(t))
    /\ \A r \in Requests : WF_vars(RequestStep(r))

-----------------------------------------------------------------------------
(* Properties.                                                             *)

\* Each question of a round is sent once: however many actors read the same
\* count, the driver gets as many questions as the count says ("the driver got
\* the question twice", sendDepartPrompt).
AskedOnce == \A t \in Trips : asked[t] = trip[t].count

\* A question is not left hanging: once its 20 minutes are over it is asked
\* again, stood down or given up, or the trip moves on.
Overdue(t) == t \in Due

OverdueHandled == \A t \in Trips : []<>~Overdue(t)

\* A trip that goes back to ASSIGNED is askable again from scratch
\* (departResetFor).
AssignedIsFresh ==
    \A t \in Trips : trip[t].status = "ASSIGNED" =>
        trip[t].count = 0 /\ trip[t].at = "null"

\* A trip whose question was stood down is asked about again when it is up
\* (checkDepartPrompts): it does not stay the driver's current trip, accepted
\* and unasked, for good.
Forgotten(t) ==
    /\ t \in stood
    /\ trip[t].status = "ACCEPTED"
    /\ IsCurrent(t, trip[t].driver)

AskedWhenUp == \A t \in Trips : []<>~Forgotten(t)

=============================================================================
