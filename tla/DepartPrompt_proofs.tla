------------------------ MODULE DepartPrompt_proofs ------------------------
(***************************************************************************)
(* Proofs about DepartPrompt, for every number of trips, drivers,          *)
(* requests, runs of the cron job and questions.                           *)
(***************************************************************************)
EXTENDS DepartPrompt, TLAPS

-----------------------------------------------------------------------------
(* A driver has one current trip, so the one afterStatusChange chooses is  *)
(* the one whose counter it has looked at.                                 *)

LEMMA RanksAreNumbers == \A s \in Statuses : ProgressRank[s] \in Nat
  BY DEF ProgressRank, Statuses

LEMMA OneCurrent ==
    ASSUME TypeOK, NEW d, NEW t \in Trips, NEW u \in Trips,
           IsCurrent(t, d), IsCurrent(u, d)
    PROVE  t = u
<1>1. Before(t, u) /\ Before(u, t)
  BY DEF IsCurrent
<1>2. trip[t].status \in Statuses /\ trip[u].status \in Statuses
  BY DEF IsCurrent, Candidates
<1>3. ProgressRank[trip[t].status] \in Nat /\ ProgressRank[trip[u].status] \in Nat
  BY <1>2, RanksAreNumbers
<1>4. t \in Nat /\ u \in Nat
  BY PromptAssumption DEF Trips
<1>. QED  BY <1>1, <1>3, <1>4 DEF Before

-----------------------------------------------------------------------------
(* Type correctness.  The counter stays within its bound because an actor  *)
(* that is about to ask has read a counter below it.                       *)

RowsInv ==
    /\ trip \in [Trips -> TripRows]
    /\ asked \in [Trips -> Nat]
    /\ stood \subseteq Trips
    /\ AskedOnce
    /\ \A t \in Trips : Live(t) => trip[t].driver \in Drivers

RequestInv(q) ==
    q \in RequestStates /\ (q.pc = "claim" => q.look.count < MaxPrompts)

CronInv(c) ==
    c \in CronStates /\ (c.pc = "claim" => c.look.count < MaxPrompts)

ActorsInv ==
    /\ request \in [Requests -> RequestStates]
    /\ cron \in [Crons -> CronStates]
    /\ \A r \in Requests : RequestInv(request[r])
    /\ \A k \in Crons : CronInv(cron[k])

Inv == RowsInv /\ ActorsInv

LEMMA InvTypeOK == Inv => TypeOK
  BY DEF Inv, RowsInv, ActorsInv, TypeOK

LEMMA InitInv == Init => Inv
  BY PromptAssumption DEF Init, Inv, RowsInv, ActorsInv, RequestInv, CronInv, AskedOnce,
     Live, NoTrip, TripRows, Statuses, Free, RequestStates, Asleep, CronStates, Ats

\* The fields of a row.
LEMMA RowType ==
    ASSUME RowsInv, NEW t \in Trips
    PROVE  /\ trip[t] \in TripRows /\ trip[t].count \in 0 .. MaxPrompts
           /\ asked[t] = trip[t].count
           /\ Live(t) => trip[t].driver \in Drivers
  BY DEF RowsInv, TripRows, AskedOnce

\* What is read of a trip that is there.
LEMMA LookType ==
    ASSUME RowsInv, NEW t \in Trips, Live(t)
    PROVE  LookAt(t) \in Looks /\ LookAt(t).count = trip[t].count
  BY RowType DEF LookAt, Looks

\* A handler of the row writes a row that keeps the counter or sets it to 0.
LEMMA WriteTripInv ==
    ASSUME RowsInv, NEW t \in Trips, NEW row \in TripRows, WriteTrip(t, row),
           row.count \in {0, trip[t].count},
           row.status \in Statuses => row.driver \in Drivers
    PROVE  RowsInv'
<1>1. /\ trip' = [trip EXCEPT ![t] = row]
      /\ asked' = IF row.count = 0 THEN [asked EXCEPT ![t] = 0] ELSE asked
      /\ stood' = stood \ {t}
  BY DEF WriteTrip
<1>2. trip' \in [Trips -> TripRows] /\ asked' \in [Trips -> Nat] /\ stood' \subseteq Trips
  BY <1>1 DEF RowsInv
<1>3. AskedOnce'
  BY <1>1 DEF RowsInv, AskedOnce
<1>4. \A u \in Trips : Live(u)' => trip'[u].driver \in Drivers
  BY <1>1 DEF RowsInv, Live
<1>. QED  BY <1>2, <1>3, <1>4 DEF RowsInv

\* An update of the question alone that keeps the counter.
LEMMA WriteQuestionInv ==
    ASSUME RowsInv, NEW t \in Trips, NEW at \in Ats,
           WriteQuestion(t, trip[t].count, at), UNCHANGED asked, stood' \subseteq Trips
    PROVE  RowsInv'
<1>1. trip' \in [Trips -> TripRows]
  <2>1. [trip[t] EXCEPT !.count = trip[t].count, !.at = at] \in TripRows
    BY RowType DEF TripRows
  <2>2. trip \in [Trips -> TripRows]
    BY DEF RowsInv
  <2>3. CASE trip[t] = Deleted
    BY <2>2, <2>3 DEF WriteQuestion
  <2>4. CASE trip[t] # Deleted
    BY <2>1, <2>2, <2>4 DEF WriteQuestion
  <2>. QED  BY <2>3, <2>4
<1>2. \A u \in Trips : /\ trip'[u].count = trip[u].count
                       /\ trip'[u].status = trip[u].status
                       /\ trip'[u].driver = trip[u].driver
  BY RowType DEF RowsInv, WriteQuestion, TripRows
<1>. QED  BY <1>1, <1>2 DEF RowsInv, AskedOnce, Live

LEMMA SendInv ==
    ASSUME RowsInv, NEW look \in Looks, look.count < MaxPrompts, SendDepartPrompt(look)
    PROVE  RowsInv'
<1>. DEFINE t == look.trip
<1>1. t \in Trips /\ look.count \in Nat /\ MaxPrompts \in Nat
  BY PromptAssumption DEF Looks
<1>2. CASE ~Claimable(look)
  BY <1>2 DEF SendDepartPrompt, RowsInv, AskedOnce, Live
<1>3. CASE Claimable(look)
  <2>1. /\ trip' = [trip EXCEPT ![t].count = look.count + 1, ![t].at = "later"]
        /\ asked' = [asked EXCEPT ![t] = @ + 1]
        /\ stood' = stood \ {t}
        /\ trip[t].count = look.count
    BY <1>3 DEF SendDepartPrompt, Claimable
  <2>2. look.count + 1 \in 0 .. MaxPrompts
    BY <1>1
  <2>3. trip[t] \in TripRows
    BY <1>1, RowType
  <2>4. trip'[t] \in TripRows /\ trip' \in [Trips -> TripRows]
    BY <1>1, <2>1, <2>2, <2>3 DEF RowsInv, TripRows, Ats
  <2>5. /\ trip'[t].count = trip[t].count + 1
        /\ trip'[t].status = trip[t].status /\ trip'[t].driver = trip[t].driver
        /\ \A u \in Trips \ {t} : trip'[u] = trip[u]
    BY <1>1, <2>1, <2>3 DEF RowsInv, TripRows
  <2>6. asked' \in [Trips -> Nat] /\ AskedOnce'
    BY <1>1, <2>1, <2>5 DEF RowsInv, AskedOnce
  <2>. QED  BY <1>1, <2>1, <2>4, <2>5, <2>6 DEF RowsInv, Live
<1>. QED  BY <1>2, <1>3

\* A request or a run of the job goes on to a proper state.
LEMMA RequestStep1 ==
    ASSUME ActorsInv, NEW r \in Requests, NEW q, RequestInv(q),
           request' = [request EXCEPT ![r] = q], UNCHANGED cron
    PROVE  ActorsInv'
  BY DEF ActorsInv, RequestInv

LEMMA CronStep1 ==
    ASSUME ActorsInv, NEW k \in Crons, NEW c, CronInv(c),
           cron' = [cron EXCEPT ![k] = c], UNCHANGED request
    PROVE  ActorsInv'
  BY DEF ActorsInv, CronInv

LEMMA ActorsUnchanged == ASSUME ActorsInv, UNCHANGED <<request, cron>> PROVE ActorsInv'
  BY DEF ActorsInv, RequestInv, CronInv

LEMMA RowsUnchanged == ASSUME RowsInv, UNCHANGED <<trip, asked, stood>> PROVE RowsInv'
  BY DEF RowsInv, AskedOnce, Live

LEMMA FreeInv == RequestInv(Free) /\ CronInv(Asleep)
  BY DEF RequestInv, CronInv, Free, Asleep, RequestStates, CronStates

-----------------------------------------------------------------------------
(* The steps that write a row: each keeps the counter or sets it to 0.     *)

LEMMA NoTripType == NoTrip \in TripRows
<1>1. 0 \in 0 .. MaxPrompts
  BY PromptAssumption
<1>. QED  BY <1>1 DEF NoTrip, TripRows, Ats

LEMMA CreateInv ==
    ASSUME Inv, NEW t \in Trips, NEW d \in Drivers, NEW aboard \in BOOLEAN,
           Create(t, d, aboard)
    PROVE  Inv'
<1>. DEFINE row == [NoTrip EXCEPT !.driver = d, !.aboard = aboard, !.status = "ASSIGNED"]
<1>1. row \in TripRows /\ row.count = 0 /\ row.driver \in Drivers
  <2>1. NoTrip.count = 0
    BY DEF NoTrip
  <2>. QED  BY <2>1, NoTripType DEF TripRows, Statuses
<1>2. WriteTrip(t, row) /\ UNCHANGED <<request, cron>>
  BY DEF Create
<1>. HIDE DEF row
<1>. QED  BY <1>1, <1>2, WriteTripInv, ActorsUnchanged DEF Inv

LEMMA UpdateStatusInv ==
    ASSUME Inv, NEW r \in Requests, NEW t \in Trips, NEW status \in Statuses,
           UpdateStatus(r, t, status)
    PROVE  Inv'
<1>. DEFINE row == WithStatus(trip[t], status)
            q == [Free EXCEPT !.pc = "after", !.driver = trip[t].driver]
<1>1. trip[t] \in TripRows /\ trip[t].driver \in Drivers
  BY RowType DEF Inv, UpdateStatus
<1>2. row \in TripRows /\ row.count \in {0, trip[t].count} /\ row.driver = trip[t].driver
  <2>. DEFINE at == IF status = "ACCEPTED" THEN trip[t].at ELSE "null"
              count == IF status = "ASSIGNED" THEN 0 ELSE trip[t].count
  <2>1. row = [trip[t] EXCEPT !.status = status, !.at = at, !.count = count]
    BY DEF WithStatus
  <2>2. at \in Ats /\ count \in 0 .. MaxPrompts /\ count \in {0, trip[t].count}
    BY <1>1, PromptAssumption DEF TripRows, Ats
  <2>. HIDE DEF row, at, count
  <2>. QED  BY <1>1, <2>1, <2>2 DEF TripRows
<1>3. RowsInv'
  <2>1. WriteTrip(t, row)
    BY DEF UpdateStatus
  <2>. HIDE DEF row
  <2>. QED  BY <1>1, <1>2, <2>1, WriteTripInv DEF Inv
<1>4. RequestInv(q)
  BY <1>1 DEF RequestInv, RequestStates, Free
<1>5. /\ request' = [request EXCEPT ![r] = q] \/ UNCHANGED request
      /\ UNCHANGED cron
  BY DEF UpdateStatus
<1>6. ActorsInv'
  <2>. HIDE DEF q
  <2>. QED  BY <1>4, <1>5, RequestStep1, ActorsUnchanged DEF Inv
<1>. QED  BY <1>3, <1>6 DEF Inv

LEMMA AssignDriverInv ==
    ASSUME Inv, NEW t \in Trips, NEW d \in Drivers, NEW aboard \in BOOLEAN,
           AssignDriver(t, d, aboard)
    PROVE  Inv'
<1>. DEFINE row == [trip[t] EXCEPT !.driver = d, !.aboard = aboard]
<1>1. row \in TripRows /\ row.count = trip[t].count /\ row.driver \in Drivers
  BY RowType DEF Inv, TripRows
<1>2. WriteTrip(t, row) /\ UNCHANGED <<request, cron>>
  BY DEF AssignDriver
<1>. HIDE DEF row
<1>. QED  BY <1>1, <1>2, WriteTripInv, ActorsUnchanged DEF Inv

LEMMA MoveToTruckInv ==
    ASSUME Inv, NEW t \in Trips, NEW d \in Drivers, MoveToTruck(t, d)
    PROVE  Inv'
<1>. DEFINE row == [trip[t] EXCEPT !.driver = d, !.aboard = TRUE, !.status = "ASSIGNED"]
<1>1. row \in TripRows /\ row.count = trip[t].count /\ row.driver \in Drivers
  BY RowType DEF Inv, TripRows, Statuses
<1>2. WriteTrip(t, row) /\ UNCHANGED <<request, cron>>
  BY DEF MoveToTruck
<1>. HIDE DEF row
<1>. QED  BY <1>1, <1>2, WriteTripInv, ActorsUnchanged DEF Inv

LEMMA CompleteOtherInv ==
    ASSUME Inv, NEW t \in Trips, CompleteOther(t)
    PROVE  Inv'
<1>. DEFINE row == [trip[t] EXCEPT !.status = "DELIVERED"]
<1>1. row \in TripRows /\ row.count = trip[t].count /\ row.driver \in Drivers
  BY RowType DEF Inv, TripRows, Statuses, CompleteOther
<1>2. WriteTrip(t, row) /\ UNCHANGED <<request, cron>>
  BY DEF CompleteOther
<1>. HIDE DEF row
<1>. QED  BY <1>1, <1>2, WriteTripInv, ActorsUnchanged DEF Inv

LEMMA RemoveInv ==
    ASSUME Inv, NEW t \in Trips, Remove(t)
    PROVE  Inv'
<1>1. Deleted \in TripRows /\ Deleted.count = 0 /\ Deleted.status \notin Statuses
  <2>1. NoTrip.count = 0
    BY DEF NoTrip
  <2>. QED  BY <2>1, NoTripType DEF Deleted, TripRows, Statuses
<1>2. WriteTrip(t, Deleted) /\ UNCHANGED <<request, cron>>
  BY DEF Remove
<1>. QED  BY <1>1, <1>2, WriteTripInv, ActorsUnchanged DEF Inv

LEMMA ChangeTruckDriverInv ==
    ASSUME Inv, NEW t \in Trips, ChangeTruckDriver(t)
    PROVE  Inv'
<1>1. [trip[t] EXCEPT !.aboard = ~trip[t].aboard] \in TripRows
  BY RowType DEF Inv, TripRows
<1>2. trip' = [trip EXCEPT ![t] = [trip[t] EXCEPT !.aboard = ~trip[t].aboard]]
      /\ UNCHANGED <<asked, stood>>
  BY DEF ChangeTruckDriver
<1>3. \A u \in Trips : /\ trip'[u].count = trip[u].count
                       /\ trip'[u].status = trip[u].status
                       /\ trip'[u].driver = trip[u].driver
  BY <1>2, RowType DEF Inv, RowsInv, TripRows
<1>4. trip' \in [Trips -> TripRows]
  BY <1>1, <1>2 DEF Inv, RowsInv
<1>5. RowsInv'
  BY <1>2, <1>3, <1>4 DEF Inv, RowsInv, AskedOnce, Live
<1>. QED  BY <1>5, ActorsUnchanged DEF Inv, ChangeTruckDriver

LEMMA ElapseInv ==
    ASSUME Inv, NEW t \in Trips, Elapse(t)
    PROVE  Inv'
<1>1. RowsInv'
  BY RowType DEF Inv, Elapse, RowsInv, TripRows, AskedOnce, Live, Ats
<1>. QED  BY <1>1, ActorsUnchanged DEF Inv, Elapse

-----------------------------------------------------------------------------
(* The steps of a request that asks or answers.                            *)

LEMMA AfterStatusChangeInv ==
    ASSUME Inv, NEW r \in Requests, AfterStatusChange(r)
    PROVE  Inv'
<1>. DEFINE d == request[r].driver
            Unasked(t) == /\ IsCurrent(t, d) /\ trip[t].status = "ACCEPTED"
                          /\ trip[t].count = 0 /\ trip[t].at = "null"
            q == [pc |-> "claim", driver |-> None,
                  look |-> LookAt(CHOOSE t \in Trips : IsCurrent(t, d))]
<1>1. UNCHANGED <<trip, asked, stood, cron>>
  BY DEF AfterStatusChange
<1>2. CASE \E t \in Trips : Unasked(t)
  <2>1. PICK t \in Trips : Unasked(t)
    BY <1>2
  <2>2. (CHOOSE u \in Trips : IsCurrent(u, d)) = t
    BY <2>1, OneCurrent, InvTypeOK
  <2>3. LookAt(t) \in Looks /\ LookAt(t).count = 0
    BY <2>1, LookType DEF Inv, Live, Statuses
  <2>4. q = [pc |-> "claim", driver |-> None, look |-> LookAt(t)]
    BY <2>2
  <2>5. RequestInv(q)
    BY <2>3, <2>4, PromptAssumption DEF RequestInv, RequestStates
  <2>6. request' = [request EXCEPT ![r] = q]
    BY <1>2 DEF AfterStatusChange
  <2>. HIDE DEF q
  <2>. QED  BY <1>1, <2>5, <2>6, RequestStep1, RowsUnchanged DEF Inv
<1>3. CASE ~ \E t \in Trips : Unasked(t)
  <2>1. request' = [request EXCEPT ![r] = Free]
    BY <1>3 DEF AfterStatusChange
  <2>. QED  BY <1>1, <2>1, FreeInv, RequestStep1, RowsUnchanged DEF Inv
<1>. QED  BY <1>2, <1>3

LEMMA ClaimAfterStatusInv ==
    ASSUME Inv, NEW r \in Requests, ClaimAfterStatus(r)
    PROVE  Inv'
<1>1. request[r].look \in Looks /\ request[r].look.count < MaxPrompts
  BY DEF Inv, ActorsInv, RequestInv, RequestStates, ClaimAfterStatus, Free
<1>2. RowsInv'
  BY <1>1, SendInv DEF Inv, ClaimAfterStatus
<1>3. ActorsInv'
  BY FreeInv, RequestStep1 DEF Inv, ClaimAfterStatus
<1>. QED  BY <1>2, <1>3 DEF Inv

LEMMA AnswerNoInv ==
    ASSUME Inv, NEW r \in Requests, NEW t \in Trips, AnswerNo(r, t)
    PROVE  Inv'
<1>. DEFINE q == [pc |-> "no", look |-> LookAt(t), driver |-> None]
<1>1. LookAt(t) \in Looks
  BY LookType DEF Inv, AnswerNo, Live, Statuses
<1>2. RequestInv(q)
  BY <1>1 DEF RequestInv, RequestStates
<1>3. request' = [request EXCEPT ![r] = q] /\ UNCHANGED <<trip, cron, asked, stood>>
  BY DEF AnswerNo
<1>. HIDE DEF q
<1>. QED  BY <1>2, <1>3, RequestStep1, RowsUnchanged DEF Inv

LEMMA WriteAnswerInv ==
    ASSUME Inv, NEW r \in Requests, WriteAnswer(r)
    PROVE  Inv'
<1>. DEFINE t == request[r].look.trip
            at == IF request[r].look.count >= MaxPrompts THEN "null" ELSE "later"
<1>1. t \in Trips
  BY DEF Inv, ActorsInv, RequestStates, WriteAnswer, Free, Looks
<1>2. at \in Ats
  BY DEF Ats
<1>3. WriteQuestion(t, trip[t].count, at) /\ UNCHANGED asked /\ stood' \subseteq Trips
  BY DEF WriteAnswer, Inv, RowsInv
<1>4. request' = [request EXCEPT ![r] = Free] /\ UNCHANGED cron
  BY DEF WriteAnswer
<1>. HIDE DEF t, at
<1>5. RowsInv'
  BY <1>1, <1>2, <1>3, WriteQuestionInv DEF Inv
<1>. QED  BY <1>4, <1>5, FreeInv, RequestStep1 DEF Inv

-----------------------------------------------------------------------------
(* The steps of a run of the job.                                          *)

LEMMA CronTickInv ==
    ASSUME Inv, NEW k \in Crons, CronTick(k)
    PROVE  Inv'
<1>. DEFINE c == [pc |-> "next", look |-> None, due |-> {LookAt(t) : t \in Due}]
<1>1. \A t \in Due : LookAt(t) \in Looks
  BY LookType DEF Inv, Due, Live, Statuses
<1>2. CronInv(c)
  BY <1>1 DEF CronInv, CronStates
<1>3. cron' = [cron EXCEPT ![k] = c] /\ UNCHANGED <<trip, request, asked, stood>>
  BY DEF CronTick
<1>. HIDE DEF c
<1>. QED  BY <1>2, <1>3, CronStep1, RowsUnchanged DEF Inv

LEMMA CronNextInv ==
    ASSUME Inv, NEW k \in Crons, CronNext(k)
    PROVE  Inv'
<1>1. UNCHANGED <<trip, request, asked, stood>>
  BY DEF CronNext
<1>2. CASE cron' = [cron EXCEPT ![k] = Asleep]
  BY <1>1, <1>2, FreeInv, CronStep1, RowsUnchanged DEF Inv
<1>3. ASSUME NEW look \in cron[k].due,
             cron' = [cron EXCEPT ![k] = [pc |-> CronPlan(look), look |-> look,
                                          due |-> cron[k].due \ {look}]]
      PROVE  Inv'
  <2>. DEFINE c == [pc |-> CronPlan(look), look |-> look, due |-> cron[k].due \ {look}]
  <2>1. cron[k].due \subseteq Looks
    BY DEF Inv, ActorsInv, CronStates, Asleep
  <2>2. look.count \in Nat
    BY <2>1, PromptAssumption DEF Looks
  <2>3. /\ CronPlan(look) \in {"standDown", "giveUp", "claim"}
        /\ CronPlan(look) = "claim" => look.count < MaxPrompts
    BY <2>2, PromptAssumption DEF CronPlan
  <2>4. c \in CronStates
    BY <2>1, <2>3 DEF CronStates
  <2>5. CronInv(c)
    BY <2>3, <2>4 DEF CronInv
  <2>. HIDE DEF c
  <2>6. cron' = [cron EXCEPT ![k] = c]
    BY <1>3 DEF c
  <2>. QED  BY <1>1, <2>5, <2>6, CronStep1, RowsUnchanged DEF Inv
<1>. QED  BY <1>2, <1>3 DEF CronNext

\* The run goes on to the next trip.
LEMMA ProceedInv ==
    ASSUME ActorsInv, NEW k \in Crons, cron[k].pc \in {"claim", "giveUp", "standDown"},
           Proceed(k), UNCHANGED request
    PROVE  ActorsInv'
<1>. DEFINE c == [pc |-> "next", look |-> None, due |-> cron[k].due]
<1>1. cron[k] \in [pc : {"standDown", "giveUp", "claim"}, look : Looks, due : SUBSET Looks]
  BY DEF ActorsInv, CronStates, Asleep
<1>2. cron' = [cron EXCEPT ![k] = c]
  BY <1>1 DEF Proceed, ActorsInv
<1>3. CronInv(c)
  BY <1>1 DEF CronInv, CronStates
<1>. HIDE DEF c
<1>. QED  BY <1>2, <1>3, CronStep1

\* A run that is at a trip has read that trip.
LEMMA LookRead ==
    ASSUME ActorsInv, NEW k \in Crons, cron[k].pc \in {"claim", "giveUp", "standDown"}
    PROVE  cron[k].look \in Looks /\ cron[k].look.trip \in Trips
  BY DEF ActorsInv, CronStates, Asleep, Looks

LEMMA CronClaimInv ==
    ASSUME Inv, NEW k \in Crons, CronClaim(k)
    PROVE  Inv'
<1>1. cron[k].look \in Looks /\ cron[k].look.count < MaxPrompts
  BY LookRead DEF Inv, ActorsInv, CronInv, CronClaim
<1>2. RowsInv'
  BY <1>1, SendInv DEF Inv, CronClaim
<1>3. ActorsInv'
  BY ProceedInv DEF Inv, CronClaim
<1>. QED  BY <1>2, <1>3 DEF Inv

LEMMA CronGiveUpInv ==
    ASSUME Inv, NEW k \in Crons, CronGiveUp(k)
    PROVE  Inv'
<1>1. cron[k].look.trip \in Trips
  BY LookRead DEF Inv, CronGiveUp
<1>2. RowsInv'
  <2>1. "null" \in Ats
    BY DEF Ats
  <2>2. /\ WriteQuestion(cron[k].look.trip, trip[cron[k].look.trip].count, "null")
        /\ UNCHANGED asked /\ stood' \subseteq Trips
    BY DEF CronGiveUp, Inv, RowsInv
  <2>. QED  BY <1>1, <2>1, <2>2, WriteQuestionInv DEF Inv
<1>3. ActorsInv'
  BY ProceedInv DEF Inv, CronGiveUp
<1>. QED  BY <1>2, <1>3 DEF Inv

\* Standing down ends the round: both counters go back to 0.
LEMMA CronStandDownInv ==
    ASSUME Inv, NEW k \in Crons, CronStandDown(k)
    PROVE  Inv'
<1>. DEFINE t == cron[k].look.trip
<1>1. t \in Trips
  BY LookRead DEF Inv, CronStandDown
<1>2. /\ WriteQuestion(t, 0, "null")
      /\ asked' = [asked EXCEPT ![t] = 0]
      /\ stood' \subseteq Trips
  BY <1>1 DEF CronStandDown, Inv, RowsInv
<1>. HIDE DEF t
<1>3. 0 \in 0 .. MaxPrompts
  BY PromptAssumption
<1>4. trip' \in [Trips -> TripRows]
  <2>1. [trip[t] EXCEPT !.count = 0, !.at = "null"] \in TripRows
    BY <1>1, <1>3, RowType DEF Inv, TripRows, Ats
  <2>2. trip \in [Trips -> TripRows]
    BY DEF Inv, RowsInv
  <2>3. CASE trip[t] = Deleted
    BY <1>2, <2>2, <2>3 DEF WriteQuestion
  <2>4. CASE trip[t] # Deleted
    BY <1>1, <1>2, <2>1, <2>2, <2>4 DEF WriteQuestion
  <2>. QED  BY <2>3, <2>4
<1>5. \A u \in Trips : trip'[u].status = trip[u].status /\ trip'[u].driver = trip[u].driver
  BY <1>1, <1>2, RowType DEF Inv, RowsInv, WriteQuestion, TripRows
<1>6. trip'[t].count = 0 /\ \A u \in Trips \ {t} : trip'[u] = trip[u]
  BY <1>1, <1>2, RowType DEF Inv, RowsInv, WriteQuestion, TripRows, Deleted, NoTrip
<1>7. AskedOnce' /\ asked' \in [Trips -> Nat]
  BY <1>1, <1>2, <1>6 DEF Inv, RowsInv, AskedOnce
<1>8. RowsInv'
  BY <1>2, <1>4, <1>5, <1>7 DEF Inv, RowsInv, Live
<1>9. ActorsInv'
  BY ProceedInv DEF Inv, CronStandDown
<1>. QED  BY <1>8, <1>9 DEF Inv

-----------------------------------------------------------------------------
LEMMA NextInv == Inv /\ [Next]_vars => Inv'
<1>. SUFFICES ASSUME Inv, [Next]_vars PROVE Inv'
  OBVIOUS
<1>1. CASE UNCHANGED vars
  BY <1>1, RowsUnchanged, ActorsUnchanged DEF Inv, vars
<1>2. ASSUME NEW t \in Trips, NEW d \in Drivers, NEW aboard \in BOOLEAN,
             Create(t, d, aboard) \/ AssignDriver(t, d, aboard)
      PROVE  Inv'
  BY <1>2, CreateInv, AssignDriverInv
<1>3. ASSUME NEW t \in Trips, NEW d \in Drivers, MoveToTruck(t, d)
      PROVE  Inv'
  BY <1>3, MoveToTruckInv
<1>4. ASSUME NEW t \in Trips,
             CompleteOther(t) \/ Remove(t) \/ ChangeTruckDriver(t) \/ Elapse(t)
      PROVE  Inv'
  BY <1>4, CompleteOtherInv, RemoveInv, ChangeTruckDriverInv, ElapseInv
<1>5. ASSUME NEW r \in Requests, NEW t \in Trips,
             AnswerNo(r, t) \/ \E status \in Statuses : UpdateStatus(r, t, status)
      PROVE  Inv'
  BY <1>5, AnswerNoInv, UpdateStatusInv
<1>6. ASSUME NEW r \in Requests, RequestStep(r)
      PROVE  Inv'
  BY <1>6, AfterStatusChangeInv, ClaimAfterStatusInv, WriteAnswerInv DEF RequestStep
<1>7. ASSUME NEW k \in Crons, CronStep(k)
      PROVE  Inv'
  BY <1>7, CronTickInv, CronNextInv, CronClaimInv, CronGiveUpInv, CronStandDownInv
     DEF CronStep
<1>. QED  BY <1>1, <1>2, <1>3, <1>4, <1>5, <1>6, <1>7 DEF Next

LEMMA Invariant == Spec => []Inv
  BY InitInv, NextInv, PTL DEF Spec

\* Every reachable state is well typed; in particular the counter never passes
\* MaxPrompts, whoever increments it and from however old a read.
THEOREM TypeCorrect == Spec => []TypeOK
  BY Invariant, InvTypeOK, PTL

\* The driver gets each question of a round once, however many requests and
\* runs of the job decide to send it at the same time (sendDepartPrompt).
THEOREM AskedOnceHolds == Spec => []AskedOnce
<1>1. Inv => AskedOnce
  BY DEF Inv, RowsInv
<1>. QED  BY <1>1, Invariant, PTL

=============================================================================
