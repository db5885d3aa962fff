------------------------------ MODULE Accounts ------------------------------
(***************************************************************************)
(* The user rows of the companies: hiring, suspending, erasing, and moving *)
(* a driver to another company with the driver's consent (UsersService and *)
(* DriverTransfersService).                                                *)
(*                                                                         *)
(* A handler is a worker; what it has read is in task[w] and each statement*)
(* is a step, as in ChatSessions.  Tokens and live sockets of an account   *)
(* are in SignIn and LiveRooms, the truck itself in Fleet: here a seat is  *)
(* the company whose truck a driver is on.                                 *)
(*                                                                         *)
(* The properties hold for accounts about which requests do not overlap:   *)
(* the others are in caught, a variable no handler reads.                  *)
(*                                                                         *)
(* A definition marked Mutant is a faulty form of the one that follows it. *)
(***************************************************************************)
EXTENDS Naturals, FiniteSets

CONSTANTS
    Users, Companies,
    Role,           \* Role[u]: ADMIN, TEAMLEAD, MANAGER or DRIVER
    Home,           \* Home[u]: the company u is hired by first
    Transfers,      \* ids of DriverTransfer rows
    Workers,        \* handlers of requests
    MaxPerDay,      \* MAX_REQUESTS_PER_DAY
    MaxPerCompany,  \* MAX_REQUESTS_PER_COMPANY_PER_DAY
    None,           \* NULL
    Keep            \* a field that a request leaves out

\* What the proofs need of the constants; the instance assumes it.
AccountsAssumption ==
    /\ IsFiniteSet(Workers)
    /\ Role \in [Users -> {"ADMIN", "TEAMLEAD", "MANAGER", "DRIVER"}]
    /\ Home \in [Users -> Companies]
    /\ MaxPerDay \in Nat \ {0} /\ MaxPerCompany \in Nat \ {0}
    /\ None \notin Users \cup Companies
    /\ Keep \notin Users \cup Companies \cup {None}

VARIABLES
    user,           \* user[u]: the row, or NoUser
    transfer,       \* transfer[x]: the row, or NoTransfer
    task,           \* task[w]: what worker w has read and has still to do
    caught          \* users whose row changed under another request about them

vars == <<user, transfer, task, caught>>

NoUser == [company |-> None, active |-> FALSE, erased |-> FALSE,
           boss |-> None, seat |-> None]

\* boss: managerId, or teamleadId of a manager.
UserRows == [company : Companies \cup {None}, active : BOOLEAN, erased : BOOLEAN,
             boss : Users \cup {None}, seat : Companies \cup {None}]

NoTransfer == [driver |-> None, from |-> None, to |-> None, by |-> None,
               texted |-> FALSE, accepted |-> FALSE, declined |-> FALSE,
               over |-> FALSE, age |-> "fresh"]

\* texted: the link is in the driver's hands; over: expiresAt brought forward;
\* age: within RESEND_COOLDOWN_MS, within TRANSFER_TTL_MS (a day), or past it.
TransferRows == {NoTransfer} \cup
    [driver : Users, from : Companies, to : Companies, by : Users,
     texted : BOOLEAN, accepted : BOOLEAN, declined : BOOLEAN, over : BOOLEAN,
     age : {"fresh", "cooled", "old"}]

Idle == [pc |-> "idle", by |-> None, user |-> None, company |-> None,
         from |-> None, transfer |-> None, boss |-> None, seat |-> None]

Steps == {"idle", "activate", "deactivate", "countAdmins", "erase", "insert",
          "check", "supersede", "create", "send", "requester", "accept",
          "decline", "seat", "boss"}

Tasks == [pc : Steps, by : Users \cup {None}, user : Users \cup {None},
          company : Companies \cup {None}, from : Companies \cup {None},
          transfer : Transfers \cup {None}, boss : Users \cup {None, Keep},
          seat : Companies \cup {None, Keep}]

TypeOK ==
    /\ user \in [Users -> UserRows]
    /\ transfer \in [Transfers -> TransferRows]
    /\ task \in [Workers -> Tasks]
    /\ caught \subseteq Users

\* A row as createManager and createDriver insert it.
Hired(c, boss) == [NoUser EXCEPT !.company = c, !.active = TRUE, !.boss = boss]

Init ==
    /\ \E staff \in SUBSET Users :
         user = [u \in Users |-> IF u \in staff THEN Hired(Home[u], None) ELSE NoUser]
    /\ transfer = [x \in Transfers |-> NoTransfer]
    /\ task = [w \in Workers |-> Idle]
    /\ caught = {}

Exists(u) == user[u].company # None

\* JwtStrategy.validate, before any handler of a signed-in user.
Acts(r) == Exists(r) /\ user[r].active

Rank == [DRIVER |-> 0, MANAGER |-> 1, TEAMLEAD |-> 2, ADMIN |-> 3]

CanManageUser(r, u) ==
    /\ r # u
    /\ \/ Role[u] = "ADMIN" /\ Role[r] = "ADMIN"
       \/ Role[u] # "ADMIN" /\ Rank[Role[r]] > Rank[Role[u]]

\* The row r may change: of any company for an ADMIN, else of their own.
InReach(r, u) ==
    /\ Acts(r) /\ Exists(u)
    /\ Role[r] = "ADMIN" \/ user[u].company = user[r].company
    /\ CanManageUser(r, u)

OtherAdmins(u) == {a \in Users \ {u} : /\ Role[a] = "ADMIN"
                                       /\ user[a].company = user[u].company
                                       /\ user[a].active /\ ~user[a].erased}

Free(w) == task[w] = Idle

Start(w, j) == Free(w) /\ task' = [task EXCEPT ![w] = j]

Goto(w, pc) == task' = [task EXCEPT ![w].pc = pc]

Return(w) == task' = [task EXCEPT ![w] = Idle]

\* Users whose rows worker v has checked, or who asked for what it does.  The
\* erasure of an ADMIN has checked the other ones of the company.
ReliesOn(v) ==
    {task[v].by, task[v].user}
    \cup {a \in Users : /\ task[v].pc = "erase" /\ Role[a] = "ADMIN"
                        /\ user[a].company = user[task[v].user].company}

\* Worker w changes what is known of u.
Touch(w, u) ==
    caught' = caught \cup {c \in {u} : \E v \in Workers \ {w} : c \in ReliesOn(v)}

-----------------------------------------------------------------------------
(* Hiring.                                                                 *)

\* createManager: a row at once, or P2002.
CreateManager(w, r, u) ==
    /\ Free(w)
    /\ Acts(r) /\ Role[r] = "TEAMLEAD" /\ Role[u] = "MANAGER"
    /\ ~Exists(u)
    /\ user' = [user EXCEPT ![u] = Hired(user[r].company, r)]
    /\ UNCHANGED <<transfer, task, caught>>

\* createDriver: the number is unknown, or a driver's of another company.
CreateDriver(w, r, u) ==
    /\ Acts(r) /\ Role[r] \in {"MANAGER", "TEAMLEAD"} /\ Role[u] = "DRIVER"
    /\ ~user[u].erased                       \* an erased row has no number
    /\ user[u].company # user[r].company
    /\ Start(w, [Idle EXCEPT !.pc = IF Exists(u) THEN "check" ELSE "insert",
                             !.by = r, !.user = u, !.company = user[r].company,
                             !.from = user[u].company])
    /\ UNCHANGED <<user, transfer, caught>>

\* prisma.user.create; the unique index on phone answers P2002.
Insert(w) ==
    LET j == task[w] IN
    /\ j.pc = "insert"
    /\ user' = IF Exists(j.user) THEN user
               ELSE [user EXCEPT ![j.user] = Hired(j.company, j.by)]
    /\ Return(w)
    /\ UNCHANGED <<transfer, caught>>

-----------------------------------------------------------------------------
(* DriverTransfersService.                                                 *)

Expired(x) == transfer[x].over \/ transfer[x].age = "old"

Unanswered(x) == transfer[x] # NoTransfer /\ ~transfer[x].accepted
                                          /\ ~transfer[x].declined

OfPair(j) == {x \in Transfers : /\ Unanswered(x)
                                /\ transfer[x].driver = j.user
                                /\ transfer[x].to = j.company}

MadeToday == {x \in Transfers : transfer[x] # NoTransfer /\ transfer[x].age # "old"}

TodayFor(u) == {x \in MadeToday : transfer[x].driver = u}

TodayBy(c) == {x \in MadeToday : transfer[x].to = c}

\* Mutant: only the cool-down of the pair is looked at.
CheckCooldownOnly(w) ==
    LET j == task[w] IN
    /\ j.pc = "check"
    /\ IF \E x \in OfPair(j) : ~Expired(x) /\ transfer[x].age = "fresh"
       THEN Return(w) ELSE Goto(w, "supersede")
    /\ UNCHANGED <<user, transfer, caught>>

\* request: the three reads that may keep the text from being sent.
Check(w) ==
    LET j == task[w] IN
    /\ j.pc = "check"
    /\ IF \/ \E x \in OfPair(j) : ~Expired(x) /\ transfer[x].age = "fresh"
          \/ Cardinality(TodayFor(j.user)) >= MaxPerDay
          \/ Cardinality(TodayBy(j.company)) >= MaxPerCompany
       THEN Return(w) ELSE Goto(w, "supersede")
    /\ UNCHANGED <<user, transfer, caught>>

Supersede(w) ==
    LET j == task[w] IN
    /\ j.pc = "supersede"
    /\ transfer' = [x \in Transfers |-> [transfer[x] EXCEPT
                                           !.over = @ \/ x \in OfPair(j)]]
    /\ Goto(w, "create")
    /\ Touch(w, j.user)
    /\ UNCHANGED user

CreateTransfer(w, x) ==
    LET j == task[w] IN
    /\ j.pc = "create"
    /\ transfer[x] = NoTransfer
    /\ transfer' = [transfer EXCEPT ![x] =
         [NoTransfer EXCEPT !.driver = j.user, !.from = j.from,
                            !.to = j.company, !.by = j.by]]
    /\ task' = [task EXCEPT ![w].pc = "send", ![w].transfer = x]
    /\ UNCHANGED <<user, caught>>

\* The SMS goes out, or the request is dropped again.
Send(w, delivered) ==
    LET j == task[w] IN
    /\ j.pc = "send"
    /\ transfer' = [transfer EXCEPT ![j.transfer] =
                      IF delivered THEN [@ EXCEPT !.texted = TRUE] ELSE NoTransfer]
    /\ Return(w)
    /\ UNCHANGED <<user, caught>>

\* Mutant: only an accepted request is answered.
FoundUnaccepted(x) ==
    /\ transfer[x] # NoTransfer /\ ~transfer[x].accepted
    /\ transfer[x].texted /\ ~Expired(x)
    /\ ~user[transfer[x].driver].erased
    /\ user[transfer[x].driver].company = transfer[x].from

\* findOpen, for someone who has the link.
FoundOpen(x) ==
    /\ Unanswered(x) /\ transfer[x].texted /\ ~Expired(x)
    /\ ~user[transfer[x].driver].erased
    /\ user[transfer[x].driver].company = transfer[x].from

\* accept and decline after findOpen.
OpenLink(w, x, answer) ==
    /\ answer \in {"requester", "decline"}
    /\ FoundOpen(x)
    /\ Start(w, [Idle EXCEPT !.pc = answer, !.transfer = x,
                             !.user = transfer[x].driver, !.by = transfer[x].by,
                             !.company = transfer[x].to])
    /\ UNCHANGED <<user, transfer, caught>>

\* Whoever asked becomes the manager, if still there.
ReadRequester(w) ==
    LET j == task[w] IN
    /\ j.pc = "requester"
    /\ task' = [task EXCEPT ![w].pc = "accept",
         ![w].boss = IF user[j.by].company = j.company /\ ~user[j.by].erased
                     THEN j.by ELSE None]
    /\ UNCHANGED <<user, transfer, caught>>

\* Mutant: the old company's truck is not released.
AcceptOnTruck(w) ==
    LET j == task[w] IN
    /\ j.pc = "accept"
    /\ user' = [user EXCEPT ![j.user].company = j.company, ![j.user].boss = j.boss,
                            ![j.user].active = TRUE]
    /\ transfer' = [x \in Transfers |->
         IF x = j.transfer THEN [transfer[x] EXCEPT !.accepted = TRUE]
         ELSE [transfer[x] EXCEPT !.over =
                 @ \/ (Unanswered(x) /\ transfer[x].driver = j.user)]]
    /\ Touch(w, j.user)
    /\ Return(w)

\* The transaction of accept: truck, user row, this request, the others.
Accept(w) ==
    LET j == task[w] IN
    /\ j.pc = "accept"
    /\ user' = [user EXCEPT ![j.user] = [@ EXCEPT !.company = j.company,
                              !.boss = j.boss, !.active = TRUE, !.seat = None]]
    /\ transfer' = [x \in Transfers |->
         IF x = j.transfer THEN [transfer[x] EXCEPT !.accepted = TRUE]
         ELSE [transfer[x] EXCEPT !.over =
                 @ \/ (Unanswered(x) /\ transfer[x].driver = j.user)]]
    /\ Touch(w, j.user)
    /\ Return(w)

Decline(w) ==
    LET j == task[w] IN
    /\ j.pc = "decline"
    /\ transfer' = [transfer EXCEPT ![j.transfer].declined = TRUE]
    /\ Touch(w, j.user)
    /\ Return(w)
    /\ UNCHANGED user

\* Time passes for a request: the cool-down, then its day.
Grow(x) ==
    /\ transfer[x] # NoTransfer /\ transfer[x].age # "old"
    /\ transfer' = [transfer EXCEPT ![x].age = IF @ = "fresh" THEN "cooled" ELSE "old"]
    /\ UNCHANGED <<user, task, caught>>

-----------------------------------------------------------------------------
(* Suspending, erasing and editing.                                        *)

\* Mutant: an erased account is not refused.
ActivateAny(w, r, u) ==
    /\ InReach(r, u)
    /\ Start(w, [Idle EXCEPT !.pc = "activate", !.by = r, !.user = u])
    /\ UNCHANGED <<user, transfer, caught>>

Activate(w, r, u) ==
    /\ InReach(r, u) /\ ~user[u].erased
    /\ Start(w, [Idle EXCEPT !.pc = "activate", !.by = r, !.user = u])
    /\ UNCHANGED <<user, transfer, caught>>

Deactivate(w, r, u) ==
    /\ InReach(r, u)
    /\ Start(w, [Idle EXCEPT !.pc = "deactivate", !.by = r, !.user = u])
    /\ UNCHANGED <<user, transfer, caught>>

SetActive(w) ==
    LET j == task[w] IN
    /\ j.pc \in {"activate", "deactivate"}
    /\ user' = [user EXCEPT ![j.user].active = (j.pc = "activate")]
    /\ Touch(w, j.user)
    /\ Return(w)
    /\ UNCHANGED transfer

\* deleteOwnAccount; only an ADMIN's goes through the count.
DeleteOwnAccount(w, u) ==
    /\ Acts(u) /\ ~user[u].erased
    /\ Start(w, [Idle EXCEPT !.pc = IF Role[u] = "ADMIN" THEN "countAdmins"
                                    ELSE "erase", !.user = u])
    /\ UNCHANGED <<user, transfer, caught>>

\* Mutant: admins of other companies count too.
CountAllAdmins(w) ==
    /\ task[w].pc = "countAdmins"
    /\ IF \E a \in Users \ {task[w].user} : Role[a] = "ADMIN" /\ Acts(a) /\ ~user[a].erased
       THEN Goto(w, "erase") ELSE Return(w)
    /\ UNCHANGED <<user, transfer, caught>>

CountAdmins(w) ==
    /\ task[w].pc = "countAdmins"
    /\ IF OtherAdmins(task[w].user) = {} THEN Return(w) ELSE Goto(w, "erase")
    /\ UNCHANGED <<user, transfer, caught>>

\* The transaction of deleteOwnAccount: the row is kept and anonymised.
Erase(w) ==
    LET j == task[w] IN
    /\ j.pc = "erase"
    /\ user' = [user EXCEPT ![j.user] = [@ EXCEPT !.active = FALSE, !.erased = TRUE,
                                                  !.seat = None]]
    /\ Touch(w, j.user)
    /\ Return(w)
    /\ UNCHANGED transfer

\* updateDriver up to its checks.  The truck and the manager asked for are of
\* the company the row names now.
UpdateDriver(w, r, u, seat, boss) ==
    /\ InReach(r, u) /\ Role[u] = "DRIVER"
    /\ seat \in {Keep, None, user[u].company}
    /\ \/ boss \in {Keep, None}
       \/ /\ boss \in Users /\ Role[boss] # "DRIVER"
          /\ user[boss].company = user[u].company /\ ~user[boss].erased
    /\ Start(w, [Idle EXCEPT !.pc = IF seat = Keep THEN "boss" ELSE "seat",
                             !.by = r, !.user = u, !.seat = seat, !.boss = boss])
    /\ UNCHANGED <<user, transfer, caught>>

SetSeat(w) ==
    LET j == task[w] IN
    /\ j.pc = "seat"
    /\ user' = [user EXCEPT ![j.user].seat = j.seat]
    /\ Touch(w, j.user)
    /\ Goto(w, "boss")
    /\ UNCHANGED transfer

SetBoss(w) ==
    LET j == task[w] IN
    /\ j.pc = "boss"
    /\ user' = [user EXCEPT ![j.user].boss = IF j.boss = Keep THEN @ ELSE j.boss]
    /\ Touch(w, j.user)
    /\ Return(w)
    /\ UNCHANGED transfer

\* The request ends between two of its writes, by an error or with its
\* process; before the first one it would leave nothing behind.
Die(w) ==
    /\ task[w].pc \in {"create", "send", "boss"}
    /\ Return(w)
    /\ UNCHANGED <<user, transfer, caught>>

\* The requests of a signed-in user r about u.
ByStaff(w, r) ==
    /\ Acts(r)
    /\ \E u \in Users :
         \/ CreateManager(w, r, u)
         \/ CreateDriver(w, r, u)
         \/ Activate(w, r, u)
         \/ Deactivate(w, r, u)
         \/ /\ InReach(r, u)
            /\ \E seat \in Companies \cup {None, Keep}, boss \in Users \cup {None, Keep} :
                 UpdateDriver(w, r, u, seat, boss)

Request(w) ==
    /\ Free(w)
    /\ \/ \E r \in Users : ByStaff(w, r)
       \/ \E u \in Users : DeleteOwnAccount(w, u)
       \/ \E x \in Transfers, answer \in {"requester", "decline"} : OpenLink(w, x, answer)

Statement(w) ==
    \/ Insert(w)
    \/ Check(w)
    \/ Supersede(w)
    \/ \E x \in Transfers : CreateTransfer(w, x)
    \/ \E delivered \in BOOLEAN : Send(w, delivered)
    \/ ReadRequester(w)
    \/ Accept(w)
    \/ Decline(w)
    \/ SetActive(w)
    \/ CountAdmins(w)
    \/ Erase(w)
    \/ SetSeat(w)
    \/ SetBoss(w)

Next ==
    \/ \E w \in Workers : Request(w) \/ Statement(w) \/ Die(w)
    \/ \E x \in Transfers : Grow(x)

Spec == Init /\ [][Next]_vars

-----------------------------------------------------------------------------

\* An erased account never becomes active again, whoever activates it or moves
\* it to another company: activate (l.611) and accept (l.224) write by id after
\* checks of their own.
ErasedStaysOut == \A u \in Users : user[u].erased /\ user[u].active => u \in caught

Administers(a) == Role[a] = "ADMIN" /\ user[a].active /\ ~user[a].erased

HasAdmin(c) == \E a \in Users : Administers(a) /\ user[a].company = c

\* A request of another company's ADMIN suspends a user of c: canManageUser asks
\* for no company.
SuspendedFromOutside(c) ==
    \E w \in Workers : /\ task[w].pc = "deactivate" /\ task'[w] = Idle
                       /\ user[task[w].user].company = c
                       /\ user[task[w].by].company # c

\* No company loses its last administrator by requests of its own: they cannot
\* erase their account, and only another of them could suspend them.
AdminRemains ==
    [][\A c \in Companies : HasAdmin(c) =>
         \/ HasAdmin(c)'
         \/ \E a \in caught' : Role[a] = "ADMIN" /\ user[a].company = c
         \/ SuspendedFromOutside(c)]_vars

\* What a driver's company gives them, the truck and the manager, is their
\* company's: a move leaves both behind, and a later edit gives only its own.
CompanyGoesTogether == \A u \in Users \ caught :
    /\ user[u].seat \in {None, user[u].company}
    /\ user[u].boss # None => user[user[u].boss].company = user[u].company

\* A driver changes company only by a request that asked them to leave the
\* company they are in, which they have not declined and no newer one replaced.
MovesOnConsent ==
    [][\A u \in Users :
         Exists(u) /\ user'[u].company # user[u].company =>
           \/ u \in caught'
           \/ \E x \in Transfers :
                /\ transfer[x].driver = u /\ ~transfer[x].declined /\ ~transfer[x].over
                /\ transfer[x].from = user[u].company
                /\ transfer[x].to = user'[u].company]_vars

\* The caps on texts to a driver and from a company are overrun by no more
\* than the requests that were being counted at once.
CapsHold ==
    /\ \A u \in Users : Cardinality(TodayFor(u)) < MaxPerDay + Cardinality(Workers)
    /\ \A c \in Companies :
         Cardinality(TodayBy(c)) < MaxPerCompany + Cardinality(Workers)

=============================================================================
