------------------------------ MODULE MCAccounts ------------------------------
(***************************************************************************)
(* The accounts of people, their sessions, their sign-in codes, their live *)
(* rooms and what they write in the chat of a trip, each checked in        *)
(* scenes.  No two of these modules share a variable, so each scene lets   *)
(* one of them move while the others stay in an initial state, and says    *)
(* which steps of it meet there: the scenes of a module pair up all of its *)
(* requests that touch the same rows.                                      *)
(***************************************************************************)
EXTENDS Naturals, FiniteSets, TLC

CONSTANTS a1, a2, a3, m1, m2, d1, d2, c1, c2, c3, Workers, Transfers, Tokens, Links,
          Managers, Codes, MaxAttempts, MaxPending,
          RoomUsers, RoomDrivers, Sockets, Trips, Chats, Messages, None, Keep

VARIABLES user, transfer, accountTask, caught,
          now, account, token, link, sessionTask, barred,
          active, boss, code, loginTask, judged, dead, asks, minted,
          inCompany, driver, members, socket, late, shown, roomTask, tangled, blurred,
          going, pair, row, gone, message, call,
          scene

accountVars == <<user, transfer, accountTask, caught>>
sessionVars == <<now, account, token, link, sessionTask, barred>>
loginVars == <<active, boss, code, loginTask, judged, dead, asks, minted>>
roomVars == <<inCompany, driver, members, socket, late, shown, roomTask, tangled, blurred>>
messageVars == <<going, pair, row, gone, message, call>>
vars == <<accountVars, sessionVars, loginVars, roomVars, messageVars, scene>>

People == {a1, a2, a3, m1, m2, d1}
Roles == (a1 :> "ADMIN") @@ (a2 :> "ADMIN") @@ (a3 :> "ADMIN") @@ (m1 :> "TEAMLEAD")
            @@ (m2 :> "MANAGER") @@ (d1 :> "DRIVER")
Homes == (a1 :> c1) @@ (a2 :> c1) @@ (a3 :> c2) @@ (m1 :> c2) @@ (m2 :> c3) @@ (d1 :> c1)

A == INSTANCE Accounts WITH Users <- People, Companies <- {c1, c2, c3}, Role <- Roles,
        Home <- Homes, MaxPerDay <- 1, MaxPerCompany <- 1, task <- accountTask

ASSUME AccountsConstants == A!AccountsAssumption

S == INSTANCE SignIn WITH Users <- {a1, m1}, Admins <- {a1}, Grace <- 1, Lifetime <- 2, Kept <- 1,
        MaxTime <- 3, task <- sessionTask

ASSUME SessionConstants == S!SignInAssumption

D == INSTANCE DriverLogin WITH task <- loginTask

ASSUME LoginConstants == D!LoginAssumption

L == INSTANCE LiveRooms WITH Users <- RoomUsers, Drivers <- RoomDrivers,
        active <- inCompany, task <- roomTask, caught <- tangled

ASSUME RoomConstants == L!LiveRoomsAssumption

M == INSTANCE TripMessages WITH Drivers <- RoomDrivers, Managers <- {m1}, Sessions <- Chats,
        Clients <- Workers

ASSUME MessageConstants == M!MessagesAssumption

-----------------------------------------------------------------------------
(* Where a scene of each module has got to: the steps the workers stand at. *)

AtMost(task, steps) == \A w \in Workers : task[w].pc \in steps \cup {"idle"}

Busy(task, n) == Cardinality({w \in Workers : task[w].pc # "idle"}) <= n

\* Ids are given in order, which one of them being all the same.
InOrder(used) == \A i \in used, j \in 1..3 : j < i => j \in used

Hiring == {"insert", "check", "supersede", "create", "send"}

\* Who is there, how many requests to transfer there may be, and what runs.
AccountScenes ==
    [admins |-> [staff |-> {a1, a2, a3}, max |-> 0,
                 steps |-> {"activate", "deactivate", "countAdmins", "erase"}],
     leaves |-> [staff |-> {a1, d1}, max |-> 0,
                 steps |-> {"activate", "deactivate", "erase"}],
     texts |-> [staff |-> {m1, m2, d1}, max |-> 3, steps |-> Hiring],
     moves |-> [staff |-> {m1, m2, d1}, max |-> 2,
                steps |-> Hiring \cup {"requester", "accept", "decline"}],
     cards |-> [staff |-> {a1, m1, d1}, max |-> 1,
                steps |-> (Hiring \ {"insert"}) \cup {"requester", "accept", "seat", "boss"}],
     hires |-> [staff |-> {m1, m2}, max |-> 1,
                steps |-> Hiring \cup {"requester", "accept", "erase"}]]

Staff == {u \in People : A!Exists(u)}

AccountsMove ==
    /\ scene \in DOMAIN AccountScenes
    /\ A!Next
    /\ AtMost(accountTask', AccountScenes[scene].steps)
    /\ scene = "cards" => Staff' = Staff /\ \A x \in Transfers : transfer'[x].age # "old"
    /\ LET made == {x \in Transfers : transfer'[x] # A!NoTransfer} IN
       InOrder(made) /\ Cardinality(made) <= AccountScenes[scene].max

SessionsMove ==
    /\ \/ /\ scene = "sessions"
          /\ S!Next
          /\ AtMost(sessionTask', {"issue", "rotate"})
          /\ UNCHANGED link
       \/ /\ scene = "links"
          /\ S!Next
          /\ \A w \in Workers : sessionTask'[w].pc # "rotate"
          /\ UNCHANGED now
          /\ \A t \in Tokens \ {1} : token'[t] = S!NoToken
    /\ InOrder({t \in Tokens : token'[t] # S!NoToken})
    /\ InOrder({l \in Links : link'[l] # S!NoLink})

LastCode == Cardinality(Codes)

\* The age of the last code there is room for changes nothing, and a driver whose
\* truck has no manager asks for nothing.
LoginMoves ==
    \/ /\ scene = "guesses"
       /\ D!Next
       /\ AtMost(loginTask', {"store", "lock", "compare", "miss", "burn"})
       /\ UNCHANGED <<boss, asks>>
       /\ active' => active
       /\ \A c \in Codes : /\ ~code'[c].expired
                           /\ c > 2 => code'[c] = D!NoCode
                           /\ c = 2 /\ code'[c].channel # "none" => code'[c].fresh
    \/ /\ scene = "requests"
       /\ D!Next
       /\ AtMost(loginTask', {"store", "mint", "close"})
       /\ \A c \in Codes : /\ code'[c].channel # "SMS" /\ (code'[c].expired => c = 1)
                           /\ c = LastCode /\ code'[c].channel # "none" => code'[c].fresh
       /\ UNCHANGED active /\ boss' # None

RoomScenes ==
    [presence |-> [sockets |-> 3, workers |-> 0, users |-> {d1, m1}, steps |-> {},
                   chat |-> {"off", "auth", "fetched", "done"}, direct |-> {"off", "auth"}],
     lists |-> [sockets |-> 2, workers |-> 1, users |-> {d1, m1}, steps |-> {"snapshot"},
                chat |-> {"off", "auth", "fetched", "done"}, direct |-> {"off", "auth"}],
     trip |-> [sockets |-> 2, workers |-> 2, users |-> {d1, d2},
               steps |-> {"joinTrip", "assign", "leaveTrip"},
               chat |-> {"off", "auth", "fetched"}, direct |-> {"off", "auth"}],
     group |-> [sockets |-> 2, workers |-> 2, users |-> {m1},
                steps |-> {"joinGroup", "leaveGroup", "quitGroup"},
                chat |-> {"off", "auth", "fetched"}, direct |-> {"off", "auth", "join", "done"}],
     access |-> [sockets |-> 2, workers |-> 2, users |-> {m1}, steps |-> {"disconnect"},
                 chat |-> {"off", "auth", "fetched", "done"}, direct |-> {"off", "auth"}]]

Open(sockets) == {s \in Sockets : sockets[s] # L!Closed}

RoomsMove ==
    /\ scene \in DOMAIN RoomScenes
    /\ L!Next
    /\ LET limits == RoomScenes[scene] IN
       /\ AtMost(roomTask', limits.steps) /\ Busy(roomTask', limits.workers)
       /\ Cardinality(Open(socket')) <= limits.sockets
       /\ \A s \in Open(socket') : /\ socket'[s].user \in limits.users
                                   /\ socket'[s].chat \in limits.chat
                                   /\ socket'[s].direct \in limits.direct
    /\ scene # "group" => members' = {}
    /\ scene \in {"trip", "group"} => Open(socket) \subseteq Open(socket')
    /\ \/ Open(socket') \subseteq Open(socket)
       \/ scene = "presence"
       \/ InOrder(Open(socket'))
    /\ scene = "presence" => \A s \in Open(socket') : (socket'[s].user = m1) = (s = 3)
    /\ Cardinality(late') <= 1

\* Quotes across a hand-over; ticks; and all else, up to the first message.  The
\* trip's first driver is always the same one.
MessagesMove ==
    /\ M!Next
    /\ \A t \in Trips : row[t] = M!NoTrip => row'[t].driver # d2
    /\ InOrder({s \in Chats : pair'[s] # None})
    /\ InOrder({x \in Messages : message'[x] # M!NoMessage})
    /\ \/ /\ scene = "quotes"
          /\ AtMost(call', {"findSession", "insert"}) /\ Busy(call', 1)
          /\ \A w \in Workers : call'[w].kind # "notice"
          /\ gone' = {} /\ \A t \in Trips : row'[t].state \in {"none", "open"}
       \/ /\ scene = "ticks"
          /\ \A w \in Workers : call'[w].replyTo = None /\ call'[w].kind # "notice"
          /\ M!FreeMessages' # {}
          /\ gone' = {} /\ \A t \in Trips : row'[t].state \in {"none", "open"}
       \/ /\ scene = "posts"
          /\ Busy(call', 1)
          /\ Cardinality(M!FreeMessages') >= 2

-----------------------------------------------------------------------------

Scenes == DOMAIN AccountScenes \cup {"sessions", "links", "guesses", "requests"}
              \cup DOMAIN RoomScenes \cup {"quotes", "ticks", "posts"}

Init ==
    /\ scene \in Scenes
    /\ A!Init
    /\ Staff = AccountScenes[IF scene \in DOMAIN AccountScenes THEN scene ELSE "hires"].staff
    /\ S!Init /\ account[a1] = "active" /\ account[m1] = "none"
    /\ D!Init /\ boss = CHOOSE m \in Managers : TRUE
    /\ L!Init /\ driver = d1 /\ (scene # "group" => members = {})
    /\ M!Init

Next ==
    /\ \/ AccountsMove /\ UNCHANGED <<sessionVars, loginVars, roomVars, messageVars>>
       \/ SessionsMove /\ UNCHANGED <<accountVars, loginVars, roomVars, messageVars>>
       \/ LoginMoves /\ UNCHANGED <<accountVars, sessionVars, roomVars, messageVars>>
       \/ RoomsMove /\ UNCHANGED <<accountVars, sessionVars, loginVars, messageVars>>
       \/ MessagesMove /\ UNCHANGED <<accountVars, sessionVars, loginVars, roomVars>>
    /\ UNCHANGED scene

Spec == Init /\ [][Next]_vars

Symmetry == Permutations(Workers)

-----------------------------------------------------------------------------

\* The types of the five modules.
TypeOK == A!TypeOK /\ S!TypeOK /\ D!TypeOK /\ L!TypeOK /\ M!TypeOK

\* The properties of Accounts, as stated and explained there.
ErasedStaysOut == A!ErasedStaysOut
AdminRemains == A!AdminRemains
CompanyGoesTogether == A!CompanyGoesTogether
CapsHold == A!CapsHold
MovesOnConsent == A!MovesOnConsent

\* Those of SignIn.
EndedStaysEnded == S!EndedStaysEnded
LinksAreSingleUse == S!LinksAreSingleUse
SessionsLast == S!SessionsLast

\* Those of DriverLogin.
CodesCounted == D!CodesCounted
OneSignInPerRound == D!OneSignInPerRound

\* Those of LiveRooms.
RoomsMatchRights == L!RoomsMatchRights
PresenceSettles == L!PresenceSettles

\* Those of TripMessages.
QuotesStayInside == M!QuotesStayInside
TickedByRecipient == M!TickedByRecipient

=============================================================================
