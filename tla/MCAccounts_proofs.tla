--------------------------- MODULE MCAccounts_proofs ---------------------------
(***************************************************************************)
(* Theorems about the scenes.  Every scene is a behaviour of each of the   *)
(* modules.  The proofs about DriverLogin and LiveRooms are here, for all  *)
(* values of their constants; the theorems about Accounts, SignIn and      *)
(* TripMessages have modules of their own, and are carried over for the    *)
(* instances that MCAccounts checks, with any number of workers,           *)
(* transfers, tokens, links, trips, sessions and messages.                 *)
(***************************************************************************)
EXTENDS MCAccounts, FiniteSetTheorems, TLAPS

AP == INSTANCE Accounts_proofs WITH Users <- People, Companies <- {c1, c2, c3}, Role <- Roles,
        Home <- Homes, MaxPerDay <- 1, MaxPerCompany <- 1, task <- accountTask

SP == INSTANCE SignIn_proofs WITH Users <- {a1, m1}, Admins <- {a1}, Grace <- 1, Lifetime <- 2,
        Kept <- 1, MaxTime <- 3, task <- sessionTask

MP == INSTANCE TripMessages_proofs WITH Drivers <- RoomDrivers, Managers <- {m1},
        Sessions <- Chats, Clients <- Workers

-----------------------------------------------------------------------------
(* The instances that the proofs are about are those that the scenes move. *)

LEMMA SameAccounts ==
    /\ (A!Init <=> AP!Init) /\ (A!Next <=> AP!Next)
    /\ (A!AccountsAssumption <=> AP!AccountsAssumption) /\ A!vars = AP!vars
  BY DEF A!IsFiniteSet, A!Cardinality, A!AccountsAssumption, A!vars, A!NoUser, A!NoTransfer, A!Idle,
         A!Hired, A!Init, A!Exists, A!Acts, A!Rank, A!CanManageUser, A!InReach, A!OtherAdmins,
         A!Free, A!Start, A!Goto, A!Return, A!ReliesOn, A!Touch, A!CreateManager, A!CreateDriver,
         A!Insert, A!Expired, A!Unanswered, A!OfPair, A!MadeToday, A!TodayFor, A!TodayBy, A!Check,
         A!Supersede, A!CreateTransfer, A!Send, A!FoundOpen, A!OpenLink, A!ReadRequester, A!Accept,
         A!Decline, A!Grow, A!Activate, A!Deactivate, A!SetActive, A!DeleteOwnAccount,
         A!CountAdmins, A!Erase, A!UpdateDriver, A!SetSeat, A!SetBoss, A!Die, A!ByStaff, A!Request,
         A!Statement, A!Next, AP!IsFiniteSet, AP!Cardinality, AP!AccountsAssumption, AP!vars,
         AP!NoUser, AP!NoTransfer, AP!Idle, AP!Hired, AP!Init, AP!Exists, AP!Acts, AP!Rank,
         AP!CanManageUser, AP!InReach, AP!OtherAdmins, AP!Free, AP!Start, AP!Goto, AP!Return,
         AP!ReliesOn, AP!Touch, AP!CreateManager, AP!CreateDriver, AP!Insert, AP!Expired,
         AP!Unanswered, AP!OfPair, AP!MadeToday, AP!TodayFor, AP!TodayBy, AP!Check, AP!Supersede,
         AP!CreateTransfer, AP!Send, AP!FoundOpen, AP!OpenLink, AP!ReadRequester, AP!Accept,
         AP!Decline, AP!Grow, AP!Activate, AP!Deactivate, AP!SetActive, AP!DeleteOwnAccount,
         AP!CountAdmins, AP!Erase, AP!UpdateDriver, AP!SetSeat, AP!SetBoss, AP!Die, AP!ByStaff,
         AP!Request, AP!Statement, AP!Next

LEMMA SameSignIn ==
    /\ (S!Init <=> SP!Init) /\ (S!Next <=> SP!Next)
    /\ (S!SignInAssumption <=> SP!SignInAssumption) /\ S!vars = SP!vars
  BY DEF S!IsFiniteSet, S!SignInAssumption, S!vars, S!NoToken, S!DeletedToken, S!NoLink,
         S!DeletedLink, S!Idle, S!Init, S!Free, S!Start, S!Goto, S!Return, S!Issuing, S!TokensOf,
         S!EndSessions, S!Bar, S!Honoured, S!Refresh, S!Rotate, S!Issue, S!Login, S!AdminLogin,
         S!Logout, S!Dead, S!Purge, S!Deactivate, S!Activate, S!Erase, S!RequestReset, S!MailLink,
         S!Invite, S!OpenLink, S!Spent, S!ResetPassword, S!RegisterInvited, S!RegisterLead,
         S!ExpireLink, S!Die, S!Tick, S!Request, S!Statement, S!Next, SP!IsFiniteSet,
         SP!SignInAssumption, SP!vars, SP!NoToken, SP!DeletedToken, SP!NoLink, SP!DeletedLink,
         SP!Idle, SP!Init, SP!Free, SP!Start, SP!Goto, SP!Return, SP!Issuing, SP!TokensOf,
         SP!EndSessions, SP!Bar, SP!Honoured, SP!Refresh, SP!Rotate, SP!Issue, SP!Login, SP!AdminLogin,
         SP!Logout,
         SP!Dead, SP!Purge, SP!Deactivate, SP!Activate, SP!Erase, SP!RequestReset, SP!MailLink,
         SP!Invite, SP!OpenLink, SP!Spent, SP!ResetPassword, SP!RegisterInvited, SP!RegisterLead,
         SP!ExpireLink, SP!Die, SP!Tick, SP!Request, SP!Statement, SP!Next

LEMMA SameMessages ==
    /\ (M!Init <=> MP!Init) /\ (M!Next <=> MP!Next)
    /\ (M!MessagesAssumption <=> MP!MessagesAssumption) /\ M!vars = MP!vars
  BY DEF M!MessagesAssumption, M!vars, M!Users, M!NoTrip, M!NoMessage, M!NewMessage, M!Live,
         M!FreeMessages, M!Participants, M!SessionsOf, M!ActiveReads, M!Quiet, M!Init, M!Create,
         M!HasChat, M!Reassign, M!TakeOver, M!CloseChat, M!SetState, M!DriverLeaves, M!Receive,
         M!Answer, M!MayWrite, M!PostCheck, M!PostToOpenTrip, M!PostSession, M!QuoteInScope,
         M!PostInsert, M!ReadSessions, M!MarkRead, M!ClientStep, M!TripStep, M!Next,
         M!Chat!Init, M!Chat!BeginChat, M!Chat!EndChat,
         MP!MessagesAssumption, MP!vars, MP!Users, MP!NoTrip, MP!NoMessage, MP!NewMessage, MP!Live,
         MP!FreeMessages, MP!Participants, MP!SessionsOf, MP!ActiveReads, MP!Quiet, MP!Init,
         MP!Create, MP!HasChat, MP!Reassign, MP!TakeOver, MP!CloseChat, MP!SetState,
         MP!DriverLeaves, MP!Receive, MP!Answer, MP!MayWrite, MP!PostCheck, MP!PostToOpenTrip,
         MP!PostSession, MP!QuoteInScope, MP!PostInsert, MP!ReadSessions, MP!MarkRead,
         MP!ClientStep, MP!TripStep, MP!Next, MP!Chat!Init, MP!Chat!BeginChat, MP!Chat!EndChat

-----------------------------------------------------------------------------
(* Every scene is a behaviour of each module: what moves is a step of one  *)
(* of them, and leaves the variables of the others alone.                  *)

LEMMA ScenesOfAccounts == Spec => AP!Spec
<1>1. Init => AP!Init
  BY SameAccounts DEF Init
<1>2. [Next]_vars => [AP!Next]_(AP!vars)
  <2>1. UNCHANGED accountVars => UNCHANGED AP!vars
    BY DEF accountVars, AP!vars
  <2>2. AccountsMove => AP!Next
    BY SameAccounts DEF AccountsMove
  <2>. QED  BY <2>1, <2>2 DEF Next, vars
<1>. QED  BY <1>1, <1>2, PTL DEF Spec, AP!Spec

LEMMA AccountsBounds == AP!AccountsAssumption
  BY AccountsConstants, SameAccounts

LEMMA ScenesOfSignIn == Spec => SP!Spec
<1>1. Init => SP!Init
  BY SameSignIn DEF Init
<1>2. [Next]_vars => [SP!Next]_(SP!vars)
  <2>1. UNCHANGED sessionVars => UNCHANGED SP!vars
    BY DEF sessionVars, SP!vars
  <2>2. SessionsMove => SP!Next
    BY SameSignIn DEF SessionsMove
  <2>. QED  BY <2>1, <2>2 DEF Next, vars
<1>. QED  BY <1>1, <1>2, PTL DEF Spec, SP!Spec

LEMMA SessionBounds == SP!SignInAssumption
  BY SessionConstants, SameSignIn

LEMMA ScenesOfDriverLogin == Spec => D!Spec
<1>1. Init => D!Init
  BY DEF Init
<1>2. [Next]_vars => [D!Next]_(D!vars)
  <2>1. UNCHANGED loginVars => UNCHANGED D!vars
    BY DEF loginVars, D!vars
  <2>2. LoginMoves => D!Next
    BY DEF LoginMoves
  <2>. QED  BY <2>1, <2>2 DEF Next, vars
<1>. QED  BY <1>1, <1>2, PTL DEF Spec, D!Spec

LEMMA ScenesOfRooms == Spec => L!Spec
<1>1. Init => L!Init
  BY DEF Init
<1>2. [Next]_vars => [L!Next]_(L!vars)
  <2>1. UNCHANGED roomVars => UNCHANGED L!vars
    BY DEF roomVars, L!vars
  <2>2. RoomsMove => L!Next
    BY DEF RoomsMove
  <2>. QED  BY <2>1, <2>2 DEF Next, vars
<1>. QED  BY <1>1, <1>2, PTL DEF Spec, L!Spec

LEMMA ScenesOfMessages == Spec => MP!Spec
<1>1. Init => MP!Init
  BY SameMessages DEF Init
<1>2. [Next]_vars => [MP!Next]_(MP!vars)
  <2>1. UNCHANGED messageVars => UNCHANGED MP!vars
    BY DEF messageVars, MP!vars
  <2>2. MessagesMove => MP!Next
    BY SameMessages DEF MessagesMove
  <2>. QED  BY <2>1, <2>2 DEF Next, vars
<1>. QED  BY <1>1, <1>2, PTL DEF Spec, MP!Spec

LEMMA MessageBounds == MP!MessagesAssumption
  BY MessageConstants, SameMessages

-----------------------------------------------------------------------------
(* The invariant of the live rooms.                                        *)

Present == {"fetched", "done"}

\* A socket is in its company's room from its handshake on, and is somebody's;
\* whoever it counts as a member is one.
SocketsLive == \A s \in Sockets :
    /\ "company" \in socket[s].rooms <=> socket[s].chat \in Present
    /\ socket[s] = L!Closed \/ socket[s].user \in RoomUsers
    /\ socket[s].member => socket[s].user \in members

Asking == {"joinTrip", "joinGroup", "quitGroup", "snapshot"}

\* What was asked on a socket is answered while it is open.
Sound(j) ==
    /\ j.pc \in Asking => j.socket \in Sockets /\ "company" \in socket[j.socket].rooms
    /\ j.pc \notin Asking => j.socket = None
    /\ j.pc \in {"disconnect", "assign", "leaveTrip", "leaveGroup"} => j.user \in RoomUsers
    /\ j.pc = "assign" => j.next \in RoomDrivers

TasksLive == \A w \in Workers : Sound(roomTask[w])

\* Every list that says whether u is online says so: those shown, those fetched
\* and those that are about to be sent.
Told(u) ==
    /\ \A s \in Sockets \ blurred :
          /\ socket[s].chat = "done" => (u \in shown[s] <=> u \in L!Online)
          /\ socket[s].chat = "fetched" => (u \in socket[s].online <=> u \in L!Online)
    /\ \A w \in Workers :
          roomTask[w].pc = "snapshot" /\ roomTask[w].socket \notin blurred
            => (u \in roomTask[w].online <=> u \in L!Online)

Settled == \A u \in RoomUsers \ blurred : ~L!Unannounced(u) => Told(u)

RoomsInv == L!TypeOK /\ SocketsLive /\ TasksLive /\ L!RoomsMatchRights /\ Settled

-----------------------------------------------------------------------------
(* Rows of sockets.                                                        *)

LEMMA IdleIsTask ==
    /\ L!Idle \in L!Tasks /\ L!Idle.pc = "idle" /\ L!Idle.socket = None /\ L!Idle.user = None
  BY DEF L!Idle, L!Tasks

LEMMA ClosedRow ==
    /\ L!Closed \in L!SocketRows /\ L!Closed.rooms = {} /\ L!Closed.user = None
    /\ L!Closed.chat = "off" /\ ~L!Closed.member
  BY DEF L!Closed, L!SocketRows

LEMMA OneTaskMoves ==
    ASSUME L!TypeOK, NEW w \in Workers, NEW j \in L!Tasks, roomTask' = [roomTask EXCEPT ![w] = j]
    PROVE  /\ roomTask' \in [Workers -> L!Tasks]
           /\ roomTask'[w] = j
           /\ \A v \in Workers \ {w} : roomTask'[v] = roomTask[v]
  BY DEF L!TypeOK

LEMMA OneSocketMoves ==
    ASSUME L!TypeOK, NEW s \in Sockets, NEW r \in L!SocketRows, socket' = [socket EXCEPT ![s] = r]
    PROVE  /\ socket' \in [Sockets -> L!SocketRows]
           /\ socket'[s] = r
           /\ \A x \in Sockets \ {s} : socket'[x] = socket[x]
  BY DEF L!TypeOK

\* The row that each step of a handshake leaves.
LEMMA ConnectRow ==
    ASSUME L!TypeOK, NEW s \in Sockets, NEW u \in RoomUsers, L!Connect(s, u)
    PROVE  /\ socket' \in [Sockets -> L!SocketRows]
           /\ \A x \in Sockets \ {s} : socket'[x] = socket[x]
           /\ socket[s] = L!Closed
           /\ socket'[s].user = u /\ socket'[s].rooms = {} /\ ~socket'[s].member
           /\ socket'[s].chat = "auth" /\ socket'[s].direct = "auth" /\ ~socket'[s].alone
<1> DEFINE r == [L!Closed EXCEPT !.user = u, !.chat = "auth", !.direct = "auth"]
<1>1. /\ r \in L!SocketRows /\ r.user = u /\ r.rooms = {} /\ ~r.member
      /\ r.chat = "auth" /\ r.direct = "auth" /\ ~r.alone
  BY DEF L!Closed, L!SocketRows
<1>2. socket' = [socket EXCEPT ![s] = r] /\ socket[s] = L!Closed
  BY DEF L!Connect
<1> HIDE DEF r
<1>. QED  BY <1>1, <1>2, OneSocketMoves

LEMMA OnlineUsers ==
    ASSUME L!TypeOK, SocketsLive
    PROVE  L!Online \subseteq RoomUsers
<1>. SUFFICES ASSUME NEW s \in L!In("company") PROVE socket[s].user \in RoomUsers
  BY DEF L!Online
<1>1. s \in Sockets /\ socket[s].chat \in Present
  BY DEF L!In, SocketsLive
<1>. QED  BY <1>1, ClosedRow DEF SocketsLive, Present

LEMMA EnterRow ==
    ASSUME L!TypeOK, SocketsLive, NEW s \in Sockets, L!Enter(s)
    PROVE  /\ socket' \in [Sockets -> L!SocketRows]
           /\ \A x \in Sockets \ {s} : socket'[x] = socket[x]
           /\ socket'[s].user = socket[s].user
           /\ socket'[s].rooms = socket[s].rooms \cup {"company"}
           /\ socket'[s].member = socket[s].member /\ socket'[s].direct = socket[s].direct
           /\ socket'[s].chat = "fetched"
           /\ socket'[s].online = L!Online \cup {socket[s].user}
           /\ socket'[s].alone = (socket[s].user \notin L!Online)
<1> DEFINE r == [socket[s] EXCEPT !.chat = "fetched", !.rooms = @ \cup {"company"},
                                  !.online = L!Online \cup {socket[s].user},
                                  !.alone = socket[s].user \notin L!Online]
<1>1. socket' = [socket EXCEPT ![s] = r]
  BY DEF L!Enter, L!TypeOK, L!SocketRows
<1>2. socket[s] \in L!SocketRows
  BY DEF L!TypeOK
<1>3. L!Online \subseteq RoomUsers
  BY OnlineUsers
<1>4. socket[s].user \in RoomUsers
  BY ClosedRow DEF L!Enter, SocketsLive
<1>5. /\ r \in L!SocketRows /\ r.user = socket[s].user
      /\ r.rooms = socket[s].rooms \cup {"company"}
      /\ r.member = socket[s].member /\ r.direct = socket[s].direct /\ r.chat = "fetched"
      /\ r.online = L!Online \cup {socket[s].user}
      /\ r.alone = (socket[s].user \notin L!Online)
  BY <1>2, <1>3, <1>4 DEF L!SocketRows, L!Rooms
<1> HIDE DEF r
<1>. QED  BY <1>1, <1>5, OneSocketMoves

LEMMA SnapshotRow ==
    ASSUME L!TypeOK, NEW s \in Sockets, L!Snapshot(s)
    PROVE  /\ socket' \in [Sockets -> L!SocketRows]
           /\ \A x \in Sockets \ {s} : socket'[x] = socket[x]
           /\ socket[s].chat = "fetched" /\ socket'[s].chat = "done"
           /\ socket'[s].user = socket[s].user /\ socket'[s].rooms = socket[s].rooms
           /\ socket'[s].member = socket[s].member /\ socket'[s].direct = socket[s].direct
           /\ ~socket'[s].alone
<1> DEFINE r == [socket[s] EXCEPT !.chat = "done", !.online = {}, !.alone = FALSE]
<1>1. socket' = [socket EXCEPT ![s] = r] /\ socket[s].chat = "fetched"
  BY DEF L!Snapshot, L!TypeOK, L!SocketRows
<1>2. socket[s] \in L!SocketRows
  BY DEF L!TypeOK
<1>3. /\ r \in L!SocketRows /\ r.chat = "done" /\ r.user = socket[s].user
      /\ r.rooms = socket[s].rooms /\ r.member = socket[s].member
      /\ r.direct = socket[s].direct /\ ~r.alone
  BY <1>2 DEF L!SocketRows
<1> HIDE DEF r
<1>. QED  BY <1>1, <1>3, OneSocketMoves

\* The other steps that change sockets leave alone what presence depends on.
SamePresence(s) ==
    /\ socket'[s].user = socket[s].user /\ socket'[s].chat = socket[s].chat
    /\ socket'[s].online = socket[s].online /\ socket'[s].alone = socket[s].alone
    /\ "company" \in socket'[s].rooms <=> "company" \in socket[s].rooms

LEMMA ReadRow ==
    ASSUME L!TypeOK, NEW s \in Sockets, L!ReadGroups(s)
    PROVE  /\ socket' \in [Sockets -> L!SocketRows]
           /\ \A x \in Sockets \ {s} : socket'[x] = socket[x]
           /\ socket'[s].rooms = socket[s].rooms /\ SamePresence(s)
           /\ socket'[s].member => socket[s].user \in members /\ socket'[s].direct # "done"
<1> DEFINE found == socket[s].user \in members
           r == [socket[s] EXCEPT !.direct = IF found THEN "join" ELSE "done",
                                  !.member = found]
<1>1. socket' = [socket EXCEPT ![s] = r]
  BY DEF L!ReadGroups, L!TypeOK, L!SocketRows
<1>2. socket[s] \in L!SocketRows
  BY DEF L!TypeOK
<1>3. /\ r \in L!SocketRows /\ r.chat = socket[s].chat /\ r.user = socket[s].user
      /\ r.rooms = socket[s].rooms /\ r.online = socket[s].online
      /\ r.alone = socket[s].alone
      /\ r.member <=> found
      /\ r.direct = IF found THEN "join" ELSE "done"
  <2>1. CASE found
    <3>1. r = [socket[s] EXCEPT !.direct = "join", !.member = TRUE]
      BY <2>1
    <3>. QED  BY <1>2, <2>1, <3>1 DEF L!SocketRows
  <2>2. CASE ~found
    <3>0. (socket[s].user \in members) = FALSE
      BY <2>2
    <3>1. r = [socket[s] EXCEPT !.direct = "done", !.member = FALSE]
      BY <2>2, <3>0
    <3>. QED  BY <1>2, <2>2, <3>1 DEF L!SocketRows
  <2>. QED  BY <2>1, <2>2
<1> HIDE DEF r
<1>. QED  BY <1>1, <1>3, OneSocketMoves DEF SamePresence

\* A room that is entered, the company's apart.
LEMMA RoomRow ==
    ASSUME L!TypeOK, NEW s \in Sockets, NEW room \in {"trip", "group"},
           NEW direct \in {"off", "auth", "join", "done"},
           socket' = [socket EXCEPT ![s] = [socket[s] EXCEPT !.direct = direct,
                                                             !.rooms = @ \cup {room}]]
    PROVE  /\ socket' \in [Sockets -> L!SocketRows]
           /\ \A x \in Sockets \ {s} : socket'[x] = socket[x]
           /\ socket'[s].rooms = socket[s].rooms \cup {room} /\ SamePresence(s)
           /\ socket'[s].member = socket[s].member /\ socket'[s].direct = direct
<1> DEFINE r == [socket[s] EXCEPT !.direct = direct, !.rooms = @ \cup {room}]
<1>1. socket' = [socket EXCEPT ![s] = r]
  OBVIOUS
<1>2. socket[s] \in L!SocketRows
  BY DEF L!TypeOK
<1>3. /\ r \in L!SocketRows /\ r.chat = socket[s].chat /\ r.user = socket[s].user
      /\ r.rooms = socket[s].rooms \cup {room} /\ r.online = socket[s].online
      /\ r.alone = socket[s].alone
      /\ r.member = socket[s].member /\ r.direct = direct
  BY <1>2 DEF L!SocketRows, L!Rooms
<1>4. "company" \in r.rooms <=> "company" \in socket[s].rooms
  BY <1>3
<1> HIDE DEF r
<1>. QED  BY <1>1, <1>3, <1>4, OneSocketMoves DEF SamePresence

LEMMA LeavesRows ==
    ASSUME L!TypeOK, NEW shut, NEW room \in {"trip", "group"}, socket' = L!Leaves(shut, room)
    PROVE  /\ socket' \in [Sockets -> L!SocketRows]
           /\ \A s \in Sockets :
                /\ SamePresence(s)
                /\ socket'[s].member = socket[s].member
                /\ socket'[s].direct = socket[s].direct
                /\ s \in shut => socket'[s].rooms = socket[s].rooms \ {room}
                /\ s \notin shut => socket'[s].rooms = socket[s].rooms
<1>1. ASSUME NEW s \in Sockets
      PROVE  LET r == [socket[s] EXCEPT !.rooms = @ \ {room}] IN
             /\ r \in L!SocketRows /\ r.chat = socket[s].chat /\ r.user = socket[s].user
             /\ r.rooms = socket[s].rooms \ {room} /\ r.online = socket[s].online
             /\ r.alone = socket[s].alone
             /\ r.member = socket[s].member /\ r.direct = socket[s].direct
  <2>1. socket[s] \in L!SocketRows
    BY DEF L!TypeOK
  <2>. QED  BY <2>1 DEF L!SocketRows
<1>2. ASSUME NEW s \in Sockets
      PROVE  socket'[s] = IF s \in shut THEN [socket[s] EXCEPT !.rooms = @ \ {room}] ELSE socket[s]
  BY DEF L!Leaves
<1>3. ASSUME NEW s \in Sockets
      PROVE  /\ socket'[s] \in L!SocketRows /\ SamePresence(s)
             /\ socket'[s].member = socket[s].member
             /\ socket'[s].direct = socket[s].direct
             /\ s \in shut => socket'[s].rooms = socket[s].rooms \ {room}
             /\ s \notin shut => socket'[s].rooms = socket[s].rooms
  <2>1. CASE s \in shut
    BY <1>1, <1>2, <2>1 DEF SamePresence
  <2>2. CASE s \notin shut
    BY <1>2, <2>2 DEF SamePresence, L!TypeOK
  <2>. QED  BY <2>1, <2>2
<1>4. socket' = [s \in Sockets |-> socket'[s]]
  BY DEF L!Leaves
<1>. QED  BY <1>3, <1>4

LEMMA RemoveRows ==
    ASSUME L!TypeOK, NEW u \in RoomUsers, NEW w \in Workers, L!RemoveMember(w, u)
    PROVE  /\ socket' \in [Sockets -> L!SocketRows]
           /\ \A s \in Sockets :
                /\ SamePresence(s)
                /\ socket'[s].rooms = socket[s].rooms
                /\ socket'[s].direct = socket[s].direct
                /\ socket'[s].member => socket[s].member /\ socket[s].user # u
<1>1. ASSUME NEW s \in Sockets
      PROVE  LET r == [socket[s] EXCEPT !.member = FALSE] IN
             /\ r \in L!SocketRows /\ r.chat = socket[s].chat /\ r.user = socket[s].user
             /\ r.rooms = socket[s].rooms /\ r.online = socket[s].online
             /\ r.alone = socket[s].alone /\ ~r.member /\ r.direct = socket[s].direct
  <2>1. socket[s] \in L!SocketRows
    BY DEF L!TypeOK
  <2>. QED  BY <2>1 DEF L!SocketRows
<1>2. ASSUME NEW s \in Sockets
      PROVE  socket'[s] = IF s \in L!Of(u) THEN [socket[s] EXCEPT !.member = FALSE] ELSE socket[s]
  BY DEF L!RemoveMember
<1>3. ASSUME NEW s \in Sockets
      PROVE  /\ socket'[s] \in L!SocketRows /\ SamePresence(s)
             /\ socket'[s].rooms = socket[s].rooms
             /\ socket'[s].direct = socket[s].direct
             /\ socket'[s].member => socket[s].member /\ socket[s].user # u
  <2>1. CASE s \in L!Of(u)
    BY <1>1, <1>2, <2>1 DEF SamePresence
  <2>2. CASE s \notin L!Of(u)
    BY <1>2, <2>2 DEF SamePresence, L!TypeOK, L!Of
  <2>. QED  BY <2>1, <2>2
<1>4. socket' = [s \in Sockets |-> socket'[s]]
  BY DEF L!RemoveMember
<1>. QED  BY <1>3, <1>4

\* The handshakes of closed sockets are over, and so is what was asked on them.
LEMMA CloseRows ==
    ASSUME L!TypeOK, NEW u \in RoomUsers, NEW shut \in SUBSET Sockets, L!Close(u, shut)
    PROVE  /\ socket' \in [Sockets -> L!SocketRows]
           /\ \A s \in shut : socket'[s] = L!Closed
           /\ \A s \in Sockets \ shut : socket'[s] = socket[s]
  BY ClosedRow DEF L!Close, L!TypeOK

-----------------------------------------------------------------------------
(* Types.                                                                  *)

LEMMA OvertakenSockets ==
    ASSUME L!TypeOK, TasksLive, NEW u, NEW online
    PROVE  L!Overtaken(u, online) \subseteq Sockets
  BY DEF L!Overtaken, TasksLive, Sound, Asking

LEMMA AnnounceTypes ==
    ASSUME L!TypeOK, TasksLive, NEW u \in RoomUsers, NEW online \in BOOLEAN, NEW shut, NEW closed,
           NEW before \in [Sockets -> SUBSET RoomUsers], L!Announce(u, online, shut, before, closed)
    PROVE  shown' \in [Sockets -> SUBSET RoomUsers] /\ blurred' \subseteq RoomUsers \cup Sockets
<1>1. blurred' \subseteq RoomUsers \cup Sockets
  BY OvertakenSockets DEF L!Announce, L!TypeOK
<1>2. shown' \in [Sockets -> SUBSET RoomUsers]
  BY DEF L!Announce
<1>. QED  BY <1>1, <1>2

LEMMA CloseTypes ==
    ASSUME L!TypeOK, TasksLive, NEW u \in RoomUsers, NEW shut \in SUBSET Sockets, L!Close(u, shut),
           UNCHANGED <<inCompany, driver, members>>, roomTask' \in [Workers -> L!Tasks]
    PROVE  L!TypeOK'
<1>1. socket' \in [Sockets -> L!SocketRows]
  BY CloseRows
<1>2. /\ late' \subseteq RoomUsers \X Sockets \X {"auth", "fetched"}
      /\ tangled' \subseteq Sockets
  BY DEF L!Close, L!GoesOn, L!TypeOK
<1> DEFINE left == [s \in Sockets |-> IF s \in shut THEN {} ELSE shown[s]]
<1>3. left \in [Sockets -> SUBSET RoomUsers]
  BY DEF L!TypeOK
<1>4. shown' \in [Sockets -> SUBSET RoomUsers] /\ blurred' \subseteq RoomUsers \cup Sockets
  <2>1. CASE L!LastOf(u, shut)
    <3>1. L!Announce(u, FALSE, L!In("company") \ shut, left, shut)
      BY <2>1 DEF L!Close
    <3>. HIDE DEF left
    <3>. QED  BY <1>3, <3>1, AnnounceTypes
  <2>2. CASE ~L!LastOf(u, shut)
    BY <1>3, <2>2 DEF L!Close, L!TypeOK
  <2>. QED  BY <2>1, <2>2
<1>. QED  BY <1>1, <1>2, <1>4 DEF L!TypeOK

\* A socket that is nobody's is closed.
LEMMA SocketsOfUsers ==
    ASSUME SocketsLive, NEW s \in Sockets, socket[s].chat # "off"
    PROVE  socket[s].user \in RoomUsers
  BY ClosedRow DEF SocketsLive

LEMMA EntersTypes ==
    ASSUME L!TypeOK, NEW s \in Sockets, NEW room, L!Enters(s, room)
    PROVE  tangled' \subseteq Sockets
  BY DEF L!Enters, L!TypeOK

LEMMA HandshakeTypes ==
    ASSUME L!TypeOK, SocketsLive, TasksLive, NEW s \in Sockets, L!Handshake(s)
    PROVE  L!TypeOK'
<1>1. ASSUME NEW u \in RoomUsers, L!Connect(s, u) PROVE L!TypeOK'
  BY <1>1, ConnectRow DEF L!Connect, L!TypeOK
<1>2. CASE L!Enter(s)
  BY <1>2, EnterRow, EntersTypes DEF L!Enter, L!TypeOK
<1>3. CASE L!Snapshot(s)
  <2>1. /\ UNCHANGED <<inCompany, driver, members, late, roomTask, tangled>>
        /\ socket' \in [Sockets -> L!SocketRows]
        /\ socket[s].user \in RoomUsers
    BY <1>3, SnapshotRow, SocketsOfUsers DEF L!Snapshot
  <2> DEFINE listed == [shown EXCEPT ![s] = socket[s].online]
  <2>2. listed \in [Sockets -> SUBSET RoomUsers]
    BY DEF L!TypeOK, L!SocketRows
  <2>3. shown' \in [Sockets -> SUBSET RoomUsers] /\ blurred' \subseteq RoomUsers \cup Sockets
    <3>1. CASE socket[s].alone
      <4>1. L!Announce(socket[s].user, TRUE, L!In("company"), listed, {})
        BY <1>3, <3>1 DEF L!Snapshot
      <4> HIDE DEF listed
      <4>. QED  BY <2>1, <2>2, <4>1, AnnounceTypes
    <3>2. CASE ~socket[s].alone
      <4>1. shown' = listed /\ UNCHANGED blurred
        BY <1>3, <3>2 DEF L!Snapshot
      <4>. QED  BY <2>2, <4>1 DEF L!TypeOK
    <3>. QED  BY <3>1, <3>2
  <2>. QED  BY <2>1, <2>3 DEF L!TypeOK
<1>4. CASE L!ReadGroups(s)
  BY <1>4, ReadRow DEF L!ReadGroups, L!TypeOK
<1>5. CASE L!JoinGroups(s)
  <2>1. socket' = [socket EXCEPT ![s] = [socket[s] EXCEPT !.direct = "done",
                                                          !.rooms = @ \cup {"group"}]]
    BY <1>5 DEF L!JoinGroups, L!TypeOK, L!SocketRows
  <2>2. socket' \in [Sockets -> L!SocketRows]
    BY <2>1, RoomRow
  <2>. QED  BY <1>5, <2>2, EntersTypes DEF L!JoinGroups, L!TypeOK
<1>. QED  BY <1>1, <1>2, <1>3, <1>4, <1>5 DEF L!Handshake

LEMMA RequestTypes ==
    ASSUME L!LiveRoomsAssumption, L!TypeOK, SocketsLive, TasksLive, NEW w \in Workers, L!Request(w)
    PROVE  L!TypeOK'
<1>1. ASSUME NEW s \in Sockets, L!RequestPresence(w, s) PROVE L!TypeOK'
  <2> DEFINE j == [L!Idle EXCEPT !.pc = "snapshot", !.socket = s, !.online = L!Online]
  <2>1. j \in L!Tasks
    BY OnlineUsers DEF L!Idle, L!Tasks
  <2>2. /\ roomTask' = [roomTask EXCEPT ![w] = j]
        /\ UNCHANGED <<inCompany, driver, members, socket, late, shown, tangled, blurred>>
    BY <1>1 DEF L!RequestPresence, L!Start
  <2> HIDE DEF j
  <2>. QED  BY <2>1, <2>2, OneTaskMoves DEF L!TypeOK
<1>2. ASSUME NEW s \in Sockets, NEW room \in {"trip", "group"}, L!AskRoom(w, s, room)
      PROVE  L!TypeOK'
  <2> DEFINE j == [L!Idle EXCEPT !.pc = IF room = "trip" THEN "joinTrip" ELSE "joinGroup",
                                 !.socket = s]
  <2>1. j \in L!Tasks
    BY DEF L!Idle, L!Tasks
  <2>2. /\ roomTask' = [roomTask EXCEPT ![w] = j]
        /\ UNCHANGED <<inCompany, driver, members, socket, late, shown, tangled, blurred>>
    BY <1>2 DEF L!AskRoom, L!Start
  <2> HIDE DEF j
  <2>. QED  BY <2>1, <2>2, OneTaskMoves DEF L!TypeOK
<1>3. ASSUME NEW u \in RoomUsers, NEW reset \in BOOLEAN, L!EndAccess(w, u, reset) PROVE L!TypeOK'
  <2> DEFINE j == [L!Idle EXCEPT !.pc = "disconnect", !.user = u]
  <2>1. j \in L!Tasks
    BY DEF L!Idle, L!Tasks
  <2>2. /\ roomTask' = [roomTask EXCEPT ![w] = j] /\ inCompany' \subseteq RoomUsers
        /\ UNCHANGED <<driver, members, socket, late, shown, tangled, blurred>>
    BY <1>3 DEF L!EndAccess, L!Start, L!TypeOK
  <2> HIDE DEF j
  <2>. QED  BY <2>1, <2>2, OneTaskMoves DEF L!TypeOK
<1>4. ASSUME NEW d \in RoomDrivers, L!Reassign(w, d) PROVE L!TypeOK'
  <2> DEFINE j == [L!Idle EXCEPT !.pc = "assign", !.user = driver, !.next = d]
  <2>1. j \in L!Tasks
    BY DEF L!Idle, L!Tasks, L!TypeOK, L!LiveRoomsAssumption
  <2>2. /\ roomTask' = [roomTask EXCEPT ![w] = j]
        /\ UNCHANGED <<inCompany, driver, members, socket, late, shown, tangled, blurred>>
    BY <1>4 DEF L!Reassign, L!Start
  <2> HIDE DEF j
  <2>. QED  BY <2>1, <2>2, OneTaskMoves DEF L!TypeOK
<1>5. ASSUME NEW u \in RoomUsers, L!RemoveMember(w, u) PROVE L!TypeOK'
  <2> DEFINE j == [L!Idle EXCEPT !.pc = "leaveGroup", !.user = u]
  <2>1. j \in L!Tasks
    BY DEF L!Idle, L!Tasks
  <2>2. /\ roomTask' = [roomTask EXCEPT ![w] = j] /\ members' \subseteq RoomUsers \ RoomDrivers
        /\ UNCHANGED <<inCompany, driver, late, shown, tangled, blurred>>
    BY <1>5 DEF L!RemoveMember, L!Start, L!TypeOK
  <2> HIDE DEF j
  <2>. QED  BY <1>5, <2>1, <2>2, OneTaskMoves, RemoveRows DEF L!TypeOK
<1>6. ASSUME NEW s \in Sockets, L!AskLeave(w, s) PROVE L!TypeOK'
  <2> DEFINE j == [L!Idle EXCEPT !.pc = "quitGroup", !.socket = s]
  <2>1. j \in L!Tasks
    BY DEF L!Idle, L!Tasks
  <2>2. /\ roomTask' = [roomTask EXCEPT ![w] = j]
        /\ UNCHANGED <<inCompany, driver, members, socket, late, shown, tangled, blurred>>
    BY <1>6 DEF L!AskLeave, L!Start
  <2> HIDE DEF j
  <2>. QED  BY <2>1, <2>2, OneTaskMoves DEF L!TypeOK
<1>. QED  BY <1>1, <1>2, <1>3, <1>4, <1>5, <1>6 DEF L!Request

\* Whoever asked to leave the group's room is put out of it, and out of nothing else.
LEMMA LeaveGroupRow ==
    ASSUME L!TypeOK, TasksLive, NEW w \in Workers, L!LeaveGroup(w)
    PROVE  \E s \in Sockets :
             /\ s = roomTask[w].socket /\ "company" \in socket[s].rooms
             /\ socket' \in [Sockets -> L!SocketRows]
             /\ \A x \in Sockets : /\ SamePresence(x)
                                   /\ socket'[x].member = socket[x].member
                                   /\ socket'[x].direct = socket[x].direct
                                   /\ socket'[x].rooms \subseteq socket[x].rooms
             /\ \A x \in Sockets \ {s} : socket'[x] = socket[x]
             /\ tangled' = IF socket[s].member THEN tangled \cup {s} ELSE tangled
<1>1. PICK i \in L!Tasks : roomTask[w] = i
  BY DEF L!TypeOK
<1>2. PICK s \in Sockets : s = i.socket /\ "company" \in socket[s].rooms
  BY <1>1 DEF L!LeaveGroup, TasksLive, Sound, Asking
<1>3. PICK shut \in SUBSET Sockets : shut = {s}
  OBVIOUS
<1>4. /\ socket' = L!Leaves(shut, "group")
      /\ tangled' = IF socket[s].member THEN tangled \cup {s} ELSE tangled
  BY <1>1, <1>2, <1>3 DEF L!LeaveGroup
<1>5. /\ socket' \in [Sockets -> L!SocketRows]
      /\ \A x \in Sockets : /\ SamePresence(x)
                            /\ socket'[x].member = socket[x].member
                            /\ socket'[x].direct = socket[x].direct
                            /\ socket'[x].rooms \subseteq socket[x].rooms
  BY <1>4, LeavesRows
<1>6. \A x \in Sockets \ {s} : socket'[x] = socket[x]
  BY <1>3, <1>4 DEF L!Leaves
<1>. QED  BY <1>1, <1>2, <1>4, <1>5, <1>6

LEMMA EnterRoomRow ==
    ASSUME L!TypeOK, TasksLive, NEW w \in Workers, L!EnterRoom(w)
    PROVE  LET s == roomTask[w].socket
               room == IF roomTask[w].pc = "joinTrip" THEN "trip" ELSE "group"
           IN  /\ s \in Sockets /\ socket' \in [Sockets -> L!SocketRows]
               /\ \A x \in Sockets \ {s} : socket'[x] = socket[x]
               /\ socket'[s].rooms = socket[s].rooms \cup {room} /\ SamePresence(s)
               /\ socket'[s].member = socket[s].member
               /\ socket'[s].direct = socket[s].direct
<1>1. PICK i \in L!Tasks : roomTask[w] = i
  BY DEF L!TypeOK
<1> DEFINE room == IF i.pc = "joinTrip" THEN "trip" ELSE "group"
<1>2. /\ i.socket \in Sockets
      /\ socket' = [socket EXCEPT ![i.socket].rooms = @ \cup {room}]
  BY <1>1 DEF L!EnterRoom, TasksLive, Sound, Asking
<1>3. room \in {"trip", "group"}
  OBVIOUS
<1> HIDE DEF room
<1>4. PICK direct \in {"off", "auth", "join", "done"} : socket[i.socket].direct = direct
  BY <1>2 DEF L!TypeOK, L!SocketRows
<1>5. socket' = [socket EXCEPT ![i.socket] = [socket[i.socket] EXCEPT !.direct = direct,
                                                !.rooms = @ \cup {room}]]
  BY <1>2, <1>4 DEF L!TypeOK, L!SocketRows
<1>6. /\ socket' \in [Sockets -> L!SocketRows]
      /\ \A x \in Sockets \ {i.socket} : socket'[x] = socket[x]
      /\ socket'[i.socket].rooms = socket[i.socket].rooms \cup {room}
      /\ SamePresence(i.socket)
      /\ socket'[i.socket].member = socket[i.socket].member
      /\ socket'[i.socket].direct = socket[i.socket].direct
  <2>1. i.socket \in Sockets
    BY <1>2
  <2>. QED  BY <2>1, <1>3, <1>4, <1>5, RoomRow
<1>. QED  BY <1>1, <1>2, <1>6 DEF room

LEMMA StatementTypes ==
    ASSUME L!LiveRoomsAssumption, L!TypeOK, SocketsLive, TasksLive, NEW w \in Workers,
           L!Statement(w)
    PROVE  L!TypeOK'
<1>1. PICK i \in L!Tasks : roomTask[w] = i /\ Sound(i)
  BY DEF L!TypeOK, TasksLive
<1>2. ASSUME L!Return(w) PROVE roomTask' \in [Workers -> L!Tasks]
  BY <1>2, IdleIsTask, OneTaskMoves DEF L!Return
<1>3. CASE L!SendPresence(w)
  <2>1. /\ i.pc = "snapshot" /\ shown' = [shown EXCEPT ![i.socket] = i.online] /\ L!Return(w)
        /\ UNCHANGED <<inCompany, driver, members, socket, late, tangled, blurred>>
    BY <1>1, <1>3 DEF L!SendPresence
  <2>2. i.online \subseteq RoomUsers
    BY DEF L!Tasks
  <2>3. shown' \in [Sockets -> SUBSET RoomUsers]
    BY <2>1, <2>2 DEF L!TypeOK
  <2>. QED  BY <1>2, <2>1, <2>3 DEF L!TypeOK
<1>4. CASE L!EnterRoom(w)
  <2>1. /\ i.socket \in Sockets /\ socket' \in [Sockets -> L!SocketRows]
        /\ L!Return(w) /\ UNCHANGED <<inCompany, driver, members, late, shown, blurred>>
    BY <1>1, <1>4, EnterRoomRow DEF L!EnterRoom
  <2>2. \E room : L!Enters(i.socket, room)
    BY <1>1, <1>4 DEF L!EnterRoom
  <2>3. tangled' \subseteq Sockets
    BY <2>1, <2>2, EntersTypes
  <2>. QED  BY <1>2, <2>1, <2>3 DEF L!TypeOK
<1>5. CASE L!DisconnectSockets(w)
  <2> DEFINE shut == L!Of(i.user) \cap L!In("company")
  <2>1. /\ i.user \in RoomUsers /\ L!Close(i.user, shut)
        /\ UNCHANGED <<inCompany, driver, members>>
        /\ roomTask' = [v \in Workers |-> IF v = w \/ roomTask[v].socket \in shut
                                          THEN L!Idle ELSE roomTask[v]]
    BY <1>1, <1>5 DEF L!DisconnectSockets, Sound
  <2>2. shut \in SUBSET Sockets
    BY DEF L!Of
  <2>3. roomTask' \in [Workers -> L!Tasks]
    BY <2>1, IdleIsTask DEF L!TypeOK
  <2>. QED  BY <2>1, <2>2, <2>3, CloseTypes
<1>6. CASE L!WriteDriver(w)
  <2>1. /\ i.pc = "assign" /\ driver' = i.next
        /\ roomTask' = [roomTask EXCEPT ![w].pc = "leaveTrip"]
        /\ UNCHANGED <<inCompany, members, socket, late, shown, blurred>>
    BY <1>1, <1>6 DEF L!WriteDriver
  <2>2. driver' \in RoomDrivers
    BY <1>1, <2>1 DEF Sound
  <2>3. roomTask' \in [Workers -> L!Tasks]
    BY <2>1 DEF L!TypeOK, L!Tasks
  <2>4. tangled' \subseteq Sockets
    BY <1>6 DEF L!WriteDriver, L!TypeOK, L!Of
  <2>. QED  BY <2>1, <2>2, <2>3, <2>4 DEF L!TypeOK
<1>7. CASE L!PutDriverOut(w)
  <2>1. /\ \E shut : socket' = L!Leaves(shut, "trip")
        /\ L!Return(w) /\ UNCHANGED <<inCompany, driver, members, late, shown, tangled, blurred>>
    BY <1>7 DEF L!PutDriverOut
  <2>2. socket' \in [Sockets -> L!SocketRows]
    BY <2>1, LeavesRows
  <2>. QED  BY <1>2, <2>1, <2>2 DEF L!TypeOK
<1>8. CASE L!PutMemberOut(w)
  <2>1. /\ \E shut : socket' = L!Leaves(shut, "group")
        /\ L!Return(w) /\ UNCHANGED <<inCompany, driver, members, late, shown, blurred>>
        /\ tangled' \subseteq Sockets
    BY <1>8 DEF L!PutMemberOut, L!TypeOK, L!Of
  <2>2. socket' \in [Sockets -> L!SocketRows]
    BY <2>1, LeavesRows
  <2>. QED  BY <1>2, <2>1, <2>2 DEF L!TypeOK
<1>9. CASE L!Fail(w)
  BY <1>2, <1>9 DEF L!Fail, L!TypeOK, L!Of
<1>10. CASE L!LeaveGroup(w)
  <2>1. L!Return(w) /\ UNCHANGED <<inCompany, driver, members, late, shown, blurred>>
    BY <1>10 DEF L!LeaveGroup
  <2>2. socket' \in [Sockets -> L!SocketRows] /\ tangled' \subseteq Sockets
    BY <1>10, LeaveGroupRow DEF L!TypeOK
  <2>. QED  BY <1>2, <2>1, <2>2 DEF L!TypeOK
<1>. QED  BY <1>3, <1>4, <1>5, <1>6, <1>7, <1>8, <1>9, <1>10 DEF L!Statement

LEMMA AroundTypes ==
    ASSUME L!LiveRoomsAssumption, L!TypeOK, SocketsLive, TasksLive,
           \/ \E s \in Sockets : L!Disconnect(s)
           \/ \E u \in RoomUsers, s \in Sockets : L!LateEnter(u, s) \/ L!LateNews(u, s)
           \/ \E u \in RoomUsers : L!Activate(u) \/ L!AddMember(u)
    PROVE  L!TypeOK'
<1>1. ASSUME NEW s \in Sockets, L!Disconnect(s), socket[s].user \in RoomUsers PROVE L!TypeOK'
  <2>1. /\ L!Close(socket[s].user, {s}) /\ UNCHANGED <<inCompany, driver, members>>
        /\ roomTask' = [w \in Workers |-> IF roomTask[w].socket = s THEN L!Idle ELSE roomTask[w]]
    BY <1>1 DEF L!Disconnect
  <2>2. roomTask' \in [Workers -> L!Tasks]
    BY <2>1, IdleIsTask DEF L!TypeOK
  <2>. QED  BY <1>1, <2>1, <2>2, CloseTypes
<1>2. ASSUME NEW u \in RoomUsers, NEW s \in Sockets, L!LateEnter(u, s) PROVE L!TypeOK'
  BY <1>2 DEF L!LateEnter, L!TypeOK
<1>3. ASSUME NEW u \in RoomUsers, NEW s \in Sockets, L!LateNews(u, s) PROVE L!TypeOK'
  <2>1. blurred' \subseteq RoomUsers \cup Sockets
    BY <1>3, OvertakenSockets DEF L!LateNews, L!TypeOK
  <2>2. shown' \in [Sockets -> SUBSET RoomUsers]
    BY <1>3 DEF L!LateNews, L!TypeOK
  <2>. QED  BY <1>3, <2>1, <2>2 DEF L!LateNews, L!TypeOK
<1>4. ASSUME NEW u \in RoomUsers, L!Activate(u) \/ L!AddMember(u) PROVE L!TypeOK'
  BY <1>4 DEF L!Activate, L!AddMember, L!TypeOK
<1>. QED  BY <1>1, <1>2, <1>3, <1>4 DEF L!Disconnect, SocketsLive

-----------------------------------------------------------------------------
(* Sockets and tasks stay sound.                                           *)

LEMMA SocketsStayLive ==
    ASSUME SocketsLive,
           \A s \in Sockets : /\ SamePresence(s)
                              /\ socket'[s] = socket[s] \/ socket[s] # L!Closed
                              /\ socket'[s].member => socket[s].user \in members'
    PROVE  SocketsLive'
<1>. SUFFICES ASSUME NEW s \in Sockets
              PROVE  /\ "company" \in socket'[s].rooms <=> socket'[s].chat \in Present
                     /\ socket'[s] = L!Closed \/ socket'[s].user \in RoomUsers
                     /\ socket'[s].member => socket'[s].user \in members'
  BY DEF SocketsLive, Present, L!Closed
<1>1. SamePresence(s)
  OBVIOUS
<1>. QED  BY <1>1 DEF SocketsLive, SamePresence

\* One socket moves on.
LEMMA SocketMovesLive ==
    ASSUME SocketsLive, UNCHANGED members, NEW s \in Sockets,
           \A x \in Sockets \ {s} : socket'[x] = socket[x],
           "company" \in socket'[s].rooms <=> socket'[s].chat \in Present,
           socket'[s].user \in RoomUsers,
           socket'[s].member => socket'[s].user \in members
    PROVE  SocketsLive'
<1>. SUFFICES ASSUME NEW x \in Sockets
              PROVE  /\ "company" \in socket'[x].rooms <=> socket'[x].chat \in Present
                     /\ socket'[x] = L!Closed \/ socket'[x].user \in RoomUsers
                     /\ socket'[x].member => socket'[x].user \in members
  BY DEF SocketsLive, Present, L!Closed
<1>. QED  BY DEF SocketsLive

LEMMA TasksStayLive ==
    ASSUME L!TypeOK, TasksLive, NEW w \in Workers, NEW j \in L!Tasks,
           roomTask' = [roomTask EXCEPT ![w] = j], Sound(j)',
           \A s \in Sockets : "company" \in socket[s].rooms => "company" \in socket'[s].rooms
    PROVE  TasksLive'
<1>1. roomTask'[w] = j /\ \A v \in Workers \ {w} : roomTask'[v] = roomTask[v]
  BY OneTaskMoves
<1>2. ASSUME NEW v \in Workers \ {w} PROVE Sound(roomTask[v])'
  BY <1>1, <1>2 DEF TasksLive, Sound
<1>3. Sound(roomTask[w])'
  BY <1>1 DEF Sound
<1>. QED  BY <1>2, <1>3 DEF TasksLive

LEMMA SoundIdle == Sound(L!Idle)
  BY IdleIsTask DEF Sound, Asking

LEMMA ReturnLive ==
    ASSUME L!TypeOK, TasksLive, NEW w \in Workers, L!Return(w),
           \A s \in Sockets : "company" \in socket[s].rooms => "company" \in socket'[s].rooms
    PROVE  TasksLive'
<1>1. Sound(L!Idle)'
  BY IdleIsTask DEF Sound, Asking, L!Idle
<1>. QED  BY <1>1, IdleIsTask, TasksStayLive DEF L!Return

LEMMA TasksKept ==
    ASSUME TasksLive, UNCHANGED roomTask,
           \A s \in Sockets : "company" \in socket[s].rooms => "company" \in socket'[s].rooms
    PROVE  TasksLive'
<1>1. ASSUME NEW v \in Workers PROVE Sound(roomTask[v])'
  BY <1>1 DEF TasksLive, Sound
<1>. QED  BY <1>1 DEF TasksLive

LEMMA CloseLive ==
    ASSUME L!LiveRoomsAssumption, L!TypeOK, SocketsLive, TasksLive,
           NEW u \in RoomUsers, NEW shut \in SUBSET Sockets, L!Close(u, shut), UNCHANGED members,
           NEW W \in SUBSET Workers,
           roomTask' = [w \in Workers |-> IF w \in W \/ roomTask[w].socket \in shut
                                          THEN L!Idle ELSE roomTask[w]]
    PROVE  SocketsLive' /\ TasksLive'
<1>1. SocketsLive'
  <2>. SUFFICES ASSUME NEW x \in Sockets
                PROVE  /\ "company" \in socket'[x].rooms <=> socket'[x].chat \in Present
                       /\ socket'[x] = L!Closed \/ socket'[x].user \in RoomUsers
                       /\ socket'[x].member => socket'[x].user \in members
    BY DEF SocketsLive, Present, L!Closed
  <2>1. CASE x \in shut
    BY <2>1, CloseRows, ClosedRow DEF Present
  <2>2. CASE x \notin shut
    BY <2>2, CloseRows DEF SocketsLive
  <2>. QED  BY <2>1, <2>2
<1>2. ASSUME NEW w \in Workers PROVE Sound(roomTask[w])'
  <2>1. CASE roomTask'[w] = L!Idle
    BY <2>1, IdleIsTask DEF Sound, Asking, L!Idle
  <2>2. CASE roomTask'[w] = roomTask[w] /\ roomTask[w].socket \notin shut
    BY <2>2, CloseRows DEF TasksLive, Sound
  <2>. QED  BY <2>1, <2>2
<1>. QED  BY <1>1, <1>2 DEF TasksLive

LEMMA HandshakeLive ==
    ASSUME L!LiveRoomsAssumption, L!TypeOK, SocketsLive, TasksLive, NEW s \in Sockets,
           L!Handshake(s)
    PROVE  SocketsLive' /\ TasksLive'
<1>1. ASSUME NEW u \in RoomUsers, L!Connect(s, u) PROVE SocketsLive' /\ TasksLive'
  <2>1. "company" \notin socket[s].rooms
    BY <1>1, ConnectRow, ClosedRow
  <2>2. UNCHANGED <<roomTask, members>>
    BY <1>1 DEF L!Connect
  <2>3. TasksLive'
    BY <1>1, <2>1, <2>2, ConnectRow, TasksKept
  <2>4. SocketsLive'
    BY <1>1, <2>2, ConnectRow, SocketMovesLive DEF Present
  <2>. QED  BY <2>3, <2>4
<1>2. CASE L!Enter(s)
  <2>1. UNCHANGED <<roomTask, members>> /\ socket[s].chat = "auth"
    BY <1>2 DEF L!Enter
  <2>2. TasksLive'
    BY <1>2, <2>1, EnterRow, TasksKept
  <2>3. socket[s].user \in RoomUsers /\ socket[s].member => socket[s].user \in members
    BY <2>1, SocketsOfUsers DEF SocketsLive
  <2>4. SocketsLive'
    BY <1>2, <2>1, <2>3, EnterRow, SocketsOfUsers, SocketMovesLive DEF Present, SocketsLive
  <2>. QED  BY <2>2, <2>4
<1>3. CASE L!Snapshot(s)
  <2>1. UNCHANGED <<roomTask, members>>
    BY <1>3 DEF L!Snapshot
  <2>2. TasksLive'
    BY <1>3, <2>1, SnapshotRow, TasksKept
  <2>3. "company" \in socket[s].rooms /\ socket[s].user \in RoomUsers
    BY <1>3, SnapshotRow, SocketsOfUsers DEF SocketsLive, Present
  <2>4. SocketsLive'
    BY <1>3, <2>1, <2>3, SnapshotRow, SocketMovesLive DEF Present, SocketsLive
  <2>. QED  BY <2>2, <2>4
<1>4. CASE L!ReadGroups(s)
  <2>1. UNCHANGED <<roomTask, members>> /\ socket[s] # L!Closed
    BY <1>4 DEF L!ReadGroups, L!Closed
  <2>2. TasksLive'
    BY <1>4, <2>1, ReadRow, TasksKept DEF SamePresence
  <2>3. \A x \in Sockets \ {s} : SamePresence(x)
    BY <1>4, ReadRow DEF SamePresence
  <2>4. SocketsLive'
    BY <1>4, <2>1, <2>3, ReadRow, SocketsStayLive DEF SocketsLive
  <2>. QED  BY <2>2, <2>4
<1>5. CASE L!JoinGroups(s)
  <2>1. UNCHANGED <<roomTask, members>> /\ socket[s] # L!Closed
    BY <1>5 DEF L!JoinGroups, L!Closed
  <2>2. socket' = [socket EXCEPT ![s] = [socket[s] EXCEPT !.direct = "done",
                                                          !.rooms = @ \cup {"group"}]]
    BY <1>5 DEF L!JoinGroups, L!TypeOK, L!SocketRows
  <2>3. /\ SamePresence(s) /\ socket'[s].member = socket[s].member
        /\ \A x \in Sockets \ {s} : SamePresence(x) /\ socket'[x] = socket[x]
    BY <2>2, RoomRow DEF SamePresence
  <2>4. TasksLive'
    BY <2>1, <2>3, TasksKept DEF SamePresence
  <2>5. SocketsLive'
    BY <2>1, <2>3, SocketsStayLive DEF SocketsLive
  <2>. QED  BY <2>4, <2>5
<1>. QED  BY <1>1, <1>2, <1>3, <1>4, <1>5 DEF L!Handshake

\* The sockets stay as they are.
LEMMA SocketsKept ==
    ASSUME SocketsLive, UNCHANGED socket, members \subseteq members'
    PROVE  SocketsLive'
<1>1. \A s \in Sockets : SamePresence(s)
  BY DEF SamePresence
<1>. QED  BY <1>1, SocketsStayLive DEF SocketsLive

\* What a request keeps when it has begun.
LEMMA Begins ==
    ASSUME L!LiveRoomsAssumption, L!TypeOK, SocketsLive, TasksLive, NEW w \in Workers, L!Request(w)
    PROVE  \E j \in L!Tasks :
             /\ roomTask' = [roomTask EXCEPT ![w] = j] /\ Sound(j)
             /\ \/ j.pc = "snapshot" /\ j.online = L!Online
                                     /\ socket[j.socket].chat = "done"
                \/ j.pc # "snapshot"
<1>1. ASSUME NEW s \in Sockets, L!RequestPresence(w, s)
      PROVE  \E j \in L!Tasks : /\ roomTask' = [roomTask EXCEPT ![w] = j] /\ Sound(j)
                                /\ j.pc = "snapshot" /\ j.online = L!Online
                                /\ socket[j.socket].chat = "done"
  <2> DEFINE j == [L!Idle EXCEPT !.pc = "snapshot", !.socket = s, !.online = L!Online]
  <2>1. j \in L!Tasks /\ j.pc = "snapshot" /\ j.socket = s /\ j.online = L!Online
    BY OnlineUsers DEF L!Idle, L!Tasks
  <2>2. roomTask' = [roomTask EXCEPT ![w] = j] /\ socket[s].chat = "done"
    BY <1>1 DEF L!RequestPresence, L!Start
  <2>3. "company" \in socket[s].rooms
    BY <2>2 DEF SocketsLive, Present
  <2> HIDE DEF j
  <2>4. Sound(j)
    BY <2>1, <2>3 DEF Sound, Asking
  <2>. QED  BY <2>1, <2>2, <2>4
<1>2. ASSUME NEW s \in Sockets, NEW room \in {"trip", "group"}, L!AskRoom(w, s, room)
      PROVE  \E j \in L!Tasks : /\ roomTask' = [roomTask EXCEPT ![w] = j] /\ Sound(j)
                                /\ j.pc # "snapshot"
  <2> DEFINE j == [L!Idle EXCEPT !.pc = IF room = "trip" THEN "joinTrip" ELSE "joinGroup",
                                 !.socket = s]
  <2>1. j \in L!Tasks /\ j.pc \in {"joinTrip", "joinGroup"} /\ j.socket = s
    BY DEF L!Idle, L!Tasks
  <2>2. roomTask' = [roomTask EXCEPT ![w] = j] /\ s \in L!In("company")
    BY <1>2 DEF L!AskRoom, L!Start
  <2> HIDE DEF j
  <2>3. Sound(j)
    BY <2>1, <2>2 DEF Sound, Asking, L!In
  <2>. QED  BY <2>1, <2>2, <2>3
<1>3. ASSUME NEW u \in RoomUsers,
             (\E reset \in BOOLEAN : L!EndAccess(w, u, reset)) \/ L!RemoveMember(w, u)
      PROVE  \E j \in L!Tasks : /\ roomTask' = [roomTask EXCEPT ![w] = j] /\ Sound(j)
                                /\ j.pc # "snapshot"
  <2>1. PICK pc \in {"disconnect", "leaveGroup"} :
          roomTask' = [roomTask EXCEPT ![w] = [L!Idle EXCEPT !.pc = pc, !.user = u]]
    BY <1>3 DEF L!EndAccess, L!RemoveMember, L!Start
  <2> DEFINE j == [L!Idle EXCEPT !.pc = pc, !.user = u]
  <2>2. j \in L!Tasks /\ j.pc = pc /\ j.user = u /\ j.socket = None
    BY DEF L!Idle, L!Tasks
  <2> HIDE DEF j
  <2>3. Sound(j)
    BY <2>2 DEF Sound, Asking
  <2>. QED  BY <2>1, <2>2, <2>3 DEF j
<1>4. ASSUME NEW d \in RoomDrivers, L!Reassign(w, d)
      PROVE  \E j \in L!Tasks : /\ roomTask' = [roomTask EXCEPT ![w] = j] /\ Sound(j)
                                /\ j.pc # "snapshot"
  <2> DEFINE j == [L!Idle EXCEPT !.pc = "assign", !.user = driver, !.next = d]
  <2>1. /\ j \in L!Tasks /\ j.pc = "assign" /\ j.socket = None
        /\ j.user = driver /\ j.next = d /\ driver \in RoomUsers
    BY DEF L!Idle, L!Tasks, L!TypeOK, L!LiveRoomsAssumption
  <2>2. roomTask' = [roomTask EXCEPT ![w] = j]
    BY <1>4 DEF L!Reassign, L!Start
  <2> HIDE DEF j
  <2>3. Sound(j)
    BY <2>1 DEF Sound, Asking
  <2>. QED  BY <2>1, <2>2, <2>3
<1>5. ASSUME NEW s \in Sockets, L!AskLeave(w, s)
      PROVE  \E j \in L!Tasks : /\ roomTask' = [roomTask EXCEPT ![w] = j] /\ Sound(j)
                                /\ j.pc # "snapshot"
  <2> DEFINE j == [L!Idle EXCEPT !.pc = "quitGroup", !.socket = s]
  <2>1. j \in L!Tasks /\ j.pc = "quitGroup" /\ j.socket = s
    BY DEF L!Idle, L!Tasks
  <2>2. roomTask' = [roomTask EXCEPT ![w] = j] /\ s \in L!In("company")
    BY <1>5 DEF L!AskLeave, L!Start
  <2> HIDE DEF j
  <2>3. Sound(j)
    BY <2>1, <2>2 DEF Sound, Asking, L!In
  <2>. QED  BY <2>1, <2>2, <2>3
<1>. QED  BY <1>1, <1>2, <1>3, <1>4, <1>5 DEF L!Request

LEMMA RequestLive ==
    ASSUME L!LiveRoomsAssumption, L!TypeOK, SocketsLive, TasksLive, NEW w \in Workers, L!Request(w)
    PROVE  SocketsLive' /\ TasksLive'
<1>1. PICK j \in L!Tasks : roomTask' = [roomTask EXCEPT ![w] = j] /\ Sound(j)
  BY Begins
<1>2. ASSUME NEW u \in RoomUsers, L!RemoveMember(w, u) PROVE SocketsLive' /\ TasksLive'
  <2>1. \A s \in Sockets : SamePresence(s) /\ socket'[s].rooms = socket[s].rooms
    BY <1>2, RemoveRows
  <2>2. Sound(j)'
    BY <1>1, <2>1 DEF Sound
  <2>3. TasksLive'
    BY <1>1, <2>1, <2>2, TasksStayLive
  <2>4. \A s \in Sockets : /\ socket'[s] = socket[s] \/ socket[s] # L!Closed
                           /\ socket'[s].member => socket[s].user \in members'
    <3>1. ASSUME NEW s \in Sockets, socket'[s].member PROVE socket[s].user \in members'
      BY <1>2, <3>1, RemoveRows DEF L!RemoveMember, SocketsLive
    <3>2. ASSUME NEW s \in Sockets, socket'[s] # socket[s] PROVE socket[s] # L!Closed
      <4>1. socket[s].user = u
        BY <1>2, <3>2 DEF L!RemoveMember, L!Of
      <4>. QED  BY <4>1, ClosedRow DEF L!LiveRoomsAssumption
    <3>. QED  BY <3>1, <3>2
  <2>5. SocketsLive'
    BY <2>1, <2>4, SocketsStayLive
  <2>. QED  BY <2>3, <2>5
<1>3. ASSUME UNCHANGED <<socket, members>> PROVE SocketsLive' /\ TasksLive'
  <2>1. Sound(j)'
    BY <1>1, <1>3 DEF Sound
  <2>2. TasksLive'
    BY <1>1, <1>3, <2>1, TasksStayLive
  <2>. QED  BY <1>3, <2>2, SocketsKept
<1>. QED  BY <1>2, <1>3 DEF L!Request, L!RequestPresence, L!AskRoom, L!AskLeave, L!EndAccess,
          L!Reassign

LEMMA StatementLive ==
    ASSUME L!LiveRoomsAssumption, L!TypeOK, SocketsLive, TasksLive, NEW w \in Workers,
           L!Statement(w)
    PROVE  SocketsLive' /\ TasksLive'
<1>1. PICK i \in L!Tasks : roomTask[w] = i /\ Sound(i)
  BY DEF L!TypeOK, TasksLive
<1>2. CASE L!SendPresence(w) \/ L!Fail(w)
  <2>1. UNCHANGED <<socket, members>> /\ L!Return(w)
    BY <1>2 DEF L!SendPresence, L!Fail
  <2>. QED  BY <2>1, SocketsKept, ReturnLive
<1>3. CASE L!EnterRoom(w)
  <2>1. /\ i.socket \in Sockets /\ "company" \in socket[i.socket].rooms
        /\ L!Return(w) /\ UNCHANGED members
    BY <1>1, <1>3 DEF L!EnterRoom, Sound, Asking
  <2>2. /\ SamePresence(i.socket) /\ socket'[i.socket].member = socket[i.socket].member
        /\ \A x \in Sockets \ {i.socket} : SamePresence(x) /\ socket'[x] = socket[x]
    BY <1>1, <1>3, EnterRoomRow DEF SamePresence
  <2>3. TasksLive'
    BY <2>1, <2>2, ReturnLive DEF SamePresence
  <2>4. socket[i.socket] # L!Closed
    BY <2>1, ClosedRow
  <2>5. SocketsLive'
    BY <2>1, <2>2, <2>4, SocketsStayLive DEF SocketsLive
  <2>. QED  BY <2>3, <2>5
<1>4. CASE L!DisconnectSockets(w)
  <2> DEFINE shut == L!Of(i.user) \cap L!In("company")
  <2>1. /\ i.user \in RoomUsers /\ L!Close(i.user, shut) /\ UNCHANGED members
        /\ roomTask' = [v \in Workers |-> IF v \in {w} \/ roomTask[v].socket \in shut
                                          THEN L!Idle ELSE roomTask[v]]
    BY <1>1, <1>4 DEF L!DisconnectSockets, Sound
  <2>2. shut \in SUBSET Sockets
    BY DEF L!Of
  <2> HIDE DEF shut
  <2>3. {w} \in SUBSET Workers
    OBVIOUS
  <2>. QED  BY <2>1, <2>2, <2>3, CloseLive
<1>5. CASE L!WriteDriver(w)
  <2>1. /\ i.pc = "assign" /\ roomTask' = [roomTask EXCEPT ![w].pc = "leaveTrip"]
        /\ UNCHANGED <<socket, members>>
    BY <1>1, <1>5 DEF L!WriteDriver
  <2> DEFINE j == [i EXCEPT !.pc = "leaveTrip"]
  <2>2. /\ j \in L!Tasks /\ j.pc = "leaveTrip" /\ j.socket = i.socket /\ j.user = i.user
        /\ roomTask' = [roomTask EXCEPT ![w] = j]
    BY <1>1, <2>1 DEF L!Tasks, L!TypeOK
  <2> HIDE DEF j
  <2>3. Sound(j)'
    BY <1>1, <2>1, <2>2 DEF Sound, Asking
  <2>4. TasksLive'
    BY <2>1, <2>2, <2>3, TasksStayLive
  <2>. QED  BY <2>1, <2>4, SocketsKept
<1>6. CASE L!PutDriverOut(w) \/ L!PutMemberOut(w)
  <2>1. /\ \E room \in {"trip", "group"} : socket' = L!Leaves(L!Of(i.user), room)
        /\ i.user \in RoomUsers /\ L!Return(w) /\ UNCHANGED members
    BY <1>1, <1>6 DEF L!PutDriverOut, L!PutMemberOut, Sound
  <2>2. \A s \in Sockets : SamePresence(s) /\ socket'[s].member = socket[s].member
    BY <2>1, LeavesRows
  <2>3. ASSUME NEW s \in Sockets, socket'[s] # socket[s] PROVE socket[s] # L!Closed
    <3>1. socket[s].user = i.user
      BY <2>1, <2>3 DEF L!Leaves, L!Of
    <3>. QED  BY <2>1, <3>1, ClosedRow DEF L!LiveRoomsAssumption
  <2>4. SocketsLive'
    BY <2>1, <2>2, <2>3, SocketsStayLive DEF SocketsLive
  <2>. QED  BY <2>1, <2>2, <2>4, ReturnLive DEF SamePresence
<1>7. CASE L!LeaveGroup(w)
  <2>1. UNCHANGED members /\ L!Return(w)
    BY <1>7 DEF L!LeaveGroup
  <2>2. \A s \in Sockets : SamePresence(s) /\ socket'[s].member = socket[s].member
    BY <1>7, LeaveGroupRow
  <2>3. \A s \in Sockets : socket'[s] = socket[s] \/ socket[s] # L!Closed
    BY <1>7, LeaveGroupRow, ClosedRow
  <2>4. SocketsLive'
    BY <2>1, <2>2, <2>3, SocketsStayLive DEF SocketsLive
  <2>. QED  BY <2>1, <2>2, <2>4, ReturnLive DEF SamePresence
<1>. QED  BY <1>2, <1>3, <1>4, <1>5, <1>6, <1>7 DEF L!Statement

LEMMA AroundLive ==
    ASSUME L!LiveRoomsAssumption, L!TypeOK, SocketsLive, TasksLive,
           \/ \E s \in Sockets : L!Disconnect(s)
           \/ \E u \in RoomUsers, s \in Sockets : L!LateEnter(u, s) \/ L!LateNews(u, s)
           \/ \E u \in RoomUsers : L!Activate(u) \/ L!AddMember(u)
    PROVE  SocketsLive' /\ TasksLive'
<1>1. ASSUME NEW s \in Sockets, L!Disconnect(s) PROVE SocketsLive' /\ TasksLive'
  <2>1. PICK u \in RoomUsers : u = socket[s].user
    BY <1>1 DEF L!Disconnect, SocketsLive
  <2>2. PICK W \in SUBSET Workers : W = {}
    OBVIOUS
  <2>3. PICK shut \in SUBSET Sockets : shut = {s}
    OBVIOUS
  <2>4. /\ L!Close(u, shut) /\ UNCHANGED members
        /\ roomTask' = [w \in Workers |-> IF w \in W \/ roomTask[w].socket \in shut
                                          THEN L!Idle ELSE roomTask[w]]
    BY <1>1, <2>1, <2>2, <2>3 DEF L!Disconnect
  <2>. QED  BY <2>4, CloseLive
<1>2. ASSUME NEW u \in RoomUsers,
             \/ \E s \in Sockets : L!LateEnter(u, s) \/ L!LateNews(u, s)
             \/ L!Activate(u) \/ L!AddMember(u)
      PROVE  SocketsLive' /\ TasksLive'
  <2>1. UNCHANGED <<socket, roomTask>> /\ members \subseteq members'
    BY <1>2 DEF L!LateEnter, L!LateNews, L!Activate, L!AddMember
  <2>. QED  BY <2>1, SocketsKept, TasksKept
<1>. QED  BY <1>1, <1>2

-----------------------------------------------------------------------------
(* Rooms follow rights.                                                    *)

Leaver(pc, u) == \E w \in Workers : roomTask[w].pc = pc /\ roomTask[w].user = u

\* RoomsFollowRights, room by room.
Held(s) ==
    /\ "company" \in socket[s].rooms =>
          socket[s].user \in inCompany \/ Leaver("disconnect", socket[s].user)
    /\ "trip" \in socket[s].rooms =>
          \/ socket[s].user \in RoomDrivers => driver = socket[s].user
          \/ Leaver("leaveTrip", socket[s].user)
    /\ "group" \in socket[s].rooms =>
          socket[s].user \in members \/ Leaver("leaveGroup", socket[s].user)

RoomsHeld == \A s \in Sockets \ tangled : Held(s)

LEMMA RightsAre ==
    ASSUME NEW u
    PROVE  /\ L!Right(u)["company"] = (u \in inCompany)
           /\ L!Right(u)["trip"] = (u \in RoomDrivers => driver = u)
           /\ L!Right(u)["group"] = (u \in members)
           /\ L!Leaving(u)["company"] = Leaver("disconnect", u)
           /\ L!Leaving(u)["trip"] = Leaver("leaveTrip", u)
           /\ L!Leaving(u)["group"] = Leaver("leaveGroup", u)
  BY DEF L!Right, L!Leaving, Leaver

LEMMA RoomByRoom ==
    ASSUME L!TypeOK
    PROVE  L!RoomsFollowRights <=> RoomsHeld
<1>1. ASSUME NEW s \in Sockets
      PROVE  (\A room \in socket[s].rooms :
                L!Right(socket[s].user)[room] \/ L!Leaving(socket[s].user)[room]) <=> Held(s)
  <2>1. socket[s].rooms \subseteq {"company", "trip", "group"}
    BY DEF L!TypeOK, L!SocketRows, L!Rooms
  <2>. QED  BY <2>1, RightsAre DEF Held
<1>. QED  BY <1>1 DEF L!RoomsFollowRights, RoomsHeld

\* Sockets that are not caught keep, at most, the rooms they were in, and nobody
\* loses a right or the handler that puts them out.
LEMMA HeldStays ==
    ASSUME RoomsHeld,
           \A s \in Sockets \ tangled' :
              \/ socket'[s].rooms = {}
              \/ /\ s \notin tangled
                 /\ socket'[s].user = socket[s].user
                 /\ socket'[s].rooms \subseteq socket[s].rooms,
           inCompany \subseteq inCompany', UNCHANGED driver, members \subseteq members',
           \A w \in Workers : roomTask[w].pc \in {"disconnect", "leaveTrip", "leaveGroup"} =>
              roomTask'[w].pc = roomTask[w].pc /\ roomTask'[w].user = roomTask[w].user
    PROVE  RoomsHeld'
<1>. SUFFICES ASSUME NEW s \in Sockets \ tangled' PROVE Held(s)'
  BY DEF RoomsHeld
<1>1. CASE socket'[s].rooms = {}
  BY <1>1 DEF Held
<1>2. CASE /\ s \notin tangled
           /\ socket'[s].user = socket[s].user
           /\ socket'[s].rooms \subseteq socket[s].rooms
  <2>1. Held(s)
    BY <1>2 DEF RoomsHeld
  <2>. QED  BY <1>2, <2>1 DEF Held, Leaver
<1>. QED  BY <1>1, <1>2

\* A room is entered with the right to it, or the socket is caught.
LEMMA HeldEntering ==
    ASSUME L!TypeOK, RoomsHeld, NEW s \in Sockets, NEW room \in L!Rooms, L!Enters(s, room),
           \A x \in Sockets \ {s} : socket'[x] = socket[x],
           socket'[s].rooms = socket[s].rooms \cup {room}, socket'[s].user = socket[s].user,
           UNCHANGED <<inCompany, driver, members>>,
           \A w \in Workers : roomTask[w].pc \in {"disconnect", "leaveTrip", "leaveGroup"} =>
              roomTask'[w].pc = roomTask[w].pc /\ roomTask'[w].user = roomTask[w].user
    PROVE  RoomsHeld'
<1>. SUFFICES ASSUME NEW x \in Sockets \ tangled' PROVE Held(x)'
  BY DEF RoomsHeld
<1>1. x \notin tangled
  BY DEF L!Enters
<1>2. Held(x)
  BY <1>1 DEF RoomsHeld
<1>3. CASE x # s
  BY <1>2, <1>3 DEF Held, Leaver
<1>4. CASE x = s
  <2>1. L!Right(socket[s].user)[room]
    BY <1>4 DEF L!Enters
  <2>2. /\ room = "company" => socket[s].user \in inCompany
        /\ room = "trip" => (socket[s].user \in RoomDrivers => driver = socket[s].user)
        /\ room = "group" => socket[s].user \in members
    <3>1. CASE room = "company"
      BY <2>1, <3>1, RightsAre
    <3>2. CASE room = "trip"
      BY <2>1, <3>2, RightsAre
    <3>3. CASE room = "group"
      BY <2>1, <3>3, RightsAre
    <3>. QED  BY <3>1, <3>2, <3>3
  <2>. QED  BY <1>2, <1>4, <2>2 DEF Held, Leaver, L!Rooms
<1>. QED  BY <1>3, <1>4

LEMMA HeldClosing ==
    ASSUME L!LiveRoomsAssumption, L!TypeOK, TasksLive, RoomsHeld, NEW u \in RoomUsers,
           NEW shut \in SUBSET Sockets, L!Close(u, shut), UNCHANGED <<inCompany, driver, members>>,
           NEW W \in SUBSET Workers,
           \A w \in W : /\ roomTask[w].pc = "disconnect"
                        /\ L!Of(roomTask[w].user) \cap L!In("company") \subseteq shut,
           roomTask' = [w \in Workers |-> IF w \in W \/ roomTask[w].socket \in shut
                                          THEN L!Idle ELSE roomTask[w]]
    PROVE  RoomsHeld'
<1>. SUFFICES ASSUME NEW s \in Sockets \ tangled' PROVE Held(s)'
  BY DEF RoomsHeld
<1>1. CASE s \in shut
  <2>1. socket'[s].rooms = {}
    BY <1>1, CloseRows, ClosedRow
  <2>. QED  BY <2>1 DEF Held
<1>2. CASE s \notin shut
  <2>1. s \notin tangled /\ socket'[s] = socket[s]
    BY <1>2, CloseRows DEF L!Close
  <2>2. Held(s)
    BY <2>1 DEF RoomsHeld
  <2>3. ASSUME NEW w \in Workers, roomTask'[w] # roomTask[w],
               roomTask[w].pc \in {"disconnect", "leaveTrip", "leaveGroup"}
        PROVE  w \in W
    <3>1. roomTask[w].socket = None
      BY <2>3 DEF TasksLive, Sound, Asking
    <3>. QED  BY <2>3, <3>1 DEF L!LiveRoomsAssumption
  <2>4. ASSUME NEW w \in W, "company" \in socket[s].rooms, roomTask[w].user = socket[s].user
        PROVE  FALSE
    BY <1>2, <2>4 DEF L!Of, L!In
  <2>. QED  BY <2>1, <2>2, <2>3, <2>4 DEF Held, Leaver
<1>. QED  BY <1>1, <1>2

LEMMA RoomsStep ==
    ASSUME L!LiveRoomsAssumption, L!TypeOK, SocketsLive, TasksLive, RoomsHeld, L!Next
    PROVE  RoomsHeld'
<1>1. ASSUME NEW s \in Sockets, L!Handshake(s) PROVE RoomsHeld'
  <2>1. UNCHANGED <<inCompany, driver, members, roomTask>>
    BY <1>1 DEF L!Handshake, L!Connect, L!Enter, L!Snapshot, L!ReadGroups, L!JoinGroups
  <2>2. ASSUME NEW u \in RoomUsers, L!Connect(s, u) PROVE RoomsHeld'
    <3>1. UNCHANGED tangled
      BY <2>2 DEF L!Connect
    <3>. QED  BY <2>1, <2>2, <3>1, ConnectRow, HeldStays
  <2>3. CASE L!Enter(s)
    <3>1. L!Enters(s, "company") /\ "company" \in L!Rooms
      BY <2>3 DEF L!Enter, L!Rooms
    <3>. QED  BY <2>1, <2>3, <3>1, EnterRow, HeldEntering
  <2>4. CASE L!Snapshot(s)
    <3>1. UNCHANGED tangled
      BY <2>4 DEF L!Snapshot
    <3>. QED  BY <2>1, <2>4, <3>1, SnapshotRow, HeldStays
  <2>5. CASE L!ReadGroups(s)
    <3>1. UNCHANGED tangled
      BY <2>5 DEF L!ReadGroups
    <3>. QED  BY <2>1, <2>5, <3>1, ReadRow, HeldStays DEF SamePresence
  <2>6. CASE L!JoinGroups(s)
    <3>1. socket' = [socket EXCEPT ![s] = [socket[s] EXCEPT !.direct = "done",
                                                            !.rooms = @ \cup {"group"}]]
      BY <2>6 DEF L!JoinGroups, L!TypeOK, L!SocketRows
    <3>2. L!Enters(s, "group") /\ "group" \in L!Rooms
      BY <2>6 DEF L!JoinGroups, L!Rooms
    <3>3. /\ \A x \in Sockets \ {s} : socket'[x] = socket[x]
          /\ socket'[s].rooms = socket[s].rooms \cup {"group"}
          /\ socket'[s].user = socket[s].user
      BY <3>1, RoomRow DEF SamePresence
    <3>. QED  BY <2>1, <3>2, <3>3, HeldEntering
  <2>. QED  BY <1>1, <2>2, <2>3, <2>4, <2>5, <2>6 DEF L!Handshake
<1>2. ASSUME NEW w \in Workers, L!Request(w) PROVE RoomsHeld'
  <2>1. roomTask[w].pc = "idle"
    BY <1>2, IdleIsTask DEF L!Request
  <2>2. PICK j \in L!Tasks : roomTask' = [roomTask EXCEPT ![w] = j]
    BY <1>2, Begins
  <2>3. \A v \in Workers : v # w => roomTask'[v] = roomTask[v]
    BY <2>2, OneTaskMoves
  <2>4. ASSUME \/ \E s \in Sockets : L!RequestPresence(w, s)
               \/ \E s \in Sockets, room \in {"trip", "group"} : L!AskRoom(w, s, room)
               \/ \E s \in Sockets : L!AskLeave(w, s)
               \/ \E d \in RoomDrivers : L!Reassign(w, d)
        PROVE  RoomsHeld'
    <3>1. UNCHANGED <<inCompany, driver, members, socket, tangled>>
      BY <2>4 DEF L!RequestPresence, L!AskRoom, L!AskLeave, L!Reassign
    <3>. QED  BY <2>1, <2>3, <3>1, HeldStays
  <2>5. ASSUME NEW u \in RoomUsers, NEW reset \in BOOLEAN, L!EndAccess(w, u, reset)
        PROVE  RoomsHeld'
    <3>1. /\ UNCHANGED <<driver, members, socket, tangled>> /\ inCompany \ {u} \subseteq inCompany'
          /\ roomTask'[w].pc = "disconnect" /\ roomTask'[w].user = u
      <4>1. roomTask' = [roomTask EXCEPT ![w] = [L!Idle EXCEPT !.pc = "disconnect", !.user = u]]
        BY <2>5 DEF L!EndAccess, L!Start
      <4>2. roomTask'[w] = [L!Idle EXCEPT !.pc = "disconnect", !.user = u]
        BY <4>1 DEF L!TypeOK
      <4>. QED  BY <2>5, <4>2 DEF L!EndAccess, L!Idle
    <3>2. ASSUME NEW s \in Sockets \ tangled PROVE Held(s)'
      <4>1. Held(s)
        BY DEF RoomsHeld
      <4>. QED  BY <2>1, <2>3, <3>1, <4>1 DEF Held, Leaver
    <3>. QED  BY <3>1, <3>2 DEF RoomsHeld
  <2>6. ASSUME NEW u \in RoomUsers, L!RemoveMember(w, u) PROVE RoomsHeld'
    <3>1. /\ UNCHANGED <<inCompany, driver, tangled>> /\ members \ {u} \subseteq members'
          /\ roomTask'[w].pc = "leaveGroup" /\ roomTask'[w].user = u
      <4>1. roomTask' = [roomTask EXCEPT ![w] = [L!Idle EXCEPT !.pc = "leaveGroup", !.user = u]]
        BY <2>6 DEF L!RemoveMember, L!Start
      <4>2. roomTask'[w] = [L!Idle EXCEPT !.pc = "leaveGroup", !.user = u]
        BY <4>1 DEF L!TypeOK
      <4>. QED  BY <2>6, <4>2 DEF L!RemoveMember, L!Idle
    <3>2. ASSUME NEW s \in Sockets \ tangled PROVE Held(s)'
      <4>1. Held(s)
        BY DEF RoomsHeld
      <4>2. socket'[s].rooms = socket[s].rooms /\ socket'[s].user = socket[s].user
        BY <2>6, RemoveRows DEF SamePresence
      <4>. QED  BY <2>1, <2>3, <3>1, <4>1, <4>2 DEF Held, Leaver
    <3>. QED  BY <3>1, <3>2 DEF RoomsHeld
  <2>. QED  BY <1>2, <2>4, <2>5, <2>6 DEF L!Request
<1>3. ASSUME NEW w \in Workers, L!Statement(w) PROVE RoomsHeld'
  <2>1. PICK i \in L!Tasks : roomTask[w] = i /\ Sound(i)
    BY DEF L!TypeOK, TasksLive
  <2>2. ASSUME L!Return(w) PROVE \A v \in Workers : v # w => roomTask'[v] = roomTask[v]
    BY <2>2, IdleIsTask, OneTaskMoves DEF L!Return
  <2>3. CASE L!SendPresence(w)
    <3>1. /\ UNCHANGED <<inCompany, driver, members, socket, tangled>>
          /\ i.pc = "snapshot" /\ L!Return(w)
      BY <2>1, <2>3 DEF L!SendPresence
    <3>. QED  BY <2>1, <2>2, <3>1, HeldStays
  <2>4. CASE L!EnterRoom(w)
    <3> DEFINE room == IF i.pc = "joinTrip" THEN "trip" ELSE "group"
    <3>1. /\ UNCHANGED <<inCompany, driver, members>> /\ L!Return(w)
          /\ i.pc \in {"joinTrip", "joinGroup"} /\ L!Enters(i.socket, room)
      BY <2>1, <2>4 DEF L!EnterRoom
    <3>2. /\ i.socket \in Sockets /\ \A x \in Sockets \ {i.socket} : socket'[x] = socket[x]
          /\ socket'[i.socket].rooms = socket[i.socket].rooms \cup {room}
          /\ socket'[i.socket].user = socket[i.socket].user
      BY <2>1, <2>4, EnterRoomRow DEF SamePresence
    <3>3. room \in L!Rooms
      BY DEF L!Rooms
    <3> HIDE DEF room
    <3>. QED  BY <2>1, <2>2, <3>1, <3>2, <3>3, HeldEntering
  <2>5. CASE L!DisconnectSockets(w)
    <3>1. PICK u \in RoomUsers : u = i.user
      BY <2>1, <2>5 DEF L!DisconnectSockets, Sound
    <3>2. PICK shut \in SUBSET Sockets : shut = L!Of(u) \cap L!In("company")
      BY DEF L!Of
    <3>3. PICK W \in SUBSET Workers : W = {w}
      OBVIOUS
    <3>4. /\ L!Close(u, shut) /\ UNCHANGED <<inCompany, driver, members>>
          /\ roomTask' = [v \in Workers |-> IF v \in W \/ roomTask[v].socket \in shut
                                            THEN L!Idle ELSE roomTask[v]]
      BY <2>1, <2>5, <3>1, <3>2, <3>3 DEF L!DisconnectSockets
    <3>5. \A v \in W : roomTask[v].pc = "disconnect"
                       /\ L!Of(roomTask[v].user) \cap L!In("company") \subseteq shut
      BY <2>1, <2>5, <3>1, <3>2, <3>3 DEF L!DisconnectSockets
    <3>. QED  BY <3>4, <3>5, HeldClosing
  <2>6. CASE L!WriteDriver(w)
    <3>1. /\ UNCHANGED <<inCompany, members, socket>> /\ driver' = i.next /\ i.pc = "assign"
          /\ roomTask' = [roomTask EXCEPT ![w] = [i EXCEPT !.pc = "leaveTrip"]]
          /\ tangled' = IF driver \in {i.user, i.next} THEN tangled ELSE tangled \cup L!Of(driver)
      BY <2>1, <2>6 DEF L!WriteDriver, L!TypeOK
    <3>2. /\ \A v \in Workers : v # w => roomTask'[v] = roomTask[v]
          /\ roomTask'[w].pc = "leaveTrip" /\ roomTask'[w].user = i.user
      BY <3>1 DEF L!TypeOK, L!Tasks
    <3>3. ASSUME NEW s \in Sockets \ tangled' PROVE Held(s)'
      <4>1. s \notin tangled
        BY <3>1
      <4>2. Held(s)
        BY <4>1 DEF RoomsHeld
      <4>3. socket[s].user = driver => driver' = driver \/ driver = i.user
        BY <3>1 DEF L!Of
      <4>. QED  BY <2>1, <3>1, <3>2, <4>2, <4>3 DEF Held, Leaver
    <3>. QED  BY <3>3 DEF RoomsHeld
  <2>7. CASE L!PutDriverOut(w)
    <3>1. /\ UNCHANGED <<inCompany, driver, members, tangled>> /\ L!Return(w)
          /\ i.pc = "leaveTrip" /\ socket' = L!Leaves(L!Of(i.user), "trip")
      BY <2>1, <2>7 DEF L!PutDriverOut
    <3>2. ASSUME NEW s \in Sockets \ tangled PROVE Held(s)'
      <4>1. Held(s)
        BY DEF RoomsHeld
      <4>2. /\ socket'[s].user = socket[s].user
            /\ socket'[s].rooms \subseteq socket[s].rooms
            /\ socket[s].user = i.user => "trip" \notin socket'[s].rooms
        BY <3>1, LeavesRows DEF SamePresence, L!Of
      <4>. QED  BY <2>1, <2>2, <3>1, <4>1, <4>2 DEF Held, Leaver
    <3>. QED  BY <3>1, <3>2 DEF RoomsHeld
  <2>8. CASE L!PutMemberOut(w)
    <3>1. /\ UNCHANGED <<inCompany, driver, members>> /\ L!Return(w) /\ tangled \subseteq tangled'
          /\ i.pc = "leaveGroup" /\ socket' = L!Leaves(L!Of(i.user), "group")
      BY <2>1, <2>8 DEF L!PutMemberOut
    <3>2. ASSUME NEW s \in Sockets \ tangled PROVE Held(s)'
      <4>1. Held(s)
        BY DEF RoomsHeld
      <4>2. /\ socket'[s].user = socket[s].user
            /\ socket'[s].rooms \subseteq socket[s].rooms
            /\ socket[s].user = i.user => "group" \notin socket'[s].rooms
        BY <3>1, LeavesRows DEF SamePresence, L!Of
      <4>. QED  BY <2>1, <2>2, <3>1, <4>1, <4>2 DEF Held, Leaver
    <3>. QED  BY <3>1, <3>2 DEF RoomsHeld
  <2>9. CASE L!Fail(w)
    <3>1. /\ UNCHANGED <<inCompany, driver, members, socket>> /\ L!Return(w)
          /\ i.pc \in {"leaveTrip", "leaveGroup"} /\ tangled' = tangled \cup L!Of(i.user)
      BY <2>1, <2>9 DEF L!Fail
    <3>2. ASSUME NEW s \in Sockets \ tangled' PROVE Held(s)'
      <4>1. Held(s) /\ socket[s].user # i.user
        BY <3>1 DEF RoomsHeld, L!Of
      <4>. QED  BY <2>1, <2>2, <3>1, <4>1 DEF Held, Leaver
    <3>. QED  BY <3>2 DEF RoomsHeld
  <2>10. CASE L!LeaveGroup(w)
    <3>1. UNCHANGED <<inCompany, driver, members>> /\ roomTask[w].pc = "quitGroup" /\ L!Return(w)
      BY <2>10 DEF L!LeaveGroup
    <3>2. /\ tangled \subseteq tangled'
          /\ \A s \in Sockets : /\ socket'[s].user = socket[s].user
                                /\ socket'[s].rooms \subseteq socket[s].rooms
      BY <2>10, LeaveGroupRow DEF SamePresence
    <3>3. \A v \in Workers : roomTask[v].pc \in {"disconnect", "leaveTrip", "leaveGroup"} =>
             roomTask'[v].pc = roomTask[v].pc /\ roomTask'[v].user = roomTask[v].user
      BY <2>2, <3>1
    <3>. QED  BY <3>1, <3>2, <3>3, HeldStays
  <2>. QED  BY <1>3, <2>3, <2>4, <2>5, <2>6, <2>7, <2>8, <2>9, <2>10 DEF L!Statement
<1>4. ASSUME NEW s \in Sockets, L!Disconnect(s) PROVE RoomsHeld'
  <2>1. PICK u \in RoomUsers : u = socket[s].user
    BY <1>4 DEF L!Disconnect, SocketsLive
  <2>2. PICK W \in SUBSET Workers : W = {}
    OBVIOUS
  <2>3. PICK shut \in SUBSET Sockets : shut = {s}
    OBVIOUS
  <2>4. /\ L!Close(u, shut) /\ UNCHANGED <<inCompany, driver, members>>
        /\ roomTask' = [w \in Workers |-> IF w \in W \/ roomTask[w].socket \in shut
                                          THEN L!Idle ELSE roomTask[w]]
    BY <1>4, <2>1, <2>2, <2>3 DEF L!Disconnect
  <2>. QED  BY <2>2, <2>4, HeldClosing
<1>5. ASSUME NEW u \in RoomUsers,
             \/ \E s \in Sockets : L!LateEnter(u, s) \/ L!LateNews(u, s)
             \/ L!Activate(u) \/ L!AddMember(u)
      PROVE  RoomsHeld'
  <2>1. /\ UNCHANGED <<driver, socket, roomTask, tangled>>
        /\ inCompany \subseteq inCompany' /\ members \subseteq members'
    BY <1>5 DEF L!LateEnter, L!LateNews, L!Activate, L!AddMember
  <2>. QED  BY <2>1, HeldStays
<1>. QED  BY <1>1, <1>2, <1>3, <1>4, <1>5 DEF L!Next

-----------------------------------------------------------------------------
(* Members hear.                                                           *)

Hears(s) == socket[s].member /\ socket[s].direct = "done" => "group" \in socket[s].rooms

LEMMA HearStays ==
    ASSUME L!MembersHear,
           \A s \in Sockets \ tangled' :
              \/ Hears(s)'
              \/ /\ s \notin tangled
                 /\ socket'[s].member => socket[s].member
                 /\ socket'[s].direct = socket[s].direct
                 /\ "group" \in socket[s].rooms => "group" \in socket'[s].rooms
    PROVE  L!MembersHear'
<1>1. \A s \in Sockets \ tangled' : Hears(s)'
  BY DEF L!MembersHear, Hears, L!In
<1>. QED  BY <1>1 DEF L!MembersHear, Hears, L!In

LEMMA HearClosing ==
    ASSUME L!TypeOK, L!MembersHear, NEW u \in RoomUsers, NEW shut \in SUBSET Sockets,
           L!Close(u, shut)
    PROVE  L!MembersHear'
<1>1. ASSUME NEW s \in Sockets \ tangled'
      PROVE  \/ Hears(s)'
             \/ s \notin tangled /\ socket'[s] = socket[s]
  <2>1. CASE s \in shut
    <3>1. ~socket'[s].member
      BY <2>1, CloseRows, ClosedRow
    <3>. QED  BY <3>1 DEF Hears
  <2>2. CASE s \notin shut
    BY <2>2, CloseRows DEF L!Close
  <2>. QED  BY <2>1, <2>2
<1>. QED  BY <1>1, HearStays

LEMMA HearStep ==
    ASSUME L!LiveRoomsAssumption, L!TypeOK, SocketsLive, TasksLive, L!MembersHear, L!Next
    PROVE  L!MembersHear'
<1>1. ASSUME NEW s \in Sockets, L!Handshake(s) PROVE L!MembersHear'
  <2>1. ASSUME NEW u \in RoomUsers, L!Connect(s, u) PROVE L!MembersHear'
    <3>1. UNCHANGED tangled
      BY <2>1 DEF L!Connect
    <3>2. Hears(s)'
      BY <2>1, ConnectRow DEF Hears
    <3>. QED  BY <2>1, <3>1, <3>2, ConnectRow, HearStays
  <2>2. CASE L!Enter(s)
    <3>1. tangled \subseteq tangled'
      BY <2>2 DEF L!Enter, L!Enters
    <3>. QED  BY <2>2, <3>1, EnterRow, HearStays
  <2>3. CASE L!Snapshot(s)
    <3>1. UNCHANGED tangled
      BY <2>3 DEF L!Snapshot
    <3>. QED  BY <2>3, <3>1, SnapshotRow, HearStays
  <2>4. CASE L!ReadGroups(s)
    <3>1. UNCHANGED tangled
      BY <2>4 DEF L!ReadGroups
    <3>2. Hears(s)'
      BY <2>4, ReadRow DEF Hears
    <3>. QED  BY <2>4, <3>1, <3>2, ReadRow, HearStays
  <2>5. CASE L!JoinGroups(s)
    <3>1. socket' = [socket EXCEPT ![s] = [socket[s] EXCEPT !.direct = "done",
                                                            !.rooms = @ \cup {"group"}]]
      BY <2>5 DEF L!JoinGroups, L!TypeOK, L!SocketRows
    <3>2. tangled \subseteq tangled'
      BY <2>5 DEF L!JoinGroups, L!Enters
    <3>3. /\ \A x \in Sockets \ {s} : socket'[x] = socket[x]
          /\ socket'[s].rooms = socket[s].rooms \cup {"group"}
      BY <3>1, RoomRow
    <3>4. Hears(s)'
      BY <3>3 DEF Hears
    <3>. QED  BY <3>2, <3>3, <3>4, HearStays
  <2>. QED  BY <1>1, <2>1, <2>2, <2>3, <2>4, <2>5 DEF L!Handshake
<1>2. ASSUME NEW w \in Workers, L!Request(w) PROVE L!MembersHear'
  <2>1. ASSUME NEW u \in RoomUsers, L!RemoveMember(w, u) PROVE L!MembersHear'
    <3>1. UNCHANGED tangled
      BY <2>1 DEF L!RemoveMember
    <3>. QED  BY <2>1, <3>1, RemoveRows, HearStays
  <2>2. ASSUME UNCHANGED <<socket, tangled>> PROVE L!MembersHear'
    BY <2>2, HearStays
  <2>. QED  BY <1>2, <2>1, <2>2 DEF L!Request, L!RequestPresence, L!AskRoom, L!AskLeave,
            L!EndAccess, L!Reassign
<1>3. ASSUME NEW w \in Workers, L!Statement(w) PROVE L!MembersHear'
  <2>1. PICK i \in L!Tasks : roomTask[w] = i /\ Sound(i)
    BY DEF L!TypeOK, TasksLive
  <2>2. CASE L!SendPresence(w) \/ L!WriteDriver(w) \/ L!Fail(w)
    <3>1. UNCHANGED socket /\ tangled \subseteq tangled'
      BY <2>2 DEF L!SendPresence, L!WriteDriver, L!Fail
    <3>. QED  BY <3>1, HearStays
  <2>3. CASE L!EnterRoom(w)
    <3>1. PICK s \in Sockets : s = i.socket
      BY <2>1, <2>3, EnterRoomRow
    <3>2. tangled \subseteq tangled'
      BY <2>3 DEF L!EnterRoom, L!Enters
    <3>3. /\ \A x \in Sockets \ {s} : socket'[x] = socket[x]
          /\ socket[s].rooms \subseteq socket'[s].rooms
          /\ socket'[s].member = socket[s].member
          /\ socket'[s].direct = socket[s].direct
      BY <2>1, <2>3, <3>1, EnterRoomRow
    <3>. QED  BY <3>2, <3>3, HearStays
  <2>4. CASE L!DisconnectSockets(w)
    <3>1. PICK u \in RoomUsers : u = i.user
      BY <2>1, <2>4 DEF L!DisconnectSockets, Sound
    <3>2. PICK shut \in SUBSET Sockets : shut = L!Of(u) \cap L!In("company")
      BY DEF L!Of
    <3>3. L!Close(u, shut)
      BY <2>1, <2>4, <3>1, <3>2 DEF L!DisconnectSockets
    <3>. QED  BY <3>3, HearClosing
  <2>5. CASE L!PutDriverOut(w)
    <3>1. UNCHANGED tangled /\ socket' = L!Leaves(L!Of(i.user), "trip")
      BY <2>1, <2>5 DEF L!PutDriverOut
    <3>2. \A s \in Sockets : /\ socket'[s].member = socket[s].member
                             /\ socket'[s].direct = socket[s].direct
                             /\ socket[s].rooms \ {"trip"} \subseteq socket'[s].rooms
      BY <3>1, LeavesRows
    <3>. QED  BY <3>1, <3>2, HearStays
  <2>6. CASE L!PutMemberOut(w)
    <3>1. /\ tangled' = tangled \cup {s \in L!Of(i.user) : socket[s].member}
          /\ socket' = L!Leaves(L!Of(i.user), "group")
      BY <2>1, <2>6 DEF L!PutMemberOut
    <3>2. \A s \in Sockets :
             /\ socket'[s].member = socket[s].member
             /\ socket'[s].direct = socket[s].direct
             /\ s \notin L!Of(i.user) => socket'[s].rooms = socket[s].rooms
      BY <3>1, LeavesRows
    <3>3. ASSUME NEW s \in Sockets \ tangled'
          PROVE  \/ Hears(s)'
                 \/ s \notin tangled /\ socket'[s].rooms = socket[s].rooms
      BY <3>1, <3>2 DEF Hears
    <3>. QED  BY <3>2, <3>3, HearStays
  <2>7. CASE L!LeaveGroup(w)
    <3>1. PICK s \in Sockets :
             /\ \A x \in Sockets : /\ socket'[x].member = socket[x].member
                                   /\ socket'[x].direct = socket[x].direct
             /\ \A x \in Sockets \ {s} : socket'[x] = socket[x]
             /\ tangled' = IF socket[s].member THEN tangled \cup {s} ELSE tangled
      BY <2>7, LeaveGroupRow
    <3>2. ASSUME NEW x \in Sockets \ tangled'
          PROVE  \/ Hears(x)'
                 \/ x \notin tangled /\ socket'[x] = socket[x]
      BY <3>1 DEF Hears
    <3>. QED  BY <3>2, HearStays
  <2>. QED  BY <1>3, <2>2, <2>3, <2>4, <2>5, <2>6, <2>7 DEF L!Statement
<1>4. ASSUME NEW s \in Sockets, L!Disconnect(s) PROVE L!MembersHear'
  <2>1. PICK u \in RoomUsers : u = socket[s].user
    BY <1>4 DEF L!Disconnect, SocketsLive
  <2>2. PICK shut \in SUBSET Sockets : shut = {s}
    OBVIOUS
  <2>3. L!Close(u, shut)
    BY <1>4, <2>1, <2>2 DEF L!Disconnect
  <2>. QED  BY <2>3, HearClosing
<1>5. ASSUME NEW u \in RoomUsers,
             \/ \E s \in Sockets : L!LateEnter(u, s) \/ L!LateNews(u, s)
             \/ L!Activate(u) \/ L!AddMember(u)
      PROVE  L!MembersHear'
  <2>1. UNCHANGED <<socket, tangled>>
    BY <1>5 DEF L!LateEnter, L!LateNews, L!Activate, L!AddMember
  <2>. QED  BY <2>1, HearStays
<1>. QED  BY <1>1, <1>2, <1>3, <1>4, <1>5 DEF L!Next

-----------------------------------------------------------------------------
(* Presence settles.                                                       *)

LEMMA OnlineIs ==
    ASSUME NEW v
    PROVE  /\ v \in L!Online <=> \E s \in Sockets : "company" \in socket[s].rooms
                                                    /\ socket[s].user = v
           /\ v \in L!Online' <=> \E s \in Sockets : "company" \in socket'[s].rooms
                                                     /\ socket'[s].user = v
  BY DEF L!Online, L!In

\* What presence depends on stays as it is, or the socket is in no list yet.
Quiet(s) ==
    \/ SamePresence(s)
    \/ /\ socket[s].chat \notin Present /\ socket'[s].chat \notin Present
       /\ "company" \notin socket[s].rooms /\ "company" \notin socket'[s].rooms

LEMMA SettledKept ==
    ASSUME Settled, \A s \in Sockets : Quiet(s), UNCHANGED <<late, shown, blurred>>,
           \A w \in Workers : roomTask'[w].pc = "snapshot" =>
              roomTask'[w] = roomTask[w] \/ roomTask'[w].online = L!Online
    PROVE  Settled'
<1>. SUFFICES ASSUME NEW v \in RoomUsers \ blurred, ~L!Unannounced(v)' PROVE Told(v)'
  BY DEF Settled
<1>1. v \in L!Online' <=> v \in L!Online
  BY OnlineIs DEF Quiet, SamePresence
<1>2. ~L!Unannounced(v)
  BY DEF L!Unannounced, L!Of, Quiet, SamePresence, Present
<1>3. Told(v)
  BY <1>2 DEF Settled
<1>4. ASSUME NEW s \in Sockets \ blurred
      PROVE  /\ socket'[s].chat = "done" => (v \in shown'[s] <=> v \in L!Online')
             /\ socket'[s].chat = "fetched" => (v \in socket'[s].online <=> v \in L!Online')
  BY <1>1, <1>3 DEF Told, Quiet, SamePresence, Present
<1>5. ASSUME NEW w \in Workers, roomTask'[w].pc = "snapshot", roomTask'[w].socket \notin blurred
      PROVE  v \in roomTask'[w].online <=> v \in L!Online'
  BY <1>1, <1>3, <1>5 DEF Told
<1>. QED  BY <1>4, <1>5 DEF Told

\* Everyone in the room is told of u; a list that is out of date is overtaken.
LEMMA Announced ==
    ASSUME NEW u \in RoomUsers, NEW online \in BOOLEAN,
           \A x \in Sockets : socket'[x].chat = "done" => (u \in shown'[x] <=> online),
           u \in L!Online' <=> online,
           NEW closed \in SUBSET Sockets,
           \A x \in L!Overtaken(u, online) : x \in blurred' \/ x \in closed,
           \A x \in Sockets : socket'[x].chat = "fetched" =>
              /\ x \notin closed /\ socket[x].chat = "fetched"
              /\ socket'[x].online = socket[x].online,
           \A w \in Workers : roomTask'[w].pc = "snapshot" =>
              roomTask'[w] = roomTask[w] /\ roomTask[w].socket \notin closed
    PROVE  Told(u)'
<1>1. ASSUME NEW x \in Sockets, x \notin blurred', socket'[x].chat = "fetched"
      PROVE  u \in socket'[x].online <=> online
  BY <1>1 DEF L!Overtaken
<1>2. ASSUME NEW w \in Workers, roomTask'[w].pc = "snapshot", roomTask'[w].socket \notin blurred'
      PROVE  u \in roomTask'[w].online <=> online
  BY <1>2 DEF L!Overtaken
<1>. QED  BY <1>1, <1>2 DEF Told

LEMMA EnterSettled ==
    ASSUME L!TypeOK, SocketsLive, Settled, NEW s \in Sockets, L!Enter(s)
    PROVE  Settled'
<1>1. /\ socket[s].chat = "auth" /\ UNCHANGED <<late, shown, roomTask, blurred>>
      /\ "company" \notin socket[s].rooms
  BY DEF L!Enter, SocketsLive, Present
<1>2. PICK u : u = socket[s].user
  OBVIOUS
<1>3. /\ \A x \in Sockets \ {s} : socket'[x] = socket[x]
      /\ socket'[s].user = u /\ "company" \in socket'[s].rooms
      /\ socket'[s].chat = "fetched" /\ socket'[s].online = L!Online \cup {u}
      /\ socket'[s].alone = (u \notin L!Online)
  BY <1>2, EnterRow
<1>4. \A v : v \in L!Online' <=> v \in L!Online \/ v = u
  BY <1>1, <1>2, <1>3, OnlineIs
<1>. SUFFICES ASSUME NEW v \in RoomUsers \ blurred, ~L!Unannounced(v)' PROVE Told(v)'
  BY <1>1 DEF Settled
<1>5. v = u => u \in L!Online
  BY <1>3 DEF L!Unannounced, L!Of
<1>6. ~L!Unannounced(v)
  BY <1>1, <1>3 DEF L!Unannounced, L!Of
<1>7. Told(v)
  BY <1>6 DEF Settled
<1>8. v \in L!Online' <=> v \in L!Online
  BY <1>4, <1>5
<1>9. ASSUME NEW x \in Sockets \ blurred
      PROVE  /\ socket'[x].chat = "done" => (v \in shown'[x] <=> v \in L!Online')
             /\ socket'[x].chat = "fetched" => (v \in socket'[x].online <=> v \in L!Online')
  BY <1>1, <1>3, <1>4, <1>7, <1>8 DEF Told
<1>. QED  BY <1>1, <1>7, <1>8, <1>9 DEF Told

LEMMA SnapshotSettled ==
    ASSUME L!LiveRoomsAssumption, L!TypeOK, SocketsLive, TasksLive, Settled,
           NEW s \in Sockets, L!Snapshot(s)
    PROVE  Settled'
<1>1. PICK u \in RoomUsers : u = socket[s].user
  BY SnapshotRow, SocketsOfUsers
<1>2. UNCHANGED <<late, roomTask>> /\ socket[s].chat = "fetched"
  BY DEF L!Snapshot
<1>3. /\ \A x \in Sockets \ {s} : socket'[x] = socket[x]
      /\ socket'[s].user = u /\ socket'[s].rooms = socket[s].rooms
      /\ socket'[s].chat = "done" /\ "company" \in socket[s].rooms
  BY <1>1, <1>2, SnapshotRow DEF SocketsLive, Present
<1>4. \A v : v \in L!Online' <=> v \in L!Online
  BY <1>1, <1>3, OnlineIs
<1>5. u \in L!Online
  BY <1>1, <1>3, OnlineIs
<1> DEFINE listed == [shown EXCEPT ![s] = socket[s].online]
<1>6. listed[s] = socket[s].online /\ \A x \in Sockets \ {s} : listed[x] = shown[x]
  BY DEF L!TypeOK
\* Of the other users nothing is said.
<1>7. ASSUME NEW v \in RoomUsers, v \notin blurred, ~L!Unannounced(v),
             \A x \in Sockets : v \in shown'[x] <=> v \in listed[x],
             \A x \in Sockets : x \in blurred => x \in blurred'
      PROVE  Told(v)'
  <2>1. Told(v)
    BY <1>7 DEF Settled
  <2>2. ASSUME NEW x \in Sockets, x \notin blurred'
        PROVE  /\ socket'[x].chat = "done" => (v \in shown'[x] <=> v \in L!Online')
               /\ socket'[x].chat = "fetched" => (v \in socket'[x].online <=> v \in L!Online')
    <3>1. x \notin blurred
      BY <1>7, <2>2
    <3>2. CASE x = s
      BY <1>2, <1>3, <1>4, <1>6, <1>7, <2>1, <3>1, <3>2 DEF Told
    <3>3. CASE x # s
      BY <1>3, <1>4, <1>6, <1>7, <2>1, <3>1, <3>3 DEF Told
    <3>. QED  BY <3>2, <3>3
  <2>3. ASSUME NEW w \in Workers, roomTask'[w].pc = "snapshot", roomTask'[w].socket \notin blurred'
        PROVE  v \in roomTask'[w].online <=> v \in L!Online'
    <3>1. roomTask[w].socket \in Sockets
      BY <1>2, <2>3 DEF TasksLive, Sound, Asking
    <3>. QED  BY <1>2, <1>4, <1>7, <2>1, <2>3, <3>1 DEF Told
  <2>. QED  BY <2>2, <2>3 DEF Told
<1>8. ASSUME NEW v \in RoomUsers, ~L!Unannounced(v)', v # u \/ ~socket[s].alone
      PROVE  ~L!Unannounced(v)
  BY <1>1, <1>2, <1>3, <1>8 DEF L!Unannounced, L!Of
<1>9. CASE ~socket[s].alone
  <2>1. shown' = listed /\ UNCHANGED blurred
    BY <1>9 DEF L!Snapshot
  <2>. HIDE DEF listed
  <2>. QED  BY <1>7, <1>8, <1>9, <2>1 DEF Settled
<1>10. CASE socket[s].alone
  <2>1. L!Announce(u, TRUE, L!In("company"), listed, {})
    BY <1>1, <1>10 DEF L!Snapshot
  <2> HIDE DEF listed
  <2>2. /\ \A x \in Sockets : shown'[x] = IF x \in L!In("company") THEN listed[x] \cup {u}
                                          ELSE listed[x]
        /\ blurred' = (blurred \ {u}) \cup L!Overtaken(u, TRUE)
    BY <2>1 DEF L!Announce
  <2>3. \A x \in Sockets : x \in blurred => x \in blurred'
    BY <2>2 DEF L!LiveRoomsAssumption
  <2>4. ASSUME NEW v \in RoomUsers, v \notin blurred', ~L!Unannounced(v)', v # u PROVE Told(v)'
    <3>1. v \notin blurred
      BY <2>2, <2>4
    <3>2. \A x \in Sockets : v \in shown'[x] <=> v \in listed[x]
      BY <2>2, <2>4
    <3>. QED  BY <1>7, <1>8, <2>3, <2>4, <3>1, <3>2
  <2>5. Told(u)'
    <3>1. \A x \in Sockets : socket'[x].chat = "done" => u \in shown'[x]
      <4>1. ASSUME NEW x \in Sockets, socket'[x].chat = "done" PROVE x \in L!In("company")
        BY <1>3, <4>1 DEF L!In, SocketsLive, Present
      <4>. QED  BY <2>2, <4>1
    <3>2. \A x \in Sockets : socket'[x].chat = "fetched" => x # s /\ socket'[x] = socket[x]
      BY <1>3
    <3>3. \A x \in L!Overtaken(u, TRUE) : x \in blurred'
      BY <2>2
    <3>4. PICK closed \in SUBSET Sockets : closed = {}
      OBVIOUS
    <3>5. /\ \A x \in Sockets : socket'[x].chat = "fetched" =>
                /\ x \notin closed /\ socket[x].chat = "fetched"
                /\ socket'[x].online = socket[x].online
          /\ \A w \in Workers : roomTask'[w].pc = "snapshot" =>
                roomTask'[w] = roomTask[w] /\ roomTask[w].socket \notin closed
      BY <1>2, <3>2, <3>4
    <3>. QED  BY <1>4, <1>5, <3>1, <3>3, <3>5, Announced
  <2>. QED  BY <2>4, <2>5 DEF Settled
<1>. QED  BY <1>9, <1>10

LEMMA CloseSettled ==
    ASSUME L!LiveRoomsAssumption, L!TypeOK, SocketsLive, TasksLive, Settled,
           NEW u \in RoomUsers, NEW shut \in SUBSET Sockets, L!Close(u, shut),
           shut \subseteq L!Of(u),
           \A w \in Workers : roomTask'[w].pc = "snapshot" =>
              roomTask'[w] = roomTask[w] /\ roomTask[w].socket \notin shut
    PROVE  Settled'
<1>1. /\ \A x \in shut : socket'[x].chat = "off" /\ socket'[x].rooms = {} /\ socket[x].user = u
      /\ \A x \in Sockets \ shut : socket'[x] = socket[x]
  BY CloseRows, ClosedRow DEF L!Of
<1>2. late' = late \cup {<<u, s, socket[s].chat>> : s \in {r \in shut : L!GoesOn(r)}}
  BY DEF L!Close
<1>3. ASSUME NEW v \in RoomUsers, ~L!Unannounced(v)' PROVE ~L!Unannounced(v)
  <2>1. ASSUME NEW s \in Sockets, socket[s].user = v, socket[s].chat = "fetched", socket[s].alone
        PROVE  FALSE
    <3>1. CASE s \in shut
      <4>1. v = u /\ <<u, s, "fetched">> \in late'
        BY <1>1, <1>2, <2>1, <3>1 DEF L!GoesOn
      <4>. QED  BY <1>3, <4>1 DEF L!Unannounced
    <3>2. CASE s \notin shut
      BY <1>1, <1>3, <2>1, <3>2 DEF L!Unannounced, L!Of
    <3>. QED  BY <3>1, <3>2
  <2>2. ASSUME NEW s \in Sockets, <<v, s, "fetched">> \in late PROVE FALSE
    BY <1>2, <1>3, <2>2 DEF L!Unannounced
  <2>. QED  BY <2>1, <2>2 DEF L!Unannounced, L!Of
\* Of the other users nothing is said.
<1>4. ASSUME NEW v \in RoomUsers, v \notin blurred, ~L!Unannounced(v),
             \A x \in Sockets \ shut : v \in shown'[x] <=> v \in shown[x],
             \A x \in Sockets \ shut : x \in blurred => x \in blurred',
             v \in L!Online' <=> v \in L!Online
      PROVE  Told(v)'
  <2>1. Told(v)
    BY <1>4 DEF Settled
  <2>2. ASSUME NEW x \in Sockets, x \notin blurred'
        PROVE  /\ socket'[x].chat = "done" => (v \in shown'[x] <=> v \in L!Online')
               /\ socket'[x].chat = "fetched" => (v \in socket'[x].online <=> v \in L!Online')
    BY <1>1, <1>4, <2>1, <2>2 DEF Told
  <2>3. ASSUME NEW w \in Workers, roomTask'[w].pc = "snapshot", roomTask'[w].socket \notin blurred'
        PROVE  v \in roomTask'[w].online <=> v \in L!Online'
    <3>1. roomTask'[w] = roomTask[w] /\ roomTask[w].socket \in Sockets \ shut
      BY <2>3 DEF TasksLive, Sound, Asking
    <3>. QED  BY <1>4, <2>1, <2>3, <3>1 DEF Told
  <2>. QED  BY <2>2, <2>3 DEF Told
<1> DEFINE left == [s \in Sockets |-> IF s \in shut THEN {} ELSE shown[s]]
<1>5. \A x \in Sockets \ shut : left[x] = shown[x]
  OBVIOUS
<1>6. CASE ~L!LastOf(u, shut)
  <2>1. shown' = left /\ blurred' = blurred \ shut
    BY <1>6 DEF L!Close
  <2> HIDE DEF left
  <2>2. ASSUME NEW v \in RoomUsers PROVE v \in L!Online' <=> v \in L!Online
    <3>1. ASSUME v \in L!Online PROVE v \in L!Online'
      <4>1. PICK s \in Sockets : "company" \in socket[s].rooms /\ socket[s].user = v
        BY <3>1, OnlineIs
      <4>2. CASE s \in shut
        <5>1. PICK y \in L!Of(u) \cap L!In("company") : y \notin shut
          BY <1>6, <4>1, <4>2 DEF L!LastOf, L!In
        <5>. QED  BY <1>1, <4>1, <4>2, <5>1, OnlineIs DEF L!Of, L!In
      <4>3. CASE s \notin shut
        BY <1>1, <4>1, <4>3, OnlineIs
      <4>. QED  BY <4>2, <4>3
    <3>2. ASSUME v \in L!Online' PROVE v \in L!Online
      BY <1>1, <3>2, OnlineIs
    <3>. QED  BY <3>1, <3>2
  <2>3. ASSUME NEW v \in RoomUsers, v \notin blurred', ~L!Unannounced(v)' PROVE Told(v)'
    <3>1. v \notin blurred
      BY <2>1, <2>3 DEF L!LiveRoomsAssumption
    <3>. QED  BY <1>3, <1>4, <1>5, <2>1, <2>2, <2>3, <3>1
  <2>. QED  BY <2>3 DEF Settled
<1>7. CASE L!LastOf(u, shut)
  <2>1. L!Announce(u, FALSE, L!In("company") \ shut, left, shut)
    BY <1>7 DEF L!Close
  <2> HIDE DEF left
  <2>2. ASSUME NEW x
        PROVE  x \in blurred' <=> /\ (x \in blurred /\ x # u) \/ x \in L!Overtaken(u, FALSE)
                                  /\ x \notin shut
    BY <2>1 DEF L!Announce
  <2>3. \A x \in Sockets \ shut : x \in blurred => x \in blurred'
    <3>1. u \notin Sockets
      BY DEF L!LiveRoomsAssumption
    <3>. QED  BY <2>2, <3>1
  <2>7. ASSUME NEW x \in Sockets \ shut
        PROVE  /\ x \in L!In("company") => shown'[x] = shown[x] \ {u}
               /\ x \notin L!In("company") => shown'[x] = shown[x]
    <3>1. x \in Sockets /\ x \notin shut /\ left[x] = shown[x]
      BY <1>5
    <3>2. shown'[x] = IF x \notin L!In("company") \ shut THEN left[x]
                      ELSE IF FALSE THEN left[x] \cup {u} ELSE left[x] \ {u}
      BY <2>1, <3>1 DEF L!Announce
    <3>3. x \in L!In("company") \ shut <=> x \in L!In("company")
      BY <3>1
    <3>. QED  BY <3>1, <3>2, <3>3
  <2>4. u \notin L!Online'
    <3>1. ASSUME NEW s \in Sockets, "company" \in socket'[s].rooms, socket'[s].user = u
          PROVE  FALSE
      BY <1>1, <1>7, <3>1 DEF L!LastOf, L!Of, L!In
    <3>. QED  BY <3>1, OnlineIs
  <2>5. ASSUME NEW v \in RoomUsers, v \notin blurred', ~L!Unannounced(v)', v # u PROVE Told(v)'
    <3>1. v \notin blurred
      BY <2>2, <2>5 DEF L!LiveRoomsAssumption
    <3>2. \A x \in Sockets \ shut : v \in shown'[x] <=> v \in shown[x]
      <4>1. ASSUME NEW x \in Sockets \ shut PROVE v \in shown'[x] <=> v \in shown[x]
        <5>1. CASE x \in L!In("company")
          BY <2>5, <2>7, <5>1
        <5>2. CASE x \notin L!In("company")
          BY <2>7, <5>2
        <5>. QED  BY <5>1, <5>2
      <4>. QED  BY <4>1
    <3>3. v \in L!Online' <=> v \in L!Online
      BY <1>1, <2>5, OnlineIs
    <3>. QED  BY <1>3, <1>4, <2>3, <2>5, <3>1, <3>2, <3>3
  <2>6. Told(u)'
    <3>1. ASSUME NEW x \in Sockets, socket'[x].chat = "done" PROVE u \notin shown'[x]
      <4>1. x \in Sockets \ shut /\ x \in L!In("company")
        BY <1>1, <3>1 DEF L!In, SocketsLive, Present
      <4>. QED  BY <2>7, <4>1
    <3>2. \A x \in L!Overtaken(u, FALSE) : x \in blurred' \/ x \in shut
      BY <2>2
    <3>3. \A x \in Sockets : socket'[x].chat = "fetched" =>
             /\ x \notin shut /\ socket[x].chat = "fetched"
             /\ socket'[x].online = socket[x].online
      BY <1>1
    <3>. QED  BY <2>4, <3>1, <3>2, <3>3, Announced
  <2>. QED  BY <2>5, <2>6 DEF Settled
<1>. QED  BY <1>6, <1>7

LEMMA LateNewsSettled ==
    ASSUME L!LiveRoomsAssumption, L!TypeOK, SocketsLive, TasksLive, Settled,
           NEW u \in RoomUsers, NEW s \in Sockets, L!LateNews(u, s)
    PROVE  Settled'
<1>1. /\ late' = late \ {<<u, s, "fetched">>} /\ UNCHANGED <<socket, roomTask>>
      /\ \A x \in Sockets : shown'[x] = shown[x] \cup IF x \in L!In("company") THEN {u} ELSE {}
      /\ blurred' = blurred \cup L!Overtaken(u, TRUE) \cup ({u} \ L!Online)
  BY DEF L!LateNews
<1>2. \A v : v \in L!Online' <=> v \in L!Online
  BY <1>1, OnlineIs
<1>3. ASSUME NEW v \in RoomUsers, v \notin blurred', ~L!Unannounced(v)', v # u PROVE Told(v)'
  <2>1. ~L!Unannounced(v) /\ v \notin blurred
    BY <1>1, <1>3 DEF L!Unannounced, L!Of
  <2>2. Told(v)
    BY <2>1 DEF Settled
  <2>3. \A x \in Sockets : v \in shown'[x] <=> v \in shown[x]
    BY <1>1, <1>3
  <2>. QED  BY <1>1, <1>2, <2>2, <2>3 DEF Told
<1>4. ASSUME u \notin blurred' PROVE Told(u)'
  <2>1. u \in L!Online
    BY <1>1, <1>4
  <2>2. ASSUME NEW x \in Sockets, socket'[x].chat = "done" PROVE u \in shown'[x]
    BY <1>1, <2>2 DEF L!In, SocketsLive, Present
  <2>3. PICK closed \in SUBSET Sockets : closed = {}
    OBVIOUS
  <2>4. /\ \A x \in Sockets : socket'[x].chat = "fetched" =>
              /\ x \notin closed /\ socket[x].chat = "fetched"
              /\ socket'[x].online = socket[x].online
        /\ \A w \in Workers : roomTask'[w].pc = "snapshot" =>
              roomTask'[w] = roomTask[w] /\ roomTask[w].socket \notin closed
        /\ \A x \in L!Overtaken(u, TRUE) : x \in blurred'
    BY <1>1, <2>3
  <2>. QED  BY <1>2, <2>1, <2>2, <2>4, Announced
<1>. QED  BY <1>3, <1>4 DEF Settled

\* It has joined no room, and nobody is told of anything yet.
LEMMA LateEnterSettled ==
    ASSUME Settled, NEW u \in RoomUsers, NEW s \in Sockets, L!LateEnter(u, s)
    PROVE  Settled'
<1>1. /\ \A news \in late : news[3] = "fetched" => news \in late'
      /\ UNCHANGED <<socket, shown, roomTask, blurred>>
  BY DEF L!LateEnter
<1>. SUFFICES ASSUME NEW v \in RoomUsers \ blurred, ~L!Unannounced(v)' PROVE Told(v)'
  BY <1>1 DEF Settled
<1>2. ~L!Unannounced(v)
  BY <1>1 DEF L!Unannounced, L!Of
<1>3. v \in L!Online' <=> v \in L!Online
  BY <1>1, OnlineIs
<1>4. Told(v)
  BY <1>2 DEF Settled
<1>. QED  BY <1>1, <1>3, <1>4 DEF Told

LEMMA SendSettled ==
    ASSUME L!TypeOK, TasksLive, Settled, NEW w \in Workers, L!SendPresence(w)
    PROVE  Settled'
<1>1. PICK i \in L!Tasks : roomTask[w] = i
  BY DEF L!TypeOK
<1>2. /\ i.pc = "snapshot" /\ i.socket \in Sockets
      /\ shown' = [shown EXCEPT ![i.socket] = i.online]
      /\ L!Return(w) /\ UNCHANGED <<socket, late, blurred>>
  BY <1>1 DEF L!SendPresence, TasksLive, Sound, Asking
<1>3. /\ shown'[i.socket] = i.online
      /\ \A x \in Sockets \ {i.socket} : shown'[x] = shown[x]
  BY <1>2 DEF L!TypeOK
<1>4. roomTask'[w].pc = "idle" /\ \A v \in Workers : v # w => roomTask'[v] = roomTask[v]
  BY <1>2, IdleIsTask, OneTaskMoves DEF L!Return
<1>5. \A v : v \in L!Online' <=> v \in L!Online
  BY <1>2, OnlineIs
<1>. SUFFICES ASSUME NEW v \in RoomUsers \ blurred, ~L!Unannounced(v)' PROVE Told(v)'
  BY <1>2 DEF Settled
<1>6. ~L!Unannounced(v)
  BY <1>2 DEF L!Unannounced, L!Of
<1>7. Told(v)
  BY <1>6 DEF Settled
<1>8. ASSUME NEW x \in Sockets \ blurred
      PROVE  /\ socket'[x].chat = "done" => (v \in shown'[x] <=> v \in L!Online')
             /\ socket'[x].chat = "fetched" => (v \in socket'[x].online <=> v \in L!Online')
  BY <1>1, <1>2, <1>3, <1>5, <1>7 DEF Told
<1>9. ASSUME NEW y \in Workers, roomTask'[y].pc = "snapshot", roomTask'[y].socket \notin blurred
      PROVE  v \in roomTask'[y].online <=> v \in L!Online'
  BY <1>4, <1>5, <1>7, <1>9 DEF Told
<1>. QED  BY <1>2, <1>8, <1>9 DEF Told

LEMMA SettledStep ==
    ASSUME L!LiveRoomsAssumption, L!TypeOK, SocketsLive, TasksLive, Settled, L!Next
    PROVE  Settled'
<1>1. ASSUME NEW s \in Sockets, L!Handshake(s) PROVE Settled'
  <2>1. ASSUME NEW u \in RoomUsers, L!Connect(s, u) PROVE Settled'
    <3>1. UNCHANGED <<late, shown, blurred, roomTask>>
      BY <2>1 DEF L!Connect
    <3>2. "company" \notin socket[s].rooms /\ socket[s].chat = "off"
      BY <2>1, ConnectRow, ClosedRow
    <3>3. \A x \in Sockets : Quiet(x)
      BY <2>1, <3>2, ConnectRow DEF Quiet, SamePresence, Present
    <3>. QED  BY <3>1, <3>3, SettledKept
  <2>2. CASE L!ReadGroups(s)
    <3>1. UNCHANGED <<late, shown, blurred, roomTask>>
      BY <2>2 DEF L!ReadGroups
    <3>2. \A x \in Sockets : Quiet(x)
      BY <2>2, ReadRow DEF Quiet, SamePresence
    <3>. QED  BY <3>1, <3>2, SettledKept
  <2>3. CASE L!JoinGroups(s)
    <3>1. socket' = [socket EXCEPT ![s] = [socket[s] EXCEPT !.direct = "done",
                                                            !.rooms = @ \cup {"group"}]]
      BY <2>3 DEF L!JoinGroups, L!TypeOK, L!SocketRows
    <3>2. UNCHANGED <<late, shown, blurred, roomTask>>
      BY <2>3 DEF L!JoinGroups
    <3>3. \A x \in Sockets : Quiet(x)
      BY <3>1, RoomRow DEF Quiet, SamePresence
    <3>. QED  BY <3>2, <3>3, SettledKept
  <2>. QED  BY <1>1, <2>1, <2>2, <2>3, EnterSettled, SnapshotSettled DEF L!Handshake
<1>2. ASSUME NEW w \in Workers, L!Request(w) PROVE Settled'
  <2>1. PICK j \in L!Tasks : /\ roomTask' = [roomTask EXCEPT ![w] = j]
                             /\ j.pc = "snapshot" => j.online = L!Online
    BY <1>2, Begins
  <2>2. \A v \in Workers : roomTask'[v].pc = "snapshot" =>
           roomTask'[v] = roomTask[v] \/ roomTask'[v].online = L!Online
    BY <2>1, OneTaskMoves
  <2>3. UNCHANGED <<late, shown, blurred>>
    BY <1>2 DEF L!Request, L!RequestPresence, L!AskRoom, L!AskLeave, L!EndAccess, L!Reassign,
                L!RemoveMember
  <2>4. \A x \in Sockets : Quiet(x)
    <3>1. ASSUME NEW u \in RoomUsers, L!RemoveMember(w, u) PROVE \A x \in Sockets : Quiet(x)
      BY <3>1, RemoveRows DEF Quiet
    <3>2. ASSUME UNCHANGED socket PROVE \A x \in Sockets : Quiet(x)
      BY <3>2 DEF Quiet, SamePresence
    <3>. QED  BY <1>2, <3>1, <3>2 DEF L!Request, L!RequestPresence, L!AskRoom, L!AskLeave,
              L!EndAccess, L!Reassign
  <2>. QED  BY <2>2, <2>3, <2>4, SettledKept
<1>3. ASSUME NEW w \in Workers, L!Statement(w) PROVE Settled'
  <2>1. PICK i \in L!Tasks : roomTask[w] = i /\ Sound(i)
    BY DEF L!TypeOK, TasksLive
  <2>2. CASE L!DisconnectSockets(w)
    <3>1. PICK u \in RoomUsers : u = i.user
      BY <2>1, <2>2 DEF L!DisconnectSockets, Sound
    <3>2. PICK shut \in SUBSET Sockets : shut = L!Of(u) \cap L!In("company")
      BY DEF L!Of
    <3>3. /\ L!Close(u, shut) /\ shut \subseteq L!Of(u)
          /\ roomTask' = [v \in Workers |-> IF v = w \/ roomTask[v].socket \in shut
                                            THEN L!Idle ELSE roomTask[v]]
      BY <2>1, <2>2, <3>1, <3>2 DEF L!DisconnectSockets
    <3>4. \A v \in Workers : roomTask'[v].pc = "snapshot" =>
             roomTask'[v] = roomTask[v] /\ roomTask[v].socket \notin shut
      BY <3>3, IdleIsTask
    <3>. QED  BY <3>3, <3>4, CloseSettled
  <2>3. ASSUME UNCHANGED <<late, shown, blurred>>, \A x \in Sockets : SamePresence(x),
               L!Return(w) \/ L!WriteDriver(w)
        PROVE  Settled'
    <3>1. \A v \in Workers : roomTask'[v].pc = "snapshot" => roomTask'[v] = roomTask[v]
      <4>1. CASE L!Return(w)
        BY <4>1, IdleIsTask, OneTaskMoves DEF L!Return
      <4>2. CASE L!WriteDriver(w)
        <5>1. roomTask' = [roomTask EXCEPT ![w].pc = "leaveTrip"]
          BY <4>2 DEF L!WriteDriver
        <5>2. /\ roomTask'[w].pc = "leaveTrip"
              /\ \A v \in Workers : v # w => roomTask'[v] = roomTask[v]
          BY <5>1 DEF L!TypeOK, L!Tasks
        <5>. QED  BY <5>2
      <4>. QED  BY <2>3, <4>1, <4>2
    <3>2. \A x \in Sockets : Quiet(x)
      BY <2>3 DEF Quiet
    <3>. QED  BY <2>3, <3>1, <3>2, SettledKept
  <2>4. CASE L!EnterRoom(w)
    <3>1. UNCHANGED <<late, shown, blurred>> /\ L!Return(w)
      BY <2>4 DEF L!EnterRoom
    <3>2. \A x \in Sockets : SamePresence(x)
      BY <2>4, EnterRoomRow DEF SamePresence
    <3>. QED  BY <2>3, <3>1, <3>2
  <2>5. CASE L!WriteDriver(w) \/ L!Fail(w)
    <3>1. UNCHANGED <<late, shown, blurred, socket>> /\ (L!Return(w) \/ L!WriteDriver(w))
      BY <2>5 DEF L!WriteDriver, L!Fail
    <3>2. \A x \in Sockets : SamePresence(x)
      BY <3>1 DEF SamePresence
    <3>. QED  BY <2>3, <3>1, <3>2
  <2>6. CASE L!PutDriverOut(w) \/ L!PutMemberOut(w)
    <3>1. /\ UNCHANGED <<late, shown, blurred>> /\ L!Return(w)
          /\ \E room \in {"trip", "group"} : socket' = L!Leaves(L!Of(i.user), room)
      BY <2>1, <2>6 DEF L!PutDriverOut, L!PutMemberOut
    <3>2. \A x \in Sockets : SamePresence(x)
      BY <3>1, LeavesRows
    <3>. QED  BY <2>3, <3>1, <3>2
  <2>7. CASE L!LeaveGroup(w)
    <3>1. UNCHANGED <<late, shown, blurred>> /\ L!Return(w)
      BY <2>7 DEF L!LeaveGroup
    <3>2. \A x \in Sockets : SamePresence(x)
      BY <2>7, LeaveGroupRow
    <3>. QED  BY <2>3, <3>1, <3>2
  <2>. QED  BY <1>3, <2>2, <2>4, <2>5, <2>6, <2>7, SendSettled DEF L!Statement
<1>4. ASSUME NEW s \in Sockets, L!Disconnect(s) PROVE Settled'
  <2>1. PICK u \in RoomUsers : u = socket[s].user
    BY <1>4 DEF L!Disconnect, SocketsLive
  <2>2. PICK shut \in SUBSET Sockets : shut = {s}
    OBVIOUS
  <2>3. /\ L!Close(u, shut) /\ shut \subseteq L!Of(u)
        /\ roomTask' = [w \in Workers |-> IF roomTask[w].socket = s THEN L!Idle ELSE roomTask[w]]
    BY <1>4, <2>1, <2>2 DEF L!Disconnect, L!Of
  <2>4. \A v \in Workers : roomTask'[v].pc = "snapshot" =>
           roomTask'[v] = roomTask[v] /\ roomTask[v].socket \notin shut
    BY <2>2, <2>3, IdleIsTask
  <2>. QED  BY <2>3, <2>4, CloseSettled
<1>5. ASSUME NEW u \in RoomUsers, L!Activate(u) \/ L!AddMember(u) PROVE Settled'
  <2>1. UNCHANGED <<late, shown, blurred, roomTask, socket>>
    BY <1>5 DEF L!Activate, L!AddMember
  <2>2. \A x \in Sockets : Quiet(x)
    BY <2>1 DEF Quiet, SamePresence
  <2>. QED  BY <2>1, <2>2, SettledKept
<1>. QED  BY <1>1, <1>2, <1>3, <1>4, <1>5, LateEnterSettled, LateNewsSettled DEF L!Next

-----------------------------------------------------------------------------
(* The invariant is inductive.                                             *)

LEMMA RoomsInvInit ==
    ASSUME L!LiveRoomsAssumption, L!Init
    PROVE  RoomsInv
<1>1. /\ \A s \in Sockets : socket[s] = L!Closed
      /\ \A w \in Workers : roomTask[w] = L!Idle
  BY DEF L!Init
<1>2. L!TypeOK
  BY IdleIsTask, ClosedRow DEF L!Init, L!TypeOK
<1>3. SocketsLive
  BY <1>1, ClosedRow DEF SocketsLive, Present
<1>4. TasksLive
  BY <1>1, SoundIdle DEF TasksLive
<1>5. L!RoomsMatchRights
  BY <1>1, ClosedRow DEF L!RoomsMatchRights, L!RoomsFollowRights, L!MembersHear
<1>6. Settled
  BY <1>1, ClosedRow, IdleIsTask DEF Settled, Told
<1>. QED  BY <1>2, <1>3, <1>4, <1>5, <1>6 DEF RoomsInv

LEMMA RoomsInvNext ==
    ASSUME L!LiveRoomsAssumption, RoomsInv, L!Next
    PROVE  RoomsInv'
<1>1. L!TypeOK'
  BY HandshakeTypes, RequestTypes, StatementTypes, AroundTypes DEF RoomsInv, L!Next
<1>2. SocketsLive' /\ TasksLive'
  BY HandshakeLive, RequestLive, StatementLive, AroundLive DEF RoomsInv, L!Next
<1>3. RoomsHeld'
  BY RoomByRoom, RoomsStep DEF RoomsInv, L!RoomsMatchRights
<1>4. L!RoomsFollowRights'
  BY <1>1, <1>3, RoomByRoom, PTL
<1>5. L!MembersHear'
  BY HearStep DEF RoomsInv, L!RoomsMatchRights
<1>6. Settled'
  BY SettledStep DEF RoomsInv
<1>. QED  BY <1>1, <1>2, <1>4, <1>5, <1>6 DEF RoomsInv, L!RoomsMatchRights

LEMMA RoomsInvStutters ==
    ASSUME RoomsInv, UNCHANGED L!vars
    PROVE  RoomsInv'
<1>1. UNCHANGED <<inCompany, driver, members, socket, late, shown, roomTask, tangled, blurred>>
  BY DEF L!vars
<1>2. L!TypeOK' /\ SocketsLive' /\ TasksLive'
  BY <1>1 DEF RoomsInv, L!TypeOK, SocketsLive, TasksLive, Sound
<1>3. L!RoomsMatchRights'
  BY <1>1 DEF RoomsInv, L!RoomsMatchRights, L!RoomsFollowRights, L!MembersHear, L!Right,
              L!Leaving, L!In
<1>4. Settled'
  <2>1. \A s \in Sockets : Quiet(s)
    BY <1>1 DEF Quiet, SamePresence
  <2>. QED  BY <1>1, <2>1, SettledKept DEF RoomsInv
<1>. QED  BY <1>2, <1>3, <1>4 DEF RoomsInv

LEMMA RoomsInvHolds ==
    ASSUME L!LiveRoomsAssumption
    PROVE  L!Spec => []RoomsInv
<1>1. L!Init => RoomsInv
  BY RoomsInvInit
<1>2. RoomsInv /\ [L!Next]_(L!vars) => RoomsInv'
  BY RoomsInvNext, RoomsInvStutters
<1>. QED  BY <1>1, <1>2, PTL DEF L!Spec

LEMMA SettledIsSettled == RoomsInv => L!PresenceSettles
<1>. SUFFICES ASSUME RoomsInv, NEW s \in L!In("company") \ blurred, NEW u \in RoomUsers \ blurred,
                     socket[s].chat = "done", ~L!Unannounced(u)
              PROVE  u \in shown[s] <=> u \in L!Online
  BY DEF L!PresenceSettles
<1>1. Told(u)
  BY DEF RoomsInv, Settled
<1>. QED  BY <1>1 DEF Told, L!In

-----------------------------------------------------------------------------
(* The invariant of the codes: the types, the guesses, the codes from      *)
(* before a sign-in, and the codes read out to managers.                   *)

N == Cardinality(Workers)

\* A row without the bound on its attempts, which Guesses has.
AnyCodeRows == [channel : {"none", "SMS", "MANAGER"}, by : Managers \cup {None},
            asked : BOOLEAN, used : BOOLEAN, attempts : Nat,
            fresh : BOOLEAN, expired : BOOLEAN]

LoginTypes ==
    /\ active \in BOOLEAN
    /\ boss \in Managers \cup {None}
    /\ code \in [Codes -> AnyCodeRows]
    /\ loginTask \in [Workers -> D!Tasks]
    /\ judged \in [Codes -> Nat]
    /\ dead \subseteq Codes
    /\ asks \in [Managers -> Nat]
    /\ minted \in [Managers -> Nat]

\* Workers that have read c with attempts left, and not answered.
Guessing(c) == {w \in Workers : /\ loginTask[w].pc \in {"lock", "compare", "miss"}
                                /\ c \in loginTask[w].pending}

\* A guess under way has room within the bound.
Guesses ==
    /\ \A c \in Codes : /\ judged[c] = code[c].attempts
                        /\ code[c].attempts + Cardinality(Guessing(c)) < MaxAttempts + N
                        /\ c \notin D!Rows => code[c].attempts = 0
    /\ \A w \in Workers : loginTask[w].pending \subseteq D!Rows

\* The codes of earlier rounds are used up, and no worker has read one as live
\* after that.
Rounds ==
    /\ dead \subseteq D!Rows
    /\ \A c \in dead : code[c].used
    /\ \A w \in Workers : /\ loginTask[w].late => loginTask[w].code \notin loginTask[w].pending
                          /\ loginTask[w].pc = "burn" => loginTask[w].code \in loginTask[w].pending

\* Workers about to read out a code to m.
Minting(m) == {w \in Workers : loginTask[w].pc \in {"mint", "close"} /\ loginTask[w].by = m}

\* While a request is open, what was read out is paid for by the earlier ones.
Mints ==
    /\ \A m \in Managers :
          /\ minted[m] + Cardinality(Minting(m)) <= N * asks[m]
          /\ D!OpenManagerRequest(m) => minted[m] + N <= N * asks[m]
    /\ \A w \in Workers : loginTask[w].pc \in {"mint", "close"} => loginTask[w].by \in Managers

LoginInv == LoginTypes /\ Guesses /\ Rounds /\ Mints

-----------------------------------------------------------------------------
(* Counting workers.                                                       *)

\* Finite sets are those of FiniteSets, in the instance too.
LEMMA LoginSizes ==
    ASSUME D!LoginAssumption
    PROVE  /\ IsFiniteSet(Workers)
           /\ \A W : (IsFiniteSet(W) <=> D!IsFiniteSet(W)) /\ Cardinality(W) = D!Cardinality(W)
  BY DEF IsFiniteSet, Cardinality, D!IsFiniteSet, D!Cardinality, D!LoginAssumption

LEMMA CountWorkers ==
    ASSUME D!LoginAssumption, NEW W \in SUBSET Workers
    PROVE  IsFiniteSet(W) /\ Cardinality(W) \in Nat /\ N \in Nat /\ Cardinality(W) <= N
<1>1. IsFiniteSet(Workers)
  BY LoginSizes
<1>2. IsFiniteSet(W) /\ Cardinality(W) <= Cardinality(Workers)
  BY <1>1, FS_Subset
<1>. QED  BY <1>1, <1>2, FS_CardinalityType DEF N

LEMMA CountFewer ==
    ASSUME D!LoginAssumption, NEW W \in SUBSET Workers, NEW T \in SUBSET W
    PROVE  Cardinality(T) <= Cardinality(W)
  BY CountWorkers, FS_Subset

LEMMA CountOneLess ==
    ASSUME D!LoginAssumption, NEW W \in SUBSET Workers, NEW w \in W, NEW T \in SUBSET (W \ {w})
    PROVE  Cardinality(T) + 1 <= Cardinality(W)
<1>1. IsFiniteSet(W) /\ Cardinality(W) \in Nat
  BY CountWorkers
<1>2. IsFiniteSet(W \ {w}) /\ Cardinality(W \ {w}) = Cardinality(W) - 1
  BY <1>1, FS_RemoveElement
<1>3. Cardinality(T) <= Cardinality(W \ {w})
  BY <1>2, FS_Subset
<1>4. Cardinality(T) \in Nat
  BY CountWorkers
<1>. QED  BY <1>1, <1>2, <1>3, <1>4

LEMMA LoginInitInv == ASSUME D!LoginAssumption, D!Init PROVE LoginInv
<1>1. LoginTypes
  BY DEF D!LoginAssumption, D!Init, LoginTypes, D!NoCode, AnyCodeRows, D!Idle, D!Tasks
<1>2. \A c \in Codes : Guessing(c) = {}
  BY DEF D!Init, Guessing, D!Idle
<1>3. \A m \in Managers : Minting(m) = {}
  BY DEF D!Init, Minting, D!Idle
<1>4. N \in Nat
  BY CountWorkers
<1>5. D!Rows = {}
  BY DEF D!Init, D!Rows, D!NoCode
<1>6. Guesses
  <2>1. \A c \in Codes : Cardinality(Guessing(c)) = 0
    BY <1>2, FS_EmptySet
  <2>. QED  BY <1>4, <2>1 DEF D!LoginAssumption, D!Init, Guesses, D!NoCode, D!Idle
<1>7. Rounds
  BY DEF D!Init, Rounds, D!Idle
<1>8. \A m \in Managers : ~D!OpenManagerRequest(m)
  BY <1>5 DEF D!OpenManagerRequest, D!Pending
<1>9. Mints
  <2>1. N * 0 = 0
    BY <1>4
  <2>2. \A m \in Managers : Cardinality(Minting(m)) = 0
    BY <1>3, FS_EmptySet
  <2>. QED  BY <1>4, <1>8, <2>1, <2>2 DEF D!Init, Mints, D!Idle
<1>. QED  BY <1>1, <1>6, <1>7, <1>9 DEF LoginInv

-----------------------------------------------------------------------------
(* What a step leaves alone.                                               *)

\* The other workers stay as they are.
LEMMA OneWorkerMoves ==
    ASSUME LoginTypes, NEW w \in Workers, NEW j \in D!Tasks,
           loginTask' = [loginTask EXCEPT ![w] = j]
    PROVE  /\ loginTask' \in [Workers -> D!Tasks]
           /\ loginTask'[w] = j
           /\ \A v \in Workers \ {w} : loginTask'[v] = loginTask[v]
  BY DEF LoginTypes

LEMMA IdleLoginTask == D!Idle \in D!Tasks
  BY DEF D!Idle, D!Tasks

\* No code is guessed at, and nobody starts to guess.
LEMMA GuessesStay ==
    ASSUME D!LoginAssumption, LoginTypes, Guesses, UNCHANGED judged, D!Rows \subseteq D!Rows',
           \A c \in Codes : code'[c].attempts = code[c].attempts,
           \A c \in Codes : Guessing(c)' \subseteq Guessing(c),
           \A w \in Workers : loginTask'[w].pending \subseteq D!Rows'
    PROVE  Guesses'
<1>1. ASSUME NEW c \in Codes
      PROVE  code[c].attempts + Cardinality(Guessing(c)') < MaxAttempts + N
  <2>1. Guessing(c) \in SUBSET Workers /\ Guessing(c)' \in SUBSET Guessing(c)
    BY DEF Guessing
  <2>2. Cardinality(Guessing(c)') <= Cardinality(Guessing(c))
    BY <2>1, CountFewer
  <2>3. /\ Cardinality(Guessing(c)) \in Nat /\ Cardinality(Guessing(c)') \in Nat
        /\ N \in Nat /\ MaxAttempts \in Nat /\ code[c].attempts \in Nat
    BY <2>1, CountWorkers DEF LoginTypes, AnyCodeRows, D!LoginAssumption
  <2>. QED  BY <2>2, <2>3 DEF Guesses
<1>2. N' = N
  BY DEF N
<1>. QED  BY <1>1, <1>2 DEF Guesses

\* A worker whose guess is over, or was never one, drops out of Guessing.
LEMMA GuessersLeave ==
    ASSUME LoginTypes, NEW w \in Workers, NEW j \in D!Tasks,
           loginTask' = [loginTask EXCEPT ![w] = j],
           \/ j.pc \notin {"lock", "compare", "miss"}
           \/ /\ loginTask[w].pc \in {"lock", "compare", "miss"}
              /\ j.pending \subseteq loginTask[w].pending
    PROVE  \A c \in Codes : Guessing(c)' \subseteq Guessing(c)
  BY OneWorkerMoves DEF Guessing

LEMMA RoundsStay ==
    ASSUME Rounds, UNCHANGED dead, D!Rows \subseteq D!Rows',
           \A c \in dead : code[c].used => code'[c].used,
           \A w \in Workers :
              /\ loginTask'[w].late => loginTask'[w].code \notin loginTask'[w].pending
              /\ loginTask'[w].pc = "burn" => loginTask'[w].code \in loginTask'[w].pending
    PROVE  Rounds'
  BY DEF Rounds

\* Nothing is asked of a manager or read out, and nobody is about to.
LEMMA MintsStay ==
    ASSUME D!LoginAssumption, LoginTypes, Mints, UNCHANGED <<asks, minted>>,
           \A m \in Managers : D!OpenManagerRequest(m)' => D!OpenManagerRequest(m),
           \A m \in Managers : Minting(m)' \subseteq Minting(m),
           \A w \in Workers :
              loginTask'[w].pc \in {"mint", "close"} => loginTask'[w].by \in Managers
    PROVE  Mints'
<1>1. ASSUME NEW m \in Managers
      PROVE  minted[m] + Cardinality(Minting(m)') <= N * asks[m]
  <2>1. Minting(m) \in SUBSET Workers /\ Minting(m)' \in SUBSET Minting(m)
    BY DEF Minting
  <2>2. Cardinality(Minting(m)') <= Cardinality(Minting(m))
    BY <2>1, CountFewer
  <2>3. /\ Cardinality(Minting(m)) \in Nat /\ Cardinality(Minting(m)') \in Nat
        /\ N \in Nat /\ minted[m] \in Nat /\ asks[m] \in Nat
    BY <2>1, CountWorkers DEF LoginTypes
  <2>4. N * asks[m] \in Nat
    BY <2>3
  <2>5. minted[m] + Cardinality(Minting(m)) <= N * asks[m]
    BY DEF Mints
  <2>. QED  BY <2>2, <2>3, <2>4, <2>5
<1>2. N' = N
  BY DEF N
<1>. QED  BY <1>1, <1>2 DEF Mints

LEMMA MintersLeave ==
    ASSUME LoginTypes, NEW w \in Workers, NEW j \in D!Tasks,
           loginTask' = [loginTask EXCEPT ![w] = j],
           \/ j.pc \notin {"mint", "close"}
           \/ loginTask[w].pc \in {"mint", "close"} /\ j.by = loginTask[w].by
    PROVE  \A m \in Managers : Minting(m)' \subseteq Minting(m)
  BY OneWorkerMoves DEF Minting

\* A request is open no longer than its row stays unused, in time and asked.
LEMMA OpenByRows ==
    ASSUME \A c \in Codes :
              /\ code'[c].channel # "none" => code[c].channel # "none"
              /\ ~code'[c].used /\ ~code'[c].expired => ~code[c].used /\ ~code[c].expired
              /\ code'[c].asked => code[c].asked
              /\ code'[c].by = code[c].by
    PROVE  \A m \in Managers : D!OpenManagerRequest(m)' => D!OpenManagerRequest(m)
  BY DEF D!OpenManagerRequest, D!Pending, D!Rows

\* A step of a worker that creates no row, counts nothing, and neither begins a
\* guess nor a code to be read out.
LEMMA LoginStepInv ==
    ASSUME D!LoginAssumption, LoginInv, Rounds', NEW w \in Workers, NEW j \in D!Tasks,
           loginTask' = [loginTask EXCEPT ![w] = j],
           UNCHANGED <<active, boss, judged, asks, minted>>,
           code' \in [Codes -> AnyCodeRows], dead' \subseteq Codes,
           \A c \in Codes : /\ code'[c].channel = code[c].channel
                            /\ code'[c].attempts = code[c].attempts
                            /\ code[c].used => code'[c].used
                            /\ code'[c].expired = code[c].expired
                            /\ code'[c].asked = code[c].asked
                            /\ code'[c].by = code[c].by,
           j.pending \subseteq loginTask[w].pending,
           \/ j.pc \notin {"lock", "compare", "miss"}
           \/ loginTask[w].pc \in {"lock", "compare", "miss"},
           \/ j.pc \notin {"mint", "close"}
           \/ loginTask[w].pc \in {"mint", "close"} /\ j.by = loginTask[w].by
    PROVE  LoginInv'
<1>1. LoginTypes
  BY DEF LoginInv
<1>2. /\ loginTask' \in [Workers -> D!Tasks] /\ loginTask'[w] = j
      /\ \A v \in Workers \ {w} : loginTask'[v] = loginTask[v]
  BY <1>1, OneWorkerMoves
<1>3. LoginTypes'
  BY <1>1, <1>2 DEF LoginTypes
<1>4. D!Rows' = D!Rows
  BY DEF D!Rows
<1>5. Guesses'
  <2>1. \A c \in Codes : Guessing(c)' \subseteq Guessing(c)
    BY <1>1, GuessersLeave
  <2>2. \A v \in Workers : loginTask'[v].pending \subseteq D!Rows'
    BY <1>2, <1>4 DEF LoginInv, Guesses
  <2>. QED  BY <1>1, <1>4, <2>1, <2>2, GuessesStay DEF LoginInv
<1>6. Mints'
  <2>1. \A m \in Managers : Minting(m)' \subseteq Minting(m)
    BY <1>1, MintersLeave
  <2>2. \A m \in Managers : D!OpenManagerRequest(m)' => D!OpenManagerRequest(m)
    <3>1. \A c \in Codes : /\ code[c].used \in BOOLEAN /\ code'[c].used \in BOOLEAN
      BY <1>1 DEF LoginTypes, AnyCodeRows
    <3>. QED  BY <3>1, OpenByRows
  <2>3. \A v \in Workers : loginTask'[v].pc \in {"mint", "close"} => loginTask'[v].by \in Managers
    BY <1>2 DEF LoginInv, Mints
  <2>. QED  BY <1>1, <2>1, <2>2, <2>3, MintsStay DEF LoginInv
<1>. QED  BY <1>3, <1>5, <1>6 DEF LoginInv

\* One that writes no row at all.
LEMMA QuietLoginInv ==
    ASSUME D!LoginAssumption, LoginInv, NEW w \in Workers, NEW j \in D!Tasks,
           loginTask' = [loginTask EXCEPT ![w] = j],
           UNCHANGED <<active, boss, code, judged, dead, asks, minted>>,
           j.pending \subseteq loginTask[w].pending,
           j.late => j.code \notin j.pending,
           j.pc = "burn" => j.code \in j.pending,
           \/ j.pc \notin {"lock", "compare", "miss"}
           \/ loginTask[w].pc \in {"lock", "compare", "miss"},
           \/ j.pc \notin {"mint", "close"}
           \/ loginTask[w].pc \in {"mint", "close"} /\ j.by = loginTask[w].by
    PROVE  LoginInv'
<1>1. LoginTypes /\ Rounds
  BY DEF LoginInv
<1>2. loginTask'[w] = j /\ \A v \in Workers \ {w} : loginTask'[v] = loginTask[v]
  BY <1>1, OneWorkerMoves
<1>3. Rounds'
  BY <1>1, <1>2, RoundsStay DEF Rounds, D!Rows
<1>4. code' \in [Codes -> AnyCodeRows] /\ dead' \subseteq Codes
  BY <1>1 DEF LoginTypes
<1>. QED  BY <1>3, <1>4, LoginStepInv

-----------------------------------------------------------------------------
(* Asking for a code.                                                      *)

LEMMA RequestCodeInv ==
    ASSUME D!LoginAssumption, LoginInv, NEW w \in Workers, NEW channel \in {"SMS", "MANAGER"},
           D!RequestCode(w, channel)
    PROVE  LoginInv'
<1>. DEFINE j == [D!Idle EXCEPT !.pc = "store", !.channel = channel,
                              !.by = IF channel = "MANAGER" THEN boss ELSE None]
<1>1. j \in D!Tasks
  BY DEF LoginInv, LoginTypes, D!Tasks, D!Idle
<1>2. /\ loginTask' = [loginTask EXCEPT ![w] = j]
      /\ UNCHANGED <<active, boss, code, judged, dead, asks, minted>>
  BY DEF D!RequestCode, D!Start
<1>3. j.pc = "store" /\ j.pending = {} /\ ~j.late
  BY DEF D!Idle
<1>. HIDE DEF j
<1>. QED  BY <1>1, <1>2, <1>3, QuietLoginInv

\* A code is minted only where a request is open, and then N more are paid for.
LEMMA IssueLoginCodeInv ==
    ASSUME D!LoginAssumption, LoginInv, NEW w \in Workers, NEW m \in Managers,
           D!IssueLoginCode(w, m)
    PROVE  LoginInv'
<1>. DEFINE j == [D!Idle EXCEPT !.pc = "mint", !.by = m]
<1>1. LoginTypes
  BY DEF LoginInv
<1>2. j \in D!Tasks
  BY DEF D!Tasks, D!Idle
<1>3. /\ loginTask' = [loginTask EXCEPT ![w] = j]
      /\ UNCHANGED <<active, boss, code, judged, dead, asks, minted>>
      /\ D!OpenManagerRequest(m)
  BY DEF D!IssueLoginCode, D!Start
<1>4. j.pc = "mint" /\ j.pending = {} /\ ~j.late /\ j.by = m
  BY DEF D!Idle
<1>. HIDE DEF j
<1>5. /\ loginTask' \in [Workers -> D!Tasks] /\ loginTask'[w] = j
      /\ \A v \in Workers \ {w} : loginTask'[v] = loginTask[v]
  BY <1>1, <1>2, <1>3, OneWorkerMoves
<1>6. D!Rows' = D!Rows /\ \A p \in Managers : D!OpenManagerRequest(p)' <=> D!OpenManagerRequest(p)
  BY <1>3 DEF D!Rows, D!OpenManagerRequest, D!Pending
<1>7. LoginTypes'
  BY <1>1, <1>3, <1>5 DEF LoginTypes
<1>8. Guesses'
  <2>1. \A c \in Codes : Guessing(c)' \subseteq Guessing(c)
    BY <1>1, <1>2, <1>3, <1>4, GuessersLeave
  <2>2. \A v \in Workers : loginTask'[v].pending \subseteq D!Rows'
    BY <1>4, <1>5, <1>6 DEF LoginInv, Guesses
  <2>. QED  BY <1>1, <1>3, <1>6, <2>1, <2>2, GuessesStay DEF LoginInv
<1>9. Rounds'
  BY <1>3, <1>4, <1>5, <1>6, RoundsStay DEF LoginInv, Rounds
<1>10. Mints'
  <2>1. ASSUME NEW p \in Managers
        PROVE  minted[p] + Cardinality(Minting(p)') <= N * asks[p]
    <3>1. Minting(p)' \in SUBSET Workers /\ Minting(p) \in SUBSET Workers
      BY DEF Minting
    <3>2. /\ Cardinality(Minting(p)') \in Nat /\ Cardinality(Minting(p)') <= N /\ N \in Nat
          /\ minted[p] \in Nat /\ asks[p] \in Nat /\ Cardinality(Minting(p)) \in Nat
      BY <1>1, <3>1, CountWorkers DEF LoginTypes
    <3>3. N * asks[p] \in Nat
      BY <3>2
    <3>4. CASE p = m
      <4>1. minted[p] + N <= N * asks[p]
        BY <1>3, <3>4 DEF LoginInv, Mints
      <4>. QED  BY <3>2, <3>3, <4>1
    <3>5. CASE p # m
      <4>1. Minting(p)' \in SUBSET Minting(p)
        BY <1>4, <1>5, <3>5 DEF Minting
      <4>2. Cardinality(Minting(p)') <= Cardinality(Minting(p))
        BY <3>1, <4>1, CountFewer
      <4>3. minted[p] + Cardinality(Minting(p)) <= N * asks[p]
        BY DEF LoginInv, Mints
      <4>. QED  BY <3>2, <3>3, <4>2, <4>3
    <3>. QED  BY <3>4, <3>5
  <2>2. \A v \in Workers : loginTask'[v].pc \in {"mint", "close"} => loginTask'[v].by \in Managers
    BY <1>4, <1>5 DEF LoginInv, Mints
  <2>3. N' = N
    BY DEF N
  <2>. QED  BY <1>3, <1>6, <2>1, <2>2, <2>3 DEF LoginInv, Mints
<1>. QED  BY <1>7, <1>8, <1>9, <1>10 DEF LoginInv

\* The row that storeOtp creates.
LEMMA NewRow ==
    ASSUME LoginTypes, Guesses, NEW c \in Codes, D!NextCode(c),
           NEW channel \in {"none", "SMS", "MANAGER"},
           NEW by \in Managers \cup {None}, NEW asked \in BOOLEAN,
           D!StoreOtp(c, channel, by, asked)
    PROVE  /\ code' \in [Codes -> AnyCodeRows]
           /\ c \notin D!Rows /\ D!Rows \subseteq D!Rows'
           /\ \A d \in Codes : code'[d].attempts = code[d].attempts
           /\ \A d \in Codes \ {c} : code'[d] = code[d]
           /\ code'[c].by = by /\ code'[c].asked = asked
<1>. DEFINE made == [D!NoCode EXCEPT !.channel = channel, !.by = by, !.asked = asked,
                                  !.fresh = TRUE]
<1>1. made \in AnyCodeRows /\ made.by = by /\ made.asked = asked /\ made.attempts = 0
  BY DEF D!NoCode, AnyCodeRows
<1>2. code' = [code EXCEPT ![c] = made]
  BY DEF D!StoreOtp
<1>3. c \notin D!Rows /\ code[c].attempts = 0
  BY DEF D!NextCode, Guesses
<1>. HIDE DEF made
<1>4. /\ code' \in [Codes -> AnyCodeRows] /\ code'[c] = made
      /\ \A d \in Codes \ {c} : code'[d] = code[d]
  BY <1>1, <1>2 DEF LoginTypes
<1>. QED  BY <1>1, <1>3, <1>4 DEF D!Rows

\* What Store and Mint have in common: the worker goes on with j.
LEMMA NewRowInv ==
    ASSUME D!LoginAssumption, LoginInv, NEW w \in Workers, NEW j \in D!Tasks,
           loginTask' = [loginTask EXCEPT ![w] = j],
           NEW c \in Codes, D!NextCode(c), NEW asked \in BOOLEAN,
           D!StoreOtp(c, loginTask[w].channel, loginTask[w].by, asked)
             \/ D!StoreOtp(c, "MANAGER", loginTask[w].by, asked),
           UNCHANGED <<active, boss, judged, dead, minted>>, asks' \in [Managers -> Nat],
           j.pending \subseteq loginTask[w].pending, j.pc \in {"idle", "close"},
           j.late => j.code \notin j.pending
    PROVE  LoginTypes' /\ Guesses' /\ Rounds'
<1>1. LoginTypes /\ Guesses /\ Rounds
  BY DEF LoginInv
<1>2. /\ loginTask[w].channel \in {"none", "SMS", "MANAGER"}
      /\ loginTask[w].by \in Managers \cup {None}
  BY <1>1 DEF LoginTypes, D!Tasks
<1>3. /\ code' \in [Codes -> AnyCodeRows]
      /\ c \notin D!Rows /\ D!Rows \subseteq D!Rows'
      /\ \A d \in Codes : code'[d].attempts = code[d].attempts
      /\ \A d \in Codes \ {c} : code'[d] = code[d]
  BY <1>1, <1>2, NewRow
<1>4. /\ loginTask' \in [Workers -> D!Tasks] /\ loginTask'[w] = j
      /\ \A v \in Workers \ {w} : loginTask'[v] = loginTask[v]
  BY <1>1, OneWorkerMoves
<1>5. LoginTypes'
  BY <1>1, <1>3, <1>4 DEF LoginTypes
<1>6. Guesses'
  <2>1. \A d \in Codes : Guessing(d)' \subseteq Guessing(d)
    BY <1>1, GuessersLeave
  <2>2. \A v \in Workers : loginTask'[v].pending \subseteq D!Rows'
    BY <1>1, <1>3, <1>4 DEF Guesses
  <2>. QED  BY <1>1, <1>3, <2>1, <2>2, GuessesStay
<1>7. Rounds'
  <2>1. c \notin dead
    BY <1>1, <1>3 DEF Rounds
  <2>2. \A d \in dead : code[d].used => code'[d].used
    BY <1>1, <1>3, <2>1 DEF LoginTypes
  <2>. QED  BY <1>1, <1>3, <1>4, <2>2, RoundsStay DEF Rounds
<1>. QED  BY <1>5, <1>6, <1>7

\* The row that a driver's request creates is paid for as it is counted.
LEMMA StoreInv ==
    ASSUME D!LoginAssumption, LoginInv, NEW w \in Workers, NEW c \in Codes, D!Store(w, c)
    PROVE  LoginInv'
<1>. DEFINE q == loginTask[w]
            asked == q.channel = "MANAGER"
<1>1. LoginTypes /\ Guesses /\ Mints
  BY DEF LoginInv
<1>2. /\ q.pc = "store" /\ D!NextCode(c)
      /\ D!StoreOtp(c, q.channel, q.by, asked)
      /\ asks' = [m \in Managers |-> asks[m] + IF m = q.by THEN 1 ELSE 0]
      /\ loginTask' = [loginTask EXCEPT ![w] = D!Idle]
      /\ UNCHANGED <<active, boss, judged, dead, minted>>
  BY DEF D!Store, D!Return
<1>3. /\ q.channel \in {"none", "SMS", "MANAGER"} /\ q.by \in Managers \cup {None}
      /\ asked \in BOOLEAN
  BY <1>1 DEF LoginTypes, D!Tasks
<1>4. asks' \in [Managers -> Nat]
  BY <1>1, <1>2 DEF LoginTypes
<1>5. LoginTypes' /\ Guesses' /\ Rounds'
  <2>1. D!Idle.pending = {} /\ D!Idle.pc = "idle" /\ ~D!Idle.late
    BY DEF D!Idle
  <2>. QED  BY <1>2, <1>3, <1>4, <2>1, IdleLoginTask, NewRowInv
<1>6. ASSUME NEW m \in Managers
      PROVE  /\ minted[m] + Cardinality(Minting(m)') <= N * asks'[m]
             /\ D!OpenManagerRequest(m)' => minted[m] + N <= N * asks'[m]
  <2>1. Minting(m)' \in SUBSET Minting(m) /\ Minting(m) \in SUBSET Workers
    <3>1. D!Idle.pc \notin {"mint", "close"}
      BY DEF D!Idle
    <3>2. Minting(m)' \subseteq Minting(m)
      BY <1>1, <1>2, <3>1, IdleLoginTask, MintersLeave
    <3>. QED  BY <3>2 DEF Minting
  <2>2. /\ Cardinality(Minting(m)') \in Nat /\ Cardinality(Minting(m)) \in Nat
        /\ Cardinality(Minting(m)') <= Cardinality(Minting(m))
        /\ N \in Nat /\ minted[m] \in Nat /\ asks[m] \in Nat
    BY <1>1, <2>1, CountWorkers, CountFewer DEF LoginTypes
  <2>3. N * asks[m] \in Nat /\ N * (asks[m] + 1) = N * asks[m] + N
    BY <2>2
  <2>4. minted[m] + Cardinality(Minting(m)) <= N * asks[m]
    BY <1>1 DEF Mints
  <2>5. CASE m = q.by
    <3>1. asks'[m] = asks[m] + 1
      BY <1>2, <2>2, <2>5
    <3>2. N * asks'[m] = N * asks[m] + N
      BY <2>3, <3>1
    <3>. QED  BY <2>2, <2>3, <2>4, <3>2
  <2>6. CASE m # q.by
    <3>1. asks'[m] = asks[m]
      BY <1>2, <2>2, <2>6
    <3>2. /\ \A d \in Codes \ {c} : code'[d] = code[d]
          /\ code'[c].by = q.by
      <4>. HIDE DEF q, asked
      <4>. QED  BY <1>1, <1>2, <1>3, NewRow
    <3>3. D!OpenManagerRequest(m)' => D!OpenManagerRequest(m)
      BY <2>6, <3>2 DEF D!OpenManagerRequest, D!Pending, D!Rows
    <3>. QED  BY <1>1, <2>2, <2>3, <2>4, <3>1, <3>3 DEF Mints
  <2>. QED  BY <2>5, <2>6
<1>7. \A v \in Workers : loginTask'[v].pc \in {"mint", "close"} => loginTask'[v].by \in Managers
  <2>1. loginTask'[w] = D!Idle /\ \A v \in Workers \ {w} : loginTask'[v] = loginTask[v]
    BY <1>1, <1>2, IdleLoginTask, OneWorkerMoves
  <2>. QED  BY <1>1, <2>1 DEF Mints, D!Idle
<1>8. N' = N /\ minted' = minted
  BY <1>2 DEF N
<1>9. Mints'
  BY <1>6, <1>7, <1>8 DEF Mints
<1>. QED  BY <1>5, <1>9 DEF LoginInv

\* The code to be read out is nobody's request.
LEMMA MintInv ==
    ASSUME D!LoginAssumption, LoginInv, NEW w \in Workers, NEW c \in Codes, D!Mint(w, c)
    PROVE  LoginInv'
<1>. DEFINE q == loginTask[w]
            j == [q EXCEPT !.pc = "close"]
<1>1. LoginTypes /\ Guesses /\ Rounds /\ Mints
  BY DEF LoginInv
<1>2. /\ q.pc = "mint" /\ D!NextCode(c) /\ D!StoreOtp(c, "MANAGER", q.by, FALSE)
      /\ loginTask' = [loginTask EXCEPT ![w].pc = "close"]
      /\ UNCHANGED <<active, boss, judged, dead, asks, minted>>
  BY DEF D!Mint, D!Goto
<1>3. q \in D!Tasks
  BY <1>1 DEF LoginTypes
<1>4. loginTask' = [loginTask EXCEPT ![w] = j]
  BY <1>1, <1>2 DEF LoginTypes
<1>5. /\ j \in D!Tasks /\ j.pc = "close" /\ j.pending = q.pending
      /\ j.late = q.late /\ j.code = q.code /\ j.by = q.by
  BY <1>3 DEF D!Tasks
<1>. HIDE DEF j
<1>6. j.late => j.code \notin j.pending
  BY <1>1, <1>5 DEF Rounds
<1>7. asks' \in [Managers -> Nat]
  BY <1>1, <1>2 DEF LoginTypes
<1>8. LoginTypes' /\ Guesses' /\ Rounds'
  BY <1>2, <1>4, <1>5, <1>6, <1>7, NewRowInv
<1>9. Mints'
  <2>1. \A m \in Managers : Minting(m)' \subseteq Minting(m)
    BY <1>1, <1>2, <1>4, <1>5, MintersLeave
  <2>2. \A m \in Managers : D!OpenManagerRequest(m)' => D!OpenManagerRequest(m)
    <3>1. q.by \in Managers \cup {None}
      BY <1>3 DEF D!Tasks
    <3>2. /\ \A d \in Codes \ {c} : code'[d] = code[d]
          /\ code'[c].asked = FALSE
      BY <1>1, <1>2, <3>1, NewRow
    <3>. QED  BY <3>2 DEF D!OpenManagerRequest, D!Pending, D!Rows
  <2>3. \A v \in Workers : loginTask'[v].pc \in {"mint", "close"} => loginTask'[v].by \in Managers
    <3>1. loginTask'[w] = j /\ \A v \in Workers \ {w} : loginTask'[v] = loginTask[v]
      BY <1>1, <1>4, <1>5, OneWorkerMoves
    <3>. QED  BY <1>1, <1>2, <1>5, <3>1 DEF Mints
  <2>. QED  BY <1>1, <1>2, <2>1, <2>2, <2>3, MintsStay
<1>. QED  BY <1>8, <1>9 DEF LoginInv

\* The code is read out, and no request to this manager is open any more.
LEMMA CloseRequestInv ==
    ASSUME D!LoginAssumption, LoginInv, NEW w \in Workers, D!CloseRequest(w)
    PROVE  LoginInv'
<1>. DEFINE m == loginTask[w].by
<1>1. LoginTypes /\ Guesses /\ Rounds /\ Mints
  BY DEF LoginInv
<1>2. /\ loginTask[w].pc = "close"
      /\ code' = [c \in Codes |-> IF code[c].by = m /\ ~code[c].used
                                  THEN [code[c] EXCEPT !.asked = FALSE] ELSE code[c]]
      /\ minted' = [minted EXCEPT ![m] = @ + 1]
      /\ loginTask' = [loginTask EXCEPT ![w] = D!Idle]
      /\ UNCHANGED <<active, boss, judged, dead, asks>>
  BY DEF D!CloseRequest, D!Return
<1>3. m \in Managers
  BY <1>1, <1>2 DEF Mints
<1>4. /\ loginTask' \in [Workers -> D!Tasks] /\ loginTask'[w] = D!Idle
      /\ \A v \in Workers \ {w} : loginTask'[v] = loginTask[v]
  BY <1>1, <1>2, IdleLoginTask, OneWorkerMoves
<1>5. /\ code' \in [Codes -> AnyCodeRows]
      /\ \A c \in Codes : /\ code'[c].channel = code[c].channel
                          /\ code'[c].attempts = code[c].attempts
                          /\ code'[c].used = code[c].used
                          /\ code'[c].expired = code[c].expired
                          /\ code'[c].by = code[c].by
                          /\ code'[c].asked => code[c].asked
                          /\ code[c].by = m /\ ~code[c].used => ~code'[c].asked
  <2>1. ASSUME NEW c \in Codes
        PROVE  /\ [code[c] EXCEPT !.asked = FALSE] \in AnyCodeRows
               /\ code[c] \in AnyCodeRows
    BY <1>1 DEF LoginTypes, AnyCodeRows
  <2>2. code' \in [Codes -> AnyCodeRows]
    BY <1>2, <2>1
  <2>3. ASSUME NEW c \in Codes, code[c].by = m, ~code[c].used
        PROVE  code'[c] = [code[c] EXCEPT !.asked = FALSE]
    BY <1>2, <2>3
  <2>4. ASSUME NEW c \in Codes, ~(code[c].by = m /\ ~code[c].used)
        PROVE  code'[c] = code[c]
    BY <1>2, <2>4
  <2>. QED  BY <2>1, <2>2, <2>3, <2>4 DEF AnyCodeRows
<1>6. D!Rows' = D!Rows
  BY <1>5 DEF D!Rows
<1>7. LoginTypes'
  BY <1>1, <1>2, <1>3, <1>4, <1>5 DEF LoginTypes
<1>8. D!Idle.pc = "idle" /\ D!Idle.pending = {} /\ ~D!Idle.late
  BY DEF D!Idle
<1>9. Guesses'
  <2>1. \A c \in Codes : Guessing(c)' \subseteq Guessing(c)
    BY <1>1, <1>2, <1>8, IdleLoginTask, GuessersLeave
  <2>2. \A v \in Workers : loginTask'[v].pending \subseteq D!Rows'
    BY <1>1, <1>4, <1>6, <1>8 DEF Guesses
  <2>. QED  BY <1>1, <1>2, <1>5, <1>6, <2>1, <2>2, GuessesStay
<1>10. Rounds'
  <2>1. \A c \in dead : code[c].used => code'[c].used
    BY <1>1, <1>5 DEF LoginTypes
  <2>. QED  BY <1>1, <1>2, <1>4, <1>6, <1>8, <2>1, RoundsStay DEF Rounds
<1>11. Mints'
  <2>1. ASSUME NEW p \in Managers
        PROVE  /\ minted'[p] + Cardinality(Minting(p)') <= N * asks[p]
               /\ D!OpenManagerRequest(p)' => minted'[p] + N <= N * asks[p]
    <3>1. Minting(p)' \in SUBSET Minting(p) /\ Minting(p) \in SUBSET Workers
      <4>1. Minting(p)' \subseteq Minting(p)
        BY <1>1, <1>2, <1>8, IdleLoginTask, MintersLeave
      <4>. QED  BY <4>1 DEF Minting
    <3>2. /\ Cardinality(Minting(p)') \in Nat /\ Cardinality(Minting(p)) \in Nat
          /\ Cardinality(Minting(p)') <= Cardinality(Minting(p))
          /\ N \in Nat /\ minted[p] \in Nat /\ asks[p] \in Nat
      BY <1>1, <3>1, CountWorkers, CountFewer DEF LoginTypes
    <3>3. N * asks[p] \in Nat
      BY <3>2
    <3>4. minted[p] + Cardinality(Minting(p)) <= N * asks[p]
      BY <1>1 DEF Mints
    <3>5. D!OpenManagerRequest(p)' => D!OpenManagerRequest(p)
      <4>1. \A c \in Codes : code'[c].channel # "none" => code[c].channel # "none"
        BY <1>5
      <4>. QED  BY <1>5, <4>1, OpenByRows
    <3>6. CASE p = m
      <4>1. minted'[p] = minted[p] + 1
        BY <1>1, <1>2, <3>6 DEF LoginTypes
      <4>2. w \in Minting(p) /\ w \notin Minting(p)'
        BY <1>2, <1>4, <1>8, <3>6 DEF Minting
      <4>3. Cardinality(Minting(p)') + 1 <= Cardinality(Minting(p))
        BY <3>1, <4>2, CountOneLess
      <4>4. ~D!OpenManagerRequest(p)'
        BY <1>5, <3>6 DEF D!OpenManagerRequest, D!Pending, D!Rows
      <4>. QED  BY <3>2, <3>3, <3>4, <4>1, <4>3, <4>4
    <3>7. CASE p # m
      <4>1. minted'[p] = minted[p]
        BY <1>1, <1>2, <3>7 DEF LoginTypes
      <4>. QED  BY <1>1, <3>2, <3>3, <3>4, <3>5, <4>1 DEF Mints
    <3>. QED  BY <3>6, <3>7
  <2>2. \A v \in Workers : loginTask'[v].pc \in {"mint", "close"} => loginTask'[v].by \in Managers
    BY <1>1, <1>4, <1>8 DEF Mints
  <2>3. N' = N
    BY DEF N
  <2>. QED  BY <1>2, <2>1, <2>2, <2>3 DEF Mints
<1>. QED  BY <1>7, <1>9, <1>10, <1>11 DEF LoginInv

-----------------------------------------------------------------------------
(* Verification.                                                           *)

\* What is read as live is a row, unused, with attempts left.
LEMMA VerifyInv ==
    ASSUME D!LoginAssumption, LoginInv, NEW w \in Workers, NEW guess \in Codes \cup {None},
           D!Verify(w, guess)
    PROVE  LoginInv'
<1>. DEFINE live == D!Newest \ D!Exhausted(D!Newest)
            worn == D!Exhausted(D!Newest)
            behind == guess \in dead
            refused == ~active
            pc == IF worn = {} THEN "compare" ELSE "lock"
            j == [D!Idle EXCEPT !.pc = pc, !.code = guess, !.pending = live,
                              !.exhausted = worn, !.late = behind, !.refused = refused]
<1>1. LoginTypes /\ Guesses /\ Rounds /\ Mints
  BY DEF LoginInv
<1>2. /\ loginTask' = [loginTask EXCEPT ![w] = j]
      /\ UNCHANGED <<active, boss, code, judged, dead, asks, minted>>
  BY DEF D!Verify, D!Start
<1>3. /\ live \subseteq D!Rows /\ worn \subseteq Codes /\ D!Rows \subseteq Codes
      /\ \A c \in live : ~code[c].used /\ code[c].attempts < MaxAttempts
  BY <1>1 DEF D!Newest, D!Pending, D!Rows, D!Exhausted, LoginTypes, AnyCodeRows, D!LoginAssumption
<1>4. /\ j \in D!Tasks /\ j.pc \in {"compare", "lock"} /\ j.pending = live
      /\ j.code = guess /\ (j.late <=> guess \in dead)
  <2>1. behind \in BOOLEAN /\ refused \in BOOLEAN /\ pc \in {"compare", "lock"}
    OBVIOUS
  <2>2. behind <=> guess \in dead
    OBVIOUS
  <2>. HIDE DEF live, worn, behind, refused, pc
  <2>3. j \in D!Tasks /\ j.pc = pc /\ j.pending = live /\ j.code = guess /\ j.late = behind
    BY <1>3, <2>1 DEF D!Tasks, D!Idle
  <2>. QED  BY <2>1, <2>2, <2>3
<1>. HIDE DEF live, worn, behind, refused, pc
<1>. HIDE DEF j
<1>5. /\ loginTask' \in [Workers -> D!Tasks] /\ loginTask'[w] = j
      /\ \A v \in Workers \ {w} : loginTask'[v] = loginTask[v]
  BY <1>1, <1>2, <1>4, OneWorkerMoves
<1>6. D!Rows' = D!Rows
  BY <1>2 DEF D!Rows
<1>7. LoginTypes'
  BY <1>1, <1>2, <1>5 DEF LoginTypes
<1>8. Guesses'
  <2>1. ASSUME NEW c \in Codes
        PROVE  code[c].attempts + Cardinality(Guessing(c)') < MaxAttempts + N
    <3>1. Guessing(c)' \in SUBSET Workers /\ Guessing(c) \in SUBSET Workers
      BY DEF Guessing
    <3>2. /\ Cardinality(Guessing(c)') \in Nat /\ Cardinality(Guessing(c)') <= N /\ N \in Nat
          /\ Cardinality(Guessing(c)) \in Nat /\ MaxAttempts \in Nat
          /\ code[c].attempts \in Nat
      BY <1>1, <3>1, CountWorkers DEF LoginTypes, AnyCodeRows, D!LoginAssumption
    <3>3. CASE c \in live
      BY <1>3, <3>2, <3>3
    <3>4. CASE c \notin live
      <4>1. Guessing(c)' \in SUBSET Guessing(c)
        BY <1>4, <1>5, <3>4 DEF Guessing
      <4>2. Cardinality(Guessing(c)') <= Cardinality(Guessing(c))
        BY <3>1, <4>1, CountFewer
      <4>3. code[c].attempts + Cardinality(Guessing(c)) < MaxAttempts + N
        BY <1>1 DEF Guesses
      <4>. QED  BY <3>2, <4>2, <4>3
    <3>. QED  BY <3>3, <3>4
  <2>2. \A v \in Workers : loginTask'[v].pending \subseteq D!Rows'
    BY <1>1, <1>3, <1>4, <1>5, <1>6 DEF Guesses
  <2>3. N' = N
    BY DEF N
  <2>. QED  BY <1>1, <1>2, <1>6, <2>1, <2>2, <2>3 DEF Guesses
<1>9. Rounds'
  <2>1. j.late => j.code \notin j.pending
    BY <1>1, <1>3, <1>4 DEF Rounds
  <2>. QED  BY <1>1, <1>2, <1>4, <1>5, <1>6, <2>1, RoundsStay DEF Rounds
<1>10. Mints'
  <2>1. \A m \in Managers : Minting(m)' \subseteq Minting(m)
    BY <1>1, <1>2, <1>4, MintersLeave
  <2>2. \A m \in Managers : D!OpenManagerRequest(m)' => D!OpenManagerRequest(m)
    BY <1>2, OpenByRows
  <2>3. \A v \in Workers : loginTask'[v].pc \in {"mint", "close"} => loginTask'[v].by \in Managers
    BY <1>1, <1>4, <1>5 DEF Mints
  <2>. QED  BY <1>1, <1>2, <2>1, <2>2, <2>3, MintsStay
<1>. QED  BY <1>7, <1>8, <1>9, <1>10 DEF LoginInv

\* The rows that MarkUsed leaves.
LEMMA MarkUsedRows ==
    ASSUME LoginTypes, NEW W, code' = D!MarkUsed(W)
    PROVE  /\ code' \in [Codes -> AnyCodeRows]
           /\ \A c \in Codes : /\ code'[c].channel = code[c].channel
                               /\ code'[c].attempts = code[c].attempts
                               /\ code[c].used => code'[c].used
                               /\ c \in W => code'[c].used
                               /\ code'[c].expired = code[c].expired
                               /\ code'[c].asked = code[c].asked
                               /\ code'[c].by = code[c].by
<1>1. ASSUME NEW c \in Codes
      PROVE  /\ [code[c] EXCEPT !.used = TRUE] \in AnyCodeRows
             /\ code[c] \in AnyCodeRows
  BY DEF LoginTypes, AnyCodeRows
<1>2. code' \in [Codes -> AnyCodeRows]
  BY <1>1 DEF D!MarkUsed
<1>3. ASSUME NEW c \in Codes, c \in W
      PROVE  code'[c] = [code[c] EXCEPT !.used = TRUE]
  BY <1>3 DEF D!MarkUsed
<1>4. ASSUME NEW c \in Codes, c \notin W
      PROVE  code'[c] = code[c]
  BY <1>4 DEF D!MarkUsed
<1>. QED  BY <1>1, <1>2, <1>3, <1>4 DEF AnyCodeRows

LEMMA LockExhaustedInv ==
    ASSUME D!LoginAssumption, LoginInv, NEW w \in Workers, D!LockExhausted(w)
    PROVE  LoginInv'
<1>. DEFINE q == loginTask[w]
            j == IF q.pending = {} THEN D!Idle ELSE [q EXCEPT !.pc = "compare"]
<1>1. LoginTypes /\ Rounds
  BY DEF LoginInv
<1>2. /\ q.pc = "lock" /\ code' = D!MarkUsed(q.exhausted)
      /\ loginTask' = [loginTask EXCEPT ![w] = j]
      /\ UNCHANGED <<active, boss, judged, dead, asks, minted>>
  BY <1>1 DEF D!LockExhausted, D!Return, D!Goto, LoginTypes
<1>3. q \in D!Tasks /\ (q.late => q.code \notin q.pending)
  BY <1>1 DEF LoginTypes, Rounds
<1>4. /\ j \in D!Tasks /\ j.pending \subseteq q.pending /\ j.pc \in {"idle", "compare"}
      /\ j.late => j.code \notin j.pending
  <2>1. CASE q.pending = {}
    BY <2>1, IdleLoginTask DEF D!Idle
  <2>2. CASE q.pending # {}
    <3>1. j = [q EXCEPT !.pc = "compare"]
      BY <2>2
    <3>. HIDE DEF j
    <3>. QED  BY <1>3, <3>1 DEF D!Tasks
  <2>. QED  BY <2>1, <2>2
<1>. HIDE DEF j
<1>5. /\ code' \in [Codes -> AnyCodeRows]
      /\ \A c \in Codes : /\ code'[c].channel = code[c].channel
                          /\ code'[c].attempts = code[c].attempts
                          /\ code[c].used => code'[c].used
                          /\ code'[c].expired = code[c].expired
                          /\ code'[c].asked = code[c].asked
                          /\ code'[c].by = code[c].by
  BY <1>1, <1>2, MarkUsedRows
<1>6. Rounds'
  <2>1. loginTask'[w] = j /\ \A v \in Workers \ {w} : loginTask'[v] = loginTask[v]
    BY <1>1, <1>2, <1>4, OneWorkerMoves
  <2>2. D!Rows' = D!Rows /\ \A c \in dead : code[c].used => code'[c].used
    BY <1>1, <1>5 DEF D!Rows, LoginTypes
  <2>. QED  BY <1>1, <1>2, <1>4, <2>1, <2>2, RoundsStay DEF Rounds
<1>7. dead' \subseteq Codes
  BY <1>1, <1>2 DEF LoginTypes
<1>. QED  BY <1>2, <1>4, <1>5, <1>6, <1>7, LoginStepInv

\* Only a code read as live is burnt.
LEMMA CompareInv ==
    ASSUME D!LoginAssumption, LoginInv, NEW w \in Workers, D!Compare(w)
    PROVE  LoginInv'
<1>. DEFINE q == loginTask[w]
            hit == q.code \in q.pending
<1>1. LoginTypes /\ Rounds
  BY DEF LoginInv
<1>2. q \in D!Tasks /\ (q.late => q.code \notin q.pending)
  BY <1>1 DEF LoginTypes, Rounds
<1>3. /\ q.pc = "compare"
      /\ UNCHANGED <<active, boss, code, judged, dead, asks, minted>>
  BY DEF D!Compare
<1>4. CASE hit /\ q.refused
  <2>1. loginTask' = [loginTask EXCEPT ![w] = D!Idle]
    BY <1>4 DEF D!Compare, D!Return
  <2>2. D!Idle.pc = "idle" /\ D!Idle.pending = {} /\ ~D!Idle.late
    BY DEF D!Idle
  <2>. QED  BY <1>3, <2>1, <2>2, IdleLoginTask, QuietLoginInv
<1>5. CASE ~(hit /\ q.refused)
  <2>. DEFINE pc == IF hit THEN "burn" ELSE "miss"
              j == [q EXCEPT !.pc = pc]
  <2>1. loginTask' = [loginTask EXCEPT ![w] = j]
    BY <1>1, <1>5 DEF D!Compare, D!Goto, LoginTypes
  <2>2. pc \in {"burn", "miss"} /\ (pc = "burn" => hit)
    OBVIOUS
  <2>. HIDE DEF pc
  <2>3. /\ j \in D!Tasks /\ j.pc = pc /\ j.pending = q.pending /\ j.late = q.late
        /\ j.code = q.code
    BY <1>2, <2>2 DEF D!Tasks
  <2>. HIDE DEF j
  <2>. QED  BY <1>2, <1>3, <2>1, <2>2, <2>3, QuietLoginInv
<1>. QED  BY <1>4, <1>5

\* One attempt more and one worker less for each code of the guess.
LEMMA MissInv ==
    ASSUME D!LoginAssumption, LoginInv, NEW w \in Workers, D!Miss(w)
    PROVE  LoginInv'
<1>. DEFINE live == loginTask[w].pending
<1>1. LoginTypes /\ Guesses /\ Rounds /\ Mints
  BY DEF LoginInv
<1>2. /\ loginTask[w].pc = "miss"
      /\ code' = [c \in Codes |-> IF c \in live
                                  THEN [code[c] EXCEPT !.attempts = @ + 1] ELSE code[c]]
      /\ judged' = [c \in Codes |-> judged[c] + IF c \in live THEN 1 ELSE 0]
      /\ loginTask' = [loginTask EXCEPT ![w] = D!Idle]
      /\ UNCHANGED <<active, boss, dead, asks, minted>>
  BY DEF D!Miss, D!Return
<1>3. /\ loginTask' \in [Workers -> D!Tasks] /\ loginTask'[w] = D!Idle
      /\ \A v \in Workers \ {w} : loginTask'[v] = loginTask[v]
  BY <1>1, <1>2, IdleLoginTask, OneWorkerMoves
<1>4. D!Idle.pc = "idle" /\ D!Idle.pending = {} /\ ~D!Idle.late
  BY DEF D!Idle
<1>5. /\ code' \in [Codes -> AnyCodeRows]
      /\ \A c \in Codes : /\ code'[c].channel = code[c].channel
                          /\ code'[c].attempts =
                               code[c].attempts + IF c \in live THEN 1 ELSE 0
                          /\ code'[c].used = code[c].used
                          /\ code'[c].expired = code[c].expired
                          /\ code'[c].asked = code[c].asked
                          /\ code'[c].by = code[c].by
  <2>1. ASSUME NEW c \in Codes
        PROVE  /\ [code[c] EXCEPT !.attempts = @ + 1] \in AnyCodeRows
               /\ code[c] \in AnyCodeRows /\ code[c].attempts \in Nat
    BY <1>1 DEF LoginTypes, AnyCodeRows
  <2>2. code' \in [Codes -> AnyCodeRows]
    BY <1>2, <2>1
  <2>3. ASSUME NEW c \in Codes, c \in live
        PROVE  code'[c] = [code[c] EXCEPT !.attempts = @ + 1]
    BY <1>2, <2>3
  <2>4. ASSUME NEW c \in Codes, c \notin live
        PROVE  code'[c] = code[c]
    BY <1>2, <2>4
  <2>. QED  BY <2>1, <2>2, <2>3, <2>4 DEF AnyCodeRows
<1>6. D!Rows' = D!Rows
  BY <1>5 DEF D!Rows
<1>7. LoginTypes'
  <2>1. judged' \in [Codes -> Nat]
    BY <1>1, <1>2 DEF LoginTypes
  <2>. QED  BY <1>1, <1>2, <1>3, <1>5, <2>1 DEF LoginTypes
<1>8. Guesses'
  <2>1. ASSUME NEW c \in Codes
        PROVE  /\ judged'[c] = code'[c].attempts
               /\ code'[c].attempts + Cardinality(Guessing(c)') < MaxAttempts + N
               /\ c \notin D!Rows => code'[c].attempts = 0
    <3>1. Guessing(c)' \in SUBSET Guessing(c) /\ Guessing(c) \in SUBSET Workers
      <4>1. Guessing(c)' \subseteq Guessing(c)
        BY <1>1, <1>2, <1>4, IdleLoginTask, GuessersLeave
      <4>. QED  BY <4>1 DEF Guessing
    <3>2. /\ Cardinality(Guessing(c)') \in Nat /\ Cardinality(Guessing(c)) \in Nat
          /\ Cardinality(Guessing(c)') <= Cardinality(Guessing(c))
          /\ N \in Nat /\ MaxAttempts \in Nat /\ code[c].attempts \in Nat
      BY <1>1, <3>1, CountWorkers, CountFewer DEF LoginTypes, AnyCodeRows, D!LoginAssumption
    <3>3. /\ judged[c] = code[c].attempts
          /\ code[c].attempts + Cardinality(Guessing(c)) < MaxAttempts + N
          /\ c \notin D!Rows => code[c].attempts = 0
      BY <1>1 DEF Guesses
    <3>4. CASE c \in live
      <4>1. w \in Guessing(c) /\ w \notin Guessing(c)'
        BY <1>2, <1>3, <1>4, <3>4 DEF Guessing
      <4>2. Cardinality(Guessing(c)') + 1 <= Cardinality(Guessing(c))
        BY <3>1, <4>1, CountOneLess
      <4>3. c \in D!Rows
        BY <1>1, <3>4 DEF Guesses
      <4>4. code'[c].attempts = code[c].attempts + 1 /\ judged'[c] = judged[c] + 1
        BY <1>2, <1>5, <3>4
      <4>. QED  BY <3>2, <3>3, <4>2, <4>3, <4>4
    <3>5. CASE c \notin live
      <4>1. code'[c].attempts = code[c].attempts /\ judged'[c] = judged[c]
        BY <1>2, <1>5, <3>2, <3>3, <3>5
      <4>. QED  BY <3>2, <3>3, <4>1
    <3>. QED  BY <3>4, <3>5
  <2>2. \A v \in Workers : loginTask'[v].pending \subseteq D!Rows'
    BY <1>1, <1>3, <1>4, <1>6 DEF Guesses
  <2>3. N' = N
    BY DEF N
  <2>. QED  BY <1>6, <2>1, <2>2, <2>3 DEF Guesses
<1>9. Rounds'
  <2>1. \A c \in dead : code[c].used => code'[c].used
    BY <1>1, <1>5 DEF LoginTypes
  <2>. QED  BY <1>1, <1>2, <1>3, <1>4, <1>6, <2>1, RoundsStay DEF Rounds
<1>10. Mints'
  <2>1. \A m \in Managers : Minting(m)' \subseteq Minting(m)
    BY <1>1, <1>2, <1>4, IdleLoginTask, MintersLeave
  <2>2. \A m \in Managers : D!OpenManagerRequest(m)' => D!OpenManagerRequest(m)
    BY <1>5, OpenByRows
  <2>3. \A v \in Workers : loginTask'[v].pc \in {"mint", "close"} => loginTask'[v].by \in Managers
    BY <1>1, <1>3, <1>4 DEF Mints
  <2>. QED  BY <1>1, <1>2, <2>1, <2>2, <2>3, MintsStay
<1>. QED  BY <1>7, <1>8, <1>9, <1>10 DEF LoginInv

\* Every row there is becomes one of an earlier round, used up.
LEMMA BurnInv ==
    ASSUME D!LoginAssumption, LoginInv, NEW w \in Workers, D!Burn(w)
    PROVE  LoginInv'
<1>. DEFINE W == {c \in D!Rows : ~code[c].used}
<1>1. LoginTypes /\ Rounds
  BY DEF LoginInv
<1>2. /\ code' = D!MarkUsed(W) /\ dead' = dead \cup D!Rows
      /\ loginTask' = [loginTask EXCEPT ![w] = D!Idle]
      /\ UNCHANGED <<active, boss, judged, asks, minted>>
  BY DEF D!Burn, D!Return
<1>3. D!Idle.pc = "idle" /\ D!Idle.pending = {} /\ ~D!Idle.late
  BY DEF D!Idle
<1>4. /\ code' \in [Codes -> AnyCodeRows]
      /\ \A c \in Codes : /\ code'[c].channel = code[c].channel
                          /\ code'[c].attempts = code[c].attempts
                          /\ code[c].used => code'[c].used
                          /\ c \in W => code'[c].used
                          /\ code'[c].expired = code[c].expired
                          /\ code'[c].asked = code[c].asked
                          /\ code'[c].by = code[c].by
  <2>. HIDE DEF W
  <2>. QED  BY <1>1, <1>2, MarkUsedRows
<1>5. D!Rows' = D!Rows /\ D!Rows \subseteq Codes
  BY <1>4 DEF D!Rows
<1>6. dead' \subseteq Codes
  BY <1>1, <1>2, <1>5 DEF LoginTypes
<1>7. Rounds'
  <2>1. loginTask'[w] = D!Idle /\ \A v \in Workers \ {w} : loginTask'[v] = loginTask[v]
    BY <1>1, <1>2, IdleLoginTask, OneWorkerMoves
  <2>2. \A c \in D!Rows : code'[c].used
    BY <1>4, <1>5
  <2>3. dead' \subseteq D!Rows'
    BY <1>1, <1>2, <1>5 DEF Rounds
  <2>4. \A c \in dead' : code'[c].used
    BY <1>5, <2>2, <2>3
  <2>5. \A v \in Workers :
           /\ loginTask'[v].late => loginTask'[v].code \notin loginTask'[v].pending
           /\ loginTask'[v].pc = "burn" => loginTask'[v].code \in loginTask'[v].pending
    BY <1>1, <1>3, <2>1 DEF Rounds
  <2>. QED  BY <2>3, <2>4, <2>5 DEF Rounds
<1>. HIDE DEF W
<1>. QED  BY <1>2, <1>3, <1>4, <1>6, <1>7, IdleLoginTask, LoginStepInv

LEMMA DieInv ==
    ASSUME D!LoginAssumption, LoginInv, NEW w \in Workers, D!Die(w)
    PROVE  LoginInv'
<1>1. /\ loginTask' = [loginTask EXCEPT ![w] = D!Idle]
      /\ UNCHANGED <<active, boss, code, judged, dead, asks, minted>>
  BY DEF D!Die, D!Return
<1>2. D!Idle.pc = "idle" /\ D!Idle.pending = {} /\ ~D!Idle.late
  BY DEF D!Idle
<1>. QED  BY <1>1, <1>2, IdleLoginTask, QuietLoginInv

-----------------------------------------------------------------------------
(* Around it, and the theorems.                                            *)

\* A step of no worker: rows only grow old, and the driver's row is its own.
LEMMA AroundInv ==
    ASSUME D!LoginAssumption, LoginInv, UNCHANGED <<loginTask, judged, dead, asks, minted>>,
           active' \in BOOLEAN, boss' \in Managers \cup {None},
           code' \in [Codes -> AnyCodeRows],
           \A c \in Codes : /\ code'[c].channel = code[c].channel
                            /\ code'[c].attempts = code[c].attempts
                            /\ code'[c].used = code[c].used
                            /\ code[c].expired => code'[c].expired
                            /\ code'[c].asked = code[c].asked
                            /\ code'[c].by = code[c].by
    PROVE  LoginInv'
<1>1. LoginTypes /\ Guesses /\ Rounds /\ Mints
  BY DEF LoginInv
<1>2. LoginTypes'
  BY <1>1 DEF LoginTypes
<1>3. D!Rows' = D!Rows
  BY DEF D!Rows
<1>4. Guesses'
  <2>1. \A c \in Codes : Guessing(c)' \subseteq Guessing(c)
    BY DEF Guessing
  <2>2. \A w \in Workers : loginTask'[w].pending \subseteq D!Rows'
    BY <1>1, <1>3 DEF Guesses
  <2>. QED  BY <1>1, <1>3, <2>1, <2>2, GuessesStay
<1>5. Rounds'
  <2>1. \A c \in dead : code[c].used => code'[c].used
    BY <1>1 DEF LoginTypes
  <2>. QED  BY <1>1, <1>3, <2>1, RoundsStay DEF Rounds
<1>6. Mints'
  <2>1. \A m \in Managers : Minting(m)' \subseteq Minting(m)
    BY DEF Minting
  <2>2. \A m \in Managers : D!OpenManagerRequest(m)' => D!OpenManagerRequest(m)
    BY OpenByRows
  <2>3. \A w \in Workers : loginTask'[w].pc \in {"mint", "close"} => loginTask'[w].by \in Managers
    BY <1>1 DEF Mints
  <2>. QED  BY <1>1, <2>1, <2>2, <2>3, MintsStay
<1>. QED  BY <1>2, <1>4, <1>5, <1>6 DEF LoginInv

LEMMA AgeInv ==
    ASSUME D!LoginAssumption, LoginInv, NEW c \in Codes, D!Age(c)
    PROVE  LoginInv'
<1>1. LoginTypes
  BY DEF LoginInv
<1>2. UNCHANGED <<active, boss, loginTask, judged, dead, asks, minted>>
  BY DEF D!Age
<1>3. code[c] \in AnyCodeRows
  BY <1>1 DEF LoginTypes
<1>4. /\ [code[c] EXCEPT !.fresh = FALSE] \in AnyCodeRows
      /\ [code[c] EXCEPT !.expired = TRUE] \in AnyCodeRows
  BY <1>3 DEF AnyCodeRows
<1>5. PICK made \in {[code[c] EXCEPT !.fresh = FALSE], [code[c] EXCEPT !.expired = TRUE]} :
          code' = [code EXCEPT ![c] = made]
  BY <1>1 DEF D!Age, LoginTypes
<1>6. /\ code' \in [Codes -> AnyCodeRows] /\ code'[c] = made
      /\ \A d \in Codes \ {c} : code'[d] = code[d]
  BY <1>1, <1>4, <1>5 DEF LoginTypes
<1>7. /\ made.channel = code[c].channel /\ made.attempts = code[c].attempts
      /\ made.used = code[c].used /\ (code[c].expired => made.expired)
      /\ made.asked = code[c].asked /\ made.by = code[c].by
  <2>1. CASE made = [code[c] EXCEPT !.fresh = FALSE]
    BY <1>3, <2>1 DEF AnyCodeRows
  <2>2. CASE made = [code[c] EXCEPT !.expired = TRUE]
    BY <1>3, <2>2 DEF AnyCodeRows
  <2>. QED  BY <1>5, <2>1, <2>2
<1>8. active' \in BOOLEAN /\ boss' \in Managers \cup {None}
  BY <1>1, <1>2 DEF LoginTypes
<1>. QED  BY <1>2, <1>6, <1>7, <1>8, AroundInv

LEMMA LoginNextInv == ASSUME D!LoginAssumption, LoginInv, [D!Next]_(D!vars) PROVE LoginInv'
<1>1. ASSUME NEW w \in Workers, D!Request(w) PROVE LoginInv'
  BY <1>1, RequestCodeInv, IssueLoginCodeInv, VerifyInv DEF D!Request
<1>2. ASSUME NEW w \in Workers, D!Statement(w) PROVE LoginInv'
  BY <1>2, StoreInv, MintInv, CloseRequestInv, LockExhaustedInv, CompareInv, MissInv,
     BurnInv, DieInv DEF D!Statement
<1>3. LoginTypes
  BY DEF LoginInv
<1>4. CASE D!Suspend
  BY <1>3, <1>4, AroundInv DEF D!Suspend, LoginTypes
<1>5. ASSUME NEW m \in Managers \cup {None}, D!ChangeBoss(m) PROVE LoginInv'
  BY <1>3, <1>5, AroundInv DEF D!ChangeBoss, LoginTypes
<1>6. ASSUME NEW c \in Codes, D!Age(c) PROVE LoginInv'
  BY <1>6, AgeInv
<1>7. CASE UNCHANGED D!vars
  BY <1>3, <1>7, AroundInv DEF D!vars, LoginTypes
<1>. QED  BY <1>1, <1>2, <1>4, <1>5, <1>6, <1>7 DEF D!Next

LEMMA LoginInvHolds == ASSUME D!LoginAssumption PROVE D!Spec => []LoginInv
<1>1. D!Init => LoginInv
  BY LoginInitInv
<1>2. LoginInv /\ [D!Next]_(D!vars) => LoginInv'
  BY LoginNextInv
<1>. QED  BY <1>1, <1>2, PTL DEF D!Spec

\* Every variable has its type; attempts stay below the bound that the rows of
\* overlapping guesses leave.
LEMMA LoginTypesHold == ASSUME D!LoginAssumption PROVE D!Spec => []D!TypeOK
<1>1. ASSUME LoginInv PROVE D!TypeOK
  <2>1. ASSUME NEW c \in Codes
        PROVE  code[c].attempts \in 0..(MaxAttempts + Cardinality(Workers) - 1)
    <3>1. Guessing(c) \in SUBSET Workers
      BY DEF Guessing
    <3>2. /\ Cardinality(Guessing(c)) \in Nat /\ N \in Nat /\ MaxAttempts \in Nat
          /\ code[c].attempts \in Nat
      BY <1>1, <3>1, CountWorkers DEF LoginInv, LoginTypes, AnyCodeRows, D!LoginAssumption
    <3>3. code[c].attempts + Cardinality(Guessing(c)) < MaxAttempts + N
      BY <1>1 DEF LoginInv, Guesses
    <3>. QED  BY <3>2, <3>3 DEF N
  <2>2. code \in [Codes -> D!CodeRows]
    <3>1. ASSUME NEW c \in Codes PROVE code[c] \in D!CodeRows
      BY <1>1, <2>1, LoginSizes DEF LoginInv, LoginTypes, AnyCodeRows, D!CodeRows
    <3>. QED  BY <1>1, <3>1 DEF LoginInv, LoginTypes
  <2>. QED  BY <1>1, <2>2 DEF LoginInv, LoginTypes, D!TypeOK
<1>. QED  BY <1>1, LoginInvHolds, PTL

\* Nobody is signed in by a code from before another sign-in, however
\* verifications overlap; except for one that had read it by then.
LEMMA LoginsAreOfTheRound == ASSUME D!LoginAssumption PROVE D!Spec => []D!OneSignInPerRound
<1>1. LoginInv => D!OneSignInPerRound
  BY DEF LoginInv, Rounds, D!OneSignInPerRound
<1>. QED  BY <1>1, LoginInvHolds, PTL

\* Guesses that are answered, and codes that are read out, exceed what is allowed
\* by no more than the requests that overlap, whatever their number.
LEMMA LoginCodesCounted == ASSUME D!LoginAssumption PROVE D!Spec => []D!CodesCounted
<1>1. ASSUME LoginInv PROVE D!CodesCounted
  <2>1. ASSUME NEW c \in Codes PROVE judged[c] < MaxAttempts + N
    <3>1. Guessing(c) \in SUBSET Workers
      BY DEF Guessing
    <3>2. /\ Cardinality(Guessing(c)) \in Nat /\ N \in Nat /\ MaxAttempts \in Nat
          /\ code[c].attempts \in Nat
      BY <1>1, <3>1, CountWorkers DEF LoginInv, LoginTypes, AnyCodeRows, D!LoginAssumption
    <3>. QED  BY <1>1, <3>2 DEF LoginInv, Guesses
  <2>2. ASSUME NEW m \in Managers PROVE minted[m] <= N * asks[m]
    <3>1. Minting(m) \in SUBSET Workers
      BY DEF Minting
    <3>2. /\ Cardinality(Minting(m)) \in Nat /\ N \in Nat
          /\ minted[m] \in Nat /\ asks[m] \in Nat
      BY <1>1, <3>1, CountWorkers DEF LoginInv, LoginTypes
    <3>3. N * asks[m] \in Nat
      BY <3>2
    <3>4. minted[m] + Cardinality(Minting(m)) <= N * asks[m]
      BY <1>1 DEF LoginInv, Mints
    <3>. QED  BY <3>2, <3>3, <3>4
  <2>. QED  BY <2>1, <2>2, LoginSizes DEF D!CodesCounted, D!GuessesBounded, D!MintedOnRequest, N
<1>. QED  BY <1>1, LoginInvHolds, PTL

-----------------------------------------------------------------------------
(* What is proved of each module holds in every scene.                     *)

\* An erased account is active only if requests about it overlapped, however
\* many requests and transfers there are.
THEOREM ErasedAccountsStayOut == Spec => []ErasedStaysOut
<1>1. AP!ErasedStaysOut => ErasedStaysOut
  BY DEF ErasedStaysOut, A!ErasedStaysOut, AP!ErasedStaysOut
<1>. QED  BY <1>1, ScenesOfAccounts, AccountsBounds, AP!ErasedAccountsStayOut, PTL

\* No step takes a company's last administrator who can act from it, unless
\* requests about its administrators overlapped, or another company's
\* administrator suspends them.
THEOREM AnAdminRemains == Spec => AdminRemains
<1>1. AP!AdminRemains => AdminRemains
  BY PTL DEF AdminRemains, A!vars, A!Idle, A!Administers, A!HasAdmin, A!SuspendedFromOutside,
         A!AdminRemains, AP!vars, AP!Idle, AP!Administers, AP!HasAdmin, AP!SuspendedFromOutside,
         AP!AdminRemains
<1>. QED  BY <1>1, ScenesOfAccounts, AccountsBounds, AP!AnAdminRemains, PTL

\* A driver's truck and manager are of the driver's company, unless requests
\* about the driver overlapped.
THEOREM SeatAndBossAreOfTheCompany == Spec => []CompanyGoesTogether
<1>1. AP!CompanyGoesTogether => CompanyGoesTogether
  BY DEF CompanyGoesTogether, A!CompanyGoesTogether, AP!CompanyGoesTogether
<1>. QED  BY <1>1, ScenesOfAccounts, AccountsBounds, AP!SeatAndBossAreOfTheCompany, PTL

\* Texts to a driver, and from a company, exceed the cap of a day by less than
\* the number of requests at once.
THEOREM CapsAreOverrunByLessThanTheWorkers == Spec => []CapsHold
<1>1. AP!CapsHold => CapsHold
  BY DEF CapsHold, A!Cardinality, A!NoTransfer, A!MadeToday, A!TodayFor, A!TodayBy, A!CapsHold,
         AP!Cardinality, AP!NoTransfer, AP!MadeToday, AP!TodayFor, AP!TodayBy, AP!CapsHold
<1>. QED  BY <1>1, ScenesOfAccounts, AccountsBounds, AP!CapsAreOverrunByLessThanTheWorkers, PTL

\* Drivers change company only by a request that still stands, unless requests
\* about the driver overlapped.
THEOREM DriversMoveOnConsent == Spec => MovesOnConsent
<1>1. AP!MovesOnConsent => MovesOnConsent
  BY PTL DEF MovesOnConsent, A!vars, A!Exists, A!MovesOnConsent, AP!vars, AP!Exists,
         AP!MovesOnConsent
<1>. QED  BY <1>1, ScenesOfAccounts, AccountsBounds, AP!DriversMoveOnConsent, PTL

\* A token that was there when its session ended is never honoured later; what a
\* rotation under way makes after that is a token of its own.
THEOREM EndedSessionsStayEnded == Spec => []EndedStaysEnded
<1>1. SP!EndedStaysEnded => EndedStaysEnded
  BY DEF EndedStaysEnded, S!Honoured, S!EndedStaysEnded, SP!Honoured, SP!EndedStaysEnded
<1>. QED  BY <1>1, ScenesOfSignIn, SessionBounds, SP!EndedSessionsStayEnded, PTL

\* A company's link makes one team lead; another link is used at most once by
\* each of the requests at once.
THEOREM LinksAreUsedOnce == Spec => []LinksAreSingleUse
<1>1. SP!LinksAreSingleUse => LinksAreSingleUse
  BY DEF LinksAreSingleUse, S!Cardinality, S!LinksAreSingleUse, SP!Cardinality, SP!LinksAreSingleUse
<1>. QED  BY <1>1, ScenesOfSignIn, SessionBounds, SP!LinksAreUsedOnce, PTL

\* Nothing but the end of a session, of its user or of its time, or a rotation
\* that took longer than the grace, makes a token lose its honour.
THEOREM SessionsLastTheirTime == Spec => SessionsLast
<1>1. SP!SessionsLast => SessionsLast
  BY PTL DEF SessionsLast, S!vars, S!Honoured, S!SessionsLast, SP!vars, SP!Honoured, SP!SessionsLast
<1>. QED  BY <1>1, ScenesOfSignIn, SessionBounds, SP!SessionsLastTheirTime, PTL

\* Guesses that are answered, and codes read out to managers, exceed what is
\* allowed by no more than the requests that overlap.
THEOREM CodesAreCounted == Spec => []CodesCounted
<1>1. D!CodesCounted => CodesCounted
  BY DEF CodesCounted
<1>. QED  BY <1>1, ScenesOfDriverLogin, LoginConstants, LoginCodesCounted, PTL

\* Nobody is signed in by a code from before another sign-in, except for a
\* verification that had read it by then.
THEOREM SignsInOnce == Spec => []OneSignInPerRound
<1>1. D!OneSignInPerRound => OneSignInPerRound
  BY DEF OneSignInPerRound
<1>. QED  BY <1>1, ScenesOfDriverLogin, LoginConstants, LoginsAreOfTheRound, PTL

\* In every scene the five modules keep their types.
THEOREM TypeCorrect == Spec => []TypeOK
<1>1. AP!TypeOK => A!TypeOK
  BY DEF A!TypeOK, AP!TypeOK, A!UserRows, AP!UserRows, A!NoTransfer, AP!NoTransfer,
         A!TransferRows, AP!TransferRows, A!Steps, AP!Steps, A!Tasks, AP!Tasks
<1>2. SP!TypeOK => S!TypeOK
  BY DEF S!TypeOK, SP!TypeOK, S!Times, SP!Times, S!TokenRows, SP!TokenRows, S!LinkRows,
         SP!LinkRows, S!Tasks, SP!Tasks
<1>3. RoomsInv => L!TypeOK
  BY DEF RoomsInv
<1>4. Spec => []A!TypeOK
  BY <1>1, ScenesOfAccounts, AccountsBounds, AP!TypeCorrect, PTL
<1>5. Spec => []S!TypeOK
  BY <1>2, ScenesOfSignIn, SessionBounds, SP!TypeCorrect, PTL
<1>6. Spec => []D!TypeOK
  BY ScenesOfDriverLogin, LoginConstants, LoginTypesHold, PTL
<1>7. Spec => []L!TypeOK
  BY <1>3, ScenesOfRooms, RoomConstants, RoomsInvHolds, PTL
<1>8. MP!TypeOK => M!TypeOK
  BY DEF M!TypeOK, MP!TypeOK, M!TripRows, MP!TripRows, M!NoTrip, MP!NoTrip, M!MessageRows,
         MP!MessageRows, M!NoMessage, MP!NoMessage, M!Users, MP!Users, M!Calls, MP!Calls
<1>9. Spec => []M!TypeOK
  BY <1>8, ScenesOfMessages, MessageBounds, MP!TypeCorrect, PTL
<1>. QED  BY <1>4, <1>5, <1>6, <1>7, <1>9, PTL DEF TypeOK

\* Whoever loses the right to a room is put out of it, or about to be, and a
\* member's socket sits in the group's room from its handshake on, unless a
\* join, a handshake or another change of the right was under way.
THEOREM RightsGovernRooms == Spec => []RoomsMatchRights
<1>1. RoomsInv => RoomsMatchRights
  BY DEF RoomsInv, RoomsMatchRights
<1>. QED  BY <1>1, ScenesOfRooms, RoomConstants, RoomsInvHolds, PTL

\* The list a client is sent and the news it hears afterwards add up to who has
\* a socket, unless a list overtook the news or a socket closed before its own
\* handshake announced it.
THEOREM ListsAndNewsAddUp == Spec => []PresenceSettles
<1>1. RoomsInv => PresenceSettles
  BY SettledIsSettled DEF PresenceSettles
<1>. QED  BY <1>1, ScenesOfRooms, RoomConstants, RoomsInvHolds, PTL

\* No message quotes one of another conversation, however often the trip changed
\* hands between the check of a request and its insert.
THEOREM QuotesAreInside == Spec => []QuotesStayInside
<1>1. MP!QuotesStayInside => QuotesStayInside
  BY DEF QuotesStayInside, M!QuotesStayInside, MP!QuotesStayInside
<1>. QED  BY <1>1, ScenesOfMessages, MessageBounds, MP!QuotesAreInside, PTL

\* A message is ticked only by a participant of its own conversation who did not
\* write it, however often the trip changed hands while markTripRead ran.
THEOREM RecipientsTick == Spec => TickedByRecipient
<1>1. MP!TickedByRecipient => TickedByRecipient
  BY PTL DEF TickedByRecipient, M!vars, M!Participants, M!TickedByRecipient, MP!vars,
         MP!Participants, MP!TickedByRecipient
<1>. QED  BY <1>1, ScenesOfMessages, MessageBounds, MP!RecipientsTick, PTL

=============================================================================
