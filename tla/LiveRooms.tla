------------------------------ MODULE LiveRooms ------------------------------
(***************************************************************************)
(* The sockets of one company, the rooms they sit in and who they show as  *)
(* online (MessagesGateway, DirectMessagesGateway): the personal room and  *)
(* the company's, entered together; the room of one trip; the room of one  *)
(* MANAGERS group.                                                         *)
(*                                                                         *)
(* The server reaches the sockets of a room at once, so leaving a room, a  *)
(* disconnection and an emit are steps; what lies between two steps of a   *)
(* handler is a query.  A right is taken away by another handler, which    *)
(* writes the row first and then puts the sockets out.                     *)
(*                                                                         *)
(* Left out: away marks, the admins' rooms, typing, the messages           *)
(* themselves, and the bystanders of a group (join_group of a TEAMLEAD).   *)
(*                                                                         *)
(* A definition marked Mutant is a faulty form of the one that follows it. *)
(***************************************************************************)
EXTENDS Naturals, FiniteSets

CONSTANTS
    Users, Drivers, \* the others are MANAGERs
    Sockets, Workers,
    None            \* NULL

\* What the proofs need of the constants; the instance assumes it.
LiveRoomsAssumption ==
    /\ Drivers \subseteq Users
    /\ Users \cap Sockets = {}
    /\ None \notin Users \cup Sockets

VARIABLES
    active,         \* users of this company whose row is active
    driver,         \* the trip's driver, or None
    members,        \* GroupManager rows of the group
    socket,         \* socket[s]: its user, its rooms and its handshakes
    late,           \* <<u, s, how far>>: the handshake of u's socket s, closed, goes on
    shown,          \* shown[s]: users that the client of s shows as online
    task,           \* task[w]: what worker w has read and has still to do
    caught,         \* sockets whose right to a room changed under a request
    blurred         \* users and sockets whose presence was told out of order

vars == <<active, driver, members, socket, late, shown, task, caught, blurred>>

Rooms == {"company", "trip", "group"}

Closed == [user |-> None, rooms |-> {}, chat |-> "off", direct |-> "off",
           online |-> {}, alone |-> FALSE, member |-> FALSE]

\* chat, direct: how far handleConnection of either gateway has got; online and
\* alone: what the first has fetched; member: a member of the group ever since
\* the second has read it.
SocketRows == [user : Users \cup {None}, rooms : SUBSET Rooms,
               chat : {"off", "auth", "fetched", "done"},
               direct : {"off", "auth", "join", "done"},
               online : SUBSET Users, alone : BOOLEAN, member : BOOLEAN]

Idle == [pc |-> "idle", user |-> None, next |-> None, socket |-> None, online |-> {}]

Tasks == [pc : {"idle", "disconnect", "assign", "leaveTrip", "leaveGroup",
                "joinTrip", "joinGroup", "quitGroup", "snapshot"},
          user : Users \cup {None}, next : Drivers \cup {None},
          socket : Sockets \cup {None}, online : SUBSET Users]

TypeOK ==
    /\ active \subseteq Users
    /\ driver \in Drivers
    /\ members \subseteq Users \ Drivers
    /\ socket \in [Sockets -> SocketRows]
    /\ late \subseteq Users \X Sockets \X {"auth", "fetched"}
    /\ shown \in [Sockets -> SUBSET Users]
    /\ task \in [Workers -> Tasks]
    /\ caught \subseteq Sockets
    /\ blurred \subseteq Users \cup Sockets

Init ==
    /\ active = Users
    /\ driver \in Drivers
    /\ members \in SUBSET (Users \ Drivers)
    /\ socket = [s \in Sockets |-> Closed]
    /\ late = {}
    /\ shown = [s \in Sockets |-> {}]
    /\ task = [w \in Workers |-> Idle]
    /\ caught = {}
    /\ blurred = {}

Of(u) == {s \in Sockets : socket[s].user = u}

In(room) == {s \in Sockets : room \in socket[s].rooms}

\* fetchSockets of the company room.
Online == {socket[s].user : s \in In("company")}

\* What entitles u to a room; a manager may watch every trip of the company.
Right(u) == [company |-> u \in active,
             trip |-> u \in Drivers => driver = u,
             group |-> u \in members]

Start(w, j) == task[w] = Idle /\ task' = [task EXCEPT ![w] = j]

Return(w) == task' = [task EXCEPT ![w] = Idle]

Enters(s, room) == caught' = IF Right(socket[s].user)[room] THEN caught ELSE caught \cup {s}

Leaves(S, room) == [s \in Sockets |-> IF s \in S
                                      THEN [socket[s] EXCEPT !.rooms = @ \ {room}]
                                      ELSE socket[s]]

\* Clients about to be sent a list that says otherwise of u.
Overtaken(u, online) ==
    {s \in Sockets : socket[s].chat = "fetched" /\ (u \in socket[s].online) # online}
    \cup {task[w].socket : w \in {v \in Workers : /\ task[v].pc = "snapshot"
                                                  /\ (u \in task[v].online) # online}}

\* userPresenceChanged to the sockets of S, which show what before says; those
\* of closed are no more.
Announce(u, online, S, before, closed) ==
    /\ shown' = [s \in Sockets |-> IF s \notin S THEN before[s]
                                   ELSE IF online THEN before[s] \cup {u}
                                   ELSE before[s] \ {u}]
    /\ blurred' = ((blurred \ {u}) \cup Overtaken(u, online)) \ closed

-----------------------------------------------------------------------------
(* The handshake: one lookup for both gateways (authenticateSocket).       *)

\* A socket of an inactive user gets no further.  No two sockets have one id.
Connect(s, u) ==
    /\ socket[s] = Closed /\ \A news \in late : news[2] # s
    /\ u \in active
    /\ socket' = [socket EXCEPT ![s] = [Closed EXCEPT !.user = u, !.chat = "auth",
                                                      !.direct = "auth"]]
    /\ UNCHANGED <<active, driver, members, late, shown, task, caught, blurred>>

\* MessagesGateway.handleConnection up to the query for who is away.
Enter(s) ==
    LET u == socket[s].user IN
    /\ socket[s].chat = "auth"
    /\ socket' = [socket EXCEPT ![s].chat = "fetched", ![s].rooms = @ \cup {"company"},
                                ![s].online = Online \cup {u},
                                ![s].alone = u \notin Online]
    /\ Enters(s, "company")
    /\ UNCHANGED <<active, driver, members, late, shown, task, blurred>>

\* presenceSnapshot, and the news of a user's first socket.
Snapshot(s) ==
    LET u == socket[s].user
        listed == [shown EXCEPT ![s] = socket[s].online]
    IN
    /\ socket[s].chat = "fetched"
    /\ socket' = [socket EXCEPT ![s].chat = "done", ![s].online = {}, ![s].alone = FALSE]
    /\ IF socket[s].alone THEN Announce(u, TRUE, In("company"), listed, {})
                          ELSE shown' = listed /\ UNCHANGED blurred
    /\ UNCHANGED <<active, driver, members, late, task, caught>>

\* Mutant: every socket is taken for its user's last one.
LastOfAll(u, S) == S \cap In("company") # {}

\* None of u is left in the company room when the sockets S have closed.
LastOf(u, S) == S \cap In("company") # {} /\ Of(u) \cap In("company") \subseteq S

\* A handshake that goes on without its socket, and may have news to send.
GoesOn(s) == \/ socket[s].chat = "auth"
             \/ socket[s].chat = "fetched" /\ socket[s].alone

\* handleDisconnect of the sockets S of u.  It does nothing of one that is still
\* being looked up.
Close(u, S) ==
    /\ socket' = [s \in Sockets |-> IF s \in S THEN Closed ELSE socket[s]]
    /\ late' = late \cup {<<u, s, socket[s].chat>> : s \in {r \in S : GoesOn(r)}}
    /\ LET left == [s \in Sockets |-> IF s \in S THEN {} ELSE shown[s]] IN
       IF LastOf(u, S) THEN Announce(u, FALSE, In("company") \ S, left, S)
                       ELSE shown' = left /\ blurred' = blurred \ S
    /\ caught' = caught \ S

\* The client goes; what was asked on its socket is answered to nobody.
Disconnect(s) ==
    /\ socket[s] # Closed
    /\ Close(socket[s].user, {s})
    /\ task' = [w \in Workers |-> IF task[w].socket = s THEN Idle ELSE task[w]]
    /\ UNCHANGED <<active, driver, members>>

\* Such a handshake past its lookup: it joins nothing any more, but fetches.
LateEnter(u, s) ==
    /\ <<u, s, "auth">> \in late
    /\ late' = (late \ {<<u, s, "auth">>})
                 \cup (IF u \in Online THEN {} ELSE {<<u, s, "fetched">>})
    /\ UNCHANGED <<active, driver, members, socket, shown, task, caught, blurred>>

\* The rest of it: its user is announced, there or not.
LateNews(u, s) ==
    /\ <<u, s, "fetched">> \in late
    /\ late' = late \ {<<u, s, "fetched">>}
    /\ shown' = [r \in Sockets |-> shown[r] \cup IF r \in In("company") THEN {u} ELSE {}]
    /\ blurred' = blurred \cup Overtaken(u, TRUE) \cup ({u} \ Online)
    /\ UNCHANGED <<active, driver, members, socket, task, caught>>

RequestPresence(w, s) ==
    /\ socket[s].chat = "done"
    /\ Start(w, [Idle EXCEPT !.pc = "snapshot", !.socket = s, !.online = Online])
    /\ UNCHANGED <<active, driver, members, socket, late, shown, caught, blurred>>

SendPresence(w) ==
    /\ task[w].pc = "snapshot"
    /\ shown' = [shown EXCEPT ![task[w].socket] = task[w].online]
    /\ Return(w)
    /\ UNCHANGED <<active, driver, members, socket, late, caught, blurred>>

\* DirectMessagesGateway.handleConnection: the groups of the user, then a join.
ReadGroups(s) ==
    LET found == socket[s].user \in members IN
    /\ socket[s].direct = "auth"
    /\ socket' = [socket EXCEPT ![s].direct = IF found THEN "join" ELSE "done",
                                ![s].member = found]
    /\ UNCHANGED <<active, driver, members, late, shown, task, caught, blurred>>

JoinGroups(s) ==
    /\ socket[s].direct = "join"
    /\ socket' = [socket EXCEPT ![s].direct = "done", ![s].rooms = @ \cup {"group"}]
    /\ Enters(s, "group")
    /\ UNCHANGED <<active, driver, members, late, shown, task, blurred>>

-----------------------------------------------------------------------------
(* Rooms on request.                                                       *)

\* joinTrip and join_group: the right is read, then the room entered.  A handler
\* waits for the lookup, and so comes after Enter.
AskRoom(w, s, room) ==
    /\ room \in {"trip", "group"}
    /\ s \in In("company") /\ Right(socket[s].user)[room]
    /\ Start(w, [Idle EXCEPT !.pc = IF room = "trip" THEN "joinTrip" ELSE "joinGroup",
                             !.socket = s])
    /\ UNCHANGED <<active, driver, members, socket, late, shown, caught, blurred>>

EnterRoom(w) ==
    LET s == task[w].socket
        room == IF task[w].pc = "joinTrip" THEN "trip" ELSE "group"
    IN
    /\ task[w].pc \in {"joinTrip", "joinGroup"}
    /\ socket' = [socket EXCEPT ![s].rooms = @ \cup {room}]
    /\ Enters(s, room)
    /\ Return(w)
    /\ UNCHANGED <<active, driver, members, late, shown, blurred>>

\* leave_group: a member stays in; ...
AskLeave(w, s) ==
    /\ s \in In("company") /\ socket[s].user \notin members
    /\ Start(w, [Idle EXCEPT !.pc = "quitGroup", !.socket = s])
    /\ UNCHANGED <<active, driver, members, socket, late, shown, caught, blurred>>

\* ... who was none when asked goes out, a member by now or not.
LeaveGroup(w) ==
    LET s == task[w].socket IN
    /\ task[w].pc = "quitGroup"
    /\ socket' = Leaves({s}, "group")
    /\ caught' = IF socket[s].member THEN caught \cup {s} ELSE caught
    /\ Return(w)
    /\ UNCHANGED <<active, driver, members, late, shown, blurred>>

-----------------------------------------------------------------------------
(* Rights that end.                                                        *)

\* deactivate, deleteOwnAccount, a driver's move, and a password reset, which
\* leaves the row as it is.
EndAccess(w, u, reset) ==
    /\ u \in active
    /\ active' = IF reset THEN active ELSE active \ {u}
    /\ Start(w, [Idle EXCEPT !.pc = "disconnect", !.user = u])
    /\ UNCHANGED <<driver, members, socket, late, shown, caught, blurred>>

Activate(u) ==
    /\ active' = active \cup {u}
    /\ u \notin active
    /\ UNCHANGED <<driver, members, socket, late, shown, task, caught, blurred>>

\* disconnectSockets: those in the user's room.
DisconnectSockets(w) ==
    LET u == task[w].user
        S == Of(u) \cap In("company")
    IN
    /\ task[w].pc = "disconnect"
    /\ Close(u, S)
    /\ task' = [v \in Workers |-> IF v = w \/ task[v].socket \in S THEN Idle ELSE task[v]]
    /\ UNCHANGED <<active, driver, members>>

\* assignDriver and moveTripToTruck read the trip, ...
Reassign(w, d) ==
    /\ d # driver
    /\ Start(w, [Idle EXCEPT !.pc = "assign", !.user = driver, !.next = d])
    /\ UNCHANGED <<active, driver, members, socket, late, shown, caught, blurred>>

\* ... write its driver, ...
WriteDriver(w) ==
    LET j == task[w] IN
    /\ j.pc = "assign"
    /\ driver' = j.next
    /\ task' = [task EXCEPT ![w].pc = "leaveTrip"]
    /\ caught' = IF driver \in {j.user, j.next} THEN caught
                 ELSE caught \cup Of(driver)          \* written over by another
    /\ UNCHANGED <<active, members, socket, late, shown, blurred>>

\* Mutant: the new driver's sockets are put out.
PutNextOut(w) ==
    LET S == Of(task[w].next) IN
    /\ task[w].pc = "leaveTrip"
    /\ socket' = Leaves(S, "trip")
    /\ Return(w)
    /\ UNCHANGED <<active, driver, members, late, shown, caught, blurred>>

\* ... and put the replaced driver's sockets out of the room.
PutDriverOut(w) ==
    LET S == Of(task[w].user) IN
    /\ task[w].pc = "leaveTrip"
    /\ socket' = Leaves(S, "trip")
    /\ Return(w)
    /\ UNCHANGED <<active, driver, members, late, shown, caught, blurred>>

AddMember(u) ==
    /\ u \notin Drivers \cup members
    /\ members' = members \cup {u}
    /\ UNCHANGED <<active, driver, socket, late, shown, task, caught, blurred>>

\* removeManager: the row, then the sockets.
RemoveMember(w, u) ==
    /\ u \in members
    /\ members' = members \ {u}
    /\ socket' = [s \in Sockets |-> IF s \in Of(u) THEN [socket[s] EXCEPT !.member = FALSE]
                                    ELSE socket[s]]
    /\ Start(w, [Idle EXCEPT !.pc = "leaveGroup", !.user = u])
    /\ UNCHANGED <<active, driver, late, shown, caught, blurred>>

\* A member again by now, and let in, goes out as well.
PutMemberOut(w) ==
    LET S == Of(task[w].user) IN
    /\ task[w].pc = "leaveGroup"
    /\ socket' = Leaves(S, "group")
    /\ caught' = caught \cup {s \in S : socket[s].member}
    /\ Return(w)
    /\ UNCHANGED <<active, driver, members, late, shown, blurred>>

\* closeAndOpenNew or the notice in the group fails: the sockets stay.
Fail(w) ==
    /\ task[w].pc \in {"leaveTrip", "leaveGroup"}
    /\ caught' = caught \cup Of(task[w].user)
    /\ Return(w)
    /\ UNCHANGED <<active, driver, members, socket, late, shown, blurred>>

Request(w) ==
    /\ task[w] = Idle
    /\ \/ \E s \in Sockets : RequestPresence(w, s)
       \/ \E s \in Sockets, room \in {"trip", "group"} : AskRoom(w, s, room)
       \/ \E s \in Sockets : AskLeave(w, s)
       \/ \E u \in Users, reset \in BOOLEAN : EndAccess(w, u, reset)
       \/ \E d \in Drivers : Reassign(w, d)
       \/ \E u \in Users : RemoveMember(w, u)

Statement(w) ==
    \/ SendPresence(w)
    \/ EnterRoom(w)
    \/ LeaveGroup(w)
    \/ DisconnectSockets(w)
    \/ WriteDriver(w)
    \/ PutDriverOut(w)
    \/ PutMemberOut(w)
    \/ Fail(w)

Handshake(s) ==
    \/ \E u \in Users : Connect(s, u)
    \/ Enter(s)
    \/ Snapshot(s)
    \/ ReadGroups(s)
    \/ JoinGroups(s)

Next ==
    \/ \E w \in Workers : Request(w) \/ Statement(w)
    \/ \E s \in Sockets : Handshake(s) \/ Disconnect(s)
    \/ \E u \in Users, s \in Sockets : LateEnter(u, s) \/ LateNews(u, s)
    \/ \E u \in Users : Activate(u) \/ AddMember(u)

Spec == Init /\ [][Next]_vars

-----------------------------------------------------------------------------

\* Someone is about to put the sockets of u out of a room.
Leaving(u) == [company |-> \E w \in Workers : task[w].pc = "disconnect" /\ task[w].user = u,
               trip |-> \E w \in Workers : task[w].pc = "leaveTrip" /\ task[w].user = u,
               group |-> \E w \in Workers : task[w].pc = "leaveGroup" /\ task[w].user = u]

\* Whoever loses the right to a room (suspended, replaced on the trip, taken out
\* of the group) is put out of it, unless a join, a handshake or another
\* reassignment was under way (messages.gateway l.256, trips.service l.495).
RoomsFollowRights == \A s \in Sockets \ caught : \A room \in socket[s].rooms :
    Right(socket[s].user)[room] \/ Leaving(socket[s].user)[room]

\* A member's socket sits in the group's room from its handshake on, whatever
\* chats it opens and closes (leave_group), unless it asked to leave before the
\* user was a member and is put out after (direct-messages.gateway l.257).
MembersHear == \A s \in Sockets \ caught :
    socket[s].member /\ socket[s].direct = "done" => s \in In("group")

\* The sockets in a room are those with a right to it, and those that hear of the
\* group wherever its member is.
RoomsMatchRights == RoomsFollowRights /\ MembersHear

\* Its news is still to be sent.
Unannounced(u) ==
    \/ \E s \in Of(u) : socket[s].chat = "fetched" /\ socket[s].alone
    \/ \E s \in Sockets : <<u, s, "fetched">> \in late

\* Once connected, a client shows as online those who have a socket: the list it
\* is sent and the news between add up, unless a list overtakes the news or a
\* socket closes before its own handshake has announced it.
PresenceSettles ==
    \A s \in In("company") \ blurred, u \in Users \ blurred :
        socket[s].chat = "done" /\ ~Unannounced(u) => (u \in shown[s] <=> u \in Online)

=============================================================================
