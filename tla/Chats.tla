-------------------------------- MODULE Chats --------------------------------
(***************************************************************************)
(* Messages between two users and in a group of managers: posting, editing *)
(* and deleting them, marking them read and counting the unread ones       *)
(* (DirectMessagesService, GroupMessagesService), and who belongs to the   *)
(* group (GroupsService).  Of a trip's messages (MessagesService) it has   *)
(* editing and deleting; the rest is in TripMessages.  Every await parts a *)
(* request in two.                                                         *)
(*                                                                         *)
(* Left out: reactions (one row under a unique key), attachments (Files),  *)
(* quotes (TripMessages has their rule), pushes (Pushes), the block on the *)
(* messages of a deactivated company, and the age beyond which an edit is  *)
(* refused.                                                                *)
(*                                                                         *)
(* A definition marked Mutant is a faulty form of the one that follows it. *)
(***************************************************************************)
EXTENDS Naturals, Sequences, FiniteSets

CONSTANTS
    Users,          \* managers and teamleads of one company
    Creator,        \* who made the group
    Leads,          \* teamleads among the users
    Requests,       \* requests that may be under way at once
    MaxRows,        \* bound on the messages of both kinds
    MaxSeats        \* bound on the memberships ever made

Nobody == "nobody"

ChatsAssumption ==
    /\ Creator \in Users /\ Nobody \notin Users
    /\ IsFiniteSet(Requests)
    /\ MaxRows \in Nat /\ MaxSeats \in Nat \ {0}

VARIABLES
    rows,           \* the messages, in the order they were written
    reads,          \* GroupMessageRead: who has read which row of the group
    seats,          \* GroupManager: the memberships ever made, Nobody once deleted
    groupGone,      \* whether the group is softly deleted
    hidden,         \* hidden[u, p]: rows so far when u hid the chat with p
    request,        \* request[r]: how far it has got and what it holds
    opened,         \* which rows a user has been shown by opening the chat
    caught,         \* rows deleted while an edit of them was under way
    broken          \* users about whom or of whom a request has died halfway

vars == <<rows, reads, seats, groupGone, hidden, request, opened, caught, broken>>

NoRequest == [pc |-> "idle", by |-> Creator, who |-> Creator, row |-> 0, seen |-> {}]

Row(kind, from, to) == [kind |-> kind, from |-> from, to |-> to,
                        deleted |-> FALSE, blank |-> FALSE, read |-> FALSE]

AnyRow == [kind : {"direct", "group", "trip", "added", "removed"}, from : Users, to : Users,
           deleted : BOOLEAN, blank : BOOLEAN, read : BOOLEAN]

AnyRequest ==
    [pc : {"idle", "post", "edit", "delete", "mark", "add", "welcome", "remove", "notice"},
     by : Users, who : Users, row : 0..(MaxRows + MaxSeats), seen : SUBSET (1..MaxRows)]

TypeOK ==
    /\ rows \in Seq(AnyRow) /\ Len(rows) <= MaxRows
    /\ reads \subseteq Users \X (1..MaxRows)
    /\ seats \in Seq(Users \cup {Nobody}) /\ Len(seats) <= MaxSeats
    /\ groupGone \in BOOLEAN
    /\ hidden \in [Users \X Users -> 0..MaxRows]
    /\ request \in [Requests -> AnyRequest]
    /\ opened \subseteq Users \X (1..MaxRows)
    /\ caught \subseteq 1..MaxRows
    /\ broken \subseteq Users

\* GroupsService.create seats the creator.
Init ==
    /\ rows = <<>>
    /\ reads = {}
    /\ seats = <<Creator>>
    /\ groupGone = FALSE
    /\ hidden = [pair \in Users \X Users |-> 0]
    /\ request = [r \in Requests |-> NoRequest]
    /\ opened = {}
    /\ caught = {}
    /\ broken = {}

SeatsOf(u) == {s \in DOMAIN seats : seats[s] = u}

\* canAccessGroup, and the group is not deleted.
MayEnter(u) == ~groupGone /\ (u \in Leads \/ u = Creator \/ SeatsOf(u) # {})

GroupRows == {m \in DOMAIN rows : rows[m].kind \in {"group", "added", "removed"}}

Begin(r, state) ==
    /\ request[r].pc = "idle"
    /\ request' = [request EXCEPT ![r] = state]

Goes(r, pc) == request' = [request EXCEPT ![r] = IF pc = "idle" THEN NoRequest
                                                 ELSE [@ EXCEPT !.pc = pc]]

Write(row) ==
    /\ Len(rows) < MaxRows
    /\ rows' = Append(rows, row)

-----------------------------------------------------------------------------
(* Messages.                                                               *)

\* handleMessage, DirectMessagesService.createMessage.
PostDirect(u, p) ==
    /\ u # p
    /\ Write(Row("direct", u, p))
    /\ UNCHANGED <<reads, seats, groupGone, hidden, request, opened, caught, broken>>

\* handleGroupMessage asks who may post, and createMessage posts.
CheckPost(r, u) ==
    /\ MayEnter(u)
    /\ Begin(r, [NoRequest EXCEPT !.pc = "post", !.by = u])
    /\ UNCHANGED <<rows, reads, seats, groupGone, hidden, opened, caught, broken>>

PostGroup(r) ==
    /\ request[r].pc = "post"
    /\ Write(Row("group", request[r].by, request[r].by))
    /\ Goes(r, "idle")
    /\ UNCHANGED <<reads, seats, groupGone, hidden, opened, caught, broken>>

PostTrip(u) ==
    /\ Write(Row("trip", u, u))
    /\ UNCHANGED <<reads, seats, groupGone, hidden, request, opened, caught, broken>>

\* editMessage reads the row, and writes it by id.  In a group the notices sent
\* in the creator's name are the creator's to edit.
ReadForEdit(r, u, m) ==
    /\ m \in DOMAIN rows /\ rows[m].from = u /\ ~rows[m].deleted
    /\ Begin(r, [NoRequest EXCEPT !.pc = "edit", !.by = u, !.row = m])
    /\ UNCHANGED <<rows, reads, seats, groupGone, hidden, opened, caught, broken>>

WriteEdit(r) ==
    /\ request[r].pc = "edit"
    /\ rows' = [rows EXCEPT ![request[r].row].blank = FALSE]
    /\ Goes(r, "idle")
    /\ UNCHANGED <<reads, seats, groupGone, hidden, opened, caught, broken>>

\* softDelete and remove, in the same two steps; of a trip a manager may delete
\* any message.
ReadForDelete(r, u, m) ==
    /\ m \in DOMAIN rows /\ (rows[m].from = u \/ rows[m].kind = "trip")
    /\ Begin(r, [NoRequest EXCEPT !.pc = "delete", !.by = u, !.row = m])
    /\ UNCHANGED <<rows, reads, seats, groupGone, hidden, opened, caught, broken>>

WriteDelete(r) ==
    LET m == request[r].row IN
    /\ request[r].pc = "delete"
    /\ rows' = [rows EXCEPT ![m].deleted = TRUE, ![m].blank = TRUE]
    /\ caught' = IF \E q \in Requests : request[q].pc = "edit" /\ request[q].row = m
                 THEN caught \cup {m} ELSE caught
    /\ Goes(r, "idle")
    /\ UNCHANGED <<reads, seats, groupGone, hidden, opened, broken>>

-----------------------------------------------------------------------------
(* What has been read.                                                     *)

Between(u, p) == {m \in DOMAIN rows : rows[m].kind = "direct" /\ {rows[m].from, rows[m].to} = {u, p}}

\* DirectMessagesService.markAsRead: all of one sender in one update.
MarkDirect(u, p) ==
    LET unread == {m \in Between(u, p) : rows[m].to = u /\ ~rows[m].read} IN
    /\ unread # {}
    /\ rows' = [m \in DOMAIN rows |-> IF m \in unread THEN [rows[m] EXCEPT !.read = TRUE]
                                      ELSE rows[m]]
    /\ opened' = opened \cup {<<u, m>> : m \in unread}
    /\ UNCHANGED <<reads, seats, groupGone, hidden, request, caught, broken>>

\* GroupMessagesService.markAsRead finds what the user has not read,
FindUnread(r, u) ==
    LET unread == {m \in GroupRows : rows[m].from # u /\ <<u, m>> \notin reads} IN
    /\ MayEnter(u) /\ unread # {}
    /\ Begin(r, [NoRequest EXCEPT !.pc = "mark", !.by = u, !.seen = unread])
    /\ opened' = opened \cup {<<u, m>> : m \in unread}
    /\ UNCHANGED <<rows, reads, seats, groupGone, hidden, caught, broken>>

\* and inserts a row for each, but for those another device was faster to insert
\* (skipDuplicates).
CreateReads(r) ==
    /\ request[r].pc = "mark"
    /\ reads' = reads \cup {request[r].by} \X request[r].seen
    /\ Goes(r, "idle")
    /\ UNCHANGED <<rows, seats, groupGone, hidden, opened, caught, broken>>

\* hideConversation
HideConversation(u, p) ==
    /\ u # p /\ hidden[<<u, p>>] # Len(rows)
    /\ hidden' = [hidden EXCEPT ![<<u, p>>] = Len(rows)]
    /\ UNCHANGED <<rows, reads, seats, groupGone, request, opened, caught, broken>>

\* getConversations: chats whose latest message came after they were hidden count
\* all their unread messages.
UnreadDirect(u) ==
    {m \in DOMAIN rows :
        /\ rows[m].kind = "direct" /\ rows[m].to = u /\ ~rows[m].read
        /\ \E n \in Between(u, rows[m].from) : n > hidden[<<u, rows[m].from>>]}

\* getUnreadSummary: of the groups of u, whether deleted or not.
UnreadGroup(u) ==
    {m \in GroupRows : /\ u = Creator \/ SeatsOf(u) # {}
                       /\ rows[m].from # u /\ <<u, m>> \notin reads}

-----------------------------------------------------------------------------
(* Who belongs to the group.                                               *)

\* addManager looks for a membership, inserts one, and posts the welcome in the
\* name of the creator.  No index keeps a second membership out.
CheckAdd(r, u, x) ==
    /\ MayEnter(u) /\ SeatsOf(x) = {}
    /\ Begin(r, [NoRequest EXCEPT !.pc = "add", !.by = u, !.who = x])
    /\ UNCHANGED <<rows, reads, seats, groupGone, hidden, opened, caught, broken>>

AddSeat(r) ==
    /\ request[r].pc = "add" /\ Len(seats) < MaxSeats
    /\ seats' = Append(seats, request[r].who)
    /\ Goes(r, "welcome")
    /\ UNCHANGED <<rows, reads, groupGone, hidden, opened, caught, broken>>

Welcome(r) ==
    /\ request[r].pc = "welcome"
    /\ Write(Row("added", Creator, request[r].who))
    /\ Goes(r, "idle")
    /\ UNCHANGED <<reads, seats, groupGone, hidden, opened, caught, broken>>

\* removeManager reads one membership, deletes it by id, and posts the notice.
CheckRemove(r, u, s) ==
    /\ MayEnter(u) /\ s \in DOMAIN seats /\ seats[s] # Nobody
    /\ Begin(r, [NoRequest EXCEPT !.pc = "remove", !.by = u, !.who = seats[s], !.row = s])
    /\ UNCHANGED <<rows, reads, seats, groupGone, hidden, opened, caught, broken>>

\* Mutant: deleted by the ids of group and user (deleteMany), a count of none
\* being as good as one.
DropAnySeat(r) ==
    /\ request[r].pc = "remove"
    /\ seats' = [s \in DOMAIN seats |-> IF seats[s] = request[r].who THEN Nobody ELSE seats[s]]
    /\ Goes(r, "notice")
    /\ UNCHANGED <<rows, reads, groupGone, hidden, opened, caught, broken>>

\* Deleting what is gone throws.
DropSeat(r) ==
    LET s == request[r].row IN
    /\ request[r].pc = "remove"
    /\ seats' = [seats EXCEPT ![s] = Nobody]
    /\ Goes(r, IF seats[s] = Nobody THEN "idle" ELSE "notice")
    /\ UNCHANGED <<rows, reads, groupGone, hidden, opened, caught, broken>>

Notice(r) ==
    /\ request[r].pc = "notice"
    /\ Write(Row("removed", Creator, request[r].who))
    /\ Goes(r, "idle")
    /\ UNCHANGED <<reads, seats, groupGone, hidden, opened, caught, broken>>

\* GroupsService.remove, by the creator alone.
RemoveGroup ==
    /\ ~groupGone
    /\ groupGone' = TRUE
    /\ UNCHANGED <<rows, reads, seats, hidden, request, opened, caught, broken>>

\* The process restarts, or the database fails, between two statements.
Die(r) ==
    /\ request[r].pc # "idle"
    /\ broken' = broken \cup {request[r].by, request[r].who}
    /\ Goes(r, "idle")
    /\ UNCHANGED <<rows, reads, seats, groupGone, hidden, opened, caught>>

Talk(r, u) ==
    \/ CheckPost(r, u)
    \/ FindUnread(r, u)
    \/ \E m \in DOMAIN rows : ReadForEdit(r, u, m) \/ ReadForDelete(r, u, m)
    \/ \E x \in Users : CheckAdd(r, u, x)
    \/ \E s \in DOMAIN seats : CheckRemove(r, u, s)

Step(r) ==
    \/ PostGroup(r)
    \/ WriteEdit(r)
    \/ WriteDelete(r)
    \/ CreateReads(r)
    \/ AddSeat(r)
    \/ Welcome(r)
    \/ DropSeat(r)
    \/ Notice(r)
    \/ Die(r)

Next ==
    \/ \E u, p \in Users : PostDirect(u, p) \/ MarkDirect(u, p) \/ HideConversation(u, p)
    \/ \E u \in Users : PostTrip(u)
    \/ \E r \in Requests, u \in Users : Talk(r, u)
    \/ \E r \in Requests : Step(r)
    \/ RemoveGroup

Spec == Init /\ [][Next]_vars

-----------------------------------------------------------------------------

\* What was deleted says nothing any more, unless an edit was under way.
DeletedStaysBlank ==
    \A m \in DOMAIN rows : rows[m].deleted => rows[m].blank \/ m \in caught

Marking(u, m) == \E r \in Requests : /\ request[r].pc = "mark" /\ request[r].by = u
                                     /\ m \in request[r].seen

\* What a user has opened no longer counts for them, on however many devices
\* they opened it; what they have not opened does count, where they belong.
BellsTellTruth == \A u \in Users \ broken, m \in DOMAIN rows :
    LET forU == IF rows[m].kind = "direct" THEN rows[m].to = u
                                           ELSE m \in GroupRows /\ rows[m].from # u
        unread == m \in UnreadDirect(u) \cup UnreadGroup(u)
    IN
    /\ <<u, m>> \in opened /\ ~Marking(u, m) => ~unread
    /\ forU /\ <<u, m>> \notin opened =>
          \/ unread
          \/ rows[m].kind = "direct" /\ hidden[<<u, rows[m].from>>] >= m
          \/ rows[m].kind # "direct" /\ u # Creator /\ SeatsOf(u) = {}

Notices(kind, u) == {m \in DOMAIN rows : rows[m].kind = kind /\ rows[m].to = u}

BeingSeated(u) == \E r \in Requests : /\ request[r].pc \in {"welcome", "notice"}
                                      /\ request[r].who = u

\* The notices in the group tell who belongs to it: each membership made has one
\* welcome, each deleted one notice.
NoticesMatchSeats == \A u \in Users \ broken :
    ~BeingSeated(u) =>
        Cardinality(SeatsOf(u)) + Cardinality(Notices("removed", u))
            = Cardinality(Notices("added", u)) + (IF u = Creator THEN 1 ELSE 0)

\* What addManager says of itself: adding is idempotent, as a unique constraint
\* keeps a second membership out.  There is none (schema.prisma, GroupManager),
\* so that two clicks whose look-ups overlap seat a manager twice.
OneSeatEach == \A u \in Users : Cardinality(SeatsOf(u)) <= 1

\* Messages, bells and memberships, over all interleavings of overlapping
\* requests.
ChatsHold == DeletedStaysBlank /\ BellsTellTruth /\ NoticesMatchSeats

=============================================================================
