---------------------------- MODULE TripMessages ----------------------------
(***************************************************************************)
(* Posting into a trip's chat and ticking what was read.                   *)
(*                                                                         *)
(* The chat sessions are those of PairChat, the specification that         *)
(* ChatSessions is shown to implement: a session belongs to one pair for   *)
(* good and the next one takes over in one step.  The trip's row changes   *)
(* before its chat is handed over, and a client's request runs statement   *)
(* by statement in between, keeping what it has read in call[c].           *)
(*                                                                         *)
(* Editing and deleting a message, its documents, and the socket rooms     *)
(* that carry it live are not part of this module.                         *)
(***************************************************************************)
CONSTANTS
    Trips, Drivers, Managers, Sessions,
    Messages,       \* the Message ids the instance may allocate
    Clients,        \* requests that post or mark read
    None            \* NULL

\* What the proofs need of the constants; the instance assumes it.
MessagesAssumption ==
    None \notin Trips \cup Drivers \cup Managers \cup Sessions \cup Messages

VARIABLES
    going, pair,    \* the chat sessions, as in PairChat
    row,            \* row[t]: the Trip row
    gone,           \* drivers who moved to another company
    message,        \* the Message rows
    call            \* call[c]: what request c has read

vars == <<going, pair, row, gone, message, call>>

Chat == INSTANCE PairChat

Users == Drivers \cup Managers

\* open: one of ACTIVE_STATUSES; deleted: deletedAt is set.
NoTrip == [driver |-> None, manager |-> None, state |-> "none"]

TripRows == {NoTrip} \cup [driver : Drivers, manager : Managers,
                          state : {"open", "closed", "deleted"}]

\* notice: a line of the system or a manager's broadcast.
NoMessage == [session |-> None, sender |-> None, kind |-> "none",
              replyTo |-> None, isRead |-> FALSE]

NewMessage(s, u, kind, q) ==
    [session |-> s, sender |-> u, kind |-> kind, replyTo |-> q, isRead |-> FALSE]

MessageRows == {NoMessage} \cup
    [session : Sessions, sender : Users, kind : {"chat", "notice"},
     replyTo : Messages \cup {None}, isRead : BOOLEAN]

Live(t) == row[t].state \in {"open", "closed"}

FreeMessages == {x \in Messages : message[x] = NoMessage}

Participants(s) == {pair[s][2], pair[s][3]}

\* The sessions of t that u drove or managed, ended ones included.
SessionsOf(t, u) ==
    {s \in Sessions : pair[s] # None /\ pair[s][1] = t /\ u \in Participants(s)}

\* What findFirst on the active sessions returns.
ActiveReads(t) == IF going[t] = {} THEN {None} ELSE going[t]

Quiet == [pc |-> "idle", trip |-> None, user |-> None, kind |-> "none",
          replyTo |-> None, act |-> None, ids |-> {}]

Calls == [pc : {"idle", "findSession", "insert", "markRead"},
          trip : Trips \cup {None}, user : Users \cup {None},
          kind : {"none", "chat", "notice"},
          replyTo : Messages \cup {None}, act : Sessions \cup {None},
          ids : SUBSET Sessions]

TypeOK ==
    /\ going \in [Trips -> SUBSET Sessions]
    /\ pair \in [Sessions -> {None} \cup (Trips \X Drivers \X Managers)]
    /\ row \in [Trips -> TripRows]
    /\ gone \subseteq Drivers
    /\ message \in [Messages -> MessageRows]
    /\ call \in [Clients -> Calls]

Init ==
    /\ Chat!Init
    /\ row = [t \in Trips |-> NoTrip]
    /\ gone = {}
    /\ message = [x \in Messages |-> NoMessage]
    /\ call = [c \in Clients |-> Quiet]

-----------------------------------------------------------------------------
(* The trip and its chat change under the clients.                         *)

Create(t, d, m) ==
    /\ row[t] = NoTrip
    /\ d \notin gone
    /\ row' = [row EXCEPT ![t] = [driver |-> d, manager |-> m, state |-> "open"]]
    /\ UNCHANGED <<going, pair, gone, message, call>>

\* The creation has run to its end.
HasChat(t) == \E s \in Sessions : pair[s] # None /\ pair[s][1] = t

\* assignDriver, assignManager, TrucksService.update and moveTripToTruck, which
\* also reopens the trip: the row first.
Reassign(t, d, m, state) ==
    /\ Live(t) /\ HasChat(t)
    /\ <<d, m>> # <<row[t].driver, row[t].manager>>
    /\ d # row[t].driver => d \notin gone
    /\ state \in {row[t].state, "open"}
    /\ row' = [row EXCEPT ![t] = [driver |-> d, manager |-> m, state |-> state]]
    /\ UNCHANGED <<going, pair, gone, message, call>>

\* openInitial for the first session of the trip; closeAndOpenNew otherwise,
\* which also writes the announcement into the new session, unread.  The pair
\* may stay: moveTripToTruck hands over even to a truck of the same driver.
TakeOver(t, s) ==
    /\ row[t] # NoTrip
    /\ Chat!BeginChat(t, s)
    /\ pair'[s] = <<t, row[t].driver, row[t].manager>>
    /\ IF HasChat(t)
       THEN \E x \in FreeMessages, by \in Managers :
              message' = [message EXCEPT ![x] = NewMessage(s, by, "notice", None)]
       ELSE UNCHANGED message
    /\ UNCHANGED <<row, gone, call>>

\* assignTruck with COMPLETE_OTHER delivers the trip, then closes its chat.
CloseChat(t) ==
    /\ row[t].state \in {"closed", "deleted"}
    /\ Chat!EndChat(t)
    /\ UNCHANGED <<row, gone, message, call>>

SetState(t, state) ==
    /\ Live(t)
    /\ state # row[t].state
    /\ row' = [row EXCEPT ![t].state = state]
    /\ UNCHANGED <<going, pair, gone, message, call>>

\* DriverTransfersService.accept as the chat sees it.
DriverLeaves(d) ==
    /\ d \notin gone
    /\ gone' = gone \cup {d}
    /\ UNCHANGED <<going, pair, row, message, call>>

-----------------------------------------------------------------------------
(* Posting.                                                                *)

Receive(c, request) ==
    /\ call[c].pc = "idle"
    /\ call' = [call EXCEPT ![c] = request]

Answer(c) == call' = [call EXCEPT ![c] = Quiet]

\* MessagesService.create: only the trip's current driver, if still of the
\* company, or its current manager may write.
MayWrite(t, u) ==
    /\ Live(t)
    /\ u \in {row[t].driver, row[t].manager}
    /\ u = row[t].driver => u \notin gone

PostCheck(c, t, u, q) ==
    /\ MayWrite(t, u)
    /\ Receive(c, [Quiet EXCEPT !.pc = "findSession", !.trip = t, !.user = u,
                                !.kind = "chat", !.replyTo = q])
    /\ UNCHANGED <<going, pair, row, gone, message>>

\* broadcastToMyTrucks and announceTruckManager pick an open trip by its
\* truck, whoever leads the trip.
PostToOpenTrip(c, t, u) ==
    /\ row[t].state = "open"
    /\ Receive(c, [Quiet EXCEPT !.pc = "findSession", !.trip = t, !.user = u,
                                !.kind = "notice"])
    /\ UNCHANGED <<going, pair, row, gone, message>>

\* Mutant: the active session is not checked for null.
PostSessionUnchecked(c) ==
    LET k == call[c] IN
    /\ k.pc = "findSession"
    /\ \E s \in ActiveReads(k.trip) :
         call' = [call EXCEPT ![c].pc = "insert", ![c].act = s]
    /\ UNCHANGED <<going, pair, row, gone, message>>

\* getActiveSessionOrThrow, and getActiveSession with its early return.
PostSession(c) ==
    LET k == call[c] IN
    /\ k.pc = "findSession"
    /\ \E s \in ActiveReads(k.trip) :
         IF s = None
         THEN Answer(c)
         ELSE call' = [call EXCEPT ![c].pc = "insert", ![c].act = s]
    /\ UNCHANGED <<going, pair, row, gone, message>>

\* Mutant: a quote may come from any session of the trip.
QuoteInTrip(q, s) == q = None \/ pair[message[q].session][1] = pair[s][1]

\* assertReplyTargets: a quoted message must sit in the session just read.
QuoteInScope(q, s) == q = None \/ message[q].session = s

PostInsert(c) ==
    LET k == call[c] IN
    /\ k.pc = "insert"
    /\ IF QuoteInScope(k.replyTo, k.act)
       THEN \E x \in FreeMessages :
              message' = [message EXCEPT ![x] =
                            NewMessage(k.act, k.user, k.kind, k.replyTo)]
       ELSE UNCHANGED message
    /\ Answer(c)
    /\ UNCHANGED <<going, pair, row, gone>>

-----------------------------------------------------------------------------
(* MessagesService.markTripRead: the sessions the reader takes part in,    *)
(* then one UPDATE of the unread messages in them.                         *)

\* Mutant: the current session, whoever reads it.
ReadSessionsOfViewer(c, t, u) ==
    /\ going[t] # {}
    /\ Receive(c, [Quiet EXCEPT !.pc = "markRead", !.trip = t, !.user = u,
                                !.ids = going[t]])
    /\ UNCHANGED <<going, pair, row, gone, message>>

ReadSessions(c, t, u) ==
    /\ SessionsOf(t, u) # {}
    /\ Receive(c, [Quiet EXCEPT !.pc = "markRead", !.trip = t, !.user = u,
                                !.ids = SessionsOf(t, u)])
    /\ UNCHANGED <<going, pair, row, gone, message>>

MarkRead(c) ==
    LET k == call[c]
        Ticked(x) == /\ message[x].session \in k.ids
                     /\ message[x].sender # k.user
    IN
    /\ k.pc = "markRead"
    /\ message' = [x \in Messages |->
                     IF Ticked(x) THEN [message[x] EXCEPT !.isRead = TRUE]
                                  ELSE message[x]]
    /\ Answer(c)
    /\ UNCHANGED <<going, pair, row, gone>>

-----------------------------------------------------------------------------
ClientStep(c) ==
    \/ \E t \in Trips, u \in Users, q \in {None} \cup (Messages \ FreeMessages) :
         PostCheck(c, t, u, q)
    \/ \E t \in Trips, m \in Managers : PostToOpenTrip(c, t, m)
    \/ PostSession(c) \/ PostInsert(c)
    \/ \E t \in Trips, u \in Users : ReadSessions(c, t, u)
    \/ MarkRead(c)

TripStep(t) ==
    \/ \E d \in Drivers, m \in Managers : Create(t, d, m)
    \/ \E d \in Drivers, m \in Managers, state \in {"open", "closed"} :
         Reassign(t, d, m, state)
    \/ \E s \in Sessions : TakeOver(t, s)
    \/ CloseChat(t)
    \/ \E state \in {"open", "closed", "deleted"} : SetState(t, state)

Next ==
    \/ \E c \in Clients : ClientStep(c)
    \/ \E t \in Trips : TripStep(t)
    \/ \E d \in Drivers : DriverLeaves(d)

Spec == Init /\ [][Next]_vars

-----------------------------------------------------------------------------
(* Properties.                                                             *)

\* A quoted message is of the same conversation as the message that quotes it,
\* even when the chat changed hands between the request and the insert: a
\* quote would show the new pair a line of the old one's private history.
QuotesStayInside ==
    \A x \in Messages : message[x].replyTo # None =>
        message[message[x].replyTo].session = message[x].session

\* A message is ticked only by a participant of its own conversation who did
\* not write it.  Somebody who merely views the chat never ticks it, and a
\* reader who was replaced while their request ran ticks only what was said in
\* their own time.
TickedByRecipient ==
    [][\A x \in Messages : ~message[x].isRead /\ message'[x].isRead =>
         \E c \in Clients :
            /\ call[c].pc = "markRead"
            /\ call[c].user \in Participants(message[x].session)
            /\ call[c].user # message[x].sender]_vars

\* Nobody who was replaced writes into the conversation of their successor:
\* "Otherwise an old participant could still post into the active session
\* they're no longer part of", MessagesService.create.
ReplacedStaysOut ==
    \A x \in Messages, r \in Sessions :
        LET s == message[x].session
            u == message[x].sender
        IN  /\ message[x].kind = "chat"
            /\ pair[r] # None /\ pair[r][1] = pair[s][1]
            /\ u \in Participants(r)
            => u \in Participants(s)

=============================================================================
