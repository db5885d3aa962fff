------------------------ MODULE TripMessages_proofs ------------------------
(***************************************************************************)
(* Proofs about TripMessages, for every set of trips, users, sessions,     *)
(* messages and requests.                                                  *)
(***************************************************************************)
EXTENDS TripMessages, TLAPS

-----------------------------------------------------------------------------
(* The invariant.  TypeOK is not inductive: a message that is inserted has *)
(* the session and the sender that the request has kept.  Nor does it say  *)
(* whose the sessions are that a reader is about to tick.                  *)

\* What a request has read by the statement it is at.
Ready(k) ==
    /\ k.pc = "findSession" => k.trip \in Trips
    /\ k.pc = "insert" => k.act \in Sessions
    /\ k.pc \in {"findSession", "insert"} => k.user \in Users /\ k.kind # "none"

\* The sessions that k ticks are the reader's own, by then and for good.
OwnSessions(k) == k.pc = "markRead" =>
    \A s \in k.ids : pair[s] # None /\ k.user \in Participants(s)

Requests == \A c \in Clients : Ready(call[c]) /\ OwnSessions(call[c])

Inv == TypeOK /\ Requests /\ QuotesStayInside

-----------------------------------------------------------------------------
(* Requests and messages.                                                  *)

LEMMA QuietCall ==
    /\ Quiet \in Calls /\ Ready(Quiet) /\ OwnSessions(Quiet)
  BY DEF Quiet, Calls, Ready, OwnSessions

\* One request moves on, while the sessions that have begun keep their pairs.
LEMMA OneRequestMoves ==
    ASSUME TypeOK, Requests, NEW c \in Clients, NEW k \in Calls,
           call' = [call EXCEPT ![c] = k], Ready(k), OwnSessions(k), UNCHANGED pair
    PROVE  call' \in [Clients -> Calls] /\ Requests'
<1>1. call'[c] = k /\ \A b \in Clients \ {c} : call'[b] = call[b]
  BY DEF TypeOK
<1>2. \A b \in Clients : Ready(call'[b]) /\ OwnSessions(call'[b])
  BY <1>1 DEF Requests
<1>3. \A b \in Clients : OwnSessions(call'[b]) => OwnSessions(call[b])'
  BY DEF OwnSessions, Participants
<1>4. \A b \in Clients : Ready(call'[b]) => Ready(call[b])'
  BY DEF Ready
<1>. QED  BY <1>2, <1>3, <1>4 DEF TypeOK, Requests

\* The requests stay as they are while a session begins.
LEMMA RequestsStay ==
    ASSUME Requests, UNCHANGED call,
           \A s \in Sessions : pair[s] # None => pair'[s] = pair[s],
           TypeOK
    PROVE  Requests'
<1>1. ASSUME NEW c \in Clients PROVE Ready(call[c])' /\ OwnSessions(call[c])'
  <2>1. Ready(call[c])'
    BY DEF Requests, Ready
  <2>2. call[c].ids \subseteq Sessions
    BY DEF TypeOK, Calls
  <2>3. OwnSessions(call[c])'
    BY <2>2 DEF Requests, OwnSessions, Participants
  <2>. QED  BY <2>1, <2>3
<1>. QED  BY <1>1 DEF Requests

\* A message is a row of its own session, or there is none.
LEMMA MessageRow ==
    ASSUME MessagesAssumption, TypeOK, NEW x \in Messages
    PROVE  /\ message[x] # NoMessage => message[x].session \in Sessions
           /\ message[x].session \in Sessions => message[x] # NoMessage
           /\ NoMessage.replyTo = None /\ NoMessage.session = None /\ ~NoMessage.isRead
           /\ message[x].replyTo \in Messages \cup {None}
  BY DEF MessagesAssumption, TypeOK, MessageRows, NoMessage

\* A quoted message is there.
LEMMA QuotedIsThere ==
    ASSUME MessagesAssumption, TypeOK, QuotesStayInside, NEW x \in Messages,
           message[x].replyTo # None
    PROVE  message[x].replyTo \in Messages \ FreeMessages
<1>1. message[x].replyTo \in Messages /\ message[x].session \in Sessions
  BY MessageRow
<1>2. message[message[x].replyTo].session \in Sessions
  BY <1>1 DEF QuotesStayInside
<1>. QED  BY <1>1, <1>2, MessageRow DEF FreeMessages

\* Inserting a message that quotes nothing, or one of its own session.
LEMMA InsertKeeps ==
    ASSUME MessagesAssumption, TypeOK, QuotesStayInside, NEW x \in FreeMessages,
           NEW s \in Sessions, NEW u \in Users, NEW kind \in {"chat", "notice"},
           NEW q \in Messages \cup {None}, QuoteInScope(q, s),
           message' = [message EXCEPT ![x] = NewMessage(s, u, kind, q)]
    PROVE  message' \in [Messages -> MessageRows] /\ QuotesStayInside'
<1> DEFINE new == NewMessage(s, u, kind, q)
<1>1. /\ x \in Messages /\ message[x] = NoMessage
      /\ new \in MessageRows /\ new.session = s /\ new.replyTo = q
  BY DEF FreeMessages, NewMessage, MessageRows
<1>2. message'[x] = new /\ \A y \in Messages \ {x} : message'[y] = message[y]
  BY <1>1 DEF TypeOK
<1>3. message' \in [Messages -> MessageRows]
  BY <1>1 DEF TypeOK
<1> HIDE DEF new
<1>4. ASSUME NEW y \in Messages, message'[y].replyTo # None
      PROVE  message'[message'[y].replyTo].session = message'[y].session
  <2>1. CASE y = x
    <3>1. q \in Messages /\ message[q].session = s
      BY <1>1, <1>2, <1>4, <2>1 DEF QuoteInScope
    <3>2. q # x
      BY <1>1, <3>1, MessageRow
    <3>. QED  BY <1>1, <1>2, <2>1, <3>1, <3>2
  <2>2. CASE y # x
    <3>1. message'[y] = message[y]
      BY <1>2, <2>2
    <3>2. message[y].replyTo \in Messages \ FreeMessages
      BY <1>4, <3>1, QuotedIsThere
    <3>3. message'[message[y].replyTo] = message[message[y].replyTo]
      BY <1>2, <3>2
    <3>. QED  BY <1>4, <3>1, <3>3 DEF QuotesStayInside
  <2>. QED  BY <2>1, <2>2
<1>. QED  BY <1>3, <1>4 DEF QuotesStayInside

-----------------------------------------------------------------------------
(* The steps of a request.                                                 *)

LEMMA RequestStep ==
    ASSUME Inv, NEW c \in Clients, NEW t \in Trips, NEW u \in Users,
           \/ \E q \in {None} \cup (Messages \ FreeMessages) : PostCheck(c, t, u, q)
           \/ u \in Managers /\ PostToOpenTrip(c, t, u)
           \/ ReadSessions(c, t, u)
    PROVE  Inv'
<1>1. PICK k \in Calls : /\ call' = [call EXCEPT ![c] = k]
                         /\ Ready(k) /\ OwnSessions(k)
                         /\ UNCHANGED <<going, pair, row, gone, message>>
  <2>1. ASSUME NEW q \in {None} \cup (Messages \ FreeMessages), PostCheck(c, t, u, q)
        PROVE  \E k \in Calls : /\ call' = [call EXCEPT ![c] = k]
                                /\ Ready(k) /\ OwnSessions(k)
                                /\ UNCHANGED <<going, pair, row, gone, message>>
    <3> DEFINE k == [Quiet EXCEPT !.pc = "findSession", !.trip = t, !.user = u,
                                  !.kind = "chat", !.replyTo = q]
    <3>1. k \in Calls /\ Ready(k) /\ OwnSessions(k)
      BY DEF Quiet, Calls, Ready, OwnSessions
    <3>2. /\ call' = [call EXCEPT ![c] = k]
          /\ UNCHANGED <<going, pair, row, gone, message>>
      BY <2>1 DEF PostCheck, Receive
    <3>. QED  BY <3>1, <3>2
  <2>2. ASSUME PostToOpenTrip(c, t, u)
        PROVE  \E k \in Calls : /\ call' = [call EXCEPT ![c] = k]
                                /\ Ready(k) /\ OwnSessions(k)
                                /\ UNCHANGED <<going, pair, row, gone, message>>
    <3> DEFINE k == [Quiet EXCEPT !.pc = "findSession", !.trip = t, !.user = u,
                                  !.kind = "notice"]
    <3>1. k \in Calls /\ Ready(k) /\ OwnSessions(k)
      BY DEF Quiet, Calls, Ready, OwnSessions
    <3>2. /\ call' = [call EXCEPT ![c] = k]
          /\ UNCHANGED <<going, pair, row, gone, message>>
      BY <2>2 DEF PostToOpenTrip, Receive
    <3>. QED  BY <3>1, <3>2
  <2>3. ASSUME ReadSessions(c, t, u)
        PROVE  \E k \in Calls : /\ call' = [call EXCEPT ![c] = k]
                                /\ Ready(k) /\ OwnSessions(k)
                                /\ UNCHANGED <<going, pair, row, gone, message>>
    <3> DEFINE k == [Quiet EXCEPT !.pc = "markRead", !.trip = t, !.user = u,
                                  !.ids = SessionsOf(t, u)]
    <3>1. k \in Calls /\ Ready(k) /\ k.user = u /\ k.ids = SessionsOf(t, u)
      BY DEF Quiet, Calls, Ready, SessionsOf
    <3>2. OwnSessions(k)
      BY <3>1 DEF OwnSessions, SessionsOf
    <3>3. /\ call' = [call EXCEPT ![c] = k]
          /\ UNCHANGED <<going, pair, row, gone, message>>
      BY <2>3 DEF ReadSessions, Receive
    <3>. QED  BY <3>1, <3>2, <3>3
  <2>. QED  BY <2>1, <2>2, <2>3
<1>2. call' \in [Clients -> Calls] /\ Requests'
  BY <1>1, OneRequestMoves DEF Inv
<1>. QED  BY <1>1, <1>2 DEF Inv, TypeOK, QuotesStayInside

LEMMA PostSessionStep ==
    ASSUME Inv, NEW c \in Clients, PostSession(c)
    PROVE  Inv'
<1>1. PICK k \in Calls : call[c] = k
  BY DEF Inv, TypeOK
<1>2. /\ k.pc = "findSession" /\ k.trip \in Trips /\ k.user \in Users /\ k.kind # "none"
      /\ UNCHANGED <<going, pair, row, gone, message>>
  BY <1>1 DEF PostSession, Inv, Requests, Ready
<1>3. PICK s \in ActiveReads(k.trip) :
        IF s = None THEN Answer(c)
        ELSE call' = [call EXCEPT ![c].pc = "insert", ![c].act = s]
  BY <1>1 DEF PostSession
<1>4. CASE s = None
  <2>1. call' = [call EXCEPT ![c] = Quiet]
    BY <1>3, <1>4 DEF Answer
  <2>2. call' \in [Clients -> Calls] /\ Requests'
    BY <1>2, <2>1, QuietCall, OneRequestMoves DEF Inv
  <2>. QED  BY <1>2, <2>2 DEF Inv, TypeOK, QuotesStayInside
<1>5. CASE s # None
  <2>1. s \in Sessions
    BY <1>2, <1>5 DEF ActiveReads, Inv, TypeOK
  <2> DEFINE j == [k EXCEPT !.pc = "insert", !.act = s]
  <2>2. call' = [call EXCEPT ![c] = j]
    BY <1>1, <1>3, <1>5 DEF Inv, TypeOK, Calls
  <2>3. j \in Calls /\ Ready(j) /\ OwnSessions(j)
    BY <1>2, <2>1 DEF Calls, Ready, OwnSessions
  <2> HIDE DEF j
  <2>4. call' \in [Clients -> Calls] /\ Requests'
    BY <1>2, <2>2, <2>3, OneRequestMoves DEF Inv
  <2>. QED  BY <1>2, <2>4 DEF Inv, TypeOK, QuotesStayInside
<1>. QED  BY <1>4, <1>5

LEMMA PostInsertStep ==
    ASSUME MessagesAssumption, Inv, NEW c \in Clients, PostInsert(c)
    PROVE  Inv'
<1>1. PICK k \in Calls : call[c] = k
  BY DEF Inv, TypeOK
<1>2. /\ k.pc = "insert" /\ k.act \in Sessions /\ k.user \in Users
      /\ k.kind \in {"chat", "notice"} /\ k.replyTo \in Messages \cup {None}
      /\ UNCHANGED <<going, pair, row, gone>>
  BY <1>1 DEF PostInsert, Inv, Requests, Ready, Calls
<1>3. call' \in [Clients -> Calls] /\ Requests'
  <2>1. call' = [call EXCEPT ![c] = Quiet]
    BY DEF PostInsert, Answer
  <2>. QED  BY <1>2, <2>1, QuietCall, OneRequestMoves DEF Inv
<1>4. message' \in [Messages -> MessageRows] /\ QuotesStayInside'
  <2>1. CASE QuoteInScope(k.replyTo, k.act)
    <3>1. PICK x \in FreeMessages :
            message' = [message EXCEPT ![x] = NewMessage(k.act, k.user, k.kind, k.replyTo)]
      BY <1>1, <2>1 DEF PostInsert
    <3>. QED  BY <1>2, <2>1, <3>1, InsertKeeps DEF Inv
  <2>2. CASE ~QuoteInScope(k.replyTo, k.act)
    <3>1. UNCHANGED message
      BY <1>1, <2>2 DEF PostInsert
    <3>. QED  BY <3>1 DEF Inv, TypeOK, QuotesStayInside
  <2>. QED  BY <2>1, <2>2
<1>. QED  BY <1>2, <1>3, <1>4 DEF Inv, TypeOK

\* The rows of the messages but for their ticks, and who may have ticked them.
LEMMA Ticks ==
    ASSUME MessagesAssumption, Inv, NEW c \in Clients, MarkRead(c), NEW x \in Messages
    PROVE  /\ message'[x] \in MessageRows
           /\ message'[x].session = message[x].session
           /\ message'[x].replyTo = message[x].replyTo
           /\ message'[x] # message[x] =>
                message[x].session \in call[c].ids /\ message[x].sender # call[c].user
<1>1. message[x] \in MessageRows
  BY DEF Inv, TypeOK
<1>2. CASE message'[x] = message[x]
  BY <1>1, <1>2
<1>3. CASE message'[x] # message[x]
  <2>1. /\ message'[x] = [message[x] EXCEPT !.isRead = TRUE]
        /\ message[x].session \in call[c].ids /\ message[x].sender # call[c].user
    BY <1>3 DEF MarkRead
  <2>2. message[x].session \in Sessions
    BY <2>1 DEF Inv, TypeOK, Calls
  <2>3. message[x] # NoMessage
    BY <2>2, MessageRow DEF Inv
  <2>. QED  BY <1>1, <2>1, <2>3 DEF MessageRows
<1>. QED  BY <1>2, <1>3

LEMMA MarkReadStep ==
    ASSUME MessagesAssumption, Inv, NEW c \in Clients, MarkRead(c)
    PROVE  Inv'
<1>1. UNCHANGED <<going, pair, row, gone>> /\ call' = [call EXCEPT ![c] = Quiet]
  BY DEF MarkRead, Answer
<1>2. call' \in [Clients -> Calls] /\ Requests'
  BY <1>1, QuietCall, OneRequestMoves DEF Inv
<1>3. message' \in [Messages -> MessageRows]
  BY Ticks DEF MarkRead
<1>4. QuotesStayInside'
  <2>. SUFFICES ASSUME NEW x \in Messages, message'[x].replyTo # None
                PROVE  message'[message'[x].replyTo].session = message'[x].session
    BY DEF QuotesStayInside
  <2>1. message[x].replyTo = message'[x].replyTo /\ message[x].session = message'[x].session
    BY Ticks
  <2>2. message[x].replyTo \in Messages
    BY <2>1, QuotedIsThere DEF Inv
  <2>. QED  BY <2>1, <2>2, Ticks DEF Inv, QuotesStayInside
<1>. QED  BY <1>1, <1>2, <1>3, <1>4 DEF Inv, TypeOK

-----------------------------------------------------------------------------
(* The steps of the trip.                                                  *)

\* Sessions change only by beginning.
LEMMA TakeOverStep ==
    ASSUME MessagesAssumption, Inv, NEW t \in Trips, NEW s \in Sessions, TakeOver(t, s)
    PROVE  Inv'
<1>1. /\ UNCHANGED <<row, gone, call>>
      /\ pair[s] = None /\ going' = [going EXCEPT ![t] = {s}]
  BY DEF TakeOver, Chat!BeginChat
<1>2. PICK d \in Drivers, m \in Managers : pair' = [pair EXCEPT ![s] = <<t, d, m>>]
  BY DEF TakeOver, Chat!BeginChat
<1>3. /\ going' \in [Trips -> SUBSET Sessions]
      /\ pair' \in [Sessions -> {None} \cup (Trips \X Drivers \X Managers)]
  BY <1>1, <1>2 DEF Inv, TypeOK
<1>4. Requests'
  <2>1. \A r \in Sessions : pair[r] # None => pair'[r] = pair[r]
    BY <1>1, <1>2 DEF Inv, TypeOK
  <2>. QED  BY <1>1, <2>1, RequestsStay DEF Inv
<1>5. message' \in [Messages -> MessageRows] /\ QuotesStayInside'
  <2>1. CASE HasChat(t)
    <3>1. PICK x \in FreeMessages, by \in Managers :
            message' = [message EXCEPT ![x] = NewMessage(s, by, "notice", None)]
      BY <2>1 DEF TakeOver
    <3>2. by \in Users /\ QuoteInScope(None, s)
      BY DEF Users, QuoteInScope
    <3>. QED  BY <3>1, <3>2, InsertKeeps DEF Inv
  <2>2. CASE ~HasChat(t)
    <3>1. UNCHANGED message
      BY <2>2 DEF TakeOver
    <3>. QED  BY <3>1 DEF Inv, TypeOK, QuotesStayInside
  <2>. QED  BY <2>1, <2>2
<1>. QED  BY <1>1, <1>3, <1>4, <1>5 DEF Inv, TypeOK

LEMMA TripRowStep ==
    ASSUME Inv, NEW t \in Trips,
           \/ \E d \in Drivers, m \in Managers : Create(t, d, m)
           \/ \E d \in Drivers, m \in Managers, state \in {"open", "closed"} :
                Reassign(t, d, m, state)
           \/ CloseChat(t)
           \/ \E state \in {"open", "closed", "deleted"} : SetState(t, state)
    PROVE  Inv'
<1>1. UNCHANGED <<pair, gone, message, call>>
  BY DEF Create, Reassign, CloseChat, SetState, Chat!EndChat
<1>2. going' \in [Trips -> SUBSET Sessions]
  BY DEF Create, Reassign, CloseChat, SetState, Chat!EndChat, Inv, TypeOK
<1>3. row' \in [Trips -> TripRows]
  <2>1. ASSUME NEW state \in {"open", "closed", "deleted"}, SetState(t, state)
        PROVE  row' \in [Trips -> TripRows]
    <3>1. row[t] \in [driver : Drivers, manager : Managers, state : {"open", "closed", "deleted"}]
      BY <2>1 DEF SetState, Live, NoTrip, TripRows, Inv, TypeOK
    <3>2. [row[t] EXCEPT !.state = state] \in TripRows
      BY <3>1 DEF TripRows
    <3>3. row' = [row EXCEPT ![t] = [row[t] EXCEPT !.state = state]]
      BY <2>1, <3>1 DEF SetState, Inv, TypeOK
    <3>. QED  BY <3>2, <3>3 DEF Inv, TypeOK
  <2>2. ASSUME NEW d \in Drivers, NEW m \in Managers, NEW state \in {"open", "closed"},
               Create(t, d, m) \/ Reassign(t, d, m, state)
        PROVE  row' \in [Trips -> TripRows]
    BY <2>2 DEF Create, Reassign, Inv, TypeOK, TripRows
  <2>3. CloseChat(t) => UNCHANGED row
    BY DEF CloseChat
  <2>. QED  BY <2>1, <2>2, <2>3 DEF Inv, TypeOK
<1>4. Requests'
  BY <1>1, RequestsStay DEF Inv
<1>. QED  BY <1>1, <1>2, <1>3, <1>4 DEF Inv, TypeOK, QuotesStayInside

LEMMA DriverLeavesStep ==
    ASSUME Inv, NEW d \in Drivers, DriverLeaves(d)
    PROVE  Inv'
<1>1. UNCHANGED <<going, pair, row, message, call>> /\ gone' \subseteq Drivers
  BY DEF DriverLeaves, Inv, TypeOK
<1>2. Requests'
  BY <1>1, RequestsStay DEF Inv
<1>. QED  BY <1>1, <1>2 DEF Inv, TypeOK, QuotesStayInside

-----------------------------------------------------------------------------
(* The invariant holds.                                                    *)

LEMMA InitInv ==
    ASSUME Init
    PROVE  Inv
<1>1. TypeOK
  BY QuietCall DEF Init, Chat!Init, TypeOK, TripRows, MessageRows
<1>2. Requests
  BY QuietCall DEF Init, Requests
<1>3. QuotesStayInside
  BY DEF Init, QuotesStayInside, NoMessage
<1>. QED  BY <1>1, <1>2, <1>3 DEF Inv

LEMMA NextInv ==
    ASSUME MessagesAssumption, Inv, [Next]_vars
    PROVE  Inv'
<1>1. ASSUME NEW c \in Clients, ClientStep(c) PROVE Inv'
  <2>1. Managers \subseteq Users
    BY DEF Users
  <2>. QED  BY <1>1, <2>1, RequestStep, PostSessionStep, PostInsertStep, MarkReadStep
            DEF ClientStep
<1>2. ASSUME NEW t \in Trips, TripStep(t) PROVE Inv'
  BY <1>2, TakeOverStep, TripRowStep DEF TripStep
<1>3. CASE UNCHANGED vars
  <2>1. UNCHANGED <<going, pair, row, gone, message, call>>
    BY <1>3 DEF vars
  <2>2. Requests'
    BY <2>1, RequestsStay DEF Inv
  <2>. QED  BY <2>1, <2>2 DEF Inv, TypeOK, QuotesStayInside
<1>. QED  BY <1>1, <1>2, <1>3, DriverLeavesStep DEF Next

LEMMA InvHolds ==
    ASSUME MessagesAssumption
    PROVE  Spec => []Inv
<1>1. Init => Inv
  BY InitInv
<1>2. Inv /\ [Next]_vars => Inv'
  BY NextInv
<1>. QED  BY <1>1, <1>2, PTL DEF Spec

-----------------------------------------------------------------------------
(* What follows from it.                                                   *)

\* Trips, sessions, messages and requests are well formed; in particular every
\* message has a session and a sender, whatever became of the trip between the
\* statements of the request that posts it.
THEOREM TypeCorrect ==
    ASSUME MessagesAssumption
    PROVE  Spec => []TypeOK
  BY InvHolds, PTL DEF Inv

\* No message quotes one of another conversation, for any number of hand-overs
\* between the check of a request and its insert (MessagesService.create).
THEOREM QuotesAreInside ==
    ASSUME MessagesAssumption
    PROVE  Spec => []QuotesStayInside
  BY InvHolds, PTL DEF Inv

LEMMA OnlyReadersTick ==
    ASSUME MessagesAssumption, Inv, Next, NEW x \in Messages, ~message[x].isRead,
           message'[x].isRead
    PROVE  \E c \in Clients : /\ call[c].pc = "markRead"
                              /\ call[c].user \in Participants(message[x].session)
                              /\ call[c].user # message[x].sender
<1>1. message'[x] # message[x]
  OBVIOUS
<1>2. ASSUME NEW y \in FreeMessages, NEW s, NEW u, NEW kind, NEW q,
             message' = [message EXCEPT ![y] = NewMessage(s, u, kind, q)]
      PROVE  FALSE
  <2>1. y = x
    BY <1>1, <1>2 DEF Inv, TypeOK
  <2>. QED  BY <1>2, <2>1 DEF Inv, TypeOK, NewMessage
<1>3. PICK c \in Clients : MarkRead(c)
  <2>1. ASSUME NEW c \in Clients,
               \/ \E t \in Trips, u \in Users : ReadSessions(c, t, u)
               \/ \E t \in Trips, u \in Users, q \in {None} \cup (Messages \ FreeMessages) :
                    PostCheck(c, t, u, q)
               \/ \E t \in Trips, m \in Managers : PostToOpenTrip(c, t, m)
               \/ PostSession(c)
        PROVE  FALSE
    BY <1>1, <2>1 DEF ReadSessions, PostCheck, PostToOpenTrip, PostSession
  <2>2. ASSUME NEW c \in Clients, PostInsert(c) PROVE FALSE
    BY <1>1, <1>2, <2>2 DEF PostInsert
  <2>3. ASSUME NEW t \in Trips, TripStep(t) PROVE FALSE
    <3>1. ASSUME NEW s \in Sessions, TakeOver(t, s) PROVE FALSE
      BY <1>1, <1>2, <3>1 DEF TakeOver
    <3>. QED  BY <1>1, <2>3, <3>1 DEF TripStep, Create, Reassign, CloseChat, SetState
  <2>4. ASSUME NEW d \in Drivers, DriverLeaves(d) PROVE FALSE
    BY <1>1, <2>4 DEF DriverLeaves
  <2>. QED  BY <2>1, <2>2, <2>3, <2>4 DEF Next, ClientStep
<1>4. message[x].session \in call[c].ids /\ message[x].sender # call[c].user
  BY <1>1, <1>3, Ticks
<1>5. call[c].pc = "markRead"
  BY <1>3 DEF MarkRead
<1>. QED  BY <1>4, <1>5 DEF Inv, Requests, OwnSessions

\* A message is ticked only by a participant of its own conversation who did not
\* write it, though the trip's pair may change between the two statements of
\* markTripRead any number of times.
THEOREM RecipientsTick ==
    ASSUME MessagesAssumption
    PROVE  Spec => TickedByRecipient
<1>1. Inv /\ [Next]_vars =>
        [\A x \in Messages : ~message[x].isRead /\ message'[x].isRead =>
           \E c \in Clients :
              /\ call[c].pc = "markRead"
              /\ call[c].user \in Participants(message[x].session)
              /\ call[c].user # message[x].sender]_vars
  BY OnlyReadersTick
<1>. QED  BY <1>1, InvHolds, PTL DEF Spec, TickedByRecipient

=============================================================================
