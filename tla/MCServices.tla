------------------------------ MODULE MCServices ------------------------------
(***************************************************************************)
(* Alarms, push tokens, attachments, pictures and chats, each checked in   *)
(* scenes as in MCAccounts: no two of these modules share a variable, and  *)
(* a scene lets one of them move, within the limits it names, while the    *)
(* others stay in their initial state.                                     *)
(***************************************************************************)
EXTENDS Naturals, FiniteSets, TLC

CONSTANTS
    AlarmIds, Runs, Day, MaxTime, MaxEvents,
    RungOnce,       \* alarms that are rung once and keep the time they began with
    PushUsers, Tokens, Malformed, Pushers, ChunkSize, None,
    Removable,      \* tokens whose app is taken off its phone
    Guests,         \* users who never have a malformed token
    FileIds, Slots, Readers,
    Losable,        \* files that are deleted from the bucket by hand
    Stickable,      \* files of which a deletion may fail
    Owners, Erasable, Changers, Paths, Week, Spare,
    ChatUsers, Creator, Leads, Requests, MaxRows, MaxSeats

VARIABLES now, alarm, alarmRun, heard, changed, events,
          tokenRow, signedIn, uninstalled, signingOut, push, unsettled,
          batch, upload, queue, stored, fileRow, reader, asked, lost, stuck,
          pic, bucket, fresh, change, signRun, todo, signed, missed, blurred, astray, failed,
          rows, reads, seats, groupGone, hidden, request, opened, caught, broken,
          scene

alarmVars == <<now, alarm, alarmRun, heard, changed, events>>
pushVars == <<tokenRow, signedIn, uninstalled, signingOut, push, unsettled>>
fileVars == <<batch, upload, queue, stored, fileRow, reader, asked, lost, stuck>>
pictureVars == <<pic, bucket, fresh, change, signRun, todo, signed, missed, blurred, astray,
                 failed>>
chatVars == <<rows, reads, seats, groupGone, hidden, request, opened, caught, broken>>
vars == <<alarmVars, pushVars, fileVars, pictureVars, chatVars, scene>>

A == INSTANCE Alarms WITH run <- alarmRun, caught <- changed

ASSUME AlarmConstants == A!AlarmsAssumption

P == INSTANCE Pushes WITH Users <- PushUsers, row <- tokenRow

ASSUME PushConstants == P!PushesAssumption

F == INSTANCE Files WITH row <- fileRow

ASSUME FileConstants == F!FilesAssumption

I == INSTANCE Pictures WITH run <- signRun

ASSUME PictureConstants == I!PicturesAssumption

C == INSTANCE Chats WITH Users <- ChatUsers

ASSUME ChatConstants == C!ChatsAssumption

-----------------------------------------------------------------------------
(* The scenes and their limits.                                            *)

\* The alarms that are rung once make a run hold two rows.
AlarmsMove ==
    /\ scene = "alarms"
    /\ A!Next
    /\ LET once == [A!Gone EXCEPT !.there = TRUE] IN
       \A a \in RungOnce : alarm'[a] \in {A!Gone, once, [once EXCEPT !.isSent = TRUE]}

\* One user signs out at a time.
PushesMove ==
    /\ scene = "pushes"
    /\ P!Next
    /\ uninstalled' \subseteq Removable
    /\ Cardinality({t \in Tokens : signingOut'[t] # None}) <= 1
    /\ \A t \in Malformed : signedIn'[t] \notin Guests

FilesMove ==
    /\ scene = "files"
    /\ F!Next
    /\ lost' \subseteq Losable /\ stuck' \subseteq Stickable

\* One picture changes, until something is not promised of it any more; the
\* others are only signed anew.
PicturesMove ==
    /\ scene = "pictures"
    /\ I!Next
    /\ \A c \in Changers : change'[c].owner = I!NoChange.owner
    /\ Cardinality(failed') + Cardinality(blurred') <= 1
    /\ failed \cup blurred # {} => UNCHANGED change

Steps == {request'[r].pc : r \in Requests} \ {"idle"}

Plain == ChatUsers \ (Leads \cup {Creator})

\* Editing and deleting, then reading, then joining and leaving the group.
ChatsMove ==
    /\ C!Next
    /\ \/ /\ scene = "words"
          /\ Steps \subseteq {"post", "edit", "delete"}
          /\ DOMAIN rows' \subseteq 1..2
          /\ \A r \in Requests : request'[r].by \notin Leads
          /\ \A m \in DOMAIN rows' :
                IF rows'[m].kind = "trip" THEN rows'[m].from \in Plain
                                          ELSE rows'[m].from = Creator /\ rows'[m].to \notin Leads
          /\ opened' = {} /\ hidden' = hidden /\ ~groupGone'
       \/ /\ scene = "bells"
          /\ Steps \subseteq {"post", "mark"}
          /\ broken' = {}
          /\ \A m \in DOMAIN rows' :
                rows'[m].kind # "trip" /\
                IF rows'[m].kind = "direct" THEN rows'[m].from = Creator /\ rows'[m].to \in Plain
                                            ELSE rows'[m].from \notin Plain
          /\ \A pair \in DOMAIN hidden' : hidden'[pair] # 0 => pair \in Plain \X {Creator}
       \/ /\ scene = "seats"
          /\ Steps \subseteq {"add", "welcome", "remove", "notice"}
          /\ \A r \in Requests : request'[r].by = Creator /\ request'[r].who \notin Leads
          /\ opened' = {} /\ hidden' = hidden
          /\ \A m \in DOMAIN rows' : rows'[m].kind \notin {"direct", "trip"}
          /\ broken' \cap Leads = {}

-----------------------------------------------------------------------------

Init ==
    /\ scene \in {"alarms", "pushes", "files", "pictures", "words", "bells", "seats"}
    /\ A!Init /\ P!Init /\ F!Init /\ I!Init /\ C!Init
    /\ [o \in Owners |-> pic[o].path] =
          CHOOSE f \in [Owners -> Paths] : \A o, p \in Owners : o # p => f[o] # f[p]

Next ==
    /\ \/ AlarmsMove /\ UNCHANGED <<pushVars, fileVars, pictureVars, chatVars>>
       \/ PushesMove /\ UNCHANGED <<alarmVars, fileVars, pictureVars, chatVars>>
       \/ FilesMove /\ UNCHANGED <<alarmVars, pushVars, pictureVars, chatVars>>
       \/ PicturesMove /\ UNCHANGED <<alarmVars, pushVars, fileVars, chatVars>>
       \/ ChatsMove /\ UNCHANGED <<alarmVars, pushVars, fileVars, pictureVars>>
    /\ UNCHANGED scene

\* The fairness of Alarms: without an alarm, in the other scenes, it asks nothing.
Fairness ==
    /\ WF_alarmVars(\E r \in Runs : A!CheckAlarms(r))
    /\ \A r \in Runs : WF_alarmVars(A!Step(r))

Spec == Init /\ [][Next]_vars /\ Fairness

-----------------------------------------------------------------------------

\* The types of the five modules.
TypeOK == A!TypeOK /\ P!TypeOK /\ F!TypeOK /\ I!TypeOK /\ C!TypeOK

\* The properties of Alarms, as stated and explained there.
AlarmsRing == A!AlarmsRing
PutOffAfterRinging == A!PutOffAfterRinging

\* That of Pushes.
DevicesStayRegistered == P!DevicesStayRegistered

\* That of Files.
FilesAgree == F!FilesAgree

\* That of Pictures.
PicturesHold == I!PicturesHold

\* That of Chats.
ChatsHold == C!ChatsHold

=============================================================================
