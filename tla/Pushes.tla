------------------------------- MODULE Pushes -------------------------------
(***************************************************************************)
(* Push tokens and the pushes that weed them out (PushService, and the     *)
(* token endpoints of UsersService).                                       *)
(*                                                                         *)
(* Every device has one token, whose row says whose pushes it gets.  A     *)
(* push goes out in chunks; Expo answers each message with a ticket, and a *)
(* token that a ticket calls unregistered is deleted.                      *)
(*                                                                         *)
(* Left out: what a push says and which channel it rings on, receipts      *)
(* (they are only logged), and the choice of recipients: presence and      *)
(* do-not-disturb may leave out any of them.                               *)
(*                                                                         *)
(* A definition marked Mutant is a faulty form of the one that follows it. *)
(***************************************************************************)
EXTENDS Naturals, Sequences, FiniteSets, SequencesExt

CONSTANTS
    Users, Tokens,
    Malformed,      \* tokens that are none of Expo's
    ChunkSize,      \* messages that Expo takes at once
    Pushers,        \* pushes under way
    None

PushesAssumption ==
    /\ IsFiniteSet(Tokens)
    /\ ChunkSize \in Nat \ {0}
    /\ None \notin Users

VARIABLES
    row,            \* row[t]: PushToken.userId, or None
    signedIn,       \* signedIn[t]: who uses the app on that device, or None
    uninstalled,    \* tokens that Expo no longer knows
    signingOut,     \* signingOut[t]: whose DELETE is under way for it, or None
    push,           \* push[p]: one call of sendLocalizedToUsers
    unsettled       \* tokens deleted by a late sign-out or a push that half failed

vars == <<row, signedIn, uninstalled, signingOut, push, unsettled>>

NoPush == [on |-> FALSE, validTokens |-> <<>>, sent |-> 0, tickets |-> <<>>, failed |-> FALSE]

\* What a ticket says of its device.
Tickets == {"ok", "gone"}

\* sent: messages handed over so far.
PushStates == [on : BOOLEAN, validTokens : Seq(Tokens), sent : Nat, tickets : Seq(Tickets),
               failed : BOOLEAN]

TypeOK ==
    /\ row \in [Tokens -> Users \cup {None}]
    /\ signedIn \in [Tokens -> Users \cup {None}]
    /\ uninstalled \subseteq Tokens
    /\ signingOut \in [Tokens -> Users \cup {None}]
    /\ push \in [Pushers -> PushStates]
    /\ \A p \in Pushers : /\ Len(push[p].tickets) <= push[p].sent
                          /\ push[p].sent <= Len(push[p].validTokens)
    /\ unsettled \subseteq Tokens

Init ==
    /\ row = [t \in Tokens |-> None]
    /\ signedIn = [t \in Tokens |-> None]
    /\ uninstalled = {}
    /\ signingOut = [t \in Tokens |-> None]
    /\ push = [p \in Pushers |-> NoPush]
    /\ unsettled = {}

-----------------------------------------------------------------------------
(* The devices.                                                            *)

\* registerPushToken, after a login: the row changes hands if there is one.
RegisterPushToken(u, t) ==
    /\ t \notin uninstalled
    /\ signedIn[t] = None \/ (signedIn[t] = u /\ row[t] # u)
    /\ signedIn' = [signedIn EXCEPT ![t] = u]
    /\ row' = [row EXCEPT ![t] = u]
    /\ unsettled' = unsettled \ {t}
    /\ UNCHANGED <<uninstalled, signingOut, push>>

SignOut(t) ==
    /\ signedIn[t] # None /\ signingOut[t] = None
    /\ signingOut' = [signingOut EXCEPT ![t] = signedIn[t]]
    /\ signedIn' = [signedIn EXCEPT ![t] = None]
    /\ UNCHANGED <<row, uninstalled, push, unsettled>>

\* Mutant: the row is deleted by its token alone.
DeleteAnyonesToken(t) ==
    /\ signingOut[t] # None
    /\ row' = [row EXCEPT ![t] = None]
    /\ unsettled' = IF signedIn[t] = signingOut[t] THEN unsettled \cup {t} ELSE unsettled
    /\ signingOut' = [signingOut EXCEPT ![t] = None]
    /\ UNCHANGED <<signedIn, uninstalled, push>>

\* deletePushToken: only a row of the user who asks; he may be back by then.
DeletePushToken(t) ==
    /\ signingOut[t] # None
    /\ row' = IF row[t] = signingOut[t] THEN [row EXCEPT ![t] = None] ELSE row
    /\ unsettled' = IF signedIn[t] = signingOut[t] THEN unsettled \cup {t} ELSE unsettled
    /\ signingOut' = [signingOut EXCEPT ![t] = None]
    /\ UNCHANGED <<signedIn, uninstalled, push>>

Uninstall(t) ==
    /\ t \notin uninstalled
    /\ uninstalled' = uninstalled \cup {t}
    /\ signedIn' = [signedIn EXCEPT ![t] = None]
    /\ UNCHANGED <<row, signingOut, push, unsettled>>

-----------------------------------------------------------------------------
(* sendLocalizedToUsers.                                                   *)

\* The rows of those who are to be told, in any order: a message for each token
\* of Expo's, the others are deleted as they are met.
Prepare(p, recipients) ==
    LET found == {t \in Tokens : row[t] \in recipients} IN
    /\ ~push[p].on
    /\ found # {}
    /\ \E tokens \in SetToSeqs(found \ Malformed) :
          push' = [push EXCEPT ![p].on = TRUE, ![p].validTokens = tokens]
    /\ row' = [t \in Tokens |-> IF t \in found \cap Malformed THEN None ELSE row[t]]
    /\ UNCHANGED <<signedIn, uninstalled, signingOut, unsettled>>

LastOfChunk(p) == LET messages == Len(push[p].validTokens) IN
    IF push[p].sent + ChunkSize < messages THEN push[p].sent + ChunkSize ELSE messages

\* The messages from the next one to the last are answered.
NewTickets(p, last) ==
    [i \in 1 .. last - push[p].sent |->
        IF push[p].validTokens[push[p].sent + i] \in uninstalled THEN "gone" ELSE "ok"]

\* sendPushNotificationsAsync, once for each chunk: a ticket for each message, or
\* an error, which is logged.
SendChunk(p, failed) ==
    /\ push[p].on /\ push[p].sent < Len(push[p].validTokens)
    /\ push' = [push EXCEPT
          ![p].sent = LastOfChunk(p),
          ![p].failed = @ \/ failed,
          ![p].tickets = IF failed THEN @ ELSE @ \o NewTickets(p, LastOfChunk(p))]
    /\ UNCHANGED <<row, signedIn, uninstalled, signingOut, unsettled>>

\* DeviceNotRegistered: the i-th ticket is taken for the i-th token, which it is
\* not when an earlier chunk has failed.
Prune(p) ==
    LET bad == {push[p].validTokens[i] : i \in {j \in DOMAIN push[p].tickets : push[p].tickets[j] = "gone"}}
    IN
    /\ push[p].on /\ push[p].sent = Len(push[p].validTokens)
    /\ row' = [t \in Tokens |-> IF t \in bad THEN None ELSE row[t]]
    /\ unsettled' = IF push[p].failed THEN unsettled \cup bad ELSE unsettled
    /\ push' = [push EXCEPT ![p] = NoPush]
    /\ UNCHANGED <<signedIn, uninstalled, signingOut>>

Device(t) ==
    \/ \E u \in Users : RegisterPushToken(u, t)
    \/ SignOut(t)
    \/ DeletePushToken(t)
    \/ Uninstall(t)

Send(p) ==
    \/ \E recipients \in SUBSET Users : Prepare(p, recipients)
    \/ \E failed \in BOOLEAN : SendChunk(p, failed)
    \/ Prune(p)

Next == (\E t \in Tokens : Device(t)) \/ (\E p \in Pushers : Send(p))

Spec == Init /\ [][Next]_vars

-----------------------------------------------------------------------------

\* A device in use keeps its row, in the name of whoever uses it: it is not taken
\* for one that is gone, nor signed out by its former user's late request.  A
\* chunk that fails shifts the tickets after it, and another device than the one
\* gone may lose its row until it registers again (push.service l.261).
DevicesStayRegistered == \A t \in Tokens \ (Malformed \cup unsettled) :
    signedIn[t] # None => row[t] = signedIn[t]

=============================================================================
