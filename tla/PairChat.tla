------------------------------ MODULE PairChat ------------------------------
(***************************************************************************)
(* What a trip's chat promises, without rows, handlers or transactions: at *)
(* any moment a trip has at most one conversation that goes on, every      *)
(* conversation belongs to one (driver, manager) pair for good, a new one  *)
(* begins in the same instant the one before it ends, and no conversation  *)
(* is ever taken up again.                                                 *)
(***************************************************************************)
CONSTANTS Trips, Drivers, Managers, Sessions, None

VARIABLES
    going,      \* going[t]: the conversation of t that goes on, as a set
    pair        \* pair[s]: the trip and the pair of conversation s, or None

pairChatVars == <<going, pair>>

Init ==
    /\ going = [t \in Trips |-> {}]
    /\ pair = [s \in Sessions |-> None]

\* A trip's first conversation, or the one of its new participants.
BeginChat(t, s) ==
    /\ pair[s] = None
    /\ going' = [going EXCEPT ![t] = {s}]
    /\ \E d \in Drivers, m \in Managers : pair' = [pair EXCEPT ![s] = <<t, d, m>>]

\* The trip is completed on somebody else's behalf: no conversation follows.
EndChat(t) ==
    /\ going[t] # {}
    /\ going' = [going EXCEPT ![t] = {}]
    /\ UNCHANGED pair

Next ==
    \/ \E t \in Trips, s \in Sessions : BeginChat(t, s)
    \/ \E t \in Trips : EndChat(t)

Spec == Init /\ [][Next]_pairChatVars

=============================================================================
