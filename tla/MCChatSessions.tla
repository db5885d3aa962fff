--------------------------- MODULE MCChatSessions ---------------------------
(* ChatSessions on a small instance.  Ids are interchangeable. *)
EXTENDS ChatSessions, TLC

Symmetry == Permutations(Trips) \cup Permutations(Sessions)
            \cup Permutations(Drivers) \cup Permutations(Managers)

\* Every trip is open, and Create has opened its session long ago.
Opened ==
    /\ \E chat \in [Trips -> Sessions], pair \in [Trips -> Drivers \X Managers] :
         /\ \A t, u \in Trips : t # u => chat[t] # chat[u]
         /\ trip = [t \in Trips |-> [driver |-> pair[t][1], manager |-> pair[t][2],
                                     state |-> "open"]]
         /\ session = [s \in Sessions |->
              IF \E t \in Trips : chat[t] = s
              THEN LET t == CHOOSE t \in Trips : chat[t] = s
                   IN  NewSession(t, pair[t][1], pair[t][2])
              ELSE NoSession]
    /\ job = [w \in Workers |-> Idle]
    /\ rest = [w \in Workers |-> {}]
    /\ torn = {}

OpenedSpec == Opened /\ [][Next]_vars

=============================================================================
