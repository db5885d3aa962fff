------------------------------ MODULE MCFleet ------------------------------
(* Fleet on a small instance.  Ids are interchangeable. *)
EXTENDS Fleet, TLC

Symmetry == Permutations(Trucks) \cup Permutations(Trips)
            \cup Permutations(Drivers) \cup Permutations(Managers)

=============================================================================
