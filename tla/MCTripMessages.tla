--------------------------- MODULE MCTripMessages ---------------------------
(* TripMessages on a small instance.  Ids are interchangeable. *)
EXTENDS TripMessages, TLC

Symmetry == Permutations(Sessions) \cup Permutations(Messages)
            \cup Permutations(Drivers) \cup Permutations(Managers)

=============================================================================
