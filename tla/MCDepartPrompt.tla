--------------------------- MODULE MCDepartPrompt ---------------------------
(* DepartPrompt on a small instance.  No symmetry: two of its three runs     *)
(* check liveness, and trips are ordered by age.                             *)
EXTENDS DepartPrompt, TLC

=============================================================================
