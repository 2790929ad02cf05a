--------------------------- MODULE MCObservation ---------------------------
(* Commands, and folders they are run in, are alike.                       *)
EXTENDS Observation, TLC

Alike == Permutations(Operation) \cup Permutations(Place)

=============================================================================
