------------------------------ MODULE MCTrials ------------------------------
(***************************************************************************)
(* Ways of doing one operation, in one place and in another.  A behaviour  *)
(* exercises the sessions, whose trials and reports cross and whose writes *)
(* fail, on little advice; or one comparison, a trial at a time, on advice *)
(* enough for its evidence to settle, to spend the budget and to age out   *)
(* of being settled again.  `part' chooses at the start.                   *)
(***************************************************************************)
EXTENDS Trials, TLC

CONSTANT FewSuggested  \* bound: advice about the first procedure, of sessions

VARIABLE part

MCTarget == [p \in 1..Last |-> IF p = 1 THEN <<"build", "here">> ELSE <<"build", "there">>]

\* Advice enough to spend the budget and go on; one trial of the other.
MCSuggested == [p \in 1..Last |-> IF p = 1 THEN 7 ELSE 1]

MCInit == Init /\ part \in {"sessions", "settling"}

\* One trial waits at a time, of the first procedure, and nothing fails.
OneAtATime ==
    /\ failed' = 0 /\ Cardinality(Waiting(pending')) <= 1
    /\ \A p \in 2..Last : ~evidence'[p].known

MCNext ==
    /\ Next /\ UNCHANGED part
    /\ part = "sessions" => evidence'[1].suggested <= FewSuggested
    /\ part = "settling" => OneAtATime

MCSpec == MCInit /\ [][MCNext]_<<vars, part>>

SessionSymmetry == Permutations(Session)

=============================================================================
