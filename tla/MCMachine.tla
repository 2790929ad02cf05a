------------------------------ MODULE MCMachine ------------------------------
(***************************************************************************)
(* What is made of the reflections of the machine, checked in one run: the *)
(* memory the engine keeps of them, and the loop that acts on them.  They  *)
(* are two programs that share nothing but the machine, so each behaviour  *)
(* exercises one, which `part` chooses at the start.                       *)
(*                                                                         *)
(* The loop offers every placement of itself and of one other process.     *)
(***************************************************************************)
EXTENDS ControlLoop, Reflections, TLC

VARIABLE part

vars == <<part, loopVars, reflectionsVars>>

MCReach == {"affinity"} \X Target
MCCandidates == Kinds
Alike == Permutations(Value)

Init ==
    /\ part \in {"loop", "reflections"}
    /\ LoopInit /\ ReflectionsInit
    \* Where the loop starts from matters to the loop only.
    /\ part # "loop" =>
        /\ enough = 0 /\ registered = {} /\ ~dry_run
        /\ \A a, b \in Family \X Target : setting[a] = setting[b]

Next ==
    /\ UNCHANGED part
    /\ \/ part = "loop" /\ LoopNext /\ UNCHANGED reflectionsVars
       \/ part = "reflections" /\ ReflectionsNext /\ UNCHANGED loopVars

Spec == Init /\ [][Next]_vars
=============================================================================
