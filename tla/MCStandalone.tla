---------------------------- MODULE MCStandalone ----------------------------
(***************************************************************************)
(* The parts of the program that keep their state to themselves, checked   *)
(* in one run: the theory, the concepts with the policy conditioned on     *)
(* them, the atlas, the lineage, the mirror daemon with the memory of its  *)
(* reflections, the layout of the plane, the measurements of the           *)
(* laboratory, what is made of an outcome, the model of itself a loop      *)
(* keeps, the regimes the observer finds, and the loop that reflects the   *)
(* machine.  They share nothing, so their steps commute and no property    *)
(* here relates two of them: it is enough to let each behaviour exercise   *)
(* one, which `part` chooses at the start.                                 *)
(***************************************************************************)
EXTENDS
    Theory, Concepts, Atlas, Lineage, Mirror, Layout, Bench, Outcome, Forecast,
    Regimes, MCReflector, TLC

CONSTANTS s1, s2, here, there, follows

VARIABLE part

vars ==
    <<part, theoryVars, conceptVars, atlasVars, lineageVars, mirrorVars,
      layoutVars, benchVars, outcomeVars, forecastVars, regimesVars, reflectorVars>>

LatentIds == {1, 2}

\* Two claims about what a state looks like, and one that s2 follows s1.
FromOf == here :> s1 @@ there :> s2 @@ follows :> s1
ToOf == here :> s1 @@ there :> s2 @@ follows :> s2

\* Machines of which the largest is more than WordRange describes, although its
\* tables fit in what is left of it.
Shapes == [entities : {1, 8}, channels : {1, 9}, relations : {0, 3}, strings : {70},
           sensors : {1}]

\* Four frames anywhere on a small grid, in units that three or four of them have a
\* mean in; and nine of which a regime loses all it had in the fourth pass, in units
\* that suit the regimes they pass through.
FourFrames == [1 .. 4 -> {0, 12, 24} \X {0, 12, 24}]
Nine ==
    LET at(x, y) == <<60 * x, 60 * y>>
    IN  <<at(11, 5), at(16, 15), at(17, 14), at(0, 2), at(9, 0), at(6, 16), at(18, 14),
          at(19, 13), at(10, 4)>>
MCExperiences == FourFrames \cup {Nine}

\* The initial states of a part matter to behaviours that exercise it only.
Init ==
    /\ part \in {"theory", "concepts", "atlas", "lineage", "mirror",
                "layout", "bench", "outcome", "forecast", "regimes", "reflector"}
    /\ RegimesInit
    /\ part # "regimes" => alike = {} /\ frame = Origin
    /\ TheoryInit /\ ConceptsInit /\ AtlasInit /\ LineageInit
    /\ MirrorInit /\ LayoutInit /\ BenchInit /\ OutcomeInit /\ ForecastInit
    /\ ReflectorInit
    /\ part # "reflector" => machine.zone = NoZone /\ ~machine.privileged
    /\ part # "bench" => permitted = [x \in Process |-> Cpu]

Next ==
    /\ UNCHANGED part
    /\ \/ /\ part = "theory" /\ TheoryNext
          /\ UNCHANGED <<conceptVars, atlasVars, lineageVars, mirrorVars,
                          layoutVars, benchVars, outcomeVars, forecastVars,
                          regimesVars, reflectorVars>>
       \/ /\ part = "concepts" /\ ConceptsNext
          /\ UNCHANGED <<theoryVars, atlasVars, lineageVars, mirrorVars,
                          layoutVars, benchVars, outcomeVars, forecastVars,
                          regimesVars, reflectorVars>>
       \/ /\ part = "atlas" /\ AtlasNext
          /\ UNCHANGED <<theoryVars, conceptVars, lineageVars, mirrorVars,
                          layoutVars, benchVars, outcomeVars, forecastVars,
                          regimesVars, reflectorVars>>
       \/ /\ part = "lineage" /\ LineageNext
          /\ UNCHANGED <<theoryVars, conceptVars, atlasVars, mirrorVars,
                          layoutVars, benchVars, outcomeVars, forecastVars,
                          regimesVars, reflectorVars>>
       \/ /\ part = "mirror" /\ MirrorNext
          /\ UNCHANGED <<theoryVars, conceptVars, atlasVars, lineageVars,
                          layoutVars, benchVars, outcomeVars, forecastVars,
                          regimesVars, reflectorVars>>
       \/ /\ part = "layout" /\ LayoutNext
          /\ UNCHANGED <<theoryVars, conceptVars, atlasVars, lineageVars,
                          mirrorVars, benchVars, outcomeVars, forecastVars,
                          regimesVars, reflectorVars>>
       \/ /\ part = "bench" /\ BenchNext
          /\ UNCHANGED <<theoryVars, conceptVars, atlasVars, lineageVars,
                          mirrorVars, layoutVars, outcomeVars, forecastVars,
                          regimesVars, reflectorVars>>
       \/ /\ part = "outcome" /\ OutcomeNext
          /\ UNCHANGED <<theoryVars, conceptVars, atlasVars, lineageVars,
                          mirrorVars, layoutVars, benchVars, forecastVars, regimesVars,
                          reflectorVars>>
       \/ /\ part = "forecast" /\ ForecastNext
          /\ UNCHANGED <<theoryVars, conceptVars, atlasVars, lineageVars,
                          mirrorVars, layoutVars, benchVars, outcomeVars, regimesVars,
                          reflectorVars>>
       \/ /\ part = "regimes" /\ RegimesNext
          /\ UNCHANGED <<theoryVars, conceptVars, atlasVars, lineageVars,
                          mirrorVars, layoutVars, benchVars, outcomeVars, forecastVars,
                          reflectorVars>>
       \/ /\ part = "reflector" /\ ReflectorNext
          /\ UNCHANGED <<theoryVars, conceptVars, atlasVars, lineageVars,
                          mirrorVars, layoutVars, benchVars, outcomeVars, forecastVars,
                          regimesVars>>

Spec == Init /\ [][Next]_vars

Symmetric == Permutations(Process) \cup Permutations(Place)

\* The type invariants of all of them.
TypeOK ==
    /\ TheoryTypeOK /\ ConceptsTypeOK /\ AtlasTypeOK /\ LineageTypeOK
    /\ MirrorTypeOK /\ LayoutTypeOK /\ BenchTypeOK /\ OutcomeTypeOK
    /\ ForecastTypeOK /\ RegimesTypeOK /\ ReflectorTypeOK
=============================================================================
