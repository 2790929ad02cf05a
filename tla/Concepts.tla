------------------------------ MODULE Concepts ------------------------------
(***************************************************************************)
(* From a concept the machine coined about itself to an action it would    *)
(* not have taken without it, and back: the registry of concepts           *)
(* (concept/src/concept.rs), the policy conditioned on them                *)
(* (autonomy/src/conditioned.rs, science/src/causal.rs), and the loop that *)
(* runs the two together (integration/tests/concept_driven_action.rs).     *)
(*                                                                         *)
(* The loop is sequential.  What makes it hard is its length: a concept is *)
(* coined, tried, established, forgotten by the world, displaced or        *)
(* refuted, and each of these leaves its mark in other places.             *)
(*                                                                         *)
(* Utility is a small natural number; how useful a concept turns out, and  *)
(* which of two actions did better, are choices of the world.  Which two   *)
(* actions are compared is not: the default action is the control of every *)
(* comparison, as the candidates always include it.                        *)
(***************************************************************************)
EXTENDS Integers, FiniteSets

CONSTANTS
    Latent,         \* latent states: naturals, in the order of their ids
    Family,         \* actions other than the default one
    Hold,           \* ConditionedConfig::default_action
    NoFamily, NoConcept,
    MinUtility, RetireBelow, MaxConcepts,   \* CoinageRules
    MaxUtility,     \* bound: utilities are 0..MaxUtility
    MaxAbsent,      \* half-lives after which any utility has decayed to zero
    MaxClaims,      \* bound: claims counted for or against one concept
    Needed,         \* ConditionedConfig::min_trials
    Unit, Kept,     \* what a trial weighs, and what is left of it one trial on
    Budget          \* Exploration::budget

ASSUME ConceptsAssumption ==
    /\ Latent \subseteq Nat /\ IsFiniteSet(Latent)
    /\ {MinUtility, RetireBelow, MaxConcepts, MaxUtility, MaxAbsent, MaxClaims,
        Needed, Budget} \subseteq Nat
    /\ RetireBelow <= MinUtility /\ MaxUtility < 2 ^ MaxAbsent
    /\ Unit \in Nat \ {0} /\ Kept \in 0..Unit /\ Hold \notin Family /\ NoFamily \notin Family

\* NoConcept: never coined.  A retired concept keeps no more than that it was
\* one: what it counts from then on nothing but a report reads.
Concept == [utility : 0..MaxUtility, absent : 0..MaxAbsent,
            supported : 0..MaxClaims, refuted : 0..MaxClaims, retired : BOOLEAN]

\* One arm of a comparison: whether it ever reached Needed randomised trials,
\* counted, and what they still weigh.
Arm == [randomised : 0..Needed, weight : Nat]
Estimate == [treatment : Arm, control : Arm]

NoTrials == [randomised |-> 0, weight |-> 0]
NoEstimate == [treatment |-> NoTrials, control |-> NoTrials]

VARIABLES
    concept,      \* concept[s]: what Registry made of latent state s
    named,        \* the loop's own map: states it acts on the concept of
    estimate,     \* estimate[s][f]: Attribution, under the concept of s
    preference,   \* preference[s]: ConditionedPolicy::preferences
    spent,        \* Exploration::spent
    reviewing,    \* a review is under way,
    todo,         \*   and these are the states it has still to measure
    answer        \* ghost: what coin just said, and of which state

loopVars == <<reviewing, todo, answer>>
conceptVars == <<concept, named, estimate, preference, spent, loopVars>>

Silence == <<"nothing", 0>>

ConceptsInit ==
    /\ concept = [s \in Latent |-> NoConcept] /\ named = {}
    /\ estimate = [s \in Latent |-> [f \in Family |-> NoEstimate]]
    /\ preference = [s \in Latent |-> NoFamily]
    /\ spent = 0 /\ reviewing = FALSE /\ todo = {} /\ answer = Silence

Live == {s \in Latent : concept[s] # NoConcept /\ ~concept[s].retired}

Retired ==
    [utility |-> 0, absent |-> 0, supported |-> 0, refuted |-> 0, retired |-> TRUE]

-----------------------------------------------------------------------------
\* The experiment: CausalEstimate and Exploration.

Aged(arm) == [arm EXCEPT !.weight = (@ * Kept) \div Unit]

Counted(arm) ==
    [randomised |-> IF arm.randomised = Needed THEN Needed ELSE arm.randomised + 1,
     weight |-> Aged(arm).weight + Unit]

\* record: the arm that was not tried ages too, and an outcome that is no
\* number counts for nothing and ages nothing but that arm.
Recorded(e, took, randomised, finite) ==
    LET tried(arm) == IF ~finite THEN arm ELSE IF randomised THEN Counted(arm) ELSE Aged(arm)
    IN  [treatment |-> IF took THEN tried(e.treatment) ELSE Aged(e.treatment),
         control |-> IF took THEN Aged(e.control) ELSE tried(e.control)]

\* effect is an answer rather than Insufficient.
IsSettled(e) ==
    /\ e.treatment.randomised > 0 /\ e.control.randomised > 0
    /\ e.treatment.weight >= Needed * Unit /\ e.control.weight >= Needed * Unit

\* choose: the preference is the treatment; without one, an action whose
\* comparison is not settled is, if there is one.
Treatments(s) ==
    IF preference[s] # NoFamily THEN {preference[s]}
    ELSE LET open == {f \in Family : ~IsSettled(estimate[s][f])}
         IN  IF open = {} THEN Family ELSE open

\* decide_scaled: whether the coin decided, and whether the treatment is taken.
DecisionsMutant(s) ==
    {<<FALSE, preference[s] # NoFamily>>} \cup ({TRUE} \X BOOLEAN)

Decisions(s) ==
    {<<FALSE, preference[s] # NoFamily>>}
    \cup (IF spent < Budget THEN {TRUE} \X BOOLEAN ELSE {})

\* A tick of the loop in a latent state it has a name for: the concept is
\* seen, an action chosen, and its outcome recorded.
Occur(s) ==
    /\ ~reviewing /\ s \in named
    /\ concept' = IF s \in Live THEN [concept EXCEPT ![s].absent = 0] ELSE concept
    /\ \E f \in Treatments(s), d \in Decisions(s), finite \in BOOLEAN :
          /\ spent' = IF d[1] THEN spent + 1 ELSE spent
          /\ estimate' = [estimate EXCEPT ![s][f] = Recorded(@, d[2], d[1], finite)]
    /\ UNCHANGED <<named, preference, loopVars>>

\* A half-life passes.
Pass ==
    /\ ~reviewing
    /\ concept' = [s \in Latent |->
           IF s \in Live /\ concept[s].absent < MaxAbsent
           THEN [concept[s] EXCEPT !.absent = @ + 1] ELSE concept[s]]
    /\ UNCHANGED <<named, estimate, preference, spent, loopVars>>

\* record_claim: a hypothesis about the concept was settled.
RecordClaim(s) ==
    /\ ~reviewing /\ s \in Live /\ concept[s].supported + concept[s].refuted < MaxClaims
    /\ concept' \in {[concept EXCEPT ![s].supported = @ + 1],
                     [concept EXCEPT ![s].refuted = @ + 1]}
    /\ UNCHANGED <<named, estimate, preference, spent, loopVars>>

-----------------------------------------------------------------------------
\* The review, every fifty ticks: what each state is worth, the states in turn.
StartReview ==
    /\ ~reviewing /\ reviewing' = TRUE /\ todo' = Latent
    /\ UNCHANGED <<concept, named, estimate, preference, spent, answer>>

\* evict_worst_than: the concepts that may go for one worth u.
Displaceable(u) ==
    {s \in Live : concept[s].utility < u
                  /\ \A t \in Live : concept[s].utility <= concept[t].utility}

Coined(u) == [utility |-> u, absent |-> 0, supported |-> 0, refuted |-> 0, retired |-> FALSE]

Refuse(s, why) == answer' = <<why, s>> /\ UNCHANGED <<concept, named>>

\* coin.  `ready` says that the state is neither too rare nor doubtful.  The
\* registry remembers for ever what it coined for a state.
Coin(s, u, ready) ==
    IF concept[s] # NoConcept THEN Refuse(s, "already coined")
    ELSE IF ~ready \/ u < MinUtility THEN Refuse(s, "not earned")
    ELSE \/ /\ Cardinality(Live) >= MaxConcepts /\ Displaceable(u) = {}
            /\ Refuse(s, "no room")
         \/ /\ \/ Cardinality(Live) < MaxConcepts /\ concept' = [concept EXCEPT ![s] = Coined(u)]
               \/ /\ Cardinality(Live) >= MaxConcepts
                  /\ \E t \in Displaceable(u) :
                        concept' = [concept EXCEPT ![t] = Retired, ![s] = Coined(u)]
            /\ named' = named \cup {s} /\ answer' = <<"coined", s>>

\* set_utility.  That of a retired concept is read by nothing.
SetUtility(s, u) ==
    /\ concept' = IF s \in Live THEN [concept EXCEPT ![s].utility = u] ELSE concept
    /\ answer' = Silence /\ UNCHANGED named

\* The next state is measured: the concept the loop knows is told its utility,
\* any other state is put forward.  One seen too seldom is passed over.
Measure(s) ==
    /\ reviewing /\ s \in todo /\ (\A t \in todo : s <= t) /\ todo' = todo \ {s}
    /\ \/ \E u \in 0..MaxUtility : s \in named /\ SetUtility(s, u)
       \/ \E u \in 0..MaxUtility, ready \in BOOLEAN : s \notin named /\ Coin(s, u, ready)
       \/ answer' = Silence /\ UNCHANGED <<concept, named>>
    /\ UNCHANGED <<estimate, preference, spent, reviewing>>

\* decay_unseen, with the half-life that Pass lets go by.
Decayed(c) == [c EXCEPT !.utility = @ \div (2 ^ c.absent)]

\* audit: the utility fell below the bar, or most claims were refuted.
Fails(c) ==
    \/ c.utility < RetireBelow
    \/ c.refuted > 0 /\ 100 * c.supported < 40 * (c.supported + c.refuted)

\* consolidate: a preference wherever an effect is established, and nowhere
\* else.  A settled comparison may have no effect worth acting on.
Established(s) == {f \in Family : IsSettled(estimate[s][f])}

Consolidated(p) ==
    \A s \in Latent : p[s] \in Established(s) \cup {NoFamily}

\* forget: the preference under a concept, and every comparison.
ForgetMutant(p, gone) ==
    /\ estimate' = [s \in Latent |-> IF s \in gone THEN [f \in Family |-> NoEstimate] ELSE estimate[s]]
    /\ preference' = p

Forget(p, gone) ==
    /\ estimate' = [s \in Latent |-> IF s \in gone THEN [f \in Family |-> NoEstimate] ELSE estimate[s]]
    /\ preference' = [s \in Latent |-> IF s \in gone THEN NoFamily ELSE p[s]]

\* The review ends: consolidate, decay_unseen, audit, and what the loop does
\* with the concepts the audit retired.
EndReview ==
    /\ reviewing /\ todo = {} /\ reviewing' = FALSE
    /\ LET decayed == [s \in Live |-> Decayed(concept[s])]
           gone == {s \in Live : Fails(decayed[s])}
       IN  /\ concept' = [s \in Latent |-> IF s \in gone THEN Retired
                                           ELSE IF s \in Live THEN decayed[s] ELSE concept[s]]
           /\ named' = named \ gone
           /\ \E p \in [Latent -> Family \cup {NoFamily}] : Consolidated(p) /\ Forget(p, gone)
    /\ answer' = Silence /\ UNCHANGED <<spent, todo>>

ConceptsNext ==
    \/ \E s \in Latent : Occur(s) \/ RecordClaim(s) \/ Measure(s)
    \/ Pass \/ StartReview \/ EndReview

ConceptsSpec == ConceptsInit /\ [][ConceptsNext]_conceptVars

-----------------------------------------------------------------------------
ConceptsTypeOK ==
    /\ concept \in [Latent -> Concept \cup {NoConcept}]
    /\ named \subseteq Latent
    /\ estimate \in [Latent -> [Family -> Estimate]]
    /\ preference \in [Latent -> Family \cup {NoFamily}]
    /\ spent \in 0..Budget /\ reviewing \in BOOLEAN /\ todo \subseteq Latent

\* A preference is never installed from watching: as long as it stands, both
\* arms of its comparison have had the randomised trials it takes, and losing
\* the trials, however that happens, loses the preference (conditioned.rs:18-30,
\* consolidate, forget).
PreferencesAreCausal ==
    \A s \in Latent : preference[s] # NoFamily =>
        LET e == estimate[s][preference[s]]
        IN  e.treatment.randomised = Needed /\ e.control.randomised = Needed

\* concept.rs:468-469, of a concept decay_unseen had retired: "a rare concept
\* can be re-coined the next time it occurs".
RareConceptsReturn ==
    answer[1] = "already coined" => answer[2] \in Live

\* conditioned.rs:377-381 and the loop's "everything conditioned on it goes
\* with it": no behaviour outlives its concept.
NoBehaviourOutlivesItsConcept ==
    \A s \in Latent : preference[s] # NoFamily => s \in Live
=============================================================================
