------------------------------- MODULE Atlas -------------------------------
(***************************************************************************)
(* The map of what the machine can bring about in itself                   *)
(* (capability/src/atlas.rs, affordance.rs, capability.rs): transitions    *)
(* between states under an action, counted as they are observed, and the   *)
(* capabilities promoted from those an intervention has tested.            *)
(*                                                                         *)
(* One owner, one step per call.  What a transition costs, and what a      *)
(* failure was due to, are left out: a cost that is no number, which is    *)
(* not recorded at all, is not, and neither is a failure mode that         *)
(* dominates, which is a choice of the environment.                        *)
(***************************************************************************)
EXTENDS Integers, FiniteSetsExt, Functions

CONSTANTS
    Place, Act,    \* the states of the machine, and its actions
    Enough,        \* ENOUGH_OBSERVATIONS
    EnoughToClaim, \* ENOUGH_FOR_PROMOTION
    EnoughAttempts,
    Threshold,     \* Atlas::edge_threshold, in percent
    MaxTries,      \* bound: transitions recorded out of one place by one action
    MaxAttempts    \* bound: attempts at one capability

ASSUME AtlasAssumption ==
    /\ {Enough, EnoughToClaim, EnoughAttempts, MaxTries, MaxAttempts} \subseteq Nat \ {0}
    /\ Threshold \in 0..100 /\ IsFiniteSet(Place) /\ IsFiniteSet(Act)

Key == Place \X Act \X Place

Affordance == [observations : Nat, arrivals : Nat, randomised : Nat, caused : Nat]

VARIABLES
    affordances,   \* a function on the edges found: Atlas::affordances
    capabilities,  \* a function on <<from, to>>: Atlas::capabilities
    trials         \* ghost: trials[from, action]: randomised transitions

atlasVars == <<affordances, capabilities, trials>>

AtlasInit ==
    /\ affordances = << >> /\ capabilities = << >>
    /\ trials = [fa \in Place \X Act |-> 0]

Edges(from, act) == {k \in DOMAIN affordances : k[1] = from /\ k[2] = act}

\* How often the action was taken here before it was known to lead there.
PriorMutant(from, act) == 0

Prior(from, act) ==
    Max({0} \cup {affordances[k].observations : k \in Edges(from, act)})

Fresh(from, act) ==
    [observations |-> Prior(from, act), arrivals |-> 0, randomised |-> 0, caused |-> 0]

One(condition) == IF condition THEN 1 ELSE 0

\* Affordance::record.
Seen(a, arrived, randomised) ==
    [observations |-> a.observations + 1,
     arrivals |-> a.arrivals + One(arrived),
     randomised |-> a.randomised + One(randomised),
     caused |-> a.caused + One(randomised /\ arrived)]

\* observe: the edge is added if it is new, and every edge out of here by this
\* action has seen the attempt, if its cost was a number.
Observe(from, act, arrived, randomised, finite) ==
    LET key == <<from, act, arrived>>
        known == DOMAIN affordances \cup {key}
        before == [k \in known |-> IF k \in DOMAIN affordances THEN affordances[k]
                                                               ELSE Fresh(from, act)]
    IN  /\ Prior(from, act) < MaxTries
        /\ affordances' = [k \in known |->
               IF finite /\ k[1] = from /\ k[2] = act
               THEN Seen(before[k], k = key, randomised) ELSE before[k]]
        /\ trials' = [trials EXCEPT ![<<from, act>>] = @ + One(finite /\ randomised)]
        /\ UNCHANGED capabilities

\* Affordance::promotable, but for the failure that dominates.
Promotable(a) ==
    a.randomised >= EnoughToClaim /\ 100 * a.caused >= Threshold * a.randomised

\* promote.  A capability that was retired still stands in the way.
Promote(k) ==
    /\ k \in DOMAIN affordances /\ Promotable(affordances[k])
    /\ <<k[1], k[3]>> \notin DOMAIN capabilities
    /\ capabilities' = [c \in DOMAIN capabilities \cup {<<k[1], k[3]>>} |->
           IF c \in DOMAIN capabilities THEN capabilities[c]
           ELSE [attempts |-> 0, successes |-> 0, retired |-> FALSE]]
    /\ UNCHANGED <<affordances, trials>>

\* Capability::record.
Attempt(c) ==
    /\ c \in DOMAIN capabilities /\ capabilities[c].attempts < MaxAttempts
    /\ \E worked \in BOOLEAN :
          capabilities' = [capabilities EXCEPT ![c].attempts = @ + 1,
                                               ![c].successes = @ + One(worked)]
    /\ UNCHANGED <<affordances, trials>>

Reliable(c) == c.attempts >= EnoughAttempts /\ 100 * c.successes >= Threshold * c.attempts

\* review: retired for ever when it is proven unreliable.
Review(c) ==
    /\ c \in DOMAIN capabilities /\ ~capabilities[c].retired
    /\ capabilities[c].attempts >= EnoughAttempts /\ ~Reliable(capabilities[c])
    /\ capabilities' = [capabilities EXCEPT ![c].retired = TRUE]
    /\ UNCHANGED <<affordances, trials>>

AtlasNext ==
    \/ \E from \in Place, arrived \in Place, act \in Act, randomised \in BOOLEAN, finite \in BOOLEAN :
          Observe(from, act, arrived, randomised, finite)
    \/ \E k \in Key : Promote(k)
    \/ \E c \in Place \X Place : Attempt(c) \/ Review(c)

AtlasSpec == AtlasInit /\ [][AtlasNext]_atlasVars

-----------------------------------------------------------------------------
\* What the atlas claims to be able to do: an edge, and the routes over edges.
IsEdge(k) ==
    LET a == affordances[k]
    IN  a.observations >= Enough /\ 100 * a.arrivals >= Threshold * a.observations

AtlasTypeOK ==
    /\ DOMAIN affordances \subseteq Key
    /\ \A k \in DOMAIN affordances : affordances[k] \in Affordance
    /\ DOMAIN capabilities \subseteq Place \X Place
    /\ \A c \in DOMAIN capabilities : capabilities[c].successes <= capabilities[c].attempts
    /\ trials \in [Place \X Act -> 0..MaxTries]

\* Whenever an outcome was discovered, every edge out of one place by one
\* action has counted the same attempts, and each attempt arrived somewhere: the
\* chances the atlas gives the outcomes of an action add up to one, whatever
\* the order they were found in (Atlas::observe, Affordance::backfill).
ChancesAddUp ==
    \A k \in DOMAIN affordances :
        affordances[k].observations =
            SumFunction([e \in Edges(k[1], k[2]) |-> affordances[e].arrivals])

\* affordance.rs:150-156 credits a new edge with the attempts made before it
\* was discovered, because without that "an outcome first seen on the hundredth
\* attempt reports a hundred per cent".  A promotion rests on the randomised
\* attempts: those of an edge are all that were made.
CausesAreBackfilled ==
    \A k \in DOMAIN affordances : affordances[k].randomised = trials[k[1], k[2]]
=============================================================================
