------------------------------- MODULE Theory -------------------------------
(***************************************************************************)
(* The hypotheses the laboratory commands state about the machine's latent *)
(* states, try, and give up (science/src/theory.rs, hypothesis.rs).  One   *)
(* command owns a theory, so every operation is one step.                  *)
(*                                                                         *)
(* A claim is a model value that mentions one state (From = To: what the   *)
(* machine looks like there) or two (one follows the other).  What a claim *)
(* predicts, and so whether an observation agrees with it, is a choice of  *)
(* the environment; an expectation no observation could refute is one that *)
(* Conjecture leaves out.                                                  *)
(***************************************************************************)
EXTENDS Integers, Sequences, FiniteSetsExt

CONSTANTS
    State,            \* latent states of the machine
    Claim, From, To,   \* claims, and the states they mention
    MinTrials, MaxOpen, GiveUpAfter,   \* TheoryConfig
    MaxTested, MaxConjectured          \* bounds

ASSUME TheoryAssumption ==
    /\ From \in [Claim -> State] /\ To \in [Claim -> State]
    /\ {MinTrials, MaxOpen, GiveUpAfter, MaxTested, MaxConjectured} \subseteq Nat
    /\ IsFiniteSet(Claim)

Hypothesis == [corroborations : Nat, refutations : Nat, retired : {"no", "gone"}]

VARIABLES
    hypotheses,   \* what stands, open or settled: a function on some claims
    graveyard,    \* graveyard[c]: the trials of every time c was killed
    conjectured, tested,
    forgotten,    \* ghost: the states that no longer exist
    trimmed       \* ghost: the trials of hypotheses dropped for want of room

theoryVars == <<hypotheses, graveyard, conjectured, tested, forgotten, trimmed>>

TheoryInit ==
    /\ hypotheses = << >> /\ graveyard = [c \in Claim |-> << >>]
    /\ conjectured = 0 /\ tested = 0 /\ forgotten = {} /\ trimmed = 0

Untried == [corroborations |-> 0, refutations |-> 0, retired |-> "no"]

Trials(h) == h.corroborations + h.refutations

\* The support of one hypothesis is below that of another; none is zero.
LessSupport(h, g) ==
    IF Trials(h) = 0 THEN g.corroborations > 0
    ELSE Trials(g) > 0 /\ h.corroborations * Trials(g) < g.corroborations * Trials(h)

SameSupport(h, g) == ~LessSupport(h, g) /\ ~LessSupport(g, h)

Supported(h) == 100 * h.corroborations >= 85 * Trials(h)
Refuted(h) == 2 * h.corroborations <= Trials(h)

Verdict(h) ==
    CASE h.retired # "no" -> "retired"
      [] h.retired = "no" /\ Trials(h) < MinTrials -> "untested"
      [] h.retired = "no" /\ Trials(h) >= MinTrials /\ Supported(h) -> "supported"
      [] h.retired = "no" /\ Trials(h) >= MinTrials /\ ~Supported(h) /\ Refuted(h) -> "refuted"
      [] OTHER -> "inconclusive"

IsOpen(h) == Verdict(h) \in {"untested", "inconclusive"}

Tested(h, agrees) ==
    IF agrees THEN [h EXCEPT !.corroborations = @ + 1]
              ELSE [h EXCEPT !.refutations = @ + 1]

GivenUp(h) == h.refutations >= GiveUpAfter /\ Verdict(h) = "refuted"

Mentions(c, s) == s \in {From[c], To[c]}

-----------------------------------------------------------------------------
Without(standing, gone) == [c \in DOMAIN standing \ gone |-> standing[c]]

\* What makes a hypothesis the first to go: little support, then few trials.
Before(h, g) == LessSupport(h, g) \/ (SameSupport(h, g) /\ Trials(h) < Trials(g))

\* The choices of open hypotheses that may be dropped when too many stand.
Trims(standing) ==
    LET open == {c \in DOMAIN standing : IsOpen(standing[c])}
        excess == Cardinality(DOMAIN standing) - MaxOpen
        dropped == IF excess <= 0 THEN 0 ELSE Min({excess, Cardinality(open)})
    IN  {D \in SUBSET open :
            /\ Cardinality(D) = dropped
            /\ \A d \in D, k \in open \ D : ~Before(standing[k], standing[d])}

\* conjecture: what is already stated keeps its evidence, what is new starts
\* with none, and then the theory is trimmed.
Conjecture ==
    \E new \in SUBSET (Claim \ DOMAIN hypotheses) :
        /\ \A c \in new : {From[c], To[c]} \cap forgotten = {}
        /\ conjectured + Cardinality(new) <= MaxConjectured
        /\ LET standing == [c \in DOMAIN hypotheses \cup new |->
                               IF c \in new THEN Untried ELSE hypotheses[c]]
           IN  \E D \in Trims(standing) :
                  /\ hypotheses' = Without(standing, D)
                  /\ trimmed' = trimmed + SumFunction([c \in D |-> Trials(standing[c])])
        /\ conjectured' = conjectured + Cardinality(new)
        /\ UNCHANGED <<graveyard, tested, forgotten>>

\* Retired as refuted and buried in the same call.
BuryMutant(standing) ==
    LET dead == {c \in DOMAIN standing : GivenUp(standing[c])}
    IN  /\ hypotheses' = standing
        /\ graveyard' = [c \in Claim |->
               IF c \in dead THEN Append(graveyard[c], Trials(standing[c])) ELSE graveyard[c]]

Bury(standing) ==
    LET dead == {c \in DOMAIN standing : GivenUp(standing[c])}
    IN  /\ hypotheses' = Without(standing, dead)
        /\ graveyard' = [c \in Claim |->
               IF c \in dead THEN Append(graveyard[c], Trials(standing[c])) ELSE graveyard[c]]

\* confront: a reflection tries the claims about the state the machine is in;
\* a cell the reflection does not have tries nothing.
Applicable(s) ==
    {c \in DOMAIN hypotheses :
        From[c] = s /\ To[c] = s /\ Verdict(hypotheses[c]) # "retired"}

Confront(s) ==
    \E seen \in SUBSET Applicable(s) : \E agreeing \in SUBSET seen :
        /\ seen # {} /\ tested + Cardinality(seen) <= MaxTested
        /\ tested' = tested + Cardinality(seen)
        /\ Bury([c \in DOMAIN hypotheses |->
                    IF c \in seen THEN Tested(hypotheses[c], c \in agreeing)
                                  ELSE hypotheses[c]])
        /\ UNCHANGED <<conjectured, forgotten, trimmed>>

\* report: a result found elsewhere, on a claim that still stands.
Report(c) ==
    /\ c \in DOMAIN hypotheses /\ Verdict(hypotheses[c]) # "retired"
    /\ tested < MaxTested /\ tested' = tested + 1
    /\ \E agrees \in BOOLEAN : Bury([hypotheses EXCEPT ![c] = Tested(@, agrees)])
    /\ UNCHANGED <<conjectured, forgotten, trimmed>>

\* forget_state: the claims stay among the hypotheses, retired.
ForgetState(s) ==
    /\ s \notin forgotten /\ forgotten' = forgotten \cup {s}
    /\ hypotheses' = [c \in DOMAIN hypotheses |->
           IF Mentions(c, s) THEN [hypotheses[c] EXCEPT !.retired = "gone"]
                             ELSE hypotheses[c]]
    /\ UNCHANGED <<graveyard, conjectured, tested, trimmed>>

TheoryNext ==
    \/ Conjecture
    \/ \E s \in State : Confront(s) \/ ForgetState(s)
    \/ \E c \in Claim : Report(c)

TheorySpec == TheoryInit /\ [][TheoryNext]_theoryVars

-----------------------------------------------------------------------------
TheoryTypeOK ==
    /\ DOMAIN hypotheses \subseteq Claim
    /\ \A c \in DOMAIN hypotheses : hypotheses[c] \in Hypothesis
    /\ graveyard \in [Claim -> Seq(Nat)]
    /\ conjectured \in 0..MaxConjectured /\ tested \in 0..MaxTested
    /\ forgotten \subseteq State /\ trimmed \in Nat

Buried == SumFunction([c \in Claim |-> Len(graveyard[c])])

BuriedTrials == SumFunction([c \in Claim |-> SumFunction(graveyard[c])])

\* Every trial ever made is evidence for or against exactly one thing: a
\* hypothesis that stands, one that was buried, or one dropped for want of
\* room.  A claim killed and stated again starts afresh (Theory::bury,
\* Theory::admit), so evidence is neither kept twice nor lent to its successor.
TrialsAccountedFor ==
    tested = trimmed + BuriedTrials
             + SumFunction([c \in DOMAIN hypotheses |-> Trials(hypotheses[c])])

\* refutation_rate, as its numerator and denominator.
RefutationRate ==
    <<Buried, Buried + Cardinality({c \in DOMAIN hypotheses : ~IsOpen(hypotheses[c])})>>

\* theory.rs:360-362 says of a claim whose state was merged away that "it goes
\* to the graveyard as retired rather than as refuted, so it does not distort
\* the refutation rate".
ForgettingLeavesTheRate ==
    [][forgotten' # forgotten => RefutationRate' = RefutationRate]_theoryVars
=============================================================================
