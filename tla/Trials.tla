------------------------------- MODULE Trials -------------------------------
(***************************************************************************)
(* The experiments CoreScout runs on the agents it advises: advice handed  *)
(* out (product-api/src/engine.rs: advise), the outcome an agent reports   *)
(* (agent_observe), and the randomised evidence that builds up in between  *)
(* (agent-experience/src/procedure.rs, science/src/causal.rs).             *)
(*                                                                         *)
(* A request is one step: it holds the engine's mutex, and the evidence is *)
(* one document of the store.  What interleaves is the sessions of agents, *)
(* each of which may ask and never report, report what it never asked      *)
(* about, or ask again; time; forgetting; and restarts, which lose every   *)
(* trial still waiting and whatever was not written.                       *)
(*                                                                         *)
(* Which outcome an action had, and so what a procedure is believed to do, *)
(* are left out: belief, like the coin, is a free choice here.  What is    *)
(* kept is how much evidence there is, which arm it counts for, and how it *)
(* ages.                                                                   *)
(***************************************************************************)
EXTENDS Naturals, FiniteSets

CONSTANTS
    Session, Operation, Workspace,
    Last,          \* procedures are 1..Last, in the order of their ids
    Target,        \* Target[p] = <<operation, workspace>>
    MinTrials, Budget,   \* procedure.rs: MIN_TRIALS, Exploration::budget
    Unit, Kept,    \* what one trial weighs, and what is left of a weight of
                   \* Unit after a further trial: CausalEstimate::forgetting
    Ceiling,       \* waiting trials above which those an hour old are dropped
    NoTrial,
    MaxSuggested,  \* bound: MaxSuggested[p], advice given about procedure p
    MaxFailed      \* bound: writes that fail, and forgettings that stop short

Procedure == 1..Last
Key == Session \X Operation

ASSUME TrialsAssumption ==
    /\ Last \in Nat /\ Target \in [Procedure -> Operation \X Workspace]
    /\ MinTrials \in Nat \ {0} /\ Budget \in Nat
    /\ Unit \in Nat \ {0} /\ Kept \in 0..Unit
    /\ Ceiling \in Nat /\ MaxSuggested \in [Procedure -> Nat] /\ MaxFailed \in Nat
    /\ IsFiniteSet(Key)

Trial == [procedure : Procedure, applied : BOOLEAN, randomised : BOOLEAN]

ASSUME NoTrialAssumption == NoTrial \notin Trial

\* One arm of a comparison: the trials counted, those the coin decided, and
\* what the latter still weigh.
Arm == [trials : Nat, randomised : Nat, weight : Nat]

Evidence == [known : BOOLEAN, treatment : Arm, control : Arm,
             suggested : Nat, taken : Nat, spent : 0..Budget]

NoTrials == [trials |-> 0, randomised |-> 0, weight |-> 0]

Unknown == [known |-> FALSE, treatment |-> NoTrials, control |-> NoTrials,
            suggested |-> 0, taken |-> 0, spent |-> 0]

VARIABLES
    evidence,  \* evidence[p]: Experience::procedures
    stored,    \* the same, in the store
    pending,   \* pending[k]: the trial handed out and waiting, if any
    failed,    \* ghost: how many writes have failed or stopped short
    stale,     \* ghost: the keys of trials handed out before the last forgetting
    tainted    \* ghost: procedures whose evidence counts such a trial

vars == <<evidence, stored, pending, failed, stale, tainted>>

Init ==
    /\ evidence = [p \in Procedure |-> Unknown] /\ stored = evidence
    /\ pending = [k \in Key |-> NoTrial] /\ failed = 0
    /\ stale = {} /\ tainted = {}

-----------------------------------------------------------------------------
(* The comparison of a procedure with the plain operation.                 *)

\* What is left of a weight after a further trial; the floats of the code are
\* integers here, rounded down.
Age(weight) == (weight * Kept) \div Unit

AgedArm(arm) == [arm EXCEPT !.weight = Age(@)]

RecordedArm(arm, randomised) ==
    [trials     |-> arm.trials + 1,
     randomised |-> arm.randomised + (IF randomised THEN 1 ELSE 0),
     weight     |-> Age(arm.weight) + (IF randomised THEN Unit ELSE 0)]

\* Procedure::record: the arm that was not measured ages as well.
Recorded(e, trial) ==
    IF trial.applied
      THEN [e EXCEPT !.treatment = RecordedArm(@, trial.randomised),
                     !.control = AgedArm(@)]
      ELSE [e EXCEPT !.control = RecordedArm(@, trial.randomised),
                     !.treatment = AgedArm(@)]

SettledMutant(e) == \* chosen trials count too
    /\ e.treatment.trials >= MinTrials
    /\ e.control.trials >= MinTrials

\* CausalEstimate::is_settled
Settled(e) ==
    /\ e.treatment.randomised > 0 /\ e.control.randomised > 0
    /\ e.treatment.weight >= MinTrials * Unit
    /\ e.control.weight >= MinTrials * Unit

ExhaustedMutant(e) == e.spent > Budget \* one more

Exhausted(e) == e.spent >= Budget

\* Procedure::decide.  The coin may decide while the budget lasts, whether the
\* comparison is settled or not: only how often it does is different.
DecidedMutant(e, applied, randomised) == \* the coin is not paid for
    [e EXCEPT !.suggested = @ + 1,
              !.taken = IF applied THEN @ + 1 ELSE @]

Decided(e, applied, randomised) ==
    [e EXCEPT !.suggested = @ + 1,
              !.taken = IF applied THEN @ + 1 ELSE @,
              !.spent = IF randomised THEN @ + 1 ELSE @]

-----------------------------------------------------------------------------
(* Requests.                                                               *)

\* The procedure advice is about: the first that fits the operation and place.
Fits(p, op, ws) == evidence[p].known /\ Target[p] = <<op, ws>>

IsChosen(p, op, ws) == Fits(p, op, ws) /\ \A q \in 1..(p - 1) : ~Fits(q, op, ws)

Waiting(trials) == {k \in Key : trials[k] # NoTrial}

\* Above the ceiling, the trials that have waited for an hour are dropped;
\* which of the others have is left open.
Aged(trials, k) ==
    {aged \in SUBSET (Waiting(trials) \ {k}) :
        aged # {} => Cardinality(Waiting(trials)) > Ceiling}

Pruned(trials, aged) ==
    [k \in Key |-> IF k \in aged THEN NoTrial ELSE trials[k]]

\* Engine::advise, when it has a procedure to offer.  Nothing is written.
Advise(s, op, ws, p) ==
    /\ IsChosen(p, op, ws)
    /\ evidence[p].suggested < MaxSuggested[p]
    /\ \E applied \in BOOLEAN,
          randomised \in (IF Exhausted(evidence[p]) THEN {FALSE} ELSE BOOLEAN) :
         LET k == <<s, op>>
             trial == [procedure |-> p, applied |-> applied, randomised |-> randomised]
             asked == [pending EXCEPT ![k] = trial]
         IN /\ evidence' = [evidence EXCEPT ![p] = Decided(@, applied, randomised)]
            /\ \E aged \in Aged(asked, k) :
                  /\ pending' = Pruned(asked, aged)
                  /\ stale' = stale \ (aged \cup {k})
    /\ UNCHANGED <<stored, failed, tainted>>

\* The request ends in persist, which may fail.
Write ==
    \/ stored' = evidence' /\ failed' = failed
    \/ failed < MaxFailed /\ failed' = failed + 1 /\ stored' = stored

\* The outcome settles the trial that waits for it, if it is still one of a
\* procedure that exists.
Settle(k) ==
    LET trial == pending[k] IN
    IF trial # NoTrial /\ evidence[trial.procedure].known
      THEN [evidence EXCEPT ![trial.procedure] = Recorded(@, trial)]
      ELSE evidence

\* Procedures about this operation in this place that are not there yet.
Proposable(op, ws) == {p \in Procedure : Target[p] = <<op, ws>> /\ ~evidence[p].known}

\* Experience::propose: a new procedure has no evidence.
Proposed(e, new) ==
    [p \in Procedure |-> IF p \in new THEN [Unknown EXCEPT !.known = TRUE] ELSE e[p]]

AnsweredMutant(k) == pending \* looked up, not removed

Answered(k) == [pending EXCEPT ![k] = NoTrial]

\* Engine::agent_observe: the trial is settled, then associations that have
\* become strong enough, which are about this operation in this place, become
\* procedures.
AgentObserve(s, op, ws) ==
    LET k == <<s, op>> IN
    /\ \E new \in SUBSET Proposable(op, ws) : evidence' = Proposed(Settle(k), new)
    /\ pending' = Answered(k)
    /\ stale' = stale \ {k}
    /\ tainted' = IF k \in stale /\ evidence[pending[k].procedure].known
                    THEN tainted \cup {pending[k].procedure} ELSE tainted
    /\ Write

\* Any other request that leaves the engine to be written, or the timer.
Persist ==
    /\ stored' = evidence
    /\ UNCHANGED <<evidence, pending, failed, stale, tainted>>

\* Engine::forget.  The trials that wait are not forgotten.
Forget ==
    /\ evidence' = [p \in Procedure |-> Unknown]
    /\ Write
    /\ stale' = Waiting(pending)
    /\ tainted' = IF stored' = evidence' THEN {} ELSE tainted
    /\ UNCHANGED pending

\* Forgetting everything clears the store first: it may stop there, by an error
\* or with the service.
ForgetStopsShort ==
    /\ failed < MaxFailed /\ failed' = failed + 1
    /\ stored' = [p \in Procedure |-> Unknown]
    /\ UNCHANGED <<evidence, pending, stale, tainted>>

Restart ==
    /\ evidence' = stored
    /\ pending' = [k \in Key |-> NoTrial] /\ stale' = {}
    /\ UNCHANGED <<stored, failed, tainted>>

Next ==
    \/ \E s \in Session, op \in Operation, ws \in Workspace :
         (\E p \in Procedure : Advise(s, op, ws, p)) \/ AgentObserve(s, op, ws)
    \/ Persist \/ Forget \/ ForgetStopsShort \/ Restart

Spec == Init /\ [][Next]_vars

-----------------------------------------------------------------------------
(* Properties.                                                             *)

\* Every variable keeps its type; the coin is never paid for beyond the budget.
TypeOK ==
    /\ evidence \in [Procedure -> Evidence] /\ stored \in [Procedure -> Evidence]
    /\ pending \in [Key -> Trial \cup {NoTrial}]
    /\ failed \in Nat /\ stale \subseteq Waiting(pending) /\ tainted \subseteq Procedure

WaitingFor(p, applied) ==
    {k \in Key \ stale : /\ pending[k] # NoTrial
                         /\ pending[k].procedure = p
                         /\ pending[k].applied = applied}

PaidFor(p) ==
    {k \in Key \ stale : /\ pending[k] # NoTrial
                         /\ pending[k].procedure = p
                         /\ pending[k].randomised}

\* Every trial counted as evidence is one that was handed out in that arm, and
\* is counted once: advice given again, reports nobody asked about, prunings
\* and restarts, which roll the counts and the evidence back together, never
\* let a comparison count more than was tried.
EvidenceIsBacked ==
    \A p \in Procedure \ tainted :
        LET e == evidence[p] IN
        /\ e.treatment.trials + Cardinality(WaitingFor(p, TRUE)) <= e.taken
        /\ e.control.trials + Cardinality(WaitingFor(p, FALSE)) + e.taken
             <= e.suggested

\* The coin is paid for: a comparison never rests on more randomised trials
\* than its budget has paid (causal.rs: Exploration, "so exploration cannot
\* run forever").
RandomisationIsPaid ==
    \A p \in Procedure \ tainted :
        LET e == evidence[p] IN
        e.treatment.randomised + e.control.randomised + Cardinality(PaidFor(p))
            <= e.spent

\* A comparison is settled, and so a procedure can become a capability, only
\* on at least MIN_TRIALS trials of each arm decided by the coin; trials chosen
\* by belief, however many, and whatever ages, settle nothing (causal.rs:
\* effect, "from randomised trials only").
CausalClaimsAreRandomised ==
    \A p \in Procedure :
        Settled(evidence[p]) =>
            /\ evidence[p].treatment.randomised >= MinTrials
            /\ evidence[p].control.randomised >= MinTrials

\* causal.rs, Arm::record_with: as evidence ages "a comparison becomes
\* unsettled again and exploration resumes on its own".
ExplorationResumes ==
    [][\A p \in Procedure :
        Settled(evidence[p]) /\ evidence'[p].known /\ ~Settled(evidence'[p])
            => ~Exhausted(evidence'[p])]_vars

=============================================================================
