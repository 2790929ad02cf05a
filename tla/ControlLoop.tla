---------------------------- MODULE ControlLoop ----------------------------
(***************************************************************************)
(* The loop that acts on the machine by itself: autonomy/src (loop_.rs,    *)
(* policy.rs, safeguards.rs), run by apps/corescout/src/commands/agent.rs  *)
(* or bin/mirror_agent.rs, over the actuators of Actuators.tla.            *)
(*                                                                         *)
(* One tick is one call of ControlLoop::tick: it learns from the action of *)
(* the tick before, asks the watchdog, decides, and performs.  The models  *)
(* it predicts with are abstracted to which candidates are worth acting on *)
(* or investigating, how skilled the model is, whether the objective       *)
(* improved and whether the tick took too long.  An effect is predicted    *)
(* from two trials of its family (counterfactual/src/effects.rs,           *)
(* outcome.rs); a start that needs none stands for the predictions of any  *)
(* other model, which is how Policy::decide takes them.                    *)
(***************************************************************************)
EXTENDS Actuators, SequencesExt

CONSTANTS
    Candidates,       \* SUBSET Kinds: the actions the caller offers
    Foresight,        \* how many trials an effect is predicted from: 2, or any
    MaxOverruns, MaxFailures, MaxRegressions, WarmupTicks,
    DogPerMinute,     \* the watchdog's own ceiling of actions per minute
    ExploreOneIn,     \* 1 / exploration_rate
    ActionLimit,      \* --max-actions
    MaxTime, MaxTicks \* bounds: the clock, ticks of the loop

ASSUME LoopAssumption ==
    /\ Candidates \subseteq Kinds /\ Foresight \subseteq Nat
    /\ MaxFailures \in Nat

VARIABLES
    phase,            \* of the program: "running", "leaving", "gone", "failed"
    dog,              \* Watchdog
    policy,           \* Policy: decisions, explorations
    pending,          \* ControlLoop::pending, at most one
    trials,           \* EffectModel::trials, by family, up to `enough'
    enough,
    actions,          \* what the program counts against its limit
    ticked,           \* this reflection has been seen
    done              \* ghost: the changes made, and when

loop == <<dog, policy, pending, trials, enough>>
program == <<phase, actions, ticked>>
loopVars == <<now, machine, actuators, loop, program, done>>

NewDog == [stopped |-> FALSE, ticks |-> 0, overruns |-> 0, failures |-> 0,
           regressions |-> 0, recent |-> <<>>]

LoopInit ==
    /\ ActuatorsInit
    /\ phase = "running" /\ dog = NewDog
    /\ policy = [decisions |-> 0, explorations |-> 0]
    /\ pending = {} /\ trials = [f \in Family |-> 0] /\ enough \in Foresight
    /\ actions = 0 /\ ticked = FALSE
    /\ done = <<>>

Least(a, b) == IF a < b THEN a ELSE b
Cutoff == IF now > Minute THEN now - Minute ELSE 0

-----------------------------------------------------------------------------
(* The watchdog.                                                           *)

\* tick_completed.
Completed(d, overrun) ==
    LET n == IF overrun THEN d.overruns + 1 ELSE 0
    IN  [d EXCEPT !.ticks = Least(@ + 1, WarmupTicks), !.overruns = n,
                  !.stopped = @ \/ n >= MaxOverruns]

ActionTakenMutant(d, succeeded) == \* a failure in between is forgiven
    [d EXCEPT !.recent = Append(SelectSeq(@, LAMBDA t : t >= Cutoff), now),
              !.failures = IF succeeded THEN 0 ELSE @ + 1,
              !.stopped = @ \/ (~succeeded /\ d.failures > MaxFailures)]

\* action_taken.
ActionTaken(d, succeeded) ==
    LET n == IF succeeded THEN 0 ELSE d.failures + 1
    IN  [d EXCEPT !.recent = SelectSeq(Append(@, now), LAMBDA t : t >= Cutoff),
                  !.failures = n, !.stopped = @ \/ n >= MaxFailures]

\* outcome_observed.
OutcomeObserved(d, improved) ==
    LET n == IF improved THEN 0 ELSE d.regressions + 1
    IN  [d EXCEPT !.regressions = n, !.stopped = @ \/ n >= MaxRegressions]

\* assess, given whether the skill of the model is below its floor.
Verdict(d, unskilled) ==
    IF d.stopped \/ (d.ticks >= WarmupTicks /\ unskilled) THEN "stop"
    ELSE IF Len(SelectSeq(d.recent, LAMBDA t : t >= Cutoff)) >= DogPerMinute THEN "pause"
    ELSE "proceed"

-----------------------------------------------------------------------------
(* The policy.                                                             *)

\* Policy::may_explore, after the decision has been counted.
MayExplore(p) == p.explorations * ExploreOneIn < p.decisions

\* EffectModel::learn, at the start of a tick: what the one before did is known.
TrialsAfter ==
    [f \in Family |-> IF f \in pending THEN Least(trials[f] + 1, enough) ELSE trials[f]]

PredictableMutant == \* an untried family is given the benefit of the doubt
    {k \in Candidates : TrialsAfter[k.family] \in {0, enough}}

\* EffectModel::predict: a prediction from too few trials says nothing, and has
\* no improvement to be worth acting on or investigating for.
Predictable == {k \in Candidates : TrialsAfter[k.family] >= enough}

\* Policy::decide, whatever of the predictable candidates is worth acting on or,
\* the intent being met and the budget allowing it, worth investigating.
Decisions(p) ==
    {[kind |-> k, explore |-> FALSE] : k \in Predictable}
    \cup {[kind |-> k, explore |-> TRUE] : k \in IF MayExplore(p) THEN Predictable ELSE {}}
    \cup {[kind |-> Hold, explore |-> FALSE]}

-----------------------------------------------------------------------------
(* ControlLoop::tick.                                                      *)

DogAfterOutcome(improved) ==
    IF pending = {} THEN dog ELSE OutcomeObserved(dog, improved)

\* A stop: the scope is frozen and the last change undone.
Stops(d, overrun) ==
    /\ frozen' = TRUE /\ RevertLast
    /\ dog' = Completed([d EXCEPT !.stopped = TRUE], overrun)

\* A decision and its action, unless it is to hold.
Acts(d, overrun) ==
    /\ UNCHANGED frozen
    /\ LET counted == [policy EXCEPT !.decisions = @ + 1]
        IN  \E choice \in Decisions(counted) :
            /\ policy' = IF choice.explore
                         THEN [counted EXCEPT !.explorations = @ + 1] ELSE counted
            /\ Perform(choice.kind)
            /\ LET changed == Changed(Last(log').disposition)
               IN  IF choice.kind = Hold
                   THEN dog' = Completed(d, overrun) /\ pending' = {}
                   ELSE /\ dog' = Completed(ActionTaken(d, changed), overrun)
                        /\ pending' = IF changed THEN {choice.kind.family} ELSE {}

\* The program counts what was applied, and leaves when the watchdog has
\* stopped the loop or the limit is reached.
AfterTick ==
    /\ actions' = IF Len(log') > 0 /\ log' # log /\ ~frozen' /\ Last(log').disposition = "applied"
                  THEN actions + 1 ELSE actions
    /\ phase' = IF dog'.stopped \/ actions' >= ActionLimit THEN "leaving" ELSE "running"

LoopTick ==
    /\ phase = "running" /\ ~ticked /\ policy.decisions < MaxTicks
    /\ trials' = TrialsAfter
    /\ \E improved, unskilled, overrun \in BOOLEAN :
        LET d == DogAfterOutcome(improved)
            verdict == Verdict(d, unskilled)
        IN  \/ verdict = "stop" /\ Stops(d, overrun) /\ pending' = {} /\ UNCHANGED policy
            \/ verdict = "pause" /\ dog' = Completed(d, overrun) /\ pending' = {}
               /\ UNCHANGED <<machine, actuators, policy>>
            \/ verdict = "proceed" /\ Acts(d, overrun)
    /\ AfterTick /\ ticked' = TRUE
    /\ done' = IF log' # log /\ Last(log').disposition \in {"applied", "unconfirmed"}
                  /\ Last(log').kind # Hold
               THEN Append(done, [target |-> Last(log').kind.target, at |-> now])
               ELSE done
    /\ UNCHANGED <<now, enough>>

-----------------------------------------------------------------------------
(* The program.                                                            *)

NextReflection ==
    /\ Tick(MaxTime) /\ ticked' = FALSE /\ phase = "running"
    /\ UNCHANGED <<loop, phase, actions, done>>

\* Ctrl-c, which is looked at between ticks, or the end of the reflections.
Leave ==
    /\ phase = "running" /\ phase' = "leaving"
    /\ UNCHANGED <<now, machine, actuators, loop, actions, ticked, done>>

\* The revert every way out leads to ...
Revert ==
    /\ phase = "leaving" /\ phase' = "gone"
    /\ RevertLast
    /\ UNCHANGED <<now, frozen, loop, actions, ticked, done>>

\* ... except an error reading the next reflection.
SourceFails ==
    /\ phase = "running" /\ phase' = "failed"
    /\ UNCHANGED <<now, machine, actuators, loop, actions, ticked, done>>

Environment ==
    /\ phase = "running" /\ ProcessComesAndGoes
    /\ UNCHANGED <<loop, program, done>>

LoopNext ==
    \/ LoopTick \/ NextReflection \/ Leave \/ Revert \/ SourceFails
    \/ Environment

LoopSpec == LoopInit /\ [][LoopNext]_loopVars

-----------------------------------------------------------------------------
(* Properties.                                                             *)

\* The bounds of the actuators hold for what really changed the machine,
\* although they are counted from a log that forgets: never more than the limit
\* in a minute, never twice too soon on one target (actuators.rs, check_rate).
RateHolds ==
    /\ Cardinality({i \in DOMAIN done : now - done[i].at <= Minute}) <= PerMinute
    /\ \A i, j \in DOMAIN done :
          i < j /\ done[i].target = done[j].target => done[j].at - done[i].at >= MinInterval

\* "What actually happened" (audit.rs): an action the log says was applied is in
\* force until the log has another attempt on the same setting, or the process
\* it was done to has ended.
AuditIsTrue ==
    \A i \in DOMAIN log :
        LET kind == log[i].kind
            later == {j \in i + 1 .. Len(log) :
                        /\ log[j].disposition # "refused"
                        /\ log[j].kind.family = kind.family
                        /\ log[j].kind.target = kind.target}
        IN  /\ log[i].disposition = "applied" /\ kind # Hold /\ later = {}
            /\ <<kind.family, kind.target>> \notin ended
            => setting[kind.family, kind.target] = kind.value

\* scope.rs:149-155 (prune): a registration left behind "could silently come to
\* mean a different process".  What the loop does to the machine it never does
\* to a process that has taken the number of the registered one.
ActsOnTheRegistered ==
    [][log' # log => \A s \in ended : setting'[s] = setting[s]]_loopVars

\* The actions at the end of the log that all failed, whatever holds are between.
Failing ==
    {i \in DOMAIN log :
        /\ log[i].kind # Hold
        /\ \A j \in i .. Len(log) : log[j].kind # Hold => ~Changed(log[j].disposition)}

\* safeguards.rs: "actions that keep failing mean the world is not as the model
\* thinks" -- the loop never performs another one after so many, whatever
\* it held, and however long it waited, in between; and once stopped it is stopped.
FailuresStopTheLoop ==
    phase = "running" => ~dog.stopped /\ (Failing # {} => Cardinality(Failing) < MaxFailures)

\* effects.rs, outcome.rs: an effect is learned only from an action, and an
\* action is taken only on an effect that was learned.  With these models the
\* loop never does anything but hold.
OnlyHeldOnEffects ==
    enough > 0 => \A i \in DOMAIN log : log[i].kind = Hold

\* agent.rs: "press ctrl-c to stop; the agent reverts what it changed on the way
\* out".  An agent that has left by the way out has at least tried to undo its
\* last change, if it knows what was there before.
HandedBack ==
    LET attempts == {i \in DOMAIN log : log[i].kind # Hold /\ log[i].disposition # "refused"}
    IN  phase = "gone" /\ attempts # {} =>
            LET last == log[Max(attempts)]
            IN  last.disposition = "applied" => last.previous = {}
=============================================================================
