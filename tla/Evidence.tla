------------------------------ MODULE Evidence ------------------------------
(***************************************************************************)
(* What is learned from the actions of agents: agent-experience, in        *)
(* experience.rs, failure.rs and environment.rs.                           *)
(*                                                                         *)
(* Evidence is a record of functions: the operations seen in a place and   *)
(* how often each failed, the ordered pairs of an operation and what ran   *)
(* before it in the same session, the procedures proposed from them, and   *)
(* the paths this machine was found to miss.  It is one document in the    *)
(* store.  The history a pair is found in is kept apart, by session, and   *)
(* is not stored.  Durations, the texts of failures, silent failures,      *)
(* unverified successes and how much was rejected are only shown, and are  *)
(* left out.                                                               *)
(***************************************************************************)
EXTENDS Naturals, Sequences, FiniteSets, FiniteSetsExt, Functions

CONSTANTS
    Operation, Place,         \* fingerprints of commands; workspaces
    MinAttempts, MinFailures, MinEachSide, Lift, \* Thresholds, the lift as 1 / Lift
    Lookback, LookbackTime,   \* actions and time a precursor may lie back
    ModeCeiling, PairCeiling, Slack, SessionHistory

Key == Operation \X Place

Nothing ==
    [modes |-> <<>>, pairs |-> <<>>, procedures |-> {}, faults |-> <<>>,
     observed |-> 0,
     lost |-> {}]   \* ghost: pairs dropped while their operation stayed

Put(f, k, v) == [d \in DOMAIN f \cup {k} |-> IF d = k THEN v ELSE f[d]]
Entry(f, k, default) == IF k \in DOMAIN f THEN f[k] ELSE default
Monus(a, b) == IF a >= b THEN a - b ELSE 0  \* saturating_sub

NoCounts == [attempts |-> 0, failures |-> 0]

Counted(counts, failed) ==
    [counts EXCEPT !.attempts = @ + 1, !.failures = IF failed THEN @ + 1 ELSE @]

\* What ran in the session before an action that started then: the newest
\* entries of its history, back to the first that is too old.
Precursors(history, operation, started) ==
    LET near == {i \in DOMAIN history :
                    /\ i + Lookback > Len(history)
                    /\ \A j \in i .. Len(history) :
                          history[j].at >= Monus(started, LookbackTime)}
    IN  {history[i].operation : i \in near} \ {operation}

Remembered(history, operation, started) ==
    LET longer == Append(history, [operation |-> operation, at |-> started])
    IN  IF Len(longer) > SessionHistory THEN Tail(longer) ELSE longer

\* Experience::observe up to the eviction.
WithAction(e, key, before, failed, started) ==
    LET pair(p) == Entry(e.pairs, <<key, p>>, [counts |-> NoCounts, last |-> 0])
        seen == {<<key, p>> : p \in before}
    IN  [e EXCEPT
          !.observed = @ + 1,
          !.modes = Put(@, key, Counted(Entry(@, key, NoCounts), failed)),
          !.pairs = [k \in DOMAIN @ \cup seen |->
                        IF k \in seen
                        THEN [counts |-> Counted(pair(k[2]).counts, failed), last |-> started]
                        ELSE @[k]]]

\* The sets of n of S that a sort by `rank' may put first.
Lowest(S, n, rank(_)) ==
    {low \in kSubset(n, S) : \A a \in low, b \in S \ low : rank(a) <= rank(b)}

WithoutModesMutant(e, doomed) == \* the pairs of an operation stay behind
    [e EXCEPT !.modes = Restrict(@, DOMAIN @ \ doomed),
              !.lost = {k \in @ : k[1] \notin doomed}]

WithoutModes(e, doomed) ==
    [e EXCEPT !.modes = Restrict(@, DOMAIN @ \ doomed),
              !.pairs = Restrict(@, {k \in DOMAIN @ : k[1] \notin doomed}),
              !.lost = {k \in @ : k[1] \notin doomed}]

WithoutPairs(e, doomed) ==
    [e EXCEPT !.pairs = Restrict(@, DOMAIN @ \ doomed),
              !.lost = @ \cup doomed]

\* Experience::evict: what may be left.  A map over its ceiling by more than
\* the slack goes back to the ceiling, the least active operations and the
\* pairs not seen for longest first.
EvictedModes(e) ==
    LET n == Cardinality(DOMAIN e.modes)
    IN  IF n <= ModeCeiling + Slack THEN {e}
        ELSE {WithoutModes(e, doomed) :
                doomed \in Lowest(DOMAIN e.modes, n - ModeCeiling,
                                  LAMBDA k : e.modes[k].attempts)}

EvictedPairs(e) ==
    LET n == Cardinality(DOMAIN e.pairs)
    IN  IF n <= PairCeiling + Slack THEN {e}
        ELSE {WithoutPairs(e, doomed) :
                doomed \in Lowest(DOMAIN e.pairs, n - PairCeiling,
                                  LAMBDA k : e.pairs[k].last)}

Evicted(e) == UNION {EvictedPairs(f) : f \in EvictedModes(e)}

\* FailureMode::is_recurring.
IsRecurring(mode) == mode.attempts >= MinAttempts /\ mode.failures >= MinFailures

\* The other side of the comparison is what is left of the operation's counts.
WithoutIt(e, pair) ==
    [attempts |-> Monus(e.modes[pair[1]].attempts, e.pairs[pair].counts.attempts),
     failures |-> Monus(e.modes[pair[1]].failures, e.pairs[pair].counts.failures)]

\* Experience::associations: enough on both sides, and failing less often
\* after the precursor by the lift.
Associations(e) ==
    {pair \in DOMAIN e.pairs :
        /\ pair[1] \in DOMAIN e.modes
        /\ IsRecurring(e.modes[pair[1]])
        /\ LET with == e.pairs[pair].counts
               without == WithoutIt(e, pair)
           IN  /\ with.attempts >= MinEachSide /\ without.attempts >= MinEachSide
               /\ Lift * without.failures * with.attempts
                    >= Lift * with.failures * without.attempts
                       + with.attempts * without.attempts}

\* Experience::propose: the only way a procedure comes into existence.
WithProposals(e) == [e EXCEPT !.procedures = @ \cup Associations(e)]

\* Environment::record, for paths blamed and found missing.
WithFaults(e, paths, operation) ==
    [e EXCEPT !.faults = [p \in DOMAIN @ \cup paths |->
                            Entry(@, p, {}) \cup (IF p \in paths THEN {operation} ELSE {})]]

\* Environment::resolve.
WithoutFaults(e, present) ==
    [e EXCEPT !.faults = Restrict(@, DOMAIN @ \ present)]

-----------------------------------------------------------------------------
(* What holds of evidence.                                                 *)

\* The counts of a pair are part of the counts of its operation, so the two
\* sides of a comparison really add up and no subtraction saturates; and what
\* is kept never exceeds what was observed (experience.rs: observe, evict).
Nested(e) ==
    /\ \A pair \in DOMAIN e.pairs :
          /\ pair[1] \in DOMAIN e.modes
          /\ LET all == e.modes[pair[1]]
                 with == e.pairs[pair].counts
             IN  /\ with.attempts <= all.attempts
                 /\ with.failures <= all.failures
                 /\ with.attempts - with.failures <= all.attempts - all.failures
    /\ SumFunction([k \in DOMAIN e.modes |-> e.modes[k].attempts]) <= e.observed

\* pattern.rs: the failure rate "when the condition held" is that of the
\* actions which had the precursor, and the rate "when it did not" that of the
\* others -- so no action that had it has been moved to the other side.
Separated(e) == Associations(e) \cap e.lost = {}
=============================================================================
