---------------------------- MODULE Permissions ----------------------------
(***************************************************************************)
(* What CoreScout decides before it changes anything: crates/permissions.  *)
(* The crate touches nothing, so this module holds no state.  It gives the *)
(* ruling (ruling.rs), the rolling budget (limits.rs) and the reach        *)
(* (authority.rs) as operators on the state Execution.tla keeps.           *)
(*                                                                         *)
(* Reach is a set of grants, each a folder or a command; what a grant      *)
(* covers is given, because comparing paths component by component         *)
(* (authority.rs `under`) is a fact about names.  Grant::auto_use is       *)
(* absent: no ruling reads it.                                             *)
(***************************************************************************)
EXTENDS Naturals, Sequences, FiniteSets

CONSTANTS
    Target,          \* what an operation can touch: a command or a path
    Folder, Command, \* what a person can grant
    Covers,          \* Covers[g]: the targets the grant g brings within reach
    Forbidden,       \* the floor list: folders and paths refused whatever is granted
    PerHour, PerDay, StreakLimit,  \* Limits { per_hour, per_day, failure_streak }
    Hour, Day        \* HOUR_NS and DAY_NS in ticks of the model's clock

Grantable == Folder \cup Command

ASSUME LimitsAssumption ==
    /\ PerHour \in Nat /\ PerDay \in Nat /\ StreakLimit \in Nat
    /\ Hour \in Nat /\ Day \in Nat /\ Hour <= Day

ASSUME ReachAssumption ==
    /\ Covers \in [Grantable -> SUBSET Target]
    /\ Forbidden \subseteq Target \cup Grantable

Autonomy == {"observe", "suggest", "assist", "autopilot"}
Risk     == {"none", "low", "moderate", "high"}

\* A decision on record.  A capability nobody has decided about has no entry
\* and reads as the default grant; `decided' tells the two apart.
Grant   == [decided : BOOLEAN, approved : BOOLEAN, disabled : BOOLEAN]
NoGrant == [decided |-> FALSE, approved |-> FALSE, disabled |-> FALSE]

IsUsable(grant) == grant.approved /\ ~grant.disabled

-----------------------------------------------------------------------------
(* Authority: is every target of the request within reach?                 *)

Permits(granted, targets) ==
    \A t \in targets : t \notin Forbidden /\ \E g \in granted : t \in Covers[g]

-----------------------------------------------------------------------------
(* The rolling budget: the times of past actions, and the actions in a row *)
(* that did not succeed.                                                   *)

\* u64 subtraction that stops at zero.
Since(now, window) == IF now > window THEN now - window ELSE 0

CountSinceMutant(taken, floor) == \* an action exactly a window ago is let go
    Cardinality({i \in DOMAIN taken : taken[i] > floor})

CountSince(taken, floor) == Cardinality({i \in DOMAIN taken : taken[i] >= floor})

CheckMutant(taken, failures, now) == \* the streak is noticed one run late
    CASE failures > StreakLimit                           -> "streak"
      [] /\ failures <= StreakLimit
         /\ \/ CountSince(taken, Since(now, Hour)) >= PerHour
            \/ CountSince(taken, Since(now, Day)) >= PerDay -> "hourly"
      [] OTHER                                            -> "ok"

Check(taken, failures, now) ==
    CASE failures >= StreakLimit                         -> "streak"
      [] /\ failures < StreakLimit
         /\ CountSince(taken, Since(now, Hour)) >= PerHour -> "hourly"
      [] /\ failures < StreakLimit
         /\ CountSince(taken, Since(now, Hour)) < PerHour
         /\ CountSince(taken, Since(now, Day)) >= PerDay -> "daily"
      [] OTHER                                           -> "ok"

\* The history is kept to twice the daily limit, dropping the oldest.
HistoryLength == 2 * (IF PerDay > 1 THEN PerDay ELSE 1)

Trim(taken) ==
    IF Len(taken) <= HistoryLength
      THEN taken
      ELSE SubSeq(taken, Len(taken) - HistoryLength + 1, Len(taken))

RecordTaken(taken, at) == Trim(Append(taken, at))
RecordFailures(failures, succeeded) == IF succeeded THEN 0 ELSE failures + 1

-----------------------------------------------------------------------------
(* The ruling.  A request is [targets, risk, reversible]; p is the state   *)
(* of permissions it is judged against, grant the decision on record for   *)
(* the capability asking.                                                  *)

Refuses(p, grant, request) ==
    \/ p.paused
    \/ ~Permits(p.granted, request.targets)
    \/ grant.disabled
    \/ request.risk # "none" /\ p.autonomy = "observe"

Asks(p, grant, request) ==
    /\ request.risk # "none"
    /\ \/ p.autonomy = "suggest"
       \/ /\ p.autonomy = "assist"
          /\ request.risk \notin {"none", "low"} \/ ~request.reversible
       \/ /\ p.autonomy = "autopilot"
          /\ request.risk = "high" \/ ~request.reversible \/ ~IsUsable(grant)

\* A streak is something a person clears, so it is a question, not a wall.
AgainstTheBudget(taken, failures, now) ==
    CASE Check(taken, failures, now) = "ok"     -> "allowed"
      [] Check(taken, failures, now) = "streak" -> "needs_approval"
      [] OTHER                                  -> "refused"

Rule(p, grant, request, now) ==
    CASE Refuses(p, grant, request) -> "refused"
      [] ~Refuses(p, grant, request) /\ Asks(p, grant, request) -> "needs_approval"
      [] OTHER -> AgainstTheBudget(p.taken, p.failures, now)

=============================================================================
