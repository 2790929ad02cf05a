----------------------------- MODULE Actuators -----------------------------
(***************************************************************************)
(* The only path from a controller to the machine: agency/src/actuators.rs *)
(* with its scope (scope.rs), its bounds (lib.rs) and its audit log        *)
(* (audit.rs), on Linux (linux.rs).                                        *)
(*                                                                         *)
(* What an actuator sets is a value per family (affinity, niceness, NUMA   *)
(* preference) and target; which value it is, and which values are within  *)
(* bounds, is all that matters here.  The kernel may refuse, may apply     *)
(* something else than was asked for, and what is in force may be          *)
(* unreadable.  Reasons, expectations and the totals of the log are left   *)
(* out.                                                                    *)
(***************************************************************************)
EXTENDS Naturals, Sequences, FiniteSets, FiniteSetsExt

CONSTANTS
    Family, Pid, Value,
    Reach,            \* SUBSET (Family \X Target): NUMA is for the own thread only
    Permitted,        \* SUBSET Value: within Bounds
    MinInterval,      \* between two changes of a target
    Minute, PerMinute,
    LogCapacity

\* To hold is no family of actions.
ASSUME ActuatorsAssumption ==
    /\ "hold" \notin Family /\ Permitted \subseteq Value
    /\ MinInterval \in Nat /\ Minute \in Nat /\ PerMinute \in Nat
    /\ LogCapacity \in Nat \ {0}

Self == "self"        \* the calling thread and process
Target == Pid \cup {Self}

VARIABLES
    now,
    setting,          \* of the machine, by family and target
    alive,            \* the processes that can be signalled
    ended,            \* ghost: the settings whose process has ended, or is another
                      \* one, since the log's last attempt on them
    registered,       \* Scope::registered
    frozen,           \* Scope::frozen
    dry_run,          \* ActuatorSet::dry_run
    log               \* AuditLog::events

machine == <<setting, alive, ended>>
actuators == <<registered, frozen, dry_run, log>>

Hold == [family |-> "hold", target |-> "none", value |-> "none"]
Kinds == [family : Family, target : Target, value : Value]

\* Disposition::changed_the_machine.
Changed(disposition) == disposition \in {"applied", "unconfirmed", "reverted"}

ActuatorsInit ==
    /\ now = 0
    /\ setting \in [Family \X Target -> Value]
    /\ alive = Pid /\ ended = {} /\ registered \in SUBSET Pid /\ frozen = FALSE
    /\ dry_run \in BOOLEAN /\ log = <<>>

-----------------------------------------------------------------------------
(* The audit log.                                                          *)

\* AuditLog::record.
Recorded(events, event) ==
    Append(IF Len(events) = LogCapacity THEN Tail(events) ELSE events, event)

\* AuditLog::last_action_ns and recent_for.
ChangesOf(target) ==
    {log[i].at : i \in {j \in DOMAIN log :
        Changed(log[j].disposition) /\ log[j].kind.target = target}}

RecentChanges ==
    Cardinality({i \in DOMAIN log :
        Changed(log[i].disposition) /\ now - log[i].at <= Minute})

-----------------------------------------------------------------------------
(* Performing an action.                                                   *)

\* Scope::permits.
InScope(target) == ~frozen /\ (target = Self \/ target \in registered \cap alive)

CheckRateMutant(target) == \* the last change may be any change
    /\ \A at \in ChangesOf(target) : now - at >= MinInterval
    /\ RecentChanges <= PerMinute

\* ActuatorSet::check_rate.
CheckRate(target) ==
    /\ \A at \in ChangesOf(target) : now - at >= MinInterval
    /\ RecentChanges < PerMinute

\* Actuator::apply: what is then in force, and what is known of it.
Apply(kind) ==
    LET before == setting[kind.family, kind.target]
        reached == kind.target = Self \/ kind.target \in alive
        Result(v, attempted, confirmed) ==
            [value |-> v, attempted |-> attempted, confirmed |-> confirmed]
        Known(v) == Result(v, TRUE, IF v = kind.value THEN "yes" ELSE "no")
    IN  IF <<kind.family, kind.target>> \notin Reach
        THEN {Result(before, FALSE, "unknown")}
        ELSE {Result(before, TRUE, "no")} \cup
             (IF reached THEN {Result(v, TRUE, "unknown") : v \in Value} \cup {Known(v) : v \in Value}
                         ELSE {})

DispositionMutant(outcome) == \* what the kernel accepted is taken as applied
    IF ~outcome.attempted THEN "failed"
    ELSE IF outcome.confirmed = "unknown" THEN "unconfirmed" ELSE "applied"

Disposition(outcome) ==
    CASE ~outcome.attempted \/ outcome.confirmed = "no" -> "failed"
      [] outcome.attempted /\ outcome.confirmed = "yes" -> "applied"
      [] outcome.attempted /\ outcome.confirmed = "unknown" -> "unconfirmed"

\* Actuator::read, which may fail.
Read(kind) ==
    IF <<kind.family, kind.target>> \in Reach
    THEN {{}, {setting[kind.family, kind.target]}} ELSE {{}}

Event(kind, disposition, previous) ==
    [kind |-> kind, disposition |-> disposition, previous |-> previous, at |-> now]

Sets(kind, value) ==
    /\ setting' = [setting EXCEPT ![<<kind.family, kind.target>>] = value]
    /\ ended' = ended \ {<<kind.family, kind.target>>}

\* ActuatorSet::perform: the disposition is that of the last event.
Perform(kind) ==
    /\ UNCHANGED <<alive, registered, dry_run>>
    /\ IF kind = Hold THEN
            /\ log' = Recorded(log, Event(Hold, "applied", {}))
            /\ UNCHANGED <<setting, ended>>
       ELSE IF \/ ~InScope(kind.target) \/ kind.value \notin Permitted
               \/ ~CheckRate(kind.target)
       THEN /\ log' = Recorded(log, Event(kind, "refused", {}))
            /\ UNCHANGED <<setting, ended>>
       ELSE \E previous \in Read(kind) :
            IF dry_run THEN
                /\ log' = Recorded(log, Event(kind, "refused", previous))
                /\ UNCHANGED <<setting, ended>>
            ELSE \E outcome \in Apply(kind) :
                /\ log' = Recorded(log, Event(kind, Disposition(outcome), previous))
                /\ Sets(kind, outcome.value)

-----------------------------------------------------------------------------
(* Undoing.                                                                *)

\* The events ActuatorSet::revert_last may undo: the last that changed the
\* machine, if what was there before it is known.
Undoable ==
    LET changes == {i \in DOMAIN log : Changed(log[i].disposition)}
    IN  {log[i] : i \in {j \in changes : /\ \A k \in changes : k <= j
                                         /\ log[j].previous # {}}}

RevertKind(event) ==
    [event.kind EXCEPT !.value = CHOOSE v \in event.previous : TRUE]

\* ActuatorSet::revert_last.  Neither scope nor rate is asked.
RevertLast ==
    /\ UNCHANGED <<alive, registered, dry_run>>
    /\ IF Undoable = {} THEN UNCHANGED <<setting, ended, log>>
       ELSE \E event \in Undoable :
            LET kind == RevertKind(event)
            IN  IF dry_run THEN
                    /\ log' = Recorded(log, Event(kind, "failed", {}))
                    /\ UNCHANGED <<setting, ended>>
                ELSE \E outcome \in Apply(kind) :
                    /\ log' = Recorded(log, Event(kind,
                            IF outcome.attempted /\ outcome.confirmed # "no"
                            THEN "reverted" ELSE "failed", {}))
                    /\ Sets(kind, outcome.value)

-----------------------------------------------------------------------------
(* The machine.                                                            *)

Tick(limit) ==
    /\ now < limit /\ now' = now + 1
    /\ UNCHANGED <<machine, actuators>>

\* A process ends ...
ProcessEnds(p) ==
    /\ p \in alive /\ alive' = alive \ {p}
    /\ UNCHANGED setting

\* ... and its number is given to another one, with settings of its own
\* (scope.rs: "pids are reused").
NumberIsReused(p) ==
    /\ p \notin alive /\ alive' = alive \cup {p}
    /\ \E v \in [Family -> Value] :
          setting' = [x \in Family \X Target |-> IF x[2] = p THEN v[x[1]] ELSE setting[x]]

ProcessComesAndGoes ==
    /\ \E p \in Pid :
        /\ ProcessEnds(p) \/ NumberIsReused(p)
        /\ ended' = ended \cup (Family \X {p})
    /\ UNCHANGED <<now, actuators>>
=============================================================================
