------------------------------ MODULE Reflector ------------------------------
(***************************************************************************)
(* The loop that reflects the machine (substrate/src/reflector.rs under    *)
(* apps/corescout-service/src/main.rs and bin/mirror_daemon.rs): discover,  *)
(* bind the sensors to what was found, then pass after pass let each of    *)
(* them read, and before each pass see whether the machine has another     *)
(* shape.                                                                  *)
(*                                                                         *)
(* A number is abstracted to what it was read of and in which pass.  The   *)
(* machine may change between any two steps: a step discovers one CPU, or  *)
(* binds one sensor, or is one sensor's part of a pass.  Relations are     *)
(* those of the structure; what the sensors relate is left out.            *)
(***************************************************************************)
EXTENDS Discovery

CONSTANTS
    Sensors,           \* those of linux_sensors, in the order they run
    MaxPasses          \* bound

SensorName ==
    {"frequency", "idle", "thermal", "power", "scheduler", "interrupts", "counters"}

ASSUME SensorAssumption ==
    /\ Sensors \in Seq(SensorName) /\ Sensors # << >> /\ MaxPasses \in Nat
    /\ \A m, n \in DOMAIN Sensors : Sensors[m] = Sensors[n] => m = n

VARIABLES
    loop, turn,       \* where in the loop, and which sensor is next
    entities, relations, channels, bound, reports, \* the Reflector
    numbers, reasons,  \* its StateMatrix and AvailabilityMatrix
    passes, builds,    \* counters
    disturbed,         \* ghost: CPUs or the zone changed since it was built
    sure               \* ghost: they did not since the last look at the shape

reflectorVars ==
    <<discoveryVars, loop, turn, entities, relations, channels, bound, reports, numbers,
      reasons, passes, builds, disturbed, sure>>

tableVars == <<entities, relations, channels, bound, reports>>
matrixVars == <<numbers, reasons>>
ghostVars == <<disturbed, sure>>
world == <<machine, changes>>

ZoneOf(zone) == <<"zone", zone>>
TheDomain == <<"domain">>
NoEntity == <<"nothing">>
Hole == [of |-> NoEntity, pass |-> 0]

Rows == DOMAIN entities
Columns == DOMAIN channels
Sensor == ToSet(Sensors)
AtTurn == Sensors[turn]
HasRow(entity) == entity \in ToSet(entities)
RowIn(table, entity) == Min({row \in DOMAIN table : table[row] = entity})
RowOf(entity) == RowIn(entities, entity)

Answers(sensor) == sensor \notin machine.dark

ReflectorInit ==
    /\ DiscoveryInit
    /\ loop = "start" /\ turn = 1
    /\ entities = << >> /\ relations = {} /\ channels = << >> /\ reports = << >>
    /\ bound = [s \in Sensor |-> {}]
    /\ numbers = << >> /\ reasons = << >>
    /\ passes = 0 /\ builds = 0 /\ disturbed = FALSE /\ sure = FALSE

-----------------------------------------------------------------------------
(* The shape.                                                              *)

\* The lists can be read, or there is no topology.
BeginBuild ==
    /\ loop \in {"start", "changed"}
    /\ IF machine.legible
       THEN ReadLists("build") /\ loop' = "discovering" /\ disturbed' = FALSE /\ sure' = TRUE
       ELSE loop' = "ended" /\ UNCHANGED <<discovery, ghostVars>>
    /\ UNCHANGED <<world, turn, tableVars, matrixVars, passes, builds>>

Discover ==
    /\ ReadCaches \/ ReadCpu
    /\ UNCHANGED <<world, loop, turn, tableVars, matrixVars, passes, builds, ghostVars>>

\* Sysfs::read_thread_siblings: a file that is there and cannot be read ends the
\* discovery, and so does one whose CPU goes while it is read.  In a look at the shape
\* that is no change; a reflector that is to be built is not.
DiscoveryFails ==
    /\ discovery.cacheless = << >> /\ discovery.unread # << >>
    /\ discovery' = NoDiscovery
    /\ loop' = (IF loop = "checking" THEN "ready" ELSE "ended") /\ sure' = FALSE
    /\ UNCHANGED <<world, turn, tableVars, matrixVars, passes, builds, disturbed>>

\* Reflector::build_at_epoch, up to its sensors.
Build ==
    /\ Discovered("build")
    /\ entities' = Entities(discovery) /\ relations' = Relations(discovery)
    /\ channels' = << >> /\ reports' = << >> /\ bound' = [s \in Sensor |-> {}]
    /\ numbers' = << >> /\ reasons' = << >>
    /\ builds' = builds + 1 /\ loop' = "binding" /\ turn' = 1
    /\ discovery' = NoDiscovery
    /\ UNCHANGED <<world, passes, ghostVars>>

\* Reflector::shape_changed: before each pass, but that the daemon takes the first
\* one when it has started.  If the lists cannot be read, nothing changed.
CheckShape ==
    /\ loop \in {"built", "taken"} /\ passes < MaxPasses
    /\ IF machine.legible
       THEN ReadLists("check") /\ loop' = "checking" /\ sure' = TRUE
       ELSE loop' = "ready" /\ sure' = FALSE /\ UNCHANGED discovery
    /\ UNCHANGED <<world, turn, tableVars, matrixVars, passes, builds, disturbed>>

ShapeChanged == Entities(discovery) # entities

EndCheck ==
    /\ Discovered("check")
    /\ loop' = (IF ShapeChanged THEN "changed" ELSE "ready")
    /\ discovery' = NoDiscovery
    /\ UNCHANGED <<world, turn, tableVars, matrixVars, passes, builds, ghostVars>>

-----------------------------------------------------------------------------
(* Binding.  A sensor declares rows of its own, columns, and keeps targets: *)
(* the rows it will fill and where it will read.                           *)

\* What a target reads: a file of this CPU, the CPU in this column of a table,
\* or whatever is behind the name of the zone.
Target(row, from) == [row |-> row, from |-> from]

\* The CPUs of the substrate that are still there to be looked at.
CpusThere == {cpu \in machine.online : HasRow(CpuOf(cpu))}
CpuTargets(cpus) == {Target(RowOf(CpuOf(cpu)), cpu) : cpu \in cpus}

\* The header of /proc/interrupts names the CPUs online, and the columns are
\* remembered by their position.
HeaderTargets ==
    LET header == Sorted(machine.online)
    IN  {Target(RowOf(CpuOf(header[n])), n) : n \in {m \in DOMAIN header : HasRow(CpuOf(header[m]))}}

Own(sensor) ==
    CASE sensor = "thermal" /\ machine.zone # NoZone -> ZoneOf(machine.zone)
      [] sensor = "power" /\ machine.privileged /\ Answers("power") -> TheDomain
      [] OTHER -> NoEntity

\* The entities with the one a sensor declares; one that is there is not repeated.
Declared(sensor) ==
    IF Own(sensor) = NoEntity \/ HasRow(Own(sensor)) THEN entities
    ELSE Append(entities, Own(sensor))

Targets(sensor) ==
    CASE sensor \in {"frequency", "idle"} -> CpuTargets(CpusThere)
      [] sensor = "counters" -> IF machine.privileged THEN CpuTargets(CpusThere) ELSE {}
      [] sensor = "scheduler" ->
            IF Answers("scheduler") THEN CpuTargets({cpu \in CpuNumber : HasRow(CpuOf(cpu))}) ELSE {}
      [] sensor = "interrupts" -> IF Answers("interrupts") THEN HeaderTargets ELSE {}
      [] OTHER -> {Target(RowIn(Declared(sensor), e), e) : e \in {Own(sensor)} \ {NoEntity}}

Keys(sensor) ==
    CASE sensor = "idle" -> <<"idle.residency", "idle.states">>
      [] sensor = "power" -> <<"power.energy", "power.limit">>
      [] OTHER -> <<sensor>>

\* classify: none of them is refused outright, they find nothing to read.
Inactive(sensor) ==
    [sensor |-> sensor, inactive |-> TRUE, samples |-> 0, errors |-> 0,
     availability |-> IF sensor \in {"power", "counters"} THEN "denied" ELSE "unsupported"]

Pending(sensor) ==
    [sensor |-> sensor, inactive |-> FALSE, samples |-> 0, errors |-> 0,
     availability |-> "unknown"]

\* The columns of one that finds nothing are taken back.
BindSensor ==
    /\ loop = "binding"
    /\ LET keys == Keys(AtTurn)
           declared == [n \in DOMAIN keys |-> [key |-> keys[n], sensor |-> AtTurn]]
       IN  IF Targets(AtTurn) = {}
           THEN /\ reports' = Append(reports, Inactive(AtTurn))
                /\ UNCHANGED <<entities, channels, bound>>
           ELSE /\ reports' = Append(reports, Pending(AtTurn))
                /\ entities' = Declared(AtTurn) /\ channels' = channels \o declared
                /\ bound' = [bound EXCEPT ![AtTurn] = Targets(AtTurn)]
    /\ IF turn < Len(Sensors) THEN turn' = turn + 1 /\ UNCHANGED <<loop, matrixVars>>
       ELSE /\ turn' = 1 /\ loop' = (IF builds = 1 THEN "built" ELSE "ready")
            /\ numbers' = [c \in (DOMAIN entities') \X (DOMAIN channels') |-> Hole]
            /\ reasons' = [c \in (DOMAIN entities') \X (DOMAIN channels') |-> "none claims it"]
    /\ UNCHANGED <<world, discovery, relations, passes, builds, ghostVars>>

-----------------------------------------------------------------------------
(* A pass.                                                                 *)

Cleared == numbers' = [c \in Rows \X Columns |-> Hole]

BeginPass ==
    /\ loop \in {"built", "ready"} /\ Cleared
    /\ reasons' = [c \in Rows \X Columns |-> "none claims it"]
    /\ passes' = passes + 1 /\ loop' = "sensing" /\ turn' = 1
    /\ UNCHANGED <<world, discovery, tableVars, builds, ghostVars>>

\* What a read comes to: a number in a cell, a reason in a cell, or an error.
Got(row, key, of, pass) ==
    [row |-> row, key |-> key, why |-> "observed", value |-> [of |-> of, pass |-> pass],
     counts |-> "sample"]
Missing(row, key, why, counts) ==
    [row |-> row, key |-> key, why |-> why, value |-> Hole, counts |-> counts]
Failed(row) == Missing(row, "", "", "error")

\* source::sample: a file that is there and cannot be read was refused.
Sample(target, key, of, there, answers, required) ==
    IF there /\ answers THEN Got(target.row, key, of, passes)
    ELSE Missing(target.row, key,
                 IF there THEN "denied" ELSE IF required THEN "unavailable" ELSE "unsupported",
                 IF required THEN "error" ELSE "nothing")

\* A file for each CPU.  How many states there are is counted off the targets.
ReadFiles(sensor) ==
    {Sample(t, Keys(sensor)[1], CpuOf(t.from), t.from \in machine.online, Answers(sensor), TRUE) :
        t \in bound[sensor]}
    \cup (IF sensor = "idle"
          THEN {Got(t.row, "idle.states", CpuOf(t.from), 0) : t \in bound[sensor]} ELSE {})

\* A table with a line for each CPU online, found by its number.
ReadLines(sensor) ==
    IF Answers(sensor)
    THEN {Got(t.row, sensor, CpuOf(t.from), passes) :
            t \in {u \in bound[sensor] : u.from \in machine.online}}
    ELSE {Failed(1)}

\* A table with a column for each CPU online, found by its position; where
\* there is none, the total is what it started from.
ReadColumns(sensor) ==
    LET header == Sorted(machine.online)
        under(n) == IF n \in DOMAIN header THEN CpuOf(header[n]) ELSE NoEntity
    IN  IF Answers(sensor)
        THEN {Got(t.row, sensor, under(t.from), passes) : t \in bound[sensor]}
        ELSE {Failed(1)}

\* A descriptor for each CPU.  Once the CPU is gone it still tells the count, which
\* stands still, or it does not.
ReadCounters(sensor, kept) ==
    {IF t.from \in machine.online \/ kept THEN Got(t.row, sensor, CpuOf(t.from), passes) ELSE Failed(t.row) :
        t \in bound[sensor]}

ReadZone(sensor) ==
    {IF machine.zone # NoZone /\ Answers(sensor)
     THEN Got(t.row, sensor, ZoneOf(machine.zone), passes) ELSE Failed(t.row) : t \in bound[sensor]}

\* This machine holds the domain to no limit.
ReadDomain(sensor) ==
    UNION {{Sample(t, "power.energy", TheDomain, TRUE, Answers(sensor), TRUE),
            Sample(t, "power.limit", TheDomain, FALSE, Answers(sensor), FALSE)} : t \in bound[sensor]}

Readings(sensor, kept) ==
    CASE sensor \in {"frequency", "idle"} -> ReadFiles(sensor)
      [] sensor = "scheduler" -> ReadLines(sensor)
      [] sensor = "interrupts" -> ReadColumns(sensor)
      [] sensor = "counters" -> ReadCounters(sensor, kept)
      [] sensor = "thermal" -> ReadZone(sensor)
      [] sensor = "power" -> ReadDomain(sensor)

\* Reflector::observe for one sensor; those that did not bind are passed over.
Sense ==
    /\ loop = "sensing"
    /\ \E kept \in BOOLEAN :
       LET readings == Readings(AtTurn, kept)
           told == {r \in readings : r.why # ""}
           at(c) == {r \in told : r.row = c[1] /\ r.key = channels[c[2]].key}
           samples == Cardinality({r \in readings : r.counts = "sample"})
           errors == Cardinality({r \in readings : r.counts = "error"})
       IN  IF reports[turn].inactive THEN UNCHANGED <<matrixVars, reports>>
           ELSE /\ numbers' = [c \in Rows \X Columns |->
                                IF at(c) = {} THEN numbers[c] ELSE (CHOOSE r \in at(c) : TRUE).value]
                /\ reasons' = [c \in Rows \X Columns |->
                                IF at(c) = {} THEN reasons[c] ELSE (CHOOSE r \in at(c) : TRUE).why]
                /\ reports' = [reports EXCEPT ![turn] =
                        [@ EXCEPT !.samples = samples, !.errors = errors,
                         !.availability = IF samples > 0 THEN "observed" ELSE "unavailable"]]
    /\ IF turn < Len(Sensors) THEN turn' = turn + 1 /\ UNCHANGED loop
       ELSE turn' = 1 /\ loop' = "taken"
    /\ UNCHANGED <<world, discovery, entities, relations, channels, bound, passes, builds,
                    ghostVars>>

MachineChanges ==
    /\ changes < MaxChanges /\ changes' = changes + 1
    /\ \/ (CpusChange \/ ZoneChanges) /\ disturbed' = TRUE /\ sure' = FALSE
       \/ AnswersChange /\ UNCHANGED ghostVars
    /\ UNCHANGED <<discovery, loop, turn, tableVars, matrixVars, passes, builds>>

ReflectorNext ==
    \/ BeginBuild \/ Discover \/ DiscoveryFails \/ Build \/ CheckShape \/ EndCheck
    \/ BindSensor \/ BeginPass \/ Sense \/ MachineChanges

ReflectorSpec == ReflectorInit /\ [][ReflectorNext]_reflectorVars

-----------------------------------------------------------------------------
(* Properties.                                                             *)

ReflectorTypeOK ==
    /\ loop \in {"start", "discovering", "binding", "built", "ready", "sensing", "taken", "checking",
                  "changed", "ended"}
    /\ turn \in 1 .. Len(Sensors) /\ passes \in 0 .. MaxPasses /\ builds \in 0 .. MaxPasses + 1
    /\ loop \in {"built", "ready", "sensing", "taken"} => DOMAIN numbers = Rows \X Columns

\* The rows are those of the structure, and after them the sensors' own.
Shows(structure) ==
    /\ Len(structure) <= Len(entities)
    /\ \A row \in Rows : IF row <= Len(structure) THEN entities[row] = structure[row]
                          ELSE entities[row][1] \in {"zone", "domain"}

\* schema.rs:33-34: "`Observed` cells carry a real number; every other code
\* means the value is `NaN` and says why", and reflector.rs:23-26: what a sensor
\* could not read this time is a hole and never what it read last time, save the
\* count of idle states, which is not read again.
NothingStale ==
    \A c \in DOMAIN numbers :
        /\ reasons[c] = "observed" <=> numbers[c] # Hole
        /\ numbers[c] # Hole => numbers[c].pass = passes \/ channels[c[2]].key = "idle.states"

\* A number in the row of a CPU is of that CPU, whatever came and went while the
\* sensors were bound and read, except where columns are known by position; a
\* column belongs to a sensor that is bound.
NothingMisplaced ==
    /\ \A c \in DOMAIN numbers :
        /\ numbers[c] # Hole /\ entities[c[1]][1] = "cpu" /\ channels[c[2]].key # "interrupts"
            => numbers[c].of = entities[c[1]]
        /\ \E n \in DOMAIN reports :
            reports[n].sensor = channels[c[2]].sensor /\ ~reports[n].inactive
    /\ \A m, n \in Columns : channels[m].key = channels[n].key => m = n

\* A reflector that was built on a machine that stood still, and stands still,
\* shows it as it is.
TrueWhenUndisturbed ==
    ~disturbed =>
        /\ Shows(Entities(Actual)) /\ relations = Relations(Actual)
        /\ \A c \in DOMAIN numbers : numbers[c] # Hole => numbers[c].of = entities[c[1]]

\* A change before the last look at the shape has reached the rows.
CaughtUp == sure => Shows(Entities(Actual))

\* Whenever there is a reflector that is not being replaced.
ReflectionIsHonest ==
    loop \in {"binding", "built", "ready", "sensing", "taken"} =>
        NothingStale /\ NothingMisplaced /\ TrueWhenUndisturbed /\ CaughtUp

\* reflector.rs:269-270: "do not claim the machine changed: a spurious epoch
\* bump discards every consumer's cached indices".  A machine that has not
\* changed is not bound to again.
RebuiltForAReason == changes = 0 => builds <= 1

\* observation/mod.rs:35: "A sensor that cannot read something records **why**".
HolesSayWhy ==
    loop = "taken" =>
        \A n \in DOMAIN reports : \A t \in bound[reports[n].sensor] : \A column \in Columns :
            channels[column].sensor = reports[n].sensor => reasons[<<t.row, column>>] # "none claims it"

\* interrupts.rs:102-105: "a machine whose CPU columns are sparse (after
\* offlining) is handled correctly".
ColumnsAreOfTheirCpu ==
    loop = "taken" =>
        \A c \in DOMAIN numbers :
            channels[c[2]].key = "interrupts" /\ numbers[c] # Hole => numbers[c].of = entities[c[1]]

\* discovery.rs:102-105: containment and siblinghood "do not change while the set
\* of online CPUs is unchanged"; a machine looked at while it stood still is
\* related as its rows say.
RelationsCaughtUp == loop = "taken" /\ sure => relations = Relations(Actual)
=============================================================================
