------------------------------ MODULE Discovery ------------------------------
(***************************************************************************)
(* What the machine is made of, and how that is found out                  *)
(* (substrate/src/platform/linux/sysfs.rs, substrate/src/discovery.rs).    *)
(*                                                                         *)
(* The kernel shows a CPU in many files, which are read one after another  *)
(* while CPUs come and go.  Modelled are the CPUs, the cores and the caches *)
(* of one package; nodes are read the same way, and neither frequencies    *)
(* nor names decide what exists.  A read that fails is in Reflector.tla.   *)
(***************************************************************************)
EXTENDS Sorting, SequencesExt, FiniteSetsExt

CONSTANTS
    CpuNumber,         \* the numbers of the CPUs present
    CoreId,            \* of each CPU the number its core bears
    Zone, NoZone,      \* what may be behind the name thermal_zone0
    Sleeper,           \* sensors whose sources may stop answering
    MaxChanges         \* bound on what happens to the machine

ASSUME MachineAssumption ==
    /\ CpuNumber \subseteq Nat /\ IsFiniteSet(CpuNumber) /\ CoreId \in [CpuNumber -> Nat]
    /\ NoZone \notin Zone /\ MaxChanges \in Nat

VARIABLES
    machine,           \* the CPUs online, the zone, the sources that do not answer
    changes,
    discovery          \* Sysfs::read_topology on its way

discoveryVars == <<machine, changes, discovery>>

Siblings(cpu, online) == {other \in online : CoreId[other] = CoreId[cpu]}

\* A discovery that has asked nobody yet: what is not known of a CPU is that
\* its core bears its own number and that it has the core to itself.
NoDiscovery ==
    [purpose |-> "none", online |-> {}, caches |-> {}, core |-> [cpu \in CpuNumber |-> cpu],
     siblings |-> [cpu \in CpuNumber |-> {cpu}], cacheless |-> << >>, unread |-> << >>]

DiscoveryInit ==
    /\ machine \in [online : {CpuNumber}, zone : Zone \cup {NoZone}, dark : {{}},
                    legible : {TRUE}, privileged : BOOLEAN]
    /\ changes = 0 /\ discovery = NoDiscovery

-----------------------------------------------------------------------------
(* The machine.  Its first CPU does not go offline.                        *)

CpusChange ==
    \E cpu \in CpuNumber \ {Min(CpuNumber)} : machine' = [machine EXCEPT !.online = SymDiff(@, {cpu})]

ZoneChanges ==
    \E zone \in (Zone \cup {NoZone}) \ {machine.zone} : machine' = [machine EXCEPT !.zone = zone]

AnswersChange ==
    \/ \E sensor \in Sleeper : machine' = [machine EXCEPT !.dark = SymDiff(@, {sensor})]
    \/ machine' = [machine EXCEPT !.legible = ~@]

-----------------------------------------------------------------------------
(* Reading the topology.                                                   *)

\* The list of what is online, which says whom to ask about the rest.
ReadLists(purpose) ==
    discovery' = [NoDiscovery EXCEPT
        !.purpose = purpose, !.online = machine.online,
        !.cacheless = Sorted(machine.online), !.unread = Sorted(machine.online)]

\* Sysfs::read_caches: of a CPU that has gone in the meantime there is nothing.
\* A cache is known by the CPUs that share it.
ReadCaches ==
    /\ discovery.cacheless # << >>
    /\ LET cpu == Head(discovery.cacheless)
           shown == IF cpu \in machine.online THEN {Siblings(cpu, machine.online)} ELSE {}
       IN  discovery' = [discovery EXCEPT !.cacheless = Tail(@), !.caches = @ \cup shown]

ReadCpuMutant == \* the number of its core is not read
    /\ discovery.cacheless = << >> /\ discovery.unread # << >>
    /\ LET cpu == Head(discovery.unread)
           read == [discovery EXCEPT !.unread = Tail(@)]
       IN  discovery' = IF cpu \in machine.online
                        THEN [read EXCEPT !.siblings[cpu] = Siblings(cpu, machine.online)]
                        ELSE read

\* Of a CPU that was in the list and has gone, nothing more becomes known.
ReadCpu ==
    /\ discovery.cacheless = << >> /\ discovery.unread # << >>
    /\ LET cpu == Head(discovery.unread)
           read == [discovery EXCEPT !.unread = Tail(@)]
       IN  discovery' = IF cpu \in machine.online
                        THEN [read EXCEPT !.core[cpu] = CoreId[cpu],
                                          !.siblings[cpu] = Siblings(cpu, machine.online)]
                        ELSE read

Discovered(purpose) ==
    discovery.purpose = purpose /\ discovery.cacheless = << >> /\ discovery.unread = << >>

-----------------------------------------------------------------------------
(* Substrate::structure: rows in an order that two runs agree on, and what  *)
(* lies within what.                                                       *)

TheMachine == <<"machine">>
ThePackage == <<"package", 0>>
CoreOf(id) == <<"core", id>>
CpuOf(cpu) == <<"cpu", cpu>>
CacheOf(id) == <<"cache", id>>

\* A cache bears the number of the core its first CPU lies in, or of that CPU
\* if no core is known to have it.
Anchor(t, cache) == IF Min(cache) \in t.online THEN t.core[Min(cache)] ELSE Min(cache)

\* Caches compare as their lists of CPUs do.
CacheBefore(a, b) ==
    /\ a # b
    /\ LET first == Min(SymDiff(a, b))
       IN  IF first \in a THEN \E cpu \in b : cpu > first ELSE \A cpu \in a : cpu < first

SortedCaches(caches) ==
    CHOOSE s \in [1 .. Cardinality(caches) -> caches] :
        \A m, n \in DOMAIN s : m < n => CacheBefore(s[m], s[n])

Entities(t) ==
    LET cores == Sorted({t.core[cpu] : cpu \in t.online})
        cpus == Sorted(t.online)
        caches == SortedCaches(t.caches)
    IN  <<TheMachine, ThePackage>>
        \o [n \in DOMAIN cores |-> CoreOf(cores[n])]
        \o [n \in DOMAIN cpus |-> CpuOf(cpus[n])]
        \o [n \in 1 .. Cardinality(t.caches) |-> CacheOf(Anchor(t, caches[n]))]

\* Between entities that have rows.
Relations(t) ==
    {<<"contains", CoreOf(t.core[cpu]), CpuOf(cpu)>> : cpu \in t.online}
    \cup {<<"sibling", CpuOf(p[1]), CpuOf(p[2])>> :
            p \in {q \in t.online \X t.online : q[1] # q[2] /\ q[2] \in t.siblings[q[1]]}}
    \cup {<<"shares", CacheOf(Anchor(t, p[1])), CpuOf(p[2])>> :
            p \in {q \in t.caches \X t.online : q[2] \in q[1]}}

\* What a discovery that nothing disturbs ends with.
Actual ==
    [online |-> machine.online,
     caches |-> {Siblings(cpu, machine.online) : cpu \in machine.online},
     core |-> [cpu \in CpuNumber |-> IF cpu \in machine.online THEN CoreId[cpu] ELSE cpu],
     siblings |-> [cpu \in CpuNumber |-> IF cpu \in machine.online
                                   THEN Siblings(cpu, machine.online) ELSE {cpu}]]
=============================================================================
