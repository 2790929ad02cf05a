-------------------------------- MODULE Bench --------------------------------
(***************************************************************************)
(* The measurements of the laboratory: the benchmark of every core         *)
(* (experiment/src/benchmarks/mod.rs), the profile it leaves behind        *)
(* (analysis/src/profile_cache.rs), and the comparison of placements that  *)
(* takes one of its policies from that profile (experiment/src/harness.rs  *)
(* and baselines.rs; apps/corescout/src/commands/perturb.rs).              *)
(*                                                                         *)
(* Every command is a process with the CPUs it was given, and measures by  *)
(* moving its own thread about.  What a workload costs is left out.        *)
(***************************************************************************)
EXTENDS Integers, SequencesExt, FiniteSetsExt

CONSTANTS
    Process,           \* commands started, two of which may overlap
    Cpu,               \* numbers of logical CPUs
    Rounds,            \* RunConfig::rounds, HarnessConfig::repetitions
    MaxCommands        \* bound: commands in a behaviour

ASSUME BenchAssumption == Rounds \in Nat /\ Cpu \subseteq Nat

VARIABLES
    permitted,         \* the affinity each process was started with
    mask,              \* the affinity of its thread now
    work,              \* what it is doing
    temporary,         \* the file path.json.tmp: the inode it names, or 0
    profile,           \* the profile: the inode it names, or 0
    inode,             \* what each inode holds: the CPU ranked first, or 0 if
                       \* the text is not all there
    started            \* commands started

benchVars == <<permitted, mask, work, temporary, profile, inode, started>>

Idle_ == [does |-> "nothing"]

\* Baseline::all_static, in its order.
Policies == <<"scheduler", "first", "preferred", "ranking", "utilization", "random">>

BenchInit ==
    /\ permitted \in [Process -> (SUBSET Cpu) \ {{}}]
    /\ mask = permitted /\ work = [p \in Process |-> Idle_]
    /\ temporary = 0 /\ profile = 0 /\ inode = <<>> /\ started = 0

Does(p, what) == work[p].does = what
Become(p, w) == work' = [work EXCEPT ![p] = w]

\* set_current_thread_affinity.
Pin(p, cpus) == mask' = [mask EXCEPT ![p] = cpus]

-----------------------------------------------------------------------------
(* corescout benchmark.                                                    *)

\* Runner::run: every CPU in reach is a target.
StartBenchmark(p) ==
    /\ Does(p, "nothing") /\ started < MaxCommands /\ started' = started + 1
    /\ Become(p, [does |-> "benchmark", original |-> mask[p], round |-> 1,
                  left |-> permitted[p]])
    /\ UNCHANGED <<permitted, mask, temporary, profile, inode>>

\* run_inner and visit: in each round, every target once, in an order of its own.
VisitCore(p) ==
    /\ Does(p, "benchmark") /\ work[p].left # {}
    /\ \E cpu \in work[p].left :
        LET left == work[p].left \ {cpu}
            next == left = {} /\ work[p].round < Rounds
        IN  /\ Pin(p, {cpu})
            /\ Become(p, [work[p] EXCEPT !.left = IF next THEN permitted[p] ELSE left,
                                         !.round = IF next THEN @ + 1 ELSE @])
    /\ UNCHANGED <<permitted, temporary, profile, inode, started>>

\* The affinity is restored, and the core that did best is known.
EndBenchmark(p) ==
    /\ Does(p, "benchmark") /\ work[p].left = {}
    /\ Pin(p, work[p].original)
    /\ \E best \in permitted[p] : Become(p, [does |-> "analysis", best |-> best])
    /\ UNCHANGED <<permitted, temporary, profile, inode, started>>

\* A visit fails (the CPU went away); the affinity is restored all the same.
BenchmarkFails(p) ==
    /\ Does(p, "benchmark") /\ Pin(p, work[p].original) /\ Become(p, Idle_)
    /\ UNCHANGED <<permitted, temporary, profile, inode, started>>

\* profile_cache::save: fs::write makes the temporary file, or empties the one
\* there is, ...
OpenTemporary(p) ==
    /\ Does(p, "analysis")
    /\ LET new == temporary = 0
           at == IF new THEN Len(inode) + 1 ELSE temporary
       IN  /\ inode' = IF new THEN Append(inode, 0) ELSE [inode EXCEPT ![at] = 0]
           /\ temporary' = at
           /\ Become(p, [does |-> "writing", best |-> work[p].best, at |-> at])
    /\ UNCHANGED <<permitted, mask, profile, started>>

\* ... fills it, wherever it is by now, ...
FillTemporary(p) ==
    /\ Does(p, "writing")
    /\ inode' = [inode EXCEPT ![work[p].at] = work[p].best]
    /\ Become(p, [does |-> "renaming"])
    /\ UNCHANGED <<permitted, mask, temporary, profile, started>>

\* ... and renames whatever has the name, if anything still has.
RenameTemporary(p) ==
    /\ Does(p, "renaming") /\ Become(p, Idle_)
    /\ profile' = IF temporary = 0 THEN profile ELSE temporary
    /\ temporary' = 0
    /\ UNCHANGED <<permitted, mask, inode, started>>

-----------------------------------------------------------------------------
(* corescout experiment --compare.                                         *)

\* profile_cache::load: what cannot be read is a miss.
Ranking == IF profile = 0 \/ inode[profile] = 0 THEN {} ELSE {inode[profile]}

DecidePlacementMutant(policy, cpus, ranking, random) == \* the ranked CPU, permitted or not
    CASE policy = "first" -> {Min(cpus)}
      [] policy = "random" -> {random}
      [] policy = "ranking" -> ranking
      [] OTHER -> {}

\* baselines::decide: where a policy puts the work, {} for nowhere in particular.
\* There is no snapshot for the two policies that need one.
DecidePlacement(policy, cpus, ranking, random) ==
    CASE policy = "first" -> {Min(cpus)}
      [] policy = "random" -> {random}
      [] policy = "ranking" -> ranking \cap cpus
      [] OTHER -> {}

\* The ranking is read and the placements are fixed before anything is measured.
StartComparison(p) ==
    /\ Does(p, "nothing") /\ started < MaxCommands /\ started' = started + 1
    /\ \E random \in permitted[p] :
        Become(p, [does |-> "compare", round |-> 0, index |-> 0, runs |-> <<>>,
                   placements |-> [n \in DOMAIN Policies |->
                        DecidePlacement(Policies[n], permitted[p], Ranking, random)]])
    /\ UNCHANGED <<permitted, mask, temporary, profile, inode>>

\* The order of a round starts one policy further than that of the last.
Visited(round, index) == ((index + round) % Len(Policies)) + 1

\* Harness::measure: a placement that names CPUs moves the thread there; the
\* others leave it where it is.
MeasurePolicy(p) ==
    /\ Does(p, "compare") /\ work[p].round < Rounds
    /\ LET w == work[p]
           n == Visited(w.round, w.index)
           on == IF w.placements[n] = {} THEN mask[p] ELSE w.placements[n]
           last == w.index + 1 = Len(Policies)
       IN  /\ Pin(p, on)
           /\ Become(p, [w EXCEPT !.runs = Append(@, [policy |-> n, on |-> on]),
                                  !.index = IF last THEN 0 ELSE @ + 1,
                                  !.round = IF last THEN @ + 1 ELSE @])
    /\ UNCHANGED <<permitted, temporary, profile, inode, started>>

\* Every round done: the thread is given all its CPUs back.
EndComparison(p) ==
    /\ Does(p, "compare") /\ work[p].round = Rounds
    /\ Pin(p, permitted[p])
    /\ Become(p, [does |-> "report", runs |-> work[p].runs, placements |-> work[p].placements])
    /\ UNCHANGED <<permitted, temporary, profile, inode, started>>

\* A CPU went away: the error ends the command.
ComparisonFails(p) ==
    /\ Does(p, "compare") /\ Become(p, Idle_) /\ Pin(p, permitted[p])
    /\ UNCHANGED <<permitted, temporary, profile, inode, started>>

PrintReport(p) ==
    /\ Does(p, "report") /\ Become(p, Idle_)
    /\ UNCHANGED <<permitted, mask, temporary, profile, inode, started>>

BenchNext ==
    \E p \in Process :
        \/ StartBenchmark(p) \/ VisitCore(p) \/ EndBenchmark(p) \/ BenchmarkFails(p)
        \/ OpenTemporary(p) \/ FillTemporary(p) \/ RenameTemporary(p)
        \/ StartComparison(p) \/ MeasurePolicy(p) \/ EndComparison(p) \/ ComparisonFails(p)
        \/ PrintReport(p)

BenchSpec == BenchInit /\ [][BenchNext]_benchVars

-----------------------------------------------------------------------------
(* Properties.                                                             *)

BenchTypeOK ==
    /\ \A p \in Process : mask[p] # {} /\ permitted[p] \subseteq Cpu
    /\ temporary \in 0 .. Len(inode) /\ profile \in 0 .. Len(inode)

\* harness.rs:498: every policy is visited in every round; baselines.rs:126-127:
\* "a baseline never escapes" the CPUs permitted to it, whichever process
\* computed the ranking.  What a report rests on is the same number of runs of
\* every policy, those with a placement all on it, and all within bounds; and the
\* thread is as it was found.
ReportsAreComparable ==
    \A p \in Process : Does(p, "report") =>
        /\ mask[p] = permitted[p]
        /\ \A n \in DOMAIN Policies :
            LET runs == work[p].runs
                mine == {i \in DOMAIN runs : runs[i].policy = n}
            IN  /\ Cardinality(mine) = Rounds
                /\ \A i \in mine :
                    /\ runs[i].on \subseteq permitted[p]
                    /\ work[p].placements[n] # {} => runs[i].on = work[p].placements[n]

\* baselines.rs:30: "Set no affinity at all. The operating system decides."
FreeRunsAreFree ==
    \A p \in Process : Does(p, "report") =>
        \A i \in DOMAIN work[p].runs :
            work[p].placements[work[p].runs[i].policy] = {} => work[p].runs[i].on = permitted[p]

\* harness.rs:498-499: "so no policy systematically inherits another's thermal
\* wake".  No two policies follow each other in every round.
WakesDiffer ==
    \A p \in Process : Does(p, "report") =>
        \A n, m \in DOMAIN Policies :
            Rounds > 1 =>
                \E r \in 0 .. Rounds - 1 :
                    ~ \E i \in 1 .. Len(Policies) - 1 :
                        /\ work[p].runs[r * Len(Policies) + i].policy = n
                        /\ work[p].runs[r * Len(Policies) + i + 1].policy = m

\* profile_cache.rs:76-77: "so a profile is never observed half-written".
ProfileIsWhole == profile # 0 => inode[profile] # 0
=============================================================================
