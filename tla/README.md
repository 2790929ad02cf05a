# CoreScout: specifications, model checks and proofs

CoreScout watches the agents that work on a machine, finds out by experiment
what makes their operations fail less often, offers what it found as
*capabilities*, and runs those its user allows. Beside that, a mirror process
publishes what it measures of the machine in shared memory, and a laboratory of
programs learns from those reflections and acts on the machine by itself. This
directory specifies the parts of it where order, failure, time and long
histories decide whether the program is right. Paths below are relative to the
repository.

* `*.tla` without a prefix or suffix are the components, each translated from
  the code it names; `MC*.tla` and `*.cfg` are the instances TLC checks;
  `*Proofs.tla` are the theorems and their TLAPS proofs.
* `PROJECT.json` maps every definition to the lines it models and lists runs,
  mutants, hazards, findings and theorems.

```
tlc -workers 2 -config MCTrials.cfg MCTrials     # a model check
tlapm TrialsProofs.tla                           # the proofs of a component
```

## 1. The system

### Components, their state and what makes them right

| Component | Where | State | Operations | Right when |
|---|---|---|---|---|
| Permissions | `crates/permissions` | mode (`Autonomy`), pause, a grant per capability, the reach granted (folders, commands), the limiter's history and failure streak | rule on a request; edit grants, reach, mode; pause, resume; record a run | nothing runs outside what the user allowed, nor beyond the hourly and daily budget, nor after too many failures in a row |
| Capability runtime | `crates/capability-runtime` | none of its own; an `Outcome` per run | steps, verification, rollback, each perhaps a child process with a timeout | the record agrees with what happened; a run ends |
| Engine | `crates/product-api/src/engine.rs` | all the rest in memory: capabilities, experience, agents, sessions, trials that wait, the latent catalogue, the dirty mark | about forty requests (`api.rs`) | what was answered is stored; what was deleted stays deleted; what was learned is saved |
| Document store | `crates/storage/src/store.rs` | documents by kind and id, an event log | one transaction per put, delete, clear, append | each operation is all or nothing |
| Telemetry ring | `crates/storage/src/ring.rs` | a file of samples and a cursor | push, recent, since, clear | a crash loses at most the sample being written and the oldest |
| Experience | `crates/agent-experience` | failure counts per operation and place, counts of pairs, procedures under test | observe, propose, advise, record | an association is only a reason to experiment; only the experiment supports a claim |
| Causal estimates | `crates/science/src/causal.rs` | two arms per comparison; an exploration budget | decide by belief or coin, record, age, settle | a claim rests on trials the coin decided, and the coin stops at its budget |
| Agent observation | `crates/agent-observation` | sessions, the last action of each | ingest, fingerprint, redact | outcomes are not made better than they were; a retry answers a failure |
| Substrate | `crates/substrate` | the reflector: rows, columns, sensors with what they bound to, the matrices | discover, bind, observe, look whether the shape changed | a number is of what its row names and of this pass; what cannot be read is a hole with a reason |
| Self-state plane | `crates/mirror/src/plane` | a shared region guarded by a sequence counter | lay the region out; publish; open, check the header, read | a read is one snapshot or a refusal, inside what was mapped |
| Mirror daemon, memory | `apps/corescout/src/bin/mirror_daemon.rs`, `crates/memory` | the writer of the plane and its epoch, a buffered recording, a history | publish on a cadence, record, rebuild on a change of shape; attach, poll, replay | nothing recorded is lost but at the seam of a killed session; one history, one machine |
| Service | `apps/corescout-service` | the engine in a mutex; threads for HTTP, observation, persistence and licence | start, serve, stop | it can be found while it runs; no client waits for ever |
| Endpoint, HTTP, client, MCP server | `crates/product-api/src/{endpoint,http,client,hook}.rs`, `crates/mcp-server` | the endpoint file | publish, withdraw, find, call | one service is found, and it is alive |
| Autonomy loop, agency | `crates/autonomy`, `crates/agency` | goals, safeguards, an audit | propose, act, settle, score, revert | the rate holds, the log is true, failures stop it |
| Latent catalogue | `crates/represent` | states, occupancy, a matrix of transitions, a scaling | observe, found, suppress | every reflection is counted for one state |
| Theory | `crates/science/src/theory.rs` | hypotheses and a graveyard | conjecture, test, bury, forget a state | every trial is evidence for exactly one thing |
| Concepts, atlas, lineage | `crates/{concept,capability,lineage}` | concepts with their half-life; edges with their counts; generations with their ledgers | coin, decay, retire, prefer; observe, promote; begin, charge, judge | a preference is causal; chances add up; a gain is paid for |
| Set-up | `crates/product-api/src/setup.rs` | files that belong to somebody else | merge CoreScout's entry in | what others wrote is kept |
| Laboratory | `crates/experiment`, `crates/analysis` | the affinity of a thread, a cached profile | benchmark, rank, compare placements | what is compared is comparable |
| Self model, observer | `crates/{selfmodel,observer,represent}` | a model per cell, what is typical of each | predict, be surprised, observe; group, find regimes | nothing is learned across a hole or graded twice; groups and regimes are what was seen |
| Outcomes, the wrapper and the hook | `crates/product-api/src/hook.rs`, `apps/corescout-cli/src/watch.rs`, `ingest.rs` | the tallies of an operation, the arms of a procedure | classify, report, run, settle | an outcome is what happened, or unknown |
| Numerical library, reports, front ends | `crates/{counterfactual,report,human,...}`, `apps/*` | renderings | numerical or presentation | |

`PROJECT.json` lists all of them with the files they consist of and how far they
are modelled.

### How they interact

Everything a user or an agent asks of the product arrives at `Api::call`
(`api.rs`), which takes **one mutex** around the engine for the length of the
request and, for most requests, ends in `Engine::persist`. Requests therefore
never overlap. What does interleave is

* the clock, child processes and their descendants, and the *wish* of a user
  who is waiting for the mutex, while a run holds it (`run_capability` keeps it
  from the ruling to the record);
* transactions of the store, of which one request makes many: the service can
  die, or one can fail, between any two; and the ring, which is a file of its own;
* agents, whose sessions ask, report, ask again and fall silent in any order
  across requests;
* services that are started by more than one client at a time, their endpoint
  file and their ports, which outlive them;
* calls, whose request or reply may be cut off at any byte while their thread waits;
* requests that set CoreScout up, which take no lock, and the owners of the files;
* the mirror, its readers and its recording, which are separate processes with
  no lock at all;
* the machine, whose CPUs and sensors come and go between the reads of any one
  discovery or pass.

The timer thread persists every 20 seconds whatever no request has written. A
restart loses what is only in memory: the limiter's history, trials that wait,
sessions.

The laboratory programs (the loop, the theory, the concepts, the atlas, the
lineage, the benchmarks) are sequential and own what they use. What is hard
there is not interleaving but length: counts that must go on agreeing through
evictions, refutations, retirements and kernels that do not do as they are told.

### What is hard about it

The hazards are listed in `PROJECT.json` at the line where each bites, with the
properties that would catch them. In short: a ruling given once and relied on
for hours; budgets counted from a trimmed history; pipes and descendants of a
child process; persistence in pieces; forgetting in a dozen transactions while
memory still holds what is forgotten; experiments whose two halves are different
requests; evidence that ages while a budget does not; counts that are evicted
separately; a ring whose slot and cursor are two writes; two services and one
file; a log that forgets and a limit counted from it; a buffer that dies with its
process; offsets cut to 32 bits; a thread left where the last measurement put
it; CPUs that go offline between the file that names them and the file that describes
them; an outcome told by a hook that guesses, an agent that claims and a wrapper
that knows; and a seqlock.

## 2. Modules

| Module | Models | Extends / instantiates |
|---|---|---|
| `Permissions` | `ruling.rs`, `limits.rs`, `authority.rs` as operators: the ruling, the reach, the budget | |
| `Execution` | `Engine::run_capability`, `Runtime::execute/perform/run`, requests that edit permissions, child processes | `Permissions` |
| `AtomicSnapshot` | what the plane promises: an atomic register that may refuse | |
| `Plane` | `writer.rs`, `reader.rs`, word by word; the relaying of the region | `AtomicSnapshot` through a refinement mapping |
| `Layout` | `layout.rs`: where the sections lie, the header and its check, in words of finite width; opening a region that is being laid out | |
| `Lifecycle` | what the engine and its store know of capabilities; every transaction of every request | |
| `Trials` | advice, reports, evidence, budget; forgetting and restarts | |
| `Evidence` | `experience.rs`, `failure.rs`, `environment.rs` as operators on one record | |
| `Observation` | agents, sessions, reports, retries, the environment; how they are saved | `Evidence` |
| `Ring` | `ring.rs`: slots, cursor, the copy of the process | |
| `Catalogue` | `latent.rs` as operators on one record | |
| `Reflections` | the road of a reflection through the engine: scaling, catalogue, ring, event log, store | `Ring`, `Catalogue` |
| `Service` | the service's life, its threads, the endpoint file, and the bridge, desktop and hook that look for it | |
| `Actuators` | scope, rate, apply, confirm, revert, the audit log | |
| `ControlLoop` | the tick: watchdog, policy, action, outcome; the program around it | `Actuators` |
| `Theory` | conjecture, test, burial, eviction, forgetting of states | |
| `Concepts` | the registry of concepts, the policy conditioned on them, the loop of the two | |
| `Atlas` | affordances, their counts, promotion to capabilities | |
| `Lineage` | generations, what each inherits, verdicts | |
| `Exchange` | what an AI asks and is told: `server.rs` of the bridge, `client.rs`, `http.rs`, and how a thread waits for the engine | |
| `Setup` | set-ups, owners and their files | |
| `MCRequests` | composes `Lifecycle`, `Exchange` and `Setup` | |
| `Mirror` | the daemon, the two roads of its reflections, the history at the end | |
| `Discovery` | `sysfs.rs`, `discovery.rs`: the topology, one CPU at a time, and the rows and relations made of it | |
| `Reflector` | `reflector.rs`, `observation/*.rs`, `observe_loop`: binding, passes, the look at the shape | `Discovery` |
| `Bench` | benchmark, cached profile, comparison of placements | |
| `MCMachine` | composes `ControlLoop` and `Reflections` | |
| `Outcome` | an outcome from the process or the agent to the tallies and the arms: hook, agent, wrapper | |
| `Forecast` | the self model of a loop, and the surprise taken from it | |
| `Regimes` | single linkage of what is alike; k-means of the regimes | |
| `MCStandalone` | composes the eleven parts that keep their state to themselves | |
| `SumTheorems` | what sums over finite sets are, for the proofs below | |
| `Sorting` | a set of numbers as the list that names them in order; `Discovery` and `Mirror` extend it | |
| `ExecutionProofs`, `TrialsProofs` | the proofs of the module of that name | that module |
| `DaemonProofs` | proofs | `Service`, `Reflector`, `Mirror`, `Regimes`, `SumTheorems` |
| `RequestsProofs` | proofs | `Lifecycle`, `Setup`, `Exchange`, `SumTheorems` |
| `ObservationProofs` | proofs | `Observation`, `SumTheorems` |
| `MachineProofs` | proofs | `ControlLoop`, `Reflections`, `SumTheorems` |
| `StandaloneProofs` | proofs | `Plane`, `Layout`, `Bench`, `Concepts`, `Outcome`, `Lineage`, `Theory`, `Atlas`, `Forecast`, `SumTheorems` |

Modules that share no state are composed by letting each behaviour exercise one
of them (`part`, chosen at the start): their steps commute, so an interleaving
shows nothing that one of them alone does not.

### Execution (with Permissions)

`stage` says how far `execute` has got and is also the mutex: "idle" when it is
free, so every request that edits permissions has the guard `stage = "idle"`.
`StartRun` is the whole of the ruling; `Begin`, `SpawnFails`, `Wakes`,
`TimesOut` and `Collect` are `perform` and `run`; `FinishRun` is the record, the
limiter and `persist`. The program of a step is an actor of its own: it writes to a
pipe that holds `PipeSize`, exits, and may leave a descendant that has inherited
the pipe (`held`). The code looks at its deadline only while the program runs,
and reads the pipes to their end afterwards; both are as they are in the model.
`Permissions` keeps the order in which `rule` asks its questions, because the
order decides which of two refusals wins and whether a grant is looked at. How
paths are compared is a constant (`Covers`).

### Plane and Layout

In `Plane` every load and store of a word is a step. A word holds the number of
the snapshot it was written for, so that a view is *whole* when all its words
carry one number. The buffers are double, the header and the sensor records are
not. Accesses between two accesses of the counter happen in any order. Whether
the copy is complete before the second load of the counter is a constant
(`LoadsInOrder`), because the code does not say it (divergence 4). `SpecWithRebuild`
adds `PlaneWriter::new` on a region that readers have mapped.

`Layout` has what `Plane` takes for granted: offsets computed in machine words
and stored in words that count to `WordRange`, a file sized, cleared, and filled
table by table, and a reader that maps it, reads the header in two steps and
then the tables, at any time. `Accepts` is the check of the header.

### Lifecycle

One variable in memory and one in the store for each of: the capabilities, the
evidence, the decisions, the pause, the counts. `doing` is the transaction the
current request is at. A request changes memory in one step, then its
transactions follow one at a time, any of which may be the last, by an error
(`WriteFails`) or by the death of the service (`Restart`). `ForgetEverything` is
the series clear - clear - reset - clear - persist, in the order of the code;
`ForgetActivity` clears what is stored of activity, and `ForgetLearned` then forgets the
evidence in memory and persists.
`Reflections` and `Observation` follow the same scheme for the documents that are
theirs.

### Trials

`Advise` hands out a trial for the first procedure that fits, by belief or by
coin, and does not write; `AgentObserve` settles the trial that waits under the
session and the operation, creates the procedures the new count supports, and
writes. Belief and coin are free choices, which include every one the code can
make. Weights are integers: a trial weighs `Unit`, and a weight of `Unit` is
`Kept` after another trial; rounding is down. The code uses floats, `Unit` = 1
and `Kept` = 0.995. A procedure that was forgotten while a trial of it waited,
was proposed again and then received that trial is `tainted`: `Engine::forget`
does not clear the trials that wait, and the two counting properties say nothing
about such a procedure. Advice changes the evidence without setting the dirty mark
(`engine.rs:825`); that is here, where a restart loses it, and not in `Observation`.

### Observation and Evidence

`Evidence` is one document as a record of functions; each method of `Experience`
and `Environment` is an operator from record to record, eviction included.
`Observation` is the requests of agents: the handshake, reports with the time the
action began, goodbyes, the paths that are missing, forgetting. `lost` is a ghost:
pairs evicted while their operation stayed, which is what falsifies `Separated`.

### Reflections, Ring and Catalogue

A sample of the ring is the number of its push. `push` is three steps, because
the slot, the copy in memory and the cursor change at different moments; `intended`
and `behind` are ghosts. A reflection goes through scaling, catalogue, ring, trail,
in the order of `record_reflection`; a fit of the scaling is a number, so that two
fits can be told apart. The event log has the numbers of its first and last event
and the one start-up found. The catalogue keeps positions and ids apart, as the
code does.

### Service

`stage` is how far a service has got, from the store it opens (which one process
can hold) to the file it withdraws; an endpoint is the service that wrote it, and
its port may pass to another. `engine` is who has the turn: a thread or a request.
`served` is a ghost: which services have come to serve, also those that died since.
The bridge, the desktop and the hook are clients with the deadlines of the code.

### ControlLoop and Actuators

A call of `ControlLoop::tick` is one action, `LoopTick`; the program around it
leaves, reverts, or fails to read. Its models are a choice: which
candidates look worth acting on, whether the objective improved, whether the
tick overran; only what `EffectModel` counts is kept, because it decides whether
anything may be predicted at all. The kernel refuses, does something else, or does
not tell. A process may end, and its number be given to another, which has whatever
settings it has; registrations and the log go by the number. `done` is a ghost: what
really changed, with its time, when the log has forgotten; `ended`: the settings that are
no longer those of the process they were made for.

### Theory, Concepts, Atlas, Lineage

One action per public operation of the code. Data that only rank (utilities,
costs) are small numbers or choices; what is counted is counted exactly. In
`Concepts` a review is a sequence of steps, one per state in turn, that ends with the
audit and what the loop does about the concepts it retired.

### Exchange

A line is its kind, a request or a reply is the pieces of it that have arrived; a
call is known by its line and, in a handshake, by which of the two calls it is. The
bridge, the connection and the thread that serves it end independently: a thread
whose client has gone waits for the engine all the same, and performs the call.
`performed` is a ghost, how often each call was. `Service` says how a service is
found; here each bridge has one or has none.

### Setup, Mirror, Bench

A set-up is read, merged, emptied and filled, with owners and another set-up in
between; `wanted` is a ghost, what the owner last put there. In `Mirror` a recorder's
line and its end are handed to the buffer separately, and the buffer reaches the
file in any prefix. In `Bench` a process moves its own thread about; `mask` is where
it is.

### Discovery, Reflector

`machine` is what the kernel would show: the CPUs online, what is behind the name of
the first thermal zone, which sources do not answer, whether the lists can be read and
what the process may open. It changes between any two steps, and a step asks about one
CPU, binds one sensor, or is one sensor's part of a pass. A number is what it was read
of and in which pass, so that a property can ask whether it belongs where it stands. A
sensor that reads files of a CPU, one that finds lines by their number and one that
finds columns by their position are operators of their own, because they go wrong in
different ways. A discovery may fail as a whole, when a list of siblings cannot be read
(`DiscoveryFails`): a look at the shape then answers no, a build ends the program.
Domains and chips that bear one name, and so share a row, are left out.
`disturbed` and `sure` are ghosts: whether anything changed since the
reflector was built, and since the last look at the shape. `Mirror` takes from here
what a look at the shape answers (`ShapeHasChanged`): where sensors have declared rows
of their own it is always yes.

### Outcome, Forecast, Regimes

`Outcome` follows an outcome from the one who knows it (a process that ends with a
code or by a signal, an agent that says what it likes) through `classify` and
`to_raw` of the hook or through the wrapper to `Ingest::observe`, the counts of the
operation and the arm of the trial. `running` holds what really happened; what is
believed is compared with it.

In `Forecast` a number is represented by where it comes from: a change by the two
reflections it lies between, a fit by its pairs of changes, an error by the
reflection that showed it and what the prediction rested on. So a property can ask
whether a number may be what the code takes it for, whatever its value.

`Regimes` is two algorithms of the observer, step by step. Which pairs are alike is
given (correlations are not computed); a frame is a vector, in units in which every
mean is whole, and which frames there may be is a constant (`Experiences`).

## 3. What is checked

Each property of a passing run has a mutant: a change a plausible bug would make
to a mapped definition, under which TLC finds the property violated. The type
invariants of `Plane`, `Lifecycle`, `Execution`, `Trials` and `Service` are theorems
(section 4) and are not checked again; elsewhere what is more than a type is part of the
properties, and the plain invariants are stated with each module (`MCStandalone!TypeOK`
collects them) without a run of their own.

| Run | Instance | Properties |
|---|---|---|
| `execution` | two capabilities, one as `promote` makes them and one with a rollback of two operations and more output than a pipe holds; one folder on the floor list inside one that can be granted; hourly limit 2, daily 3, streak 2, clock to 4 with hour 1 and day 2 | `WithinBudget`, `StreakStops`, `RunWithinPermissions`, `RecordIsSound`, `RunEnds` |
| `plane` | one reader, two words per buffer, two single words, three snapshots, two retries | `ViewIsWhole`, `ImplementsSnapshot`, `ReadEnds` |
| `requests` | *lifecycle*: two capabilities, one run counted for each. *exchange*: two AIs, two lines between them. *set-up*: two files, two set-ups, two edits, one failure | `AnsweredIsStored`, `GoneStaysGone`, `ForgottenLeavesNoEvidence`, `AnswersAreTrue`, `LossHasACause` |
| `trials` | two procedures that share an operation in different places, two trials of each arm to settle, a trial that weighs 10 and 9 after the next one, a budget of six. *sessions*: two of them, advice bounded at three and one, one failed write. *settling*: advice up to seven, a trial at a time | `EvidenceIsBacked`, `RandomisationIsPaid`, `CausalClaimsAreRandomised` |
| `observation` | one agent and the bridge's own, one session, two operations in two places, ceilings of two operations and one pair, three actions, two instants, one failed write or crash | `CountsNest`, `RetriesAreBacked`, `CleanIsStored` |
| `machine` | *loop*: one process beside the loop's own, two placements, one action per minute of one tick, two ticks between two changes of one target, a log of two, two failures, two regressions or one overrun to stop, four ticks, three instants, processes that end and numbers that are used again, effects that take two trials or none. *reflections*: a ring of two slots, two states, a scaling of one row, one event, three pushes, two fits, a failure or crash at any write | `RateHolds`, `AuditIsTrue`, `FailuresStopTheLoop`, `OnlyHeldOnEffects`, `ReflectionsCounted`, `SavedWhenClean`, `RingLosesOnlyTheOldest` |
| `service` | two processes, one port, one thread, one crash, two calls; bridge, desktop and hook | `Discoverable`, `AliveMeansServed`, `ClientsSettle` |
| `standalone` | eleven parts, bounds below | `TrialsAccountedFor`, `PreferencesAreCausal`, `ChancesAddUp`, `ImprovementIsPaidFor`, `LossesAreAtTheSeams`, `OpenedIsSound`, `ReportsAreComparable`, `NeverMadeBetter`, `ForecastIsHonest`, `StructureIsSound`, `ReflectionIsHonest` |

What they say:

* `CountsNest`: the counts of a pair are part of those of its operation, in
  memory and in the store, through evictions of either; so the two sides of a
  comparison add up and no subtraction saturates.
* `RetriesAreBacked`: a retry answers a failure that no other retry answers, though
  reports arrive late and a restart forgets what was last.
* `CleanIsStored`, `SavedWhenClean`: an engine with nothing to save has saved it,
  after writes that failed half way and requests that change three documents.
* `RingLosesOnlyTheOldest`: a process that dies costs the sample it was writing and, once
  the ring has wrapped, the oldest; each push whose cursor was not written one more of the
  oldest. What is newer is what was pushed, in order. Comments promise more (divergence 21).
* `ReflectionsCounted`: each reflection is counted for one state, and a state was
  entered as often as there are transitions into it, and once more if it came first.
* `RateHolds` is about what the machine suffered (`done`), not about the log the
  limit is counted from; `AuditIsTrue` is about what the kernel has in force, until the
  process ends: one that is given its number has settings of its own (divergence 22).
* `FailuresStopTheLoop`: after that many failures in a row, whatever was held
  between them, nothing is performed (a change, also one that is unconfirmed, starts the
  count afresh; the run's log of two has room for the failures alone, and holds between
  them are left to the theorem). `OnlyHeldOnEffects`: a loop
  that has effects only to predict with never acts. An effect is learned from an
  action, an action is taken on a prediction, and a prediction takes two trials.
* `Discoverable`: while a service runs, the file leads to it, whatever others that
  lost the race for the store or died did to the file, but for what the desktop
  removes when it quits. `AliveMeansServed`: a client that has found somebody alive holds
  the endpoint of a service that has served, or of a dead one whose port was given to one
  that has (divergence 23). `ClientsSettle`: the bridge, each call and each hook come to an end.
* `TrialsAccountedFor`: the trials of living, buried and evicted hypotheses are all
  that were ever made; no evidence is kept twice or lent to a successor.
* `PreferencesAreCausal`: as long as a preference stands, both arms of its comparison
  have their randomised trials, two of each here, through review, decay, displacement and
  retirement. Trials keep their weight in this run; that they age is in `trials`, and in
  the theorem.
* `ChancesAddUp`: the edges out of one state by one action count the same attempts,
  and each attempt one arrival, in whatever order the outcomes were found.
* `ImprovementIsPaidFor`: a generation owes what all before it spent on search, once;
  what is called improving has paid.
* `AnswersAreTrue`: an AI is told one thing for each line that wants an answer, in
  their order; what is told as done was done once, what is told as failed at most once,
  whoever was killed, died or had waited too long; and nothing is done that was not
  asked for to the last byte.
* `LossHasACause`: a set-up loses what others wrote only to the causes its comment
  names. `LossesAreAtTheSeams`: a recording loses the end of a session that was
  killed and the first line after it, no more, and keeps its order.
* `OpenedIsSound`: a reader that took the header reads inside what it mapped, and
  a whole header whose numbers have wrapped is refused.
* `ReportsAreComparable`: a report rests on the same number of runs of each policy,
  those with a placement on it, all within the CPUs of the process, though the
  profile it ranks by may be of a process with others. What it says of policies without a
  placement is another matter (divergence 14).
* `NeverMadeBetter`: whichever of the hook, the agent and the wrapper tells of an
  outcome, in its code, its word or its check, a failure that was told is counted once in
  each tally, and no success is counted that nobody told. Left out is an agent that claims
  a success and gives a code that is not zero: its word is taken (divergence 16).
* `ForecastIsHonest`: a coefficient is fitted to changes between neighbouring
  reflections of one machine, never across a hole; a prediction is graded once, by
  the next reflection, and has learned from none but those before.
* `StructureIsSound`: groups are the chains of what is alike, whatever the order of
  the comparisons; regimes have settled when the passes end, unless they were as many as
  there may be, and none is born empty. One may be empty in the end (divergence 24).
* `ReflectionIsHonest`: a cell holds a number exactly when it says it was observed, and
  the number is of this pass; a number in the row of a CPU is of that CPU, however CPUs
  came and went during the discovery, the binding and the passes; on a machine that
  stood still since the reflector was built all rows, relations and numbers are right;
  a change before the last look at the shape has reached the rows.

**Why the bounds are enough.** *Execution*: the window is two ticks of the
clock, so a clock of four has runs before, at and beyond its far edge (a history long enough
to be trimmed is left to the theorem `BudgetHolds`); two
capabilities are what it takes for one to be revoked while the other runs; a
pipe of one unit is full after one write. *Plane*: readers do not write, so they
do not disturb one another and one is as good as many; three publications
use each buffer twice, which is what makes a slow reader dangerous. *Lifecycle*:
capabilities interact only through forgetting and the loop that writes them, and
two are enough for a crash to fall between them. *Exchange*: two bridges are
what it takes for one call to wait while another has the engine; two lines of one bridge
are what it takes for an answer to go astray. *Trials*: the two procedures
have different places but one key, so a trial can be settled from elsewhere; two
sessions hold two trials at once. For a comparison to settle takes three randomised trials
of each arm, because two have aged by the time the other arm has as many, and so the whole
budget; the seventh advice finds it spent, and the trial it hands out ages the evidence out
of being settled. Six trials of one comparison whose reports also cross those of another
session are out of reach, which is why the two are parts. *Observation*: sessions share
only the maps, which three actions take past both ceilings; two instants tell a
retry inside its window from one outside. *Machine*: three pushes wrap a ring of
two slots; the third reflection finds a catalogue of two states full; four ticks are longer
than a minute and than a streak, and a log of two has forgotten an entry before the rate is
looked at for the last time. *Service*: one port is what it takes for a second service to answer under the first one's
endpoint. *Standalone*: two hypotheses may be open and three claims exist, so that
one is displaced; a budget of six trials runs out, and each arm needs two of them; three attempts find two
outcomes in either order and repeat one; three generations are the least in which
a search could be charged twice; two starts of
the daemon and three reflections make one seam, and a history of two drops
one; `WordRange` is 1344, so that the shapes reach planes that fit, that wrap into
nonsense, and that wrap into a file of a plausible length; two rounds of six
policies on two CPUs, and two commands that share one cached profile; three
reports, so that each of the three roads follows each; six reflections are what it
takes to be surprised by the second machine; four items, whose sixty-four relations
have chains as long as any; for three regimes, four frames anywhere on a grid of nine points,
and nine frames that take five passes to settle and empty a regime on the way.
*Reflector*: of three CPUs two share a core and a cache, so that one of them may go and leave the other, or both but the first; two
changes let a CPU go and come back, one of them within a discovery and one within a
pass; two passes tell a stale number from a fresh one. In `Mirror`, `SensorRows` is TRUE,
under which any start may be rebuilt, those of FALSE included. Each counter
that would grow without end has a bound, a constant named `Max...`, in a guard.
All 37 of the safety properties that are checked are theorems for any value of the
constants (section 4), which is the real answer.

**Fairness.** `RunEnds` is checked under weak fairness of `RuntimeStep`: the
thread inside `execute` keeps going and its deadline passes. That is all the code
gives. It is not enough (divergence 1), so `execution` assumes also that a
descendant lets go of the pipe in the end (`CooperativeSpec`); the run shows that
nothing else can keep a run from ending, and its safety properties do not rest on it. `ReadEnds` assumes that a reader inside
`read_state` keeps running and nothing about the writer, which may die anywhere.
`ClientsSettle` assumes that a process that runs takes its steps, that a thread ends
its turn (the one that asks the Store: that the Store answers), and, strongly, that a
client that again and again gets the chance to look at its deadline, or at the
engine between the turns of threads that sleep between them, takes it. Nobody is
assumed to start, serve, quit or crash. Safety properties assume no fairness. No
liveness is asked of requests: nobody is obliged to make one.

**Deadlock** is checked in `execution`, `plane`,
`trials` and `observation`. In `requests`, `service`, `machine` and `standalone` behaviours end
because the program does (a loop leaves, processes are dead) or because a bound
is reached, so the check is off.

### Where the code and its documents disagree

Four runs TLC must refute, each on what a comment states:

* `setup_blind` (`setup.rs:15-17`, "only after the existing file has been parsed
  successfully"): a file that cannot be read as text is taken for an empty one and
  replaced.
* `lifecycle_approval` (`engine.rs:897`, a promoted capability "arrives
  unapproved"): grants survive forgetting everything, and ids are stable.
* `outcome_lost` (`watch.rs:129`, "Returns the child's own exit code"; its test at
  `watch.rs:394`, "a failure must survive the wrapper"): a process killed by a signal
  has no code, which becomes -1, which is clamped to 0. Every other code becomes 1
  (`corescout-cli/src/main.rs:525`).
* `reflector_rebuilt` (`reflector.rs:269-270`, "a spurious epoch bump discards every
  consumer's cached indices"): the look at the shape compares what it discovers with a
  list to which the sensors have added rows, so that with a thermal zone or a power
  domain it finds a change every time, and the reflector is built again before every pass.

The modules state more such sentences as properties. TLC refutes each of these,
with the constants of the run of its module unless said:

1. `Execution!RunEnds` under `FairSpec`: "A step that hangs is killed and
   reported" (`docs/SECURITY.md`). A program that exits while a descendant keeps its
   pipe is waited on without end.
2. `Execution!PauseIsImmediate`: "Pause ... stops everything immediately"
   (`README.md`). Pause waits for the run that holds the mutex, and the run never looks.
3. `Execution!WithdrawnStaysOff`: approval withdrawn, "it will not run until you
   approve it again" (`engine.rs`). In Assist the decision is not looked at.
4. `Plane!ViewIsWhole` where `LoadsInOrder` is FALSE: an acquire load is said to order
   what precedes it (`reader.rs`). Harmless on x86-64 as long as the compiler keeps
   the order too.
5. `Plane!ViewIsWhole` of `SpecWithRebuild`: "any read that overlapped a write is
   detected" (`memory.rs`). Laying the region out again resets the counter.
6. `Layout!CachedTablesHold` (`layout.rs:32-34`) and `Layout!MappingHolds`: a
   relaid region keeps its epoch, and a file that was cut short faults its readers.
7. `Trials!ExplorationResumes`, in the *settling* part of `trials`: as evidence ages, "exploration resumes on its own"
   (`causal.rs`). Not once the budget is spent: ageing goes on with every trial and
   nothing can renew the evidence.
8. `Observation!ForgottenActivityIsGone` ("everything CoreScout knew about your AI
   activity was deleted", `engine.rs`): the agents stay in memory, and persist saves
   them again. `Observation!RatesAreOfTheirSide`: once a pair was
   evicted, actions that had the precursor count for the other side.
9. `Reflections!ScalesAgree`: after a crash between the catalogue and the scaling,
   states of one scaling are compared under another. `Reflections!NoRecordRemains`:
   forgetting everything leaves the trail of the live view in memory.
10. `ControlLoop!HandedBack` ("the agent reverts what it changed on the way out",
    `agent.rs:106`): holding is logged as applied, so when the loop held after its
    last change, `revert_last` finds the hold and undoes nothing.
11. `Service!OthersAreLeftAlone` (`service.rs:68-81` of the desktop): quitting
    removes the endpoint file whoever wrote it.
12. `Theory!ForgettingLeavesTheRate` (`theory.rs:357-362`): the retired count in the
    denominator when they are buried. `Atlas!CausesAreBackfilled` (`affordance.rs:150-159`): attempts
    are credited backwards, randomised ones are not.
13. `Concepts!RareConceptsReturn` (`concept.rs:467-470`) and
    `Concepts!NoBehaviourOutlivesItsConcept` (`conditioned.rs:377-381`): the registry
    remembers for ever what it coined for a state, and a concept that was displaced
    keeps the preference conditioned on it.
14. `Bench!FreeRunsAreFree` (`baselines.rs:30`), `Bench!WakesDiffer`
    (`harness.rs:498-499`) and `Bench!ProfileIsWhole` (`profile_cache.rs:76-77`): a
    policy without a placement runs where the one before left it; the order of two
    policies can be the same in every round; two commands share one temporary file.
15. `Mirror!HistoryIsOfOneShape` (`mirror_daemon.rs:154`, "rebuilding moves the epoch
    forward"): the reflector is always built at epoch 1, so whoever goes by the epoch
    stitches two machines together.
16. `Outcome!UnknownStaysUnknown` (`hook.rs:24-26`): a report that says nothing of its
    outcome settles a trial as one that did not fail. Also, `classify` takes any
    integer called `status` for an exit code, an HTTP 200 among them, and a claim of
    success outranks a code that is not zero.
17. `Forecast!SurpriseIsOfOneMachine` (`predictor.rs:256-257`): a loop predicts with
    what it learned of one epoch and is surprised by the first reflection of the
    next, which then is what is typical of it. `Forecast!LoopOutlivesTheShape`: a
    cell asked for outside the state is an index out of bounds (`state.rs:243`).
18. With the constants of `reflector_rebuilt`: `Reflector!HolesSayWhy`
    (`observation/mod.rs:35`, "A sensor that cannot read something records **why**"): a
    table that cannot be opened, or a CPU without a line in it, leaves the cells of a
    sensor as nobody's. `Reflector!ColumnsAreOfTheirCpu` (`interrupts.rs:102-105`): the
    columns of `/proc/interrupts` are remembered by their position, which is that of
    another CPU as soon as one before it goes offline.
    `Reflector!RelationsCaughtUp` (`discovery.rs:102-105`): only rows are compared, so
    a CPU that went and came back while it was described leaves its siblings behind.
19. `Exchange!SuccessCarriesItsAnswer` (`server.rs:13-14` of the bridge, "when a tool
    fails, the reply ... carries `isError`"): the client does not look at the length of
    a reply, so that one cut off behind its status is told as done, with nothing in it.
    Also, an array of requests, which version 2025-03-26 of the protocol may send, has no
    `id`, is taken for a notification, and is never answered.
20. `Lifecycle!EvidenceGoesToo` (`engine.rs:1070`, the event of a deletion: "the
    capability and the evidence behind it are removed"): `delete_capability` removes the
    capability, its grant and its document. The evidence stays, in memory and in the store,
    and the next report about anything promotes the capability again.
21. `Ring!InterruptedLosesOnlyItself` (`ring.rs:20-22`, a crash "never corrupts an
    older one", and `ring.rs:228-229`, "an interrupted append loses only itself"): once
    the ring has wrapped, the slot that is written is that of the oldest sample, which is
    still the first to be read when the process dies.
22. `ControlLoop!ActsOnTheRegistered` (`scope.rs:149-155`, a registration left behind "could
    silently come to mean a different process, which is a way for a bounded controller to
    act far outside its bounds"): `prune`, which the comment is about, is called by a test
    only; `permits` asks whether the number is registered and somebody answers to it, and
    `revert_last` (`actuators.rs:240`) asks nothing.
23. `Service!StaleIsRecognised` (`endpoint.rs:31`, the pid is there "so a stale file can be
    recognised"): nobody compares it. A client that has read the endpoint of a service
    that died, and asks at its port when another service has been given it, is answered,
    because `/health` takes no token (`http.rs:121`); the bridge then keeps an
    endpoint whose token every call is refused for.
24. `Regimes!NoRegimeIsEmpty` (`discover.rs:485-486`, "fewer regimes than asked for ...,
    rather than padding the answer with empty clusters"): in a later pass all frames of a
    regime may come to be nearer to others. The nine frames of `MCStandalone` do that in
    the fourth pass, and do it too when each dimension is scaled to the same deviation,
    as the observer does; the regime is returned with an occupancy of zero. In one
    dimension no example was found.

## 4. What is proved

TLAPS checks these for every value of the constants that satisfies the
assumptions named in the modules.

| Theorem | Says | Rests on |
|---|---|---|
| `ExecutionProofs!Typing` | `Spec => []TypeOK` | `InPlace`: a position is one of the definition's |
| `ExecutionProofs!RunsWithinPermissions` | `[]RunWithinPermissions` | `Vetted` |
| `ExecutionProofs!StreakStopsRuns` | `[]StreakStops` | `StreakInv`: no run is under way at the limit |
| `ExecutionProofs!RecordsAreSound` | `[]RecordIsSound` | `RecordInv` |
| `ExecutionProofs!BudgetHolds` | `[]WithinBudget` | `BudgetInv` |
| `StandaloneProofs!PlaneTyping`, `ViewsAreWhole`, `PlaneImplementsSnapshot` | one snapshot per view; the seqlock refines `AtomicSnapshot` | `PlaneInv`; the last two assume `LoadsInOrder` |
| `StandaloneProofs!HeadersAreSound` | `[]OpenedIsSound` | `LayoutInv`; `ShapeAssumption` |
| `RequestsProofs!Typing`, `GoneStays`, `NoEvidenceSurvives`, `AnsweredStaysStored` | the type invariant and the three properties of `Lifecycle` | `GoneInv`, `StoredInv` |
| `RequestsProofs!LossIsCaused` | `[]LossHasACause` | `CauseInv` |
| `RequestsProofs!AnswersOfTheBridges` | `[]AnswersAreTrue` | `ExchangeInv` |
| `TrialsProofs!Typing`, `CausalClaims`, `EvidenceBacked`, `RandomisationPaid` | the type invariant and the three properties of `trials` | `AllWeighed`, `Accounted` |
| `ObservationProofs!CleanMeansStored` | `[]CleanIsStored` | `SavedInv` |
| `ObservationProofs!NoRetryWithoutFailure` | `[]RetriesAreBacked` | `RetryInv` |
| `ObservationProofs!SidesAddUp` | `[]CountsNest` | `NestInv` |
| `DaemonProofs!Typing`, `RunningIsDiscoverable`, `AliveServes` | `[]TypeOK`, `[]Discoverable`, `[]AliveMeansServed` | `EngineInv`; `OneStore`, `Publishing`, `FileIsOfService`, `Serving`, `ClientHolds` |
| `DaemonProofs!ReflectionsAreHonest` | `[]ReflectionIsHonest` | `ReflectorInv` |
| `DaemonProofs!OnlyTheSeamsAreLost` | `[]LossesAreAtTheSeams` | `MirrorInv` |
| `DaemonProofs!RegimesTyping`, `WhatIsFoundIsThere` | the type invariant; `[]StructureIsSound`, for frames of any dimension | `GroupsInv`, `SettlingInv` (`Seeded`) |
| `MachineProofs!HoldsForEver` | `[]OnlyHeldOnEffects` | `HoldInv` |
| `MachineProofs!LogIsTrue` | `[]AuditIsTrue` | `LoopTypeInv` |
| `MachineProofs!FailuresStop` | `[]FailuresStopTheLoop` | `FailInv` |
| `MachineProofs!RateIsARate` | `[]RateHolds` | `RateInv`; assumes `LogOutlastsTheBounds` |
| `MachineProofs!LearnedIsSaved` | `[]SavedWhenClean` | `LearnedInv` |
| `MachineProofs!OnlyTheOldestIsLost` | `[]RingLosesOnlyTheOldest` | `RingInv` |
| `MachineProofs!EveryReflectionIsCounted` | `[]ReflectionsCounted` | `CountInv` |
| `StandaloneProofs!PreferencesRestOnTrials` | `[]PreferencesAreCausal` | `CausalInv` |
| `StandaloneProofs!FailuresAreCounted` | `[]NeverMadeBetter` | `OutcomeInv` |
| `StandaloneProofs!SearchIsPaidFor` | `[]ImprovementIsPaidFor` | `LineageInv` |
| `StandaloneProofs!ForecastsAreHonest` | `[]ForecastIsHonest` | `ForecastInv` |
| `StandaloneProofs!EvidenceIsOnOneThing` | `[]TrialsAccountedFor` | `TheoryInv` |
| `StandaloneProofs!ChancesAreWhole` | `[]ChancesAddUp` | `AtlasInv` |
| `StandaloneProofs!ReportsCompareLikeWithLike` | `[]ReportsAreComparable` | `BenchInv` |

Each is of the specification of its module (`Spec`, `LoopSpec`, `SetupSpec`, ...).
Where a run composes several, its specification is that of the part (section 2).

Why the invariants are what they are:

* **Vetted.** `RunWithinPermissions` speaks of the operation being performed now,
  which says nothing about the next. The fact that carries over is about
  *everything* the run may touch, rollback included, and it holds because no
  request that changes permissions is enabled while a run holds the engine.
* **RecordInv** describes each stage separately: all results so far are ok in the
  steps; in the rollback they are a prefix that ended in a first failure and one
  result for each operation of the rollback since.
* **BudgetInv.** The limiter counts in what it kept, which is the end of the history
  of starts (`KeptInv`), without the run in progress. What it dropped is no younger
  than the `HistoryLength` starts it kept, which are more than the daily limit; so
  where it counts fewer than the limit everything it dropped is out of every window,
  and it has counted them all. It keeps twice the daily limit (`HistoryLength`).
* **PlaneInv.** A reader whose first sample equals the counter has copied only
  words of that snapshot (`Current`); because the counter never goes back
  (`Sampled`), a second sample that equals the first says it was so all along,
  which `SecondInv` records at the moment of that sample. `LoadsInOrder` is
  exactly what puts the second sample after the copy. The refinement maps
  the register to `seq \div 2`: a store of a word and the flip are stutters, the
  final increment is `Publish`.
* **LayoutInv.** Between the two looks a reader takes at a header, the writer goes on.
  Either the header is by then as its writer makes it, or it lacks its last field,
  and a header without that field is refused (`Reading`). What is accepted of a writer
  whose numbers wrapped must still end inside a file whose length did not: a length
  is a multiple of 64 that is smaller than `WordRange`, each section begins where the
  one before it ends, rounded up, and the first that wrapped would have to end beyond
  the file. `ShapeAssumption` says that a machine has a channel. Without one the
  header a writer is clearing can be accepted with its sections at offset 0; they are
  empty then.
* **GoneInv** follows a deletion or a forgetting through its transactions: which
  part of the store is already empty at each.
* **StoredInv** relates the dirty mark to the store: without the mark,
  everything is up to date, and during a persist what was written already is.
  **SavedInv** and **LearnedInv** are the same for the documents of agents and of
  reflections, where a forgetting clears the store *before* it clears memory: so it
  must be known that what is stored is among what is in memory at every step between.
* **CauseInv.** While none of the known causes has come to a file, one request at most
  is at it, and what it read is all its owner wants there.
* **ExchangeInv.** That a call is performed once follows from where calls come from:
  each was made from a line and a step its bridge has come to (`MadeFromALine`), so
  that no later one can be taken for it. `Fits` says how far a call is by who has its
  thread, so that a status of 200 means it was performed and a request that is not
  whole means it was not, whether or not anybody still waits for it.
* **AllWeighed.** The weight of an arm is at most `Unit` per randomised trial.
  Ageing never adds weight (`AgeShrinks`, an argument about integer division).
  So enough weight means enough trials, at any rate of forgetting.
* **Accounted.** `EvidenceIsBacked` is about memory only, and a restart replaces
  memory; so the same must be known of the store, with no trial waiting. And a
  procedure that is proposed starts from nothing, so nothing may already wait for
  it: every trial that waits since the last forgetting is one of a procedure
  still there.
* **RetryInv** counts what a retry could still answer: the retries of a session and
  the failures among what is remembered as last are together no more than its
  failures.
* **NestInv** says of both memory and store that a pair is part of its operation, and
  that the attempts kept are no more than those observed. An eviction takes the pairs
  of an operation with it or leaves the operation; what the fold that picks the victim
  returns is not computed, only that it is one of them.
* **OneStore, FileIsOfService.** That a file leads to a service that runs needs
  more than that nobody overwrites it: whoever writes or removes it must hold the
  store, or be the desktop; and the port in it must be one its writer has bound, which
  is why the file is followed from its writing to its removal.
* **ClientHolds, Serving.** A port that answers is that of a service that serves; a client
  that is answered therefore holds its endpoint, or that of a dead one with the same port
  (`HasServed`). That this stays so is because a service keeps its port until it is dead,
  and what has served has served.
* **HoldInv.** The loop never acts because three things hold at once: nothing is
  pending, so nothing is learned; nothing was learned, so nothing is predicted; and the
  log holds holds only, so there is nothing to undo when it stops.
* **FailInv.** The watchdog counts at least the failures that end the log, because only
  a change sets its count back, and a change is an entry that did not fail.
* **RateInv.** The limit is counted from a log that forgets. A tick records one entry
  at most, so an entry with `LogCapacity` newer ones is that many ticks old; if the log
  holds more than a minute of ticks and as many as lie between two changes of one
  target (`LogOutlastsTheBounds`), what it forgot no longer counts. The code's log
  holds 4096 events, which is a minute of ticks of 15 ms, and nothing in the code
  ties the two together.
* **RingInv.** Each sample is in its slot, or a whole turn behind the furthest write
  whose cursor may not have reached the file (`Reached`). Two positions share a slot
  only when they are `Capacity` apart, which is what a write at the cursor needs.
* **CountInv.** The catalogue is `Tidy`: what is counted for the states is what was
  observed, and a state was entered once more than there are transitions into it if it was
  first or the one the count began in; between the parts of one observation one count
  is due.
* **CausalInv** is `AllWeighed` again, for arms whose count of randomised trials
  stops at what is needed, together with the property: what installs a preference
  (`Established`) implies it, and what forgets the trials forgets the preference.
* **OutcomeInv, ForecastInv, TheoryInv, AtlasInv, LineageInv** are their properties with
  the types they need. In `ForecastInv` the last value of a cell is of the reflection
  just shown or none, without which a change could span a hole; in `LineageInv` what a
  generation inherits is at any time the sum of what those before it have spent, also
  when one of them goes on searching; in `AtlasInv` the edges out of a
  state by an action count one number of attempts, which is the sum of the arrivals.
* **BenchInv.** In a comparison the runs of a policy are as many as the rounds that are
  over, and one more if it had its turn in this one (`Turn` inverts `Visited`). So at the
  end they are as many as the rounds.
* **ReflectorInv.** Nothing the reflector holds is true of the machine as such, which
  changes under it; what can be known is relative to two marks. Unless something came
  or went since the discovery began, what it has read is so (`FoundTrue`: what is not read
  yet is not claimed). Unless something did since the reflector was built, the rows are the
  machine's (`StructureShown`). And whatever came or went, a sensor reads the CPU whose
  row it writes (`Aimed`), since both are found by the CPU's number when it is bound, and not by
  place; the interrupts are the exception, whose columns are found by their place in the
  header as it was, and for them the claim needs a machine that stood still. From `Aimed`
  every number a pass writes is of its row (`FairNumber`). That a discovery
  lists each entity once rests on how the rows are made of what was read
  (`NothingLeftOut`, `ListsAreTrue`), for any CPUs and any way they share cores and caches.
* **MirrorInv** is about the file as it will be when the buffer has been passed on
  (`File`), because a piece that is put in the buffer and one that is written extend
  the same list, and only a kill tells the two apart: it cuts that list somewhere behind
  what had been written. For each line there are then three questions: what is before
  it (`Opened`), what is after it (`Closed`), and what a kill would leave of it
  (`Buffered`: it is passed on already or it is of the session that runs). A line
  that is preceded by half a line is the first of its session, and that session
  began on what a killed one left (`Seams`). What a reader makes of the lines is not
  a fold: a line is read if it is whole, so which lines are read is a set, and only their
  order has to be shown (`ReadInOrder`).
* **GroupsInv.** `find` shortens paths while it follows them, so what the pointers
  are is not what matters. There is a root for each item and a rank that grows along
  the way up (`Forest`); both exist, and neither is in the code. A way up that went on for longer
  than there are items would come to an item twice and to a higher rank (`WayToRoot`), so
  what `find` follows ends at the root, and shortening a path keeps root and ranks.
  Joining two roots raises the ranks of one tree above those of the other. That
  items of one group are linked by what is alike is said without paths: no set of items
  parts them without parting two that are alike (`Chained`), which is what
  lets two chains be joined without an induction.
* **SettlingInv.** Before the first pass there is a frame at each centre; after every
  pass but the last each centre is the mean of the frames assigned to it. A
  pass that assigns nothing anew and ends the passes has therefore found the centres where they
  would be moved to. Only the last pass that is allowed can end elsewhere. Each centre is
  a frame that was away from those before it when it was chosen (`Seeded`), and two vectors
  are zero apart only if they are equal (`ApartIsADistance`); so in the first pass that
  frame, or one equal to it, is nearest to it and to no other.

**Sums.** `TrialsAccountedFor`, `ChancesAddUp`, `CountsNest` and `ReflectionsCounted` are
about sums over finite sets, which the community modules define as a recursive function
over an order `CHOOSE` picks. `SumTheorems` shows that the order does not matter, and
what a sum becomes when an element is added, removed or changed. The induction it takes is
made without an operator parameter: among the sets for which the claim fails, if
any, one is smallest, and it cannot be.

**What the proofs found.** `RateHolds` is not true of every length of the log
(`LogOutlastsTheBounds`), nor `OpenedIsSound` of a machine without channels
(`ShapeAssumption`). Both conditions hold of the code's constants and machines; nothing in
the code checks them.

**Only model-checked.**

* `RunEnds`, `ReadEnds` and `ClientsSettle`: liveness under fairness is out of TLAPS's reach.
* What `Replay` makes of a recording, which is a fold over it: an induction over data.
## 5. What is not modelled, and what comes next

Left out for good, each in `PROJECT.json` with the reason:

* input and output without state of its own: the parsing of what the kernel shows,
  CPUID and the sensors of Windows, the parsing of HTTP and JSON, the Windows Store, the consoles, the desktop;
* numerics: means, variances and significance, distances and the discovery of
  features, predictors, the curiosity ranking, scores of placements. Where a number
  decides a transition, the decision is a choice of the environment;
* strings: fingerprints, redaction, reports, renderings, validation of the text of
  a capability;
* what nothing in the product calls: consolidation and pruning of the catalogue,
  `scope.prune`, `events_after`, `build_at_epoch`, migrations (there are none to run),
  and the size limit of a recording;
* sensors of one name that share a row: two thermal zones, power domains or chips that
  the kernel calls the same;
* intent, which looks at one snapshot and keeps nothing, what the observer correlates
  and reports, and launching programs and inventing actions, which serve demonstrations.

These are more than half of the lines of the repository, which is why the share of
its lines that the map covers stays well below a third although every component
with states and transitions has a module.

What could come next:

1. A composition of `Lifecycle` and `Trials`, where the evidence `Lifecycle` takes as
   input is what `Trials` counts.
2. `Regimes` with a bound on how many passes there can be, so that the regimes of
   frames few enough are known to have settled.
3. `Service` and `Exchange` as one: a bridge whose service dies looks for the next one
   in `Service`, and sends its call there in `Exchange`.
