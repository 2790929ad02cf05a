----------------------------- MODULE Execution -----------------------------
(***************************************************************************)
(* Running a capability: Engine::run_capability, Runtime::execute and the  *)
(* child processes a run starts, with everything that can happen around it.*)
(*                                                                         *)
(* The engine lives behind one mutex (api.rs).  A request that only edits  *)
(* permissions takes and releases it in one step.  A run holds it from the *)
(* ruling to the record, across every child process; it is a series of     *)
(* steps here, and `stage' is also the mutex: "idle" when it is free.      *)
(* What interleaves with a run is therefore the clock, the child           *)
(* processes, a user pressing Pause, and the death of the service.         *)
(*                                                                         *)
(* How long a step takes is left open: a step still running may reach its  *)
(* timeout at any moment.  The audit events, a dry run (which leaves only  *)
(* such an event) and the counters uses/successes of the stored capability *)
(* are not part of this module.                                            *)
(***************************************************************************)
EXTENDS Permissions

CONSTANTS
    Capability,    \* ids of the stored capabilities
    Definition,    \* id -> [steps, verification, rollback, risk, reversible]
    Operation,     \* the operations definitions are made of
    Waits,         \* the operations that are Operation::Wait
    TargetsOf,     \* operation -> the targets Operation::targets lists
    Output,        \* operation -> how much its program writes before it exits
    PipeSize,      \* what a pipe holds before its writer blocks
    Heirs,         \* operations whose program may leave a descendant behind
                   \* that has inherited its output
    MaxTime        \* bound: the model's clock stops here

Definitions == [steps : Seq(Operation), verification : Operation,
                rollback : Seq(Operation), risk : Risk, reversible : BOOLEAN]

ASSUME DefinitionAssumption ==
    /\ Waits \subseteq Operation /\ Heirs \subseteq Operation
    /\ TargetsOf \in [Operation -> SUBSET Target]
    /\ \A op \in Waits : TargetsOf[op] = {}
    /\ Output \in [Operation -> Nat] /\ PipeSize \in Nat \ {0}
    /\ Definition \in [Capability -> Definitions]
    /\ \A c \in Capability : Definition[c].steps # << >>
    /\ MaxTime \in Nat

VARIABLES
    autonomy, paused, grants, granted,  \* Permissions
    taken, failures,                    \* its RateLimiter
    now,        \* Engine::started.elapsed()
    stage,      \* where execute has got to; "idle" when the mutex is free
    running,    \* the capability of the run
    position,   \* the index of the step, or of the rollback operation
    stamp,      \* now_ns, read before the run and recorded after it
    results,    \* Outcome::Ran.steps: whether each operation was ok
    verified,   \* Outcome::Ran.verified: "unknown" is None
    child,      \* the operation being performed, as perform sees it
    unwritten,  \* output its program has still to write
    buffered,   \* output written to the pipe and not yet read
    held,       \* a descendant still holds the pipe open
    ok,         \* an exited program: exit code zero and the text expected
    pressed,    \* a user has pressed Pause and the request waits for the mutex
    history,    \* ghost: when each run of this process was started
    streak      \* ghost: failed runs since a success, Resume or start-up

permissions == <<autonomy, paused, grants, granted>>
limiter     == <<taken, failures>>
run         == <<stage, running, position, stamp, results, verified>>
process     == <<child, unwritten, buffered, held, ok>>
ghosts      == <<history, streak>>
vars == <<permissions, limiter, now, run, process, pressed, ghosts>>

NoChild == "none"
Stages  == {"idle", "steps", "verify", "rollback", "record"}

-----------------------------------------------------------------------------
(* What the ruling is asked about: everything the run would touch.         *)

OperationsMutant(d) == \* the rollback is not asked about
    {d.steps[i] : i \in DOMAIN d.steps} \cup {d.verification}

Operations(d) ==
    {d.steps[i] : i \in DOMAIN d.steps} \cup {d.verification}
        \cup {d.rollback[i] : i \in DOMAIN d.rollback}

TargetsOfAll(d) == UNION {TargetsOf[op] : op \in Operations(d)}

Request(c) == [targets    |-> TargetsOfAll(Definition[c]),
               risk       |-> Definition[c].risk,
               reversible |-> Definition[c].reversible]

RulingOn(c) ==
    Rule([autonomy |-> autonomy, paused |-> paused, granted |-> granted,
          taken |-> taken, failures |-> failures],
         grants[c], Request(c), now)

\* The operation execute is on.
Current ==
    LET d == Definition[running] IN
    CASE stage = "steps"    -> d.steps[position]
      [] stage = "verify"   -> d.verification
      [] stage = "rollback" -> d.rollback[position]

Performing == stage \in {"steps", "verify", "rollback"}

-----------------------------------------------------------------------------
(* Permissions::new, an engine that has just opened an empty store.        *)

Init ==
    /\ autonomy = "suggest" /\ paused = FALSE
    /\ grants = [c \in Capability |-> NoGrant] /\ granted = {}
    /\ taken = << >> /\ failures = 0 /\ now = 0
    /\ running \in Capability /\ stamp = 0
    /\ stage = "idle" /\ position = 1 /\ results = << >> /\ verified = "unknown"
    /\ child = NoChild /\ unwritten = 0 /\ buffered = 0 /\ held = FALSE /\ ok = FALSE
    /\ pressed = FALSE
    /\ history = << >> /\ streak = 0

-----------------------------------------------------------------------------
(* Requests that edit permissions; each waits for the mutex and persists   *)
(* before it lets go, so that a restart finds what they set.               *)

SetAutonomy(mode) ==
    /\ stage = "idle"
    /\ autonomy' = mode
    /\ UNCHANGED <<paused, grants, granted, limiter, now, run, process, pressed, ghosts>>

PressPause ==
    /\ pressed' = TRUE
    /\ UNCHANGED <<permissions, limiter, now, run, process, ghosts>>

Pause ==
    /\ stage = "idle" /\ pressed
    /\ paused' = TRUE /\ pressed' = FALSE
    /\ UNCHANGED <<autonomy, grants, granted, limiter, now, run, process, ghosts>>

Resume ==
    /\ stage = "idle"
    /\ paused' = FALSE /\ failures' = 0 /\ streak' = 0
    /\ UNCHANGED <<autonomy, grants, granted, taken, now, run, process, pressed, history>>

DecideCapability(c, grant) ==
    /\ stage = "idle" /\ grant.decided
    /\ grants' = [grants EXCEPT ![c] = grant]
    /\ UNCHANGED <<autonomy, paused, granted, limiter, now, run, process, pressed, ghosts>>

\* A request names a folder, a command, both or neither.
AtMostOne(S) == {{}} \cup {{x} : x \in S}

\* The handler gives up on a folder of the floor list before it grants anything.
GrantReach(items) ==
    /\ stage = "idle" /\ items \cap Forbidden = {}
    /\ granted' = granted \cup items
    /\ UNCHANGED <<autonomy, paused, grants, limiter, now, run, process, pressed, ghosts>>

RevokeReach(folder) ==
    /\ stage = "idle"
    /\ granted' = granted \ {folder}
    /\ UNCHANGED <<autonomy, paused, grants, limiter, now, run, process, pressed, ghosts>>

-----------------------------------------------------------------------------
(* The run.                                                                *)

\* Engine::run_capability up to the ruling.  A request that is not allowed
\* leaves nothing behind but its event.
StartRun(c) ==
    /\ stage = "idle" /\ RulingOn(c) = "allowed"
    /\ stage' = "steps" /\ running' = c /\ position' = 1 /\ stamp' = now
    /\ results' = << >> /\ verified' = "unknown"
    /\ history' = Append(history, now)
    /\ UNCHANGED <<permissions, limiter, now, process, pressed, streak>>

\* Where execute goes once the current operation has a result.
RollbackMutant(d) == \* counted from zero
    /\ stage' = IF d.rollback = << >> THEN "record" ELSE "rollback"
    /\ position' = 0

Rollback(d) ==
    /\ stage' = IF d.rollback = << >> THEN "record" ELSE "rollback"
    /\ position' = 1

AfterStep(d, result) ==
    /\ IF ~result THEN Rollback(d)
       ELSE IF position < Len(d.steps)
         THEN stage' = "steps" /\ position' = position + 1
         ELSE stage' = "verify" /\ position' = 1
    /\ UNCHANGED verified

AfterVerification(d, result) ==
    /\ verified' = IF result THEN "yes" ELSE "no"
    /\ IF result THEN stage' = "record" /\ position' = 1 ELSE Rollback(d)

AfterRollback(d) ==
    /\ IF position < Len(d.rollback)
         THEN stage' = "rollback" /\ position' = position + 1
         ELSE stage' = "record" /\ position' = 1
    /\ UNCHANGED verified

NoProcess ==
    /\ child' = NoChild /\ unwritten' = 0 /\ buffered' = 0
    /\ held' = FALSE /\ ok' = FALSE

Complete(result) ==
    LET d == Definition[running] IN
    /\ results' = Append(results, result)
    /\ CASE stage = "steps"    -> AfterStep(d, result)
         [] stage = "verify"   -> AfterVerification(d, result)
         [] stage = "rollback" -> AfterRollback(d)
    /\ NoProcess
    /\ UNCHANGED <<permissions, limiter, now, running, stamp, pressed, ghosts>>

\* A step is checked against the authority again before it runs; verification
\* and rollback are not.
Begin ==
    /\ Performing /\ child = NoChild
    /\ IF stage = "steps" /\ ~Permits(granted, TargetsOf[Current])
         THEN Complete(FALSE)
         ELSE /\ child' = IF Current \in Waits THEN "sleeping" ELSE "running"
              /\ unwritten' = Output[Current]
              /\ UNCHANGED <<permissions, limiter, now, run, buffered, held, ok,
                             pressed, ghosts>>

SpawnFails ==
    /\ Performing /\ child = NoChild /\ Current \notin Waits
    /\ Complete(FALSE)

Wakes ==
    /\ child = "sleeping"
    /\ Complete(TRUE)

\* try_wait reports the exit; wait_with_output then reads to the end of the
\* pipe, which comes once every process holding it has let go.
Collect ==
    /\ child = "exited" /\ ~held
    /\ Complete(ok)

\* The poll that finds the program still running past its deadline kills it.
TimesOutMutant == \* a program still producing output is left alone
    /\ child = "running" /\ unwritten = 0
    /\ Complete(FALSE)

TimesOut ==
    /\ child = "running"
    /\ Complete(FALSE)

\* Engine::run_capability after execute: RateLimiter::record, with the time
\* read before the run.
SucceededMutant == verified # "no" \* not verified counts as verified

Succeeded == verified = "yes"

FinishRun ==
    /\ stage = "record"
    /\ taken' = RecordTaken(taken, stamp)
    /\ failures' = RecordFailures(failures, Succeeded)
    /\ streak' = IF Succeeded THEN 0 ELSE streak + 1
    /\ stage' = "idle" /\ position' = 1 /\ results' = << >> /\ verified' = "unknown"
    /\ UNCHANGED <<permissions, now, running, stamp, process, pressed, history>>

-----------------------------------------------------------------------------
(* The program a step started, as the operating system runs it.            *)

ChildWrites ==
    /\ child = "running" /\ unwritten > 0 /\ buffered < PipeSize
    /\ unwritten' = unwritten - 1 /\ buffered' = buffered + 1
    /\ UNCHANGED <<permissions, limiter, now, run, child, held, ok, pressed, ghosts>>

ChildExits ==
    /\ child = "running" /\ unwritten = 0
    /\ child' = "exited"
    /\ ok' \in BOOLEAN
    /\ held' \in (IF Current \in Heirs THEN BOOLEAN ELSE {FALSE})
    /\ UNCHANGED <<permissions, limiter, now, run, unwritten, buffered, pressed, ghosts>>

HeirLetsGo ==
    /\ held
    /\ held' = FALSE
    /\ UNCHANGED <<permissions, limiter, now, run, child, unwritten, buffered, ok,
                   pressed, ghosts>>

-----------------------------------------------------------------------------
(* Time, and the death of the service.                                     *)

Tick ==
    /\ now < MaxTime
    /\ now' = now + 1
    /\ UNCHANGED <<permissions, limiter, run, process, pressed, ghosts>>

\* The service dies and is started again: Permissions::from_stored keeps
\* everything but the history of the limiter.
Restart ==
    /\ taken' = << >> /\ failures' = 0 /\ now' = 0
    /\ stage' = "idle" /\ position' = 1 /\ results' = << >> /\ verified' = "unknown"
    /\ NoProcess /\ stamp' = 0 /\ running' = running
    /\ pressed' = FALSE
    /\ history' = << >> /\ streak' = 0
    /\ UNCHANGED permissions

-----------------------------------------------------------------------------
UserRequest ==
    \/ \E mode \in Autonomy : SetAutonomy(mode)
    \/ PressPause
    \/ Resume
    \/ \E c \in Capability, grant \in Grant : DecideCapability(c, grant)
    \/ \E folders \in AtMostOne(Folder), commands \in AtMostOne(Command) :
          GrantReach(folders \cup commands)
    \/ \E folder \in Folder : RevokeReach(folder)
    \/ \E c \in Capability : StartRun(c)

\* What the service does by itself once a request is in.
RuntimeStep == Begin \/ SpawnFails \/ Wakes \/ Collect \/ TimesOut \/ FinishRun

Next ==
    \/ UserRequest \/ Pause
    \/ RuntimeStep
    \/ ChildWrites \/ ChildExits \/ HeirLetsGo
    \/ Tick \/ Restart

Spec == Init /\ [][Next]_vars

\* The thread that runs a capability keeps going: each poll, sleep and start
\* takes a bounded time, and the deadline of a step passes.
FairSpec == Spec /\ WF_vars(RuntimeStep)

\* As FairSpec, on a machine where no descendant of a step outlives it for ever.
CooperativeSpec == FairSpec /\ WF_vars(HeirLetsGo)

-----------------------------------------------------------------------------
(* Properties.                                                             *)

\* Every variable keeps its type; a run never loses its place.
PermissionsTypeOK ==
    /\ autonomy \in Autonomy /\ paused \in BOOLEAN /\ pressed \in BOOLEAN
    /\ grants \in [Capability -> Grant] /\ granted \subseteq Grantable

LimiterTypeOK ==
    /\ taken \in Seq(Nat) /\ failures \in Nat /\ now \in 0..MaxTime
    /\ history \in Seq(Nat) /\ streak \in Nat

RunTypeOK ==
    /\ stage \in Stages /\ running \in Capability /\ position \in Nat \ {0}
    /\ stamp \in 0..MaxTime /\ results \in Seq(BOOLEAN)
    /\ verified \in {"unknown", "yes", "no"}

ProcessTypeOK ==
    /\ child \in {NoChild, "sleeping", "running", "exited"}
    /\ unwritten \in Nat /\ buffered \in Nat /\ held \in BOOLEAN /\ ok \in BOOLEAN

TypeOK == PermissionsTypeOK /\ LimiterTypeOK /\ RunTypeOK /\ ProcessTypeOK

\* The rolling budget (limits.rs: check, record): whatever the mode, and
\* however runs, failures and the passing of time interleave, the runs one
\* process has started never exceed the hourly limit in the hour up to now
\* nor the daily limit in the day up to now.  The limiter counts runs that
\* have ended, keeps a trimmed history and stamps them with the time they
\* began; this counts the starts themselves.
StartedWithin(window) == Cardinality({i \in DOMAIN history : history[i] + window >= now})

WithinBudget == StartedWithin(Hour) <= PerHour /\ StartedWithin(Day) <= PerDay

\* After StreakLimit runs in a row that verification did not confirm, nothing
\* runs until a person resumes or the service restarts (limits.rs: check).
StreakStops == streak <= StreakLimit

\* Whatever is being performed -- a step, the verification or an operation of
\* the rollback -- is within reach of the authority in force at that moment,
\* off the floor list, and belongs to a capability that is neither switched
\* off nor running while CoreScout is paused or in a mode that changes
\* nothing (ruling.rs: rule; runtime.rs: execute).
RunWithinPermissions ==
    child # NoChild =>
        /\ Permits(granted, TargetsOf[Current])
        /\ ~paused /\ ~grants[running].disabled
        /\ Definition[running].risk # "none" => autonomy \in {"assist", "autopilot"}

\* The record of a run (runtime.rs: execute).  It counts as confirmed only if
\* every step and then the verification was ok, and then nothing was rolled
\* back; otherwise it stopped at the first operation that was not ok, and
\* every operation of the rollback was attempted, whatever each returned.
FirstFailure(i) == ~results[i] /\ \A j \in 1..(i - 1) : results[j]

RecordIsSound ==
    stage = "record" =>
        LET d == Definition[running]
            checks == Len(d.steps) + 1
        IN IF Succeeded
             THEN Len(results) = checks /\ \A i \in 1..checks : results[i]
             ELSE \E i \in 1..checks :
                    /\ Len(results) = i + Len(d.rollback)
                    /\ FirstFailure(i)
                    /\ verified = (IF i = checks THEN "no" ELSE "unknown")

\* A run ends (runtime.rs: run, "a failure with a reason rather than a
\* service that never returns"), so that the engine is free again.
RunEnds == stage # "idle" ~> stage = "idle"

\* README.md: "There is a Pause that stops everything immediately".  Once the
\* request is made, no further operation is begun.
PauseIsImmediate == [][pressed /\ child = NoChild => child' = NoChild]_vars

\* engine.rs, decide_capability: once approval is withdrawn "it will not run
\* until you approve it again".
WithdrawnStaysOff ==
    [][\A c \in Capability :
        StartRun(c) => ~grants[c].decided \/ grants[c].approved]_vars

=============================================================================
