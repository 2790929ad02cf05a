-------------------------- MODULE ExecutionProofs --------------------------
(***************************************************************************)
(* Running a capability, for any definitions, limits, grants and reach:    *)
(* types, that whatever is performed is within the permissions in force,   *)
(* that a streak of failures stops everything, that the record of a run    *)
(* says what happened, and that a process keeps to its budget.             *)
(***************************************************************************)
EXTENDS Execution, SequenceTheorems, FiniteSetTheorems, TLAPS

\* Where a run is in its definition; the process it waits for belongs to an
\* operation it is on.
InPlace ==
    /\ stage = "steps" => position \in 1..Len(Definition[running].steps)
    /\ stage = "rollback" => position \in 1..Len(Definition[running].rollback)
    /\ child # NoChild => Performing

TypeInv == TypeOK /\ InPlace

LEMMA DefinitionTypes ==
    ASSUME NEW c \in Capability
    PROVE  /\ Definition[c].steps \in Seq(Operation) /\ Len(Definition[c].steps) \in Nat \ {0}
           /\ Definition[c].rollback \in Seq(Operation)
           /\ Len(Definition[c].rollback) \in Nat
           /\ Definition[c].rollback # << >> => Len(Definition[c].rollback) # 0
           /\ Definition[c].verification \in Operation
           /\ Definition[c].risk \in Risk /\ Definition[c].reversible \in BOOLEAN
<1>1. Definition[c] \in Definitions /\ Definition[c].steps # << >>
  BY DefinitionAssumption
<1>2. QED
  BY <1>1, EmptySeq DEF Definitions

LEMMA TrimTypes ==
    ASSUME NEW s \in Seq(Nat), NEW n \in Nat PROVE RecordTaken(s, n) \in Seq(Nat)
<1>. DEFINE t == Append(s, n)
<1>1. t \in Seq(Nat)
  OBVIOUS
<1>. HIDE DEF t
<1>2. HistoryLength \in Nat
  BY LimitsAssumption DEF HistoryLength
<1>3. ASSUME ~(Len(t) <= HistoryLength)
      PROVE  SubSeq(t, Len(t) - HistoryLength + 1, Len(t)) \in Seq(Nat)
  <2>. DEFINE low == Len(t) - HistoryLength + 1
  <2>1. low \in Int /\ Len(t) \in Int /\ 1 <= low
    BY <1>1, <1>2, <1>3
  <2>2. \A i \in low..Len(t) : t[i] \in Nat
    BY <1>1, <2>1
  <2>3. QED
    BY <2>1, <2>2, SubSeqProperties
<1>4. QED
  BY <1>1, <1>3 DEF RecordTaken, Trim, t

LEMMA TypesOfInit == Init => TypeInv
<1>. SUFFICES ASSUME Init PROVE TypeInv
  OBVIOUS
<1>. USE DEF Init
<1>1. PermissionsTypeOK
  BY DEF PermissionsTypeOK, Autonomy, Grant, NoGrant
<1>2. 0 \in 0..MaxTime
  BY DefinitionAssumption
<1>3. LimiterTypeOK
  BY <1>2, EmptySeq DEF LimiterTypeOK
<1>4. RunTypeOK
  BY <1>2, EmptySeq DEF RunTypeOK, Stages
<1>5. ProcessTypeOK
  BY DEF ProcessTypeOK
<1>6. InPlace
  BY DEF InPlace
<1>7. QED
  BY <1>1, <1>3, <1>4, <1>5, <1>6 DEF TypeInv, TypeOK

\* The end of one operation, whichever it was.
LEMMA TypesOfComplete ==
    ASSUME TypeInv, Performing, NEW result \in BOOLEAN, Complete(result)
    PROVE  TypeInv'
<1>. DEFINE d == Definition[running]
<1>1. /\ running \in Capability /\ position \in Nat \ {0} /\ results \in Seq(BOOLEAN)
      /\ InPlace
  BY DEF TypeInv, TypeOK, RunTypeOK
<1>2. /\ Len(d.steps) \in Nat \ {0} /\ Len(d.rollback) \in Nat
      /\ d.rollback # << >> => Len(d.rollback) # 0
  BY <1>1, DefinitionTypes
<1>3. PermissionsTypeOK' /\ LimiterTypeOK'
  BY DEF Complete, TypeInv, TypeOK, PermissionsTypeOK, LimiterTypeOK, permissions, limiter, ghosts
<1>4. ProcessTypeOK' /\ child' = NoChild
  BY DEF Complete, NoProcess, ProcessTypeOK
<1>5. results' \in Seq(BOOLEAN)
  BY <1>1 DEF Complete
<1>6. UNCHANGED <<running, stamp>>
  BY DEF Complete
<1>7. /\ stage' \in Stages /\ position' \in Nat \ {0}
      /\ verified' \in {"unknown", "yes", "no"}
      /\ stage' = "steps" => position' \in 1..Len(d.steps)
      /\ stage' = "rollback" => position' \in 1..Len(d.rollback)
  <2>1. verified \in {"unknown", "yes", "no"}
    BY DEF TypeInv, TypeOK, RunTypeOK
  <2>2. CASE stage = "steps"
    BY <1>1, <1>2, <2>1, <2>2 DEF Complete, AfterStep, Rollback, Stages, InPlace
  <2>3. CASE stage = "verify"
    BY <1>1, <1>2, <2>1, <2>3 DEF Complete, AfterVerification, Rollback, Stages, InPlace
  <2>4. CASE stage = "rollback"
    BY <1>1, <1>2, <2>1, <2>4 DEF Complete, AfterRollback, Stages, InPlace
  <2>5. QED
    BY <2>2, <2>3, <2>4 DEF Performing
<1>8. QED
  BY <1>3, <1>4, <1>5, <1>6, <1>7 DEF TypeInv, TypeOK, RunTypeOK, InPlace

\* Requests, and everything else that leaves the run and its process alone.
LEMMA TypesOfRequest ==
    ASSUME TypeInv, UNCHANGED <<run, process>>, PermissionsTypeOK', LimiterTypeOK'
    PROVE  TypeInv'
  BY DEF TypeInv, TypeOK, RunTypeOK, ProcessTypeOK, InPlace, Performing, run, process

LEMMA TypesOfStep == TypeInv /\ [Next]_vars => TypeInv'
<1>. SUFFICES ASSUME TypeInv, [Next]_vars PROVE TypeInv'
  OBVIOUS
<1>1. PermissionsTypeOK /\ LimiterTypeOK /\ RunTypeOK /\ ProcessTypeOK /\ InPlace
  BY DEF TypeInv, TypeOK
<1>2. UNCHANGED <<permissions, pressed>> => PermissionsTypeOK'
  BY <1>1 DEF PermissionsTypeOK, permissions
<1>3. UNCHANGED <<limiter, now, ghosts>> => LimiterTypeOK'
  BY <1>1 DEF LimiterTypeOK, limiter, ghosts
<1>4. ASSUME NEW mode \in Autonomy, SetAutonomy(mode) PROVE TypeInv'
  BY <1>1, <1>3, <1>4, TypesOfRequest DEF SetAutonomy, PermissionsTypeOK
<1>5. CASE PressPause \/ Pause
  BY <1>1, <1>3, <1>5, TypesOfRequest DEF PressPause, Pause, PermissionsTypeOK, permissions
<1>6. CASE Resume
  BY <1>1, <1>6, TypesOfRequest DEF Resume, PermissionsTypeOK, LimiterTypeOK
<1>7. ASSUME NEW c \in Capability, NEW grant \in Grant, DecideCapability(c, grant)
      PROVE  TypeInv'
  BY <1>1, <1>3, <1>7, TypesOfRequest DEF DecideCapability, PermissionsTypeOK
<1>8. ASSUME NEW folders \in AtMostOne(Folder), NEW commands \in AtMostOne(Command),
             GrantReach(folders \cup commands)
      PROVE  TypeInv'
  <2>1. folders \cup commands \subseteq Grantable
    BY DEF AtMostOne, Grantable
  <2>2. QED
    BY <1>1, <1>3, <1>8, <2>1, TypesOfRequest DEF GrantReach, PermissionsTypeOK
<1>9. ASSUME NEW folder \in Folder, RevokeReach(folder) PROVE TypeInv'
  BY <1>1, <1>3, <1>9, TypesOfRequest DEF RevokeReach, PermissionsTypeOK
<1>10. ASSUME NEW c \in Capability, StartRun(c) PROVE TypeInv'
  <2>1. /\ stage' = "steps" /\ running' = c /\ position' = 1 /\ stamp' = now
        /\ results' = << >> /\ verified' = "unknown" /\ UNCHANGED process
        /\ history' = Append(history, now) /\ UNCHANGED <<limiter, now, streak>>
        /\ UNCHANGED <<permissions, pressed>> /\ stage = "idle"
    BY <1>10 DEF StartRun
  <2>2. Len(Definition[c].steps) \in Nat \ {0}
    BY DefinitionTypes
  <2>3. now \in Nat /\ now \in 0..MaxTime
    BY <1>1, DefinitionAssumption DEF LimiterTypeOK
  <2>4. LimiterTypeOK'
    BY <1>1, <2>1, <2>3 DEF LimiterTypeOK, limiter
  <2>5. RunTypeOK'
    BY <1>1, <2>1, <2>3, EmptySeq DEF RunTypeOK, Stages
  <2>6. ProcessTypeOK' /\ child' = child
    BY <1>1, <2>1 DEF ProcessTypeOK, process
  <2>7. InPlace'
    BY <1>1, <2>1, <2>2, <2>6 DEF InPlace, Performing
  <2>8. QED
    BY <1>2, <2>1, <2>4, <2>5, <2>6, <2>7 DEF TypeInv, TypeOK
<1>11. ASSUME NEW result \in BOOLEAN, Performing, Complete(result) PROVE TypeInv'
  BY <1>11, TypesOfComplete
<1>12. CASE Begin
  <2>1. CASE stage = "steps" /\ ~Permits(granted, TargetsOf[Current])
    BY <1>11, <1>12, <2>1 DEF Begin
  <2>2. CASE ~(stage = "steps" /\ ~Permits(granted, TargetsOf[Current]))
    <3>1. Output[Current] \in Nat
      <4>1. Current \in Operation
        BY <1>1, <1>12, DefinitionTypes DEF Begin, Performing, Current, InPlace, RunTypeOK
      <4>2. QED
        BY <4>1, DefinitionAssumption
    <3>2. /\ child' \in {"sleeping", "running"} /\ unwritten' \in Nat
          /\ UNCHANGED <<buffered, held, ok, permissions, limiter, now, run, pressed, ghosts>>
      BY <1>12, <2>2, <3>1 DEF Begin
    <3>3. ProcessTypeOK'
      BY <1>1, <3>2 DEF ProcessTypeOK
    <3>4. RunTypeOK' /\ InPlace'
      BY <1>1, <1>12, <3>2 DEF RunTypeOK, InPlace, Begin, Performing, run
    <3>5. QED
      BY <1>2, <1>3, <3>2, <3>3, <3>4 DEF TypeInv, TypeOK
  <2>3. QED
    BY <2>1, <2>2
<1>13. CASE SpawnFails
  BY <1>11, <1>13 DEF SpawnFails
<1>14. CASE Wakes \/ Collect \/ TimesOut
  <2>1. Performing /\ ok \in BOOLEAN
    BY <1>1, <1>14 DEF InPlace, Wakes, Collect, TimesOut, NoChild, ProcessTypeOK
  <2>2. QED
    BY <1>11, <1>14, <2>1 DEF Wakes, Collect, TimesOut
<1>15. CASE FinishRun
  <2>1. taken' \in Seq(Nat)
    <3>1. stamp \in Nat
      BY <1>1, DefinitionAssumption DEF RunTypeOK
    <3>2. QED
      BY <1>1, <1>15, <3>1, TrimTypes DEF FinishRun, LimiterTypeOK
  <2>2. LimiterTypeOK'
    BY <1>1, <1>15, <2>1 DEF FinishRun, LimiterTypeOK, RecordFailures
  <2>3. RunTypeOK'
    BY <1>1, <1>15, EmptySeq DEF FinishRun, RunTypeOK, Stages
  <2>4. ProcessTypeOK' /\ child' = NoChild
    BY <1>1, <1>15 DEF FinishRun, ProcessTypeOK, process, InPlace, Performing
  <2>5. InPlace' /\ PermissionsTypeOK'
    BY <1>2, <1>15, <2>4 DEF FinishRun, InPlace
  <2>6. QED
    BY <2>2, <2>3, <2>4, <2>5 DEF TypeInv, TypeOK
<1>16. CASE ChildWrites \/ ChildExits \/ HeirLetsGo
  <2>1. ProcessTypeOK'
    <3>1. CASE ChildWrites
      BY <1>1, <3>1 DEF ChildWrites, ProcessTypeOK
    <3>2. CASE ChildExits
      <4>1. held' \in BOOLEAN
        BY <3>2 DEF ChildExits
      <4>2. child' = "exited" /\ ok' \in BOOLEAN /\ UNCHANGED <<unwritten, buffered>>
        BY <3>2 DEF ChildExits
      <4>3. QED
        BY <1>1, <4>1, <4>2 DEF ProcessTypeOK
    <3>3. CASE HeirLetsGo
      BY <1>1, <3>3 DEF HeirLetsGo, ProcessTypeOK
    <3>4. QED
      BY <1>16, <3>1, <3>2, <3>3
  <2>2. /\ UNCHANGED <<permissions, limiter, now, run, pressed, ghosts>>
        /\ child' # NoChild => child # NoChild
    BY <1>16 DEF ChildWrites, ChildExits, HeirLetsGo, NoChild
  <2>3. RunTypeOK' /\ InPlace'
    BY <1>1, <2>2 DEF RunTypeOK, InPlace, Performing, run
  <2>4. QED
    BY <1>2, <1>3, <2>1, <2>2, <2>3 DEF TypeInv, TypeOK
<1>17. CASE Tick
  BY <1>1, <1>2, <1>17, TypesOfRequest, DefinitionAssumption DEF Tick, LimiterTypeOK, limiter, ghosts
<1>18. CASE Restart
  <2>1. 0 \in 0..MaxTime
    BY DefinitionAssumption
  <2>2. LimiterTypeOK'
    BY <1>18, <2>1, EmptySeq DEF Restart, LimiterTypeOK
  <2>3. RunTypeOK'
    BY <1>1, <1>18, <2>1, EmptySeq DEF Restart, RunTypeOK, Stages
  <2>4. ProcessTypeOK' /\ InPlace'
    BY <1>18 DEF Restart, NoProcess, ProcessTypeOK, InPlace
  <2>5. PermissionsTypeOK'
    BY <1>1, <1>18 DEF Restart, PermissionsTypeOK, permissions
  <2>6. QED
    BY <2>2, <2>3, <2>4, <2>5 DEF TypeInv, TypeOK
<1>19. CASE UNCHANGED vars
  BY <1>2, <1>3, <1>19, TypesOfRequest DEF vars
<1>20. QED
  BY <1>4, <1>5, <1>6, <1>7, <1>8, <1>9, <1>10, <1>12, <1>13, <1>14, <1>15, <1>16, <1>17,
     <1>18, <1>19 DEF Next, UserRequest, RuntimeStep

\* Every variable keeps its type, for any definitions and limits, and a run
\* never loses its place in its definition (runtime.rs: execute).
THEOREM Typing == Spec => []TypeOK
<1>1. TypeInv => TypeOK
  BY DEF TypeInv
<1>2. QED
  BY <1>1, TypesOfInit, TypesOfStep, PTL DEF Spec

-----------------------------------------------------------------------------
(* Why what is performed is permitted: the ruling looked at everything the *)
(* run would touch, and the run keeps the engine to itself until it ends.  *)

\* What the ruling established, and what nothing has changed since.
Vetted ==
    stage # "idle" =>
      /\ Permits(granted, TargetsOfAll(Definition[running]))
      /\ ~paused /\ ~grants[running].disabled
      /\ Definition[running].risk # "none" => autonomy \in {"assist", "autopilot"}

LEMMA AllowedMeans ==
    ASSUME TypeOK, NEW c \in Capability, RulingOn(c) = "allowed"
    PROVE  /\ Permits(granted, TargetsOfAll(Definition[c]))
           /\ ~paused /\ ~grants[c].disabled
           /\ Definition[c].risk # "none" => autonomy \in {"assist", "autopilot"}
           /\ failures < StreakLimit
<1>. DEFINE p == [autonomy |-> autonomy, paused |-> paused, granted |-> granted,
                  taken |-> taken, failures |-> failures]
<1>1. Rule(p, grants[c], Request(c), now) = "allowed"
  BY DEF RulingOn
<1>2. ~Refuses(p, grants[c], Request(c)) /\ ~Asks(p, grants[c], Request(c))
  BY <1>1 DEF Rule
<1>3. AgainstTheBudget(taken, failures, now) = "allowed"
  BY <1>1, <1>2 DEF Rule
<1>4. Check(taken, failures, now) = "ok"
  BY <1>3 DEF AgainstTheBudget
<1>5. failures < StreakLimit
  BY <1>4, LimitsAssumption DEF Check, TypeOK, LimiterTypeOK
<1>6. /\ Permits(granted, TargetsOfAll(Definition[c]))
      /\ ~paused /\ ~grants[c].disabled
  BY <1>2 DEF Refuses, Request
<1>7. Definition[c].risk # "none" => autonomy \in {"assist", "autopilot"}
  BY <1>2 DEF Refuses, Asks, Request, TypeOK, PermissionsTypeOK, Autonomy
<1>8. QED
  BY <1>5, <1>6, <1>7

\* A run keeps the engine to itself: while one is in progress nothing changes
\* the permissions or which capability is running.
LEMMA RunHoldsTheEngine ==
    ASSUME TypeInv, [Next]_vars, stage' # "idle"
    PROVE  \/ \E c \in Capability : StartRun(c)
           \/ stage # "idle" /\ UNCHANGED <<permissions, running>>
<1>1. InPlace
  BY DEF TypeInv
<1>2. CASE UserRequest \/ Pause
  BY <1>2 DEF UserRequest, SetAutonomy, PressPause, Pause, Resume, DecideCapability,
              GrantReach, RevokeReach, run
<1>3. CASE RuntimeStep
  BY <1>1, <1>3 DEF InPlace, RuntimeStep, Begin, SpawnFails, Wakes, Collect, TimesOut, FinishRun,
              Complete, Performing, NoChild, run
<1>4. CASE ChildWrites \/ ChildExits \/ HeirLetsGo \/ Tick \/ Restart \/ UNCHANGED vars
  BY <1>4 DEF ChildWrites, ChildExits, HeirLetsGo, Tick, Restart, run, vars
<1>5. QED
  BY <1>2, <1>3, <1>4 DEF Next

LEMMA VettedOfStep == TypeInv /\ Vetted /\ [Next]_vars => Vetted'
<1>. SUFFICES ASSUME TypeInv, Vetted, [Next]_vars, stage' # "idle" PROVE Vetted'
  BY DEF Vetted
<1>1. ASSUME NEW c \in Capability, StartRun(c) PROVE Vetted'
  <2>1. RulingOn(c) = "allowed" /\ running' = c /\ UNCHANGED <<autonomy, paused, grants, granted>>
    BY <1>1 DEF StartRun, permissions
  <2>2. QED
    BY <2>1, AllowedMeans DEF TypeInv, Vetted
<1>2. CASE stage # "idle" /\ UNCHANGED <<permissions, running>>
  BY <1>2 DEF Vetted, permissions
<1>3. QED
  BY <1>1, <1>2, RunHoldsTheEngine

LEMMA CurrentIsAskedAbout ==
    ASSUME TypeInv, Performing PROVE Current \in Operations(Definition[running])
<1>1. /\ running \in Capability /\ InPlace
      /\ DOMAIN Definition[running].steps = 1..Len(Definition[running].steps)
      /\ DOMAIN Definition[running].rollback = 1..Len(Definition[running].rollback)
  BY DefinitionTypes DEF TypeInv, TypeOK, RunTypeOK
<1>2. QED
  BY <1>1 DEF Performing, Current, Operations, InPlace

\* Whatever is performed -- step, verification or rollback -- is within the
\* permissions in force at that moment (ruling.rs: rule; runtime.rs: execute):
\* so the second check runtime.rs makes before each step never refuses one.
THEOREM RunsWithinPermissions == Spec => []RunWithinPermissions
<1>1. Init => Vetted
  BY DEF Init, Vetted
<1>2. TypeInv /\ Vetted => RunWithinPermissions
  <2>. SUFFICES ASSUME TypeInv, Vetted, child # NoChild
                PROVE  /\ Permits(granted, TargetsOf[Current])
                       /\ ~paused /\ ~grants[running].disabled
                       /\ Definition[running].risk # "none" => autonomy \in {"assist", "autopilot"}
    BY DEF RunWithinPermissions
  <2>1. Performing /\ stage # "idle"
    BY DEF TypeInv, InPlace, Performing
  <2>2. TargetsOf[Current] \subseteq TargetsOfAll(Definition[running])
    BY <2>1, CurrentIsAskedAbout DEF TargetsOfAll
  <2>3. Permits(granted, TargetsOf[Current])
    BY <2>1, <2>2 DEF Vetted, Permits
  <2>4. QED
    BY <2>1, <2>3 DEF Vetted
<1>3. QED
  BY <1>1, <1>2, TypesOfInit, TypesOfStep, VettedOfStep, PTL DEF Spec

-----------------------------------------------------------------------------
(* Why a streak stops everything: the limiter's count is the number of     *)
(* failures in a row, and a run starts only below the limit.               *)

StreakInv ==
    /\ failures = streak /\ streak <= StreakLimit
    /\ stage # "idle" => streak < StreakLimit

LEMMA StreakOfStep == TypeInv /\ StreakInv /\ [Next]_vars => StreakInv'
<1>. SUFFICES ASSUME TypeInv, StreakInv, [Next]_vars PROVE StreakInv'
  OBVIOUS
<1>1. /\ failures \in Nat /\ streak \in Nat /\ StreakLimit \in Nat /\ TypeOK
  BY LimitsAssumption DEF TypeInv, TypeOK, LimiterTypeOK
<1>2. ASSUME NEW c \in Capability, StartRun(c) PROVE StreakInv'
  <2>1. failures < StreakLimit
    BY <1>1, <1>2, AllowedMeans DEF StartRun
  <2>2. QED
    BY <1>2, <2>1 DEF StartRun, StreakInv, limiter
<1>3. CASE Resume \/ Restart
  BY <1>1, <1>3 DEF Resume, Restart, StreakInv, run
<1>4. CASE FinishRun
  BY <1>1, <1>4 DEF FinishRun, StreakInv, RecordFailures
<1>5. ASSUME UNCHANGED <<failures, streak>>, stage' = "idle" \/ stage # "idle"
      PROVE  StreakInv'
  BY <1>5 DEF StreakInv
<1>6. CASE ~(\E c \in Capability : StartRun(c)) /\ ~Resume /\ ~Restart /\ ~FinishRun
  <2>1. UNCHANGED <<failures, streak>>
    BY <1>6 DEF Next, UserRequest, RuntimeStep, SetAutonomy, PressPause, Pause, DecideCapability,
       GrantReach, RevokeReach, Begin, SpawnFails, Wakes, Collect, TimesOut, Complete,
       ChildWrites, ChildExits, HeirLetsGo, Tick, vars, limiter, ghosts
  <2>2. QED
    BY <1>5, <1>6, <2>1, RunHoldsTheEngine
<1>7. QED
  BY <1>2, <1>3, <1>4, <1>6

\* After StreakLimit runs in a row that verification did not confirm, nothing
\* runs until a person resumes or the service restarts (limits.rs: check).
THEOREM StreakStopsRuns == Spec => []StreakStops
<1>1. Init => StreakInv
  BY LimitsAssumption DEF Init, StreakInv
<1>2. StreakInv => StreakStops
  BY DEF StreakInv, StreakStops
<1>3. QED
  BY <1>1, <1>2, TypesOfInit, TypesOfStep, StreakOfStep, PTL DEF Spec

-----------------------------------------------------------------------------
(* Why the record of a run says what happened: results are only appended,  *)
(* and a run leaves the steps at the first that was not ok.                *)

Checks(d) == Len(d.steps) + 1

AllOk(n) == Len(results) = n /\ \A i \in 1..n : results[i]

\* The run stopped at operation i and has since performed this many operations
\* of the rollback.
StoppedAt(i, rolledBack) ==
    /\ Len(results) = i + rolledBack
    /\ FirstFailure(i)
    /\ verified = (IF i = Checks(Definition[running]) THEN "no" ELSE "unknown")

Stopped(rolledBack) ==
    \E i \in 1..Checks(Definition[running]) : StoppedAt(i, rolledBack)

RecordInv ==
    LET d == Definition[running] IN
    /\ stage = "steps" => AllOk(position - 1) /\ verified = "unknown"
    /\ stage = "verify" => AllOk(Len(d.steps)) /\ verified = "unknown"
    /\ stage = "rollback" => Stopped(position - 1)
    /\ stage = "record" => IF Succeeded THEN AllOk(Checks(d)) ELSE Stopped(Len(d.rollback))

\* An operation that was ok extends a run of such; one that was not ends it.
LEMMA AppendResult ==
    ASSUME results \in Seq(BOOLEAN), NEW n \in Nat, AllOk(n), NEW result \in BOOLEAN,
           results' = Append(results, result)
    PROVE  /\ result => AllOk(n + 1)'
           /\ ~result => Len(results') = n + 1 /\ FirstFailure(n + 1)'
<1>1. /\ Len(results') = n + 1 /\ results'[n + 1] = result
      /\ \A i \in 1..n : results'[i] = results[i]
  BY DEF AllOk
<1>2. \A i \in 1..n : results'[i]
  BY <1>1 DEF AllOk
<1>3. 1..(n + 1) = 1..n \cup {n + 1} /\ (n + 1) - 1 = n
  OBVIOUS
<1>4. QED
  BY <1>1, <1>2, <1>3 DEF AllOk, FirstFailure

\* The rollback leaves what came before it as it was.
LEMMA AppendAfterStop ==
    ASSUME results \in Seq(BOOLEAN), NEW m \in Nat, NEW result \in BOOLEAN, Stopped(m),
           running \in Capability,
           results' = Append(results, result), UNCHANGED <<verified, running>>
    PROVE  Stopped(m + 1)'
<1>1. PICK i \in 1..Checks(Definition[running]) : StoppedAt(i, m)
  BY DEF Stopped
<1>2. i \in Nat /\ i >= 1 /\ Len(results) = i + m
  BY <1>1, DefinitionTypes DEF Checks, StoppedAt
<1>3. Len(results') = i + (m + 1) /\ \A j \in 1..i : results'[j] = results[j]
  BY <1>2
<1>4. FirstFailure(i)'
  BY <1>1, <1>2, <1>3 DEF StoppedAt, FirstFailure
<1>5. QED
  BY <1>1, <1>3, <1>4 DEF Stopped, StoppedAt

LEMMA RecordOfComplete ==
    ASSUME TypeInv, RecordInv, Performing, NEW result \in BOOLEAN, Complete(result)
    PROVE  RecordInv'
<1>1. /\ running \in Capability /\ position \in Nat \ {0} /\ results \in Seq(BOOLEAN)
      /\ InPlace /\ results' = Append(results, result) /\ running' = running
  BY DEF TypeInv, TypeOK, RunTypeOK, Complete
<1>2. PICK c \in Capability, p \in Nat \ {0} : running = c /\ position = p
  BY <1>1
<1>. DEFINE d == Definition[c]
            n == Len(d.steps)
            m == Len(d.rollback)
<1>3. /\ n \in Nat \ {0} /\ m \in Nat /\ (d.rollback = << >> => m = 0)
      /\ Checks(d) = n + 1
  BY <1>2, DefinitionTypes, EmptySeq DEF Checks
<1>. HIDE DEF n, m
\* Leaving the steps or the verification for the rollback.
<1>4. ASSUME NEW i \in 1..(n + 1), Len(results') = i, FirstFailure(i)', Rollback(d),
             verified' = (IF i = n + 1 THEN "no" ELSE "unknown")
      PROVE  RecordInv'
  <2>1. Len(results') = i + 0 /\ Checks(Definition[running]) = n + 1
    BY <1>2, <1>3, <1>4
  <2>2. StoppedAt(i, 0)' /\ i \in 1..Checks(Definition[running'])
    BY <1>1, <1>4, <2>1 DEF StoppedAt
  <2>3. Stopped(0)'
    BY <2>2 DEF Stopped
  <2>4. verified' # "yes"
    BY <1>4
  <2>5. /\ position' - 1 = 0
        /\ stage' = (IF d.rollback = << >> THEN "record" ELSE "rollback")
    BY <1>4 DEF Rollback
  <2>6. CASE d.rollback = << >>
    <3>1. stage' = "record" /\ Len(Definition[running'].rollback) = 0
      BY <1>1, <1>2, <1>3, <2>5, <2>6 DEF m
    <3>2. QED
      BY <2>3, <2>4, <3>1 DEF RecordInv, Succeeded, Stopped, StoppedAt
  <2>7. CASE d.rollback # << >>
    BY <2>3, <2>5, <2>7 DEF RecordInv, Stopped, StoppedAt
  <2>8. QED
    BY <2>6, <2>7
<1>5. CASE stage = "steps"
  <2>1. /\ p \in 1..n /\ p \in 1..(n + 1) /\ p # n + 1
        /\ p - 1 \in Nat /\ (p - 1) + 1 = p
    BY <1>1, <1>2, <1>3, <1>5 DEF InPlace, n
  <2>2. AllOk(p - 1) /\ verified = "unknown" /\ verified' = verified
    BY <1>2, <1>5 DEF RecordInv, Complete, AfterStep
  <2>3. /\ result => AllOk((p - 1) + 1)'
        /\ ~result => Len(results') = (p - 1) + 1 /\ FirstFailure((p - 1) + 1)'
    BY <1>1, <2>1, <2>2, AppendResult
  <2>4. CASE ~result
    <3>1. Rollback(d)
      BY <1>2, <1>5, <2>4 DEF Complete, AfterStep
    <3>2. Len(results') = p /\ FirstFailure(p)'
      BY <2>1, <2>3, <2>4
    <3>3. QED
      BY <1>4, <2>1, <2>2, <3>1, <3>2
  <2>5. CASE result
    <3>1. AllOk(p)'
      BY <2>1, <2>3, <2>5
    <3>2. \/ p < n /\ stage' = "steps" /\ position' = p + 1
          \/ p = n /\ stage' = "verify"
      BY <1>2, <1>3, <1>5, <2>1, <2>5 DEF Complete, AfterStep, n
    <3>3. CASE p < n /\ stage' = "steps" /\ position' = p + 1
      <4>1. position' - 1 = p
        BY <3>3
      <4>2. QED
        BY <2>2, <3>1, <3>3, <4>1 DEF RecordInv, AllOk
    <3>4. CASE p = n /\ stage' = "verify"
      <4>1. Len(Definition[running'].steps) = p
        BY <1>1, <1>2, <3>4 DEF n
      <4>2. QED
        BY <2>2, <3>1, <3>4, <4>1 DEF RecordInv, AllOk
    <3>5. QED
      BY <3>2, <3>3, <3>4
  <2>6. QED
    BY <2>4, <2>5
<1>6. CASE stage = "verify"
  <2>1. AllOk(n) /\ verified = "unknown"
    BY <1>2, <1>6 DEF RecordInv, n
  <2>2. /\ result => AllOk(n + 1)'
        /\ ~result => Len(results') = n + 1 /\ FirstFailure(n + 1)'
    BY <1>1, <1>3, <2>1, AppendResult
  <2>3. CASE ~result
    <3>1. n + 1 \in 1..(n + 1)
      BY <1>3
    <3>2. verified' = "no" /\ Rollback(d)
      BY <1>2, <1>6, <2>3 DEF Complete, AfterVerification
    <3>3. QED
      BY <1>4, <2>2, <2>3, <3>1, <3>2
  <2>4. CASE result
    <3>1. verified' = "yes" /\ stage' = "record"
      BY <1>6, <2>4 DEF Complete, AfterVerification
    <3>2. Checks(Definition[running']) = n + 1
      BY <1>1, <1>2, <1>3
    <3>3. QED
      BY <2>2, <2>4, <3>1, <3>2 DEF RecordInv, Succeeded, AllOk
  <2>5. QED
    BY <2>3, <2>4
<1>7. CASE stage = "rollback"
  <2>1. p - 1 \in Nat /\ (p - 1) + 1 = p /\ p \in 1..m
    BY <1>1, <1>2, <1>3, <1>7 DEF InPlace, m
  <2>2. Stopped(p - 1) /\ verified' = verified
    BY <1>2, <1>7 DEF RecordInv, Complete, AfterRollback
  <2>3. Stopped((p - 1) + 1)'
    BY <1>1, <2>1, <2>2, AppendAfterStop
  <2>4. Stopped(p)' /\ verified' # "yes"
    BY <2>1, <2>3 DEF Stopped, StoppedAt
  <2>5. \/ p < m /\ stage' = "rollback" /\ position' - 1 = p
        \/ p = m /\ stage' = "record"
    BY <1>2, <1>3, <1>7, <2>1 DEF Complete, AfterRollback, m
  <2>6. CASE p < m /\ stage' = "rollback" /\ position' - 1 = p
    BY <2>4, <2>6 DEF RecordInv, Stopped, StoppedAt
  <2>7. CASE p = m /\ stage' = "record"
    <3>1. Len(Definition[running'].rollback) = p
      BY <1>1, <1>2, <2>7 DEF m
    <3>2. QED
      BY <2>4, <2>7, <3>1 DEF RecordInv, Stopped, StoppedAt, Succeeded
  <2>8. QED
    BY <2>5, <2>6, <2>7
<1>8. QED
  BY <1>5, <1>6, <1>7 DEF Performing

LEMMA RecordOfStep == TypeInv /\ RecordInv /\ [Next]_vars => RecordInv'
<1>. SUFFICES ASSUME TypeInv, RecordInv, [Next]_vars PROVE RecordInv'
  OBVIOUS
<1>1. InPlace /\ ok \in BOOLEAN
  BY DEF TypeInv, TypeOK, ProcessTypeOK
<1>2. ASSUME NEW result \in BOOLEAN, Performing, Complete(result) PROVE RecordInv'
  BY <1>2, RecordOfComplete
<1>3. CASE UNCHANGED run
  <2>1. UNCHANGED <<stage, running, position, results, verified>>
    BY <1>3 DEF run
  <2>2. QED
    BY <2>1 DEF RecordInv, AllOk, Stopped, StoppedAt, FirstFailure, Succeeded
<1>4. CASE stage' = "idle"
  BY <1>4 DEF RecordInv
<1>5. ASSUME NEW c \in Capability, StartRun(c) PROVE RecordInv'
  <2>1. /\ stage' = "steps" /\ position' - 1 = 0 /\ results' = << >> /\ verified' = "unknown"
    BY <1>5 DEF StartRun
  <2>2. Len(results') = 0
    BY <2>1
  <2>3. QED
    BY <2>1, <2>2 DEF RecordInv, AllOk
<1>6. CASE UserRequest \/ Pause
  BY <1>3, <1>5, <1>6 DEF UserRequest, SetAutonomy, PressPause, Pause, Resume, DecideCapability,
                          GrantReach, RevokeReach
<1>7. CASE RuntimeStep
  BY <1>1, <1>2, <1>3, <1>4, <1>7 DEF InPlace, RuntimeStep, Begin, SpawnFails, Wakes, Collect,
                                      TimesOut, FinishRun, NoChild
<1>8. CASE ChildWrites \/ ChildExits \/ HeirLetsGo \/ Tick \/ Restart \/ UNCHANGED vars
  BY <1>3, <1>4, <1>8 DEF ChildWrites, ChildExits, HeirLetsGo, Tick, Restart, vars
<1>9. QED
  BY <1>6, <1>7, <1>8 DEF Next

\* The record of a run (runtime.rs: execute): confirmed only if every step and
\* the verification were ok; otherwise it stopped at the first operation that
\* was not, and every operation of the rollback was attempted.
THEOREM RecordsAreSound == Spec => []RecordIsSound
<1>1. Init => RecordInv
  BY DEF Init, RecordInv
<1>2. RecordInv => RecordIsSound
  BY DEF RecordInv, RecordIsSound, AllOk, Stopped, StoppedAt, Checks
<1>3. QED
  BY <1>1, <1>2, TypesOfInit, TypesOfStep, RecordOfStep, PTL DEF Spec

-----------------------------------------------------------------------------
(* Why no window ever holds more runs than its limit.  What the limiter    *)
(* keeps is the end of the history of starts: it lacks the run in progress *)
(* and, once trimmed, the oldest.  Whatever was dropped is no younger than *)
(* any of the HistoryLength starts that were kept, which are more than the *)
(* daily limit; so where the limiter counts less than its limit everything *)
(* dropped is too old to count, and it has counted them all.               *)

\* How many runs have ended, and how many of those the limiter has forgotten.
Ended == IF stage = "idle" THEN Len(history) ELSE Len(history) - 1
Dropped == Ended - Len(taken)

HistoryInv ==
    /\ \A i, j \in DOMAIN history : i <= j => history[i] <= history[j]
    /\ \A i \in DOMAIN history : history[i] <= now
    /\ stage # "idle" => history # << >> /\ history[Len(history)] = stamp

KeptInv ==
    /\ Len(taken) <= Ended
    /\ \A i \in DOMAIN taken : taken[i] = history[Dropped + i]
    /\ Dropped > 0 => Len(taken) = HistoryLength

BudgetInv == HistoryInv /\ KeptInv /\ WithinBudget

\* The starts of the history, or what is kept of it, that a window still counts.
Recent(s, window) == {i \in DOMAIN s : s[i] + window >= now}

LEMMA RecentIsFinite ==
    ASSUME NEW s \in Seq(Nat), NEW window
    PROVE  IsFiniteSet(Recent(s, window)) /\ Cardinality(Recent(s, window)) \in Nat
<1>1. IsFiniteSet(DOMAIN s)
  BY LenProperties, FS_Interval
<1>2. IsFiniteSet(Recent(s, window))
  BY <1>1, FS_Subset DEF Recent
<1>3. QED
  BY <1>2, FS_CardinalityType

\* What check counts is what lies within the window.
LEMMA CountIsRecent ==
    ASSUME NEW window \in Nat, TypeOK
    PROVE  CountSince(taken, Since(now, window)) = Cardinality(Recent(taken, window))
<1>1. now \in Nat /\ \A i \in DOMAIN taken : taken[i] \in Nat
  BY DefinitionAssumption DEF TypeOK, LimiterTypeOK
<1>2. \A i \in DOMAIN taken : taken[i] >= Since(now, window) <=> taken[i] + window >= now
  BY <1>1 DEF Since
<1>3. QED
  BY <1>2 DEF CountSince, Recent

\* Below the daily limit the limiter counts every start there was.
LEMMA NothingRecentWasDropped ==
    ASSUME TypeOK, HistoryInv, KeptInv, stage = "idle",
           Cardinality(Recent(taken, Day)) < PerDay
    PROVE  \A i \in DOMAIN history : history[i] + Day >= now => i > Dropped
<1>1. /\ taken \in Seq(Nat) /\ history \in Seq(Nat) /\ now \in Nat
      /\ Day \in Nat /\ PerDay \in Nat
  BY LimitsAssumption, DefinitionAssumption DEF TypeOK, LimiterTypeOK
<1>2. SUFFICES ASSUME NEW i \in DOMAIN history, history[i] + Day >= now, i <= Dropped
               PROVE  FALSE
  BY <1>1 DEF Dropped, Ended
<1>3. Dropped \in Nat /\ Dropped + Len(taken) = Len(history) /\ Dropped > 0
  BY <1>1, <1>2 DEF Dropped, Ended, KeptInv
<1>4. \A j \in DOMAIN taken : /\ Dropped + j \in DOMAIN history /\ i <= Dropped + j
                              /\ taken[j] = history[Dropped + j]
  <2>1. \A j \in 1..Len(taken) : Dropped + j \in 1..Len(history) /\ i <= Dropped + j
    BY <1>1, <1>2, <1>3
  <2>2. DOMAIN taken = 1..Len(taken) /\ DOMAIN history = 1..Len(history)
    BY <1>1
  <2>3. QED
    BY <2>1, <2>2 DEF KeptInv
<1>5. \A j \in DOMAIN taken : history[i] <= taken[j]
  BY <1>2, <1>4 DEF HistoryInv
<1>6. \A j \in DOMAIN taken : taken[j] + Day >= now
  BY <1>1, <1>2, <1>5
<1>7. Recent(taken, Day) = 1..Len(taken)
  BY <1>1, <1>6 DEF Recent
<1>8. Cardinality(Recent(taken, Day)) = Len(taken)
  <2>1. Len(taken) \in Nat /\ 1 \in Int /\ Len(taken) \in Int
    BY <1>1
  <2>2. Cardinality(1..Len(taken)) = IF 1 > Len(taken) THEN 0 ELSE Len(taken) - 1 + 1
    BY <2>1, FS_Interval
  <2>3. QED
    BY <1>7, <2>1, <2>2
<1>9. Len(taken) = HistoryLength
  BY <1>3 DEF KeptInv
<1>10. HistoryLength >= PerDay
  BY <1>1 DEF HistoryLength
<1>11. QED
  BY <1>1, <1>8, <1>9, <1>10

LEMMA LimiterCountsThemAll ==
    ASSUME TypeOK, HistoryInv, KeptInv, stage = "idle",
           Cardinality(Recent(taken, Day)) < PerDay, NEW window \in {Hour, Day}
    PROVE  Cardinality(Recent(history, window)) <= Cardinality(Recent(taken, window))
<1>1. /\ taken \in Seq(Nat) /\ history \in Seq(Nat) /\ now \in Nat
      /\ window \in Nat /\ window <= Day /\ Day \in Nat
  BY LimitsAssumption, DefinitionAssumption DEF TypeOK, LimiterTypeOK
<1>2. Dropped \in Nat /\ Dropped + Len(taken) = Len(history)
  BY <1>1 DEF Dropped, Ended, KeptInv
<1>3. \A i \in Recent(history, window) :
        /\ i \in 1..Len(history) /\ i > Dropped /\ history[i] + window >= now
  <2>1. \A i \in Recent(history, window) :
          i \in DOMAIN history /\ history[i] + window >= now
    BY DEF Recent
  <2>2. \A i \in Recent(history, window) : history[i] + Day >= now
    BY <1>1, <2>1
  <2>3. QED
    BY <1>1, <2>1, <2>2, NothingRecentWasDropped
<1>4. \A i \in Recent(history, window) :
        i - Dropped \in DOMAIN taken /\ taken[i - Dropped] = history[i]
  <2>1. \A i \in Recent(history, window) :
          i - Dropped \in 1..Len(taken) /\ Dropped + (i - Dropped) = i
    BY <1>1, <1>2, <1>3
  <2>2. QED
    BY <1>1, <2>1 DEF KeptInv
<1>. DEFINE shift == [i \in Recent(history, window) |-> i - Dropped]
<1>5. shift \in Injection(Recent(history, window), Recent(taken, window))
  <2>1. \A i \in Recent(history, window) : shift[i] \in Recent(taken, window)
    BY <1>3, <1>4 DEF Recent
  <2>2. \A i, j \in Recent(history, window) : shift[i] = shift[j] => i = j
    BY <1>2, <1>3
  <2>3. shift \in [Recent(history, window) -> Recent(taken, window)]
    BY <2>1
  <2>. HIDE DEF shift
  <2>4. QED
    BY <2>2, <2>3 DEF Injection, IsInjective
<1>6. QED
  BY <1>1, <1>5, RecentIsFinite, FS_Injection

\* The limiter lets a run start only where there is room in both windows.
LEMMA AllowedIsBelowTheLimits ==
    ASSUME TypeOK, NEW c \in Capability, RulingOn(c) = "allowed"
    PROVE  /\ Cardinality(Recent(taken, Hour)) < PerHour
           /\ Cardinality(Recent(taken, Day)) < PerDay
<1>1. Check(taken, failures, now) = "ok"
  <2>. DEFINE p == [autonomy |-> autonomy, paused |-> paused, granted |-> granted,
                    taken |-> taken, failures |-> failures]
  <2>1. Rule(p, grants[c], Request(c), now) = "allowed"
    BY DEF RulingOn
  <2>2. AgainstTheBudget(taken, failures, now) = "allowed"
    BY <2>1 DEF Rule
  <2>3. QED
    BY <2>2 DEF AgainstTheBudget
<1>2. /\ taken \in Seq(Nat) /\ failures \in Nat
      /\ Hour \in Nat /\ Day \in Nat /\ PerHour \in Nat /\ PerDay \in Nat
      /\ StreakLimit \in Nat
  BY LimitsAssumption DEF TypeOK, LimiterTypeOK
<1>3. /\ CountSince(taken, Since(now, Hour)) = Cardinality(Recent(taken, Hour))
      /\ CountSince(taken, Since(now, Day)) = Cardinality(Recent(taken, Day))
  BY <1>2, CountIsRecent
<1>4. /\ Cardinality(Recent(taken, Hour)) \in Nat
      /\ Cardinality(Recent(taken, Day)) \in Nat
  BY <1>2, RecentIsFinite
<1>5. QED
  BY <1>1, <1>2, <1>3, <1>4 DEF Check

LEMMA BudgetOfStart ==
    ASSUME TypeInv, BudgetInv, NEW c \in Capability, StartRun(c) PROVE BudgetInv'
<1>1. /\ taken \in Seq(Nat) /\ history \in Seq(Nat) /\ now \in Nat /\ TypeOK
      /\ PerHour \in Nat /\ PerDay \in Nat
  BY LimitsAssumption, DefinitionAssumption DEF TypeInv, TypeOK, LimiterTypeOK
<1>2. /\ stage = "idle" /\ stage' = "steps" /\ stamp' = now /\ RulingOn(c) = "allowed"
      /\ history' = Append(history, now) /\ UNCHANGED <<taken, now>>
  BY DEF StartRun, limiter
<1>3. /\ Len(history') = Len(history) + 1 /\ history'[Len(history) + 1] = now
      /\ \A i \in 1..Len(history) : history'[i] = history[i]
      /\ DOMAIN history' = 1..(Len(history) + 1) /\ DOMAIN history = 1..Len(history)
  BY <1>1, <1>2
<1>4. HistoryInv'
  <2>1. \A i \in DOMAIN history' : history'[i] <= now
    BY <1>1, <1>3 DEF BudgetInv, HistoryInv
  <2>2. \A i, j \in DOMAIN history' : i <= j => history'[i] <= history'[j]
    <3>. SUFFICES ASSUME NEW i \in DOMAIN history', NEW j \in DOMAIN history', i <= j
                  PROVE  history'[i] <= history'[j]
      OBVIOUS
    <3>1. CASE j = Len(history) + 1
      BY <1>3, <2>1, <3>1
    <3>2. CASE j # Len(history) + 1
      <4>1. i \in 1..Len(history) /\ j \in 1..Len(history)
        BY <1>1, <1>3, <3>2
      <4>2. QED
        BY <1>3, <4>1 DEF BudgetInv, HistoryInv
    <3>3. QED
      BY <3>1, <3>2
  <2>3. history' # << >> /\ history'[Len(history')] = stamp'
    BY <1>1, <1>2, <1>3
  <2>4. QED
    BY <1>2, <2>1, <2>2, <2>3 DEF HistoryInv
<1>5. KeptInv'
  <2>1. Ended' = Ended /\ Dropped' = Dropped
    BY <1>1, <1>2, <1>3 DEF Ended, Dropped
  <2>2. Dropped + Len(taken) = Len(history) /\ Dropped \in Nat
    BY <1>1, <1>2 DEF BudgetInv, KeptInv, Ended, Dropped
  <2>3. \A i \in DOMAIN taken : Dropped + i \in 1..Len(history)
    BY <1>1, <2>2
  <2>4. QED
    BY <1>2, <1>3, <2>1, <2>3 DEF BudgetInv, KeptInv
<1>6. ASSUME NEW window \in {Hour, Day}, NEW limit \in Nat,
             Cardinality(Recent(taken, window)) < limit
      PROVE  StartedWithin(window)' <= limit
  <2>1. Cardinality(Recent(taken, Day)) < PerDay
    BY <1>1, <1>2, AllowedIsBelowTheLimits
  <2>2. Cardinality(Recent(history, window)) <= Cardinality(Recent(taken, window))
    BY <1>1, <1>2, <2>1, LimiterCountsThemAll DEF BudgetInv
  <2>. DEFINE R == Recent(history, window)
  <2>3. {i \in DOMAIN history' : history'[i] + window >= now'} = R \cup {Len(history) + 1}
    <3>1. window \in Nat
      BY LimitsAssumption
    <3>2. now + window >= now
      BY <1>1, <3>1
    <3>3. QED
      BY <1>1, <1>2, <1>3, <3>2 DEF Recent
  <2>4. /\ Cardinality(R \cup {Len(history) + 1}) <= Cardinality(R) + 1
        /\ Cardinality(R) \in Nat
    <3>1. IsFiniteSet(R) /\ Cardinality(R) \in Nat
      BY <1>1, RecentIsFinite
    <3>. HIDE DEF R
    <3>2. Cardinality(R \cup {Len(history) + 1}) =
            IF Len(history) + 1 \in R THEN Cardinality(R) ELSE Cardinality(R) + 1
      BY <3>1, FS_AddElement
    <3>3. QED
      BY <3>1, <3>2
  <2>5. Cardinality(Recent(taken, window)) \in Nat
    BY <1>1, RecentIsFinite
  <2>. HIDE DEF R
  <2>6. StartedWithin(window)' = Cardinality(R \cup {Len(history) + 1})
    BY <2>3 DEF StartedWithin
  <2>7. Cardinality(R) <= Cardinality(Recent(taken, window))
    BY <2>2 DEF R
  <2>8. Cardinality(R \cup {Len(history) + 1}) \in Nat
    <3>1. IsFiniteSet(R)
      BY <1>1, RecentIsFinite DEF R
    <3>2. QED
      BY <3>1, FS_AddElement, FS_CardinalityType
  <2>9. QED
    BY <1>6, <2>4, <2>5, <2>6, <2>7, <2>8
<1>7. WithinBudget'
  BY <1>1, <1>2, <1>6, AllowedIsBelowTheLimits DEF WithinBudget
<1>8. QED
  BY <1>4, <1>5, <1>7 DEF BudgetInv

\* A run that ends is the newest the limiter keeps; the oldest may go.
LEMMA BudgetOfFinish ==
    ASSUME TypeInv, BudgetInv, FinishRun PROVE BudgetInv'
<1>1. /\ taken \in Seq(Nat) /\ history \in Seq(Nat) /\ stamp \in Nat
      /\ HistoryLength \in Nat \ {0}
  <2>1. HistoryLength \in Nat \ {0}
    BY LimitsAssumption DEF HistoryLength
  <2>2. QED
    BY <2>1, DefinitionAssumption DEF TypeInv, TypeOK, LimiterTypeOK, RunTypeOK
<1>2. /\ stage = "record" /\ stage' = "idle" /\ taken' = Trim(Append(taken, stamp))
      /\ UNCHANGED <<history, now>>
  BY DEF FinishRun, RecordTaken
<1>3. HistoryInv' /\ WithinBudget'
  BY <1>2 DEF BudgetInv, HistoryInv, WithinBudget, StartedWithin
<1>. DEFINE t == Append(taken, stamp)
<1>4. /\ t \in Seq(Nat) /\ Len(t) = Len(taken) + 1 /\ t[Len(taken) + 1] = stamp
      /\ \A i \in 1..Len(taken) : t[i] = taken[i]
  BY <1>1
<1>. HIDE DEF t
<1>5. /\ Dropped \in Nat /\ Dropped + Len(t) = Len(history)
      /\ history[Len(history)] = stamp
  BY <1>1, <1>2, <1>4 DEF BudgetInv, HistoryInv, KeptInv, Ended, Dropped
<1>6. \A i \in 1..Len(t) : t[i] = history[Dropped + i]
  <2>. SUFFICES ASSUME NEW i \in 1..Len(t) PROVE t[i] = history[Dropped + i]
    OBVIOUS
  <2>1. CASE i = Len(taken) + 1
    BY <1>4, <1>5, <2>1
  <2>2. CASE i # Len(taken) + 1
    <3>1. i \in 1..Len(taken) /\ i \in DOMAIN taken
      BY <1>1, <1>4, <2>2
    <3>2. QED
      BY <1>4, <3>1 DEF BudgetInv, KeptInv
  <2>3. QED
    BY <2>1, <2>2
<1>7. CASE Len(t) <= HistoryLength
  <2>1. taken' = t
    BY <1>2, <1>7 DEF Trim, t
  <2>2. Dropped = 0
    BY <1>1, <1>4, <1>5, <1>7 DEF BudgetInv, KeptInv
  <2>3. Ended' = Len(history) /\ Dropped' = 0
    BY <1>2, <1>1, <1>4, <1>5, <2>1, <2>2 DEF Ended, Dropped
  <2>4. KeptInv'
    BY <1>1, <1>2, <1>4, <1>5, <1>6, <2>1, <2>2, <2>3 DEF KeptInv
  <2>5. QED
    BY <1>3, <2>4 DEF BudgetInv
<1>8. CASE ~(Len(t) <= HistoryLength)
  <2>. DEFINE cut == Len(t) - HistoryLength
  <2>1. cut \in Nat /\ cut >= 1 /\ Len(t) \in Nat /\ cut + HistoryLength = Len(t)
    BY <1>1, <1>4, <1>8
  <2>2. taken' = SubSeq(t, cut + 1, Len(t))
    BY <1>2, <1>8 DEF Trim, t
  <2>. HIDE DEF cut
  <2>3. /\ Len(taken') = HistoryLength
        /\ \A i \in 1..HistoryLength : taken'[i] = t[cut + i]
    <3>1. \A i \in (cut + 1)..Len(t) : t[i] \in Nat
      BY <1>4, <2>1
    <3>2. /\ Len(taken') = Len(t) - (cut + 1) + 1
          /\ \A i \in 1..(Len(t) - (cut + 1) + 1) : taken'[i] = t[(cut + 1) + i - 1]
      <4>1. cut + 1 \in Int /\ Len(t) \in Int
        BY <2>1
      <4>2. /\ Len(SubSeq(t, cut + 1, Len(t))) =
                 (IF cut + 1 <= Len(t) THEN Len(t) - (cut + 1) + 1 ELSE 0)
            /\ \A i \in 1..(Len(t) - (cut + 1) + 1) :
                 SubSeq(t, cut + 1, Len(t))[i] = t[(cut + 1) + i - 1]
        BY <3>1, <4>1, SubSeqProperties
      <4>3. cut + 1 <= Len(t)
        BY <1>1, <2>1
      <4>4. QED
        BY <2>2, <4>2, <4>3
    <3>3. Len(t) - (cut + 1) + 1 = HistoryLength
      BY <1>1, <2>1
    <3>4. \A i \in 1..HistoryLength : (cut + 1) + i - 1 = cut + i
      BY <1>1, <2>1
    <3>5. QED
      BY <3>2, <3>3, <3>4
  <2>4. Dropped' = Dropped + cut
    <3>1. Ended' = Len(history)
      BY <1>2 DEF Ended
    <3>2. Dropped' = Len(history) - HistoryLength
      BY <2>3, <3>1 DEF Dropped
    <3>3. \A d, c, h \in Nat : (d + (c + h)) - h = d + c
      OBVIOUS
    <3>4. Len(history) = Dropped + (cut + HistoryLength)
      BY <1>5, <2>1
    <3>5. QED
      BY <1>1, <1>5, <2>1, <3>2, <3>3, <3>4
  <2>5. \A i \in 1..HistoryLength : taken'[i] = history[(Dropped + cut) + i]
    <3>. SUFFICES ASSUME NEW i \in 1..HistoryLength
                  PROVE  taken'[i] = history[(Dropped + cut) + i]
      OBVIOUS
    <3>1. cut + i \in 1..Len(t) /\ Dropped + (cut + i) = (Dropped + cut) + i
      BY <1>1, <1>5, <2>1
    <3>2. QED
      BY <1>6, <2>3, <3>1
  <2>6. DOMAIN taken' = 1..HistoryLength
    <3>1. taken' \in Seq(Nat)
      BY <1>1, <1>2, TrimTypes DEF RecordTaken
    <3>2. QED
      BY <2>3, <3>1
  <2>7. KeptInv'
    <3>1. Ended' = Len(history) /\ HistoryLength <= Len(history)
      BY <1>1, <1>2, <1>5, <2>1 DEF Ended
    <3>2. QED
      BY <1>2, <2>3, <2>4, <2>5, <2>6, <3>1 DEF KeptInv
  <2>8. QED
    BY <1>3, <2>7 DEF BudgetInv
<1>9. QED
  BY <1>7, <1>8

\* Time only lets starts leave a window.
LEMMA BudgetOfTick ==
    ASSUME TypeInv, BudgetInv, Tick PROVE BudgetInv'
<1>1. /\ history \in Seq(Nat) /\ now \in Nat /\ now' = now + 1
      /\ UNCHANGED <<taken, history, stage, stamp>>
  BY DefinitionAssumption DEF TypeInv, TypeOK, LimiterTypeOK, Tick, limiter, ghosts, run
<1>2. HistoryInv'
  <2>1. \A i \in DOMAIN history : history[i] \in Nat
    BY <1>1
  <2>2. QED
    BY <1>1, <2>1 DEF BudgetInv, HistoryInv
<1>3. KeptInv'
  BY <1>1 DEF BudgetInv, KeptInv, Ended, Dropped
<1>4. ASSUME NEW window \in Nat, NEW limit \in Nat, StartedWithin(window) <= limit
      PROVE  StartedWithin(window)' <= limit
  <2>. DEFINE later == {i \in DOMAIN history : history[i] + window >= now + 1}
  <2>1. later \subseteq Recent(history, window)
    BY <1>1 DEF Recent
  <2>2. /\ Cardinality(later) \in Nat /\ Cardinality(Recent(history, window)) \in Nat
        /\ Cardinality(later) <= Cardinality(Recent(history, window))
    BY <1>1, <2>1, RecentIsFinite, FS_Subset, FS_CardinalityType
  <2>3. StartedWithin(window)' = Cardinality(later)
    BY <1>1 DEF StartedWithin
  <2>. HIDE DEF later
  <2>4. QED
    BY <1>4, <2>2, <2>3 DEF StartedWithin, Recent
<1>5. WithinBudget'
  BY <1>4, LimitsAssumption DEF BudgetInv, WithinBudget
<1>6. QED
  BY <1>2, <1>3, <1>5 DEF BudgetInv

LEMMA BudgetOfEmpty ==
    ASSUME history = << >>, taken = << >>, stage = "idle" PROVE BudgetInv
<1>1. Len(history) = 0 /\ Len(taken) = 0 /\ DOMAIN history = {} /\ DOMAIN taken = {}
  OBVIOUS
<1>2. StartedWithin(Hour) = 0 /\ StartedWithin(Day) = 0
  BY <1>1, FS_EmptySet DEF StartedWithin
<1>3. QED
  BY <1>1, <1>2, LimitsAssumption DEF BudgetInv, HistoryInv, KeptInv, Ended, Dropped, WithinBudget

LEMMA BudgetOfStep == TypeInv /\ BudgetInv /\ [Next]_vars => BudgetInv'
<1>. SUFFICES ASSUME TypeInv, BudgetInv, [Next]_vars PROVE BudgetInv'
  OBVIOUS
<1>1. ASSUME UNCHANGED <<taken, history, now, stamp>>, stage = "idle" <=> stage' = "idle"
      PROVE  BudgetInv'
  BY <1>1 DEF BudgetInv, HistoryInv, KeptInv, Ended, Dropped, WithinBudget, StartedWithin
<1>2. ASSUME NEW c \in Capability, StartRun(c) PROVE BudgetInv'
  BY <1>2, BudgetOfStart
<1>3. CASE FinishRun
  BY <1>3, BudgetOfFinish
<1>4. CASE Tick
  BY <1>4, BudgetOfTick
<1>5. CASE Restart
  <2>1. history' = << >> /\ taken' = << >> /\ stage' = "idle"
    BY <1>5 DEF Restart
  <2>2. (Len(history))' = 0 /\ (Len(taken))' = 0 /\ DOMAIN history' = {} /\ DOMAIN taken' = {}
    BY <2>1
  <2>3. StartedWithin(Hour)' = 0 /\ StartedWithin(Day)' = 0
    BY <2>2, FS_EmptySet DEF StartedWithin
  <2>4. QED
    BY <2>1, <2>2, <2>3, LimitsAssumption
       DEF BudgetInv, HistoryInv, KeptInv, Ended, Dropped, WithinBudget
<1>6. ASSUME NEW result \in BOOLEAN, Performing, Complete(result) PROVE BudgetInv'
  <2>1. UNCHANGED <<taken, history, now, stamp>>
    BY <1>6 DEF Complete, limiter, ghosts
  <2>2. stage # "idle" /\ stage' # "idle"
    BY <1>6 DEF Performing, Complete, AfterStep, AfterVerification, AfterRollback, Rollback
  <2>3. QED
    BY <1>1, <2>1, <2>2
<1>7. CASE UserRequest \/ Pause
  BY <1>1, <1>2, <1>7 DEF UserRequest, SetAutonomy, PressPause, Pause, Resume, DecideCapability,
                          GrantReach, RevokeReach, limiter, ghosts, run
<1>8. CASE Begin \/ SpawnFails \/ Wakes \/ Collect \/ TimesOut
  <2>1. InPlace /\ ok \in BOOLEAN
    BY DEF TypeInv, TypeOK, ProcessTypeOK
  <2>2. QED
    BY <1>1, <1>6, <1>8, <2>1 DEF InPlace, Begin, SpawnFails, Wakes, Collect, TimesOut, NoChild,
                                  limiter, ghosts, run
<1>9. CASE ChildWrites \/ ChildExits \/ HeirLetsGo \/ UNCHANGED vars
  BY <1>1, <1>9 DEF ChildWrites, ChildExits, HeirLetsGo, vars, limiter, ghosts, run
<1>10. QED
  BY <1>3, <1>4, <1>5, <1>7, <1>8, <1>9 DEF Next, RuntimeStep

\* Whatever the mode, and however runs, failures, trimming and the passing of
\* time interleave, one process never starts more runs in an hour or a day than
\* the limits allow (limits.rs: check, record).
THEOREM BudgetHolds == Spec => []WithinBudget
<1>1. Init => BudgetInv
  BY BudgetOfEmpty DEF Init
<1>2. BudgetInv => WithinBudget
  BY DEF BudgetInv
<1>3. QED
  BY <1>1, <1>2, TypesOfInit, TypesOfStep, BudgetOfStep, PTL DEF Spec

=============================================================================
