---------------------------- MODULE MachineProofs ----------------------------
(***************************************************************************)
(* The loop of ControlLoop.tla, for any candidates, machine, limits and    *)
(* length of the log: what it does on effects alone, that its log is true, *)
(* that failures stop it and that the rate it keeps to is a rate.  Then    *)
(* what the reflections leave behind, for any states, lengths and          *)
(* ceilings: that each is counted for one state, that what is not dirty is *)
(* saved, and what a ring of any capacity holds.                           *)
(***************************************************************************)
EXTENDS ControlLoop, Reflections, SumTheorems, SequenceTheorems, TLAPS

\* An entry of the log that changed nothing and can be undone by nothing.
IsHold(event) == event.kind = Hold /\ event.previous = {}

HoldLog == log \in Seq([kind : {Hold}, disposition : {"applied"}, previous : {{}}, at : Nat])

\* While nothing was tried nothing can be predicted, so nothing is tried.
HoldInv ==
    /\ enough \in Nat /\ now \in Nat
    /\ enough > 0 => /\ pending = {} /\ trials = [f \in Family |-> 0] /\ HoldLog

LEMMA HoldLogHolds ==
    ASSUME HoldLog PROVE \A i \in DOMAIN log : IsHold(log[i])
<1>. DEFINE Entry == [kind : {Hold}, disposition : {"applied"}, previous : {{}}, at : Nat]
<1>1. SUFFICES ASSUME NEW i \in DOMAIN log PROVE IsHold(log[i])
  OBVIOUS
<1>2. log \in Seq(Entry)
  BY DEF HoldLog
<1>3. log[i] \in Entry
  <2>. HIDE DEF Entry
  <2>. QED
    BY <1>1, <1>2
<1>4. QED
  BY <1>3 DEF IsHold

LEMMA NothingPredictable ==
    ASSUME HoldInv, enough > 0 PROVE Predictable = {} /\ TrialsAfter = trials
<1>1. trials = [f \in Family |-> 0] /\ pending = {}
  BY DEF HoldInv
<1>2. TrialsAfter = [f \in Family |-> 0]
  BY <1>1 DEF TrialsAfter
<1>3. \A k \in Candidates : k.family \in Family
  BY LoopAssumption DEF Kinds
<1>4. \A k \in Candidates : TrialsAfter[k.family] = 0
  BY <1>2, <1>3
<1>5. ~(0 >= enough)
  BY DEF HoldInv
<1>6. QED
  BY <1>1, <1>2, <1>4, <1>5 DEF Predictable

LEMMA NothingToUndo ==
    ASSUME HoldInv, enough > 0, RevertLast PROVE log' = log
<1>1. \A i \in DOMAIN log : log[i].previous = {}
  BY HoldLogHolds DEF HoldInv, IsHold
<1>2. Undoable = {}
  BY <1>1 DEF Undoable
<1>3. QED
  BY <1>2 DEF RevertLast

LEMMA HoldIsRecorded ==
    ASSUME HoldInv, enough > 0, Perform(Hold) PROVE HoldLog'
<1>. DEFINE Entry == [kind : {Hold}, disposition : {"applied"}, previous : {{}}, at : Nat]
            new == Event(Hold, "applied", {})
<1>1. new \in Entry
  BY DEF Event, HoldInv
<1>2. log' = Recorded(log, new)
  BY DEF Perform
<1>3. log \in Seq(Entry)
  BY DEF HoldInv, HoldLog
<1>4. log' \in Seq(Entry)
  <2>. HIDE DEF Entry, new
  <2>1. CASE Len(log) = LogCapacity
    <3>1. log # <<>>
      BY <2>1, ActuatorsAssumption
    <3>2. Tail(log) \in Seq(Entry)
      BY <1>3, <3>1
    <3>3. QED
      BY <1>1, <1>2, <2>1, <3>2 DEF Recorded
  <2>2. CASE Len(log) # LogCapacity
    BY <1>1, <1>2, <1>3, <2>2 DEF Recorded
  <2>3. QED
    BY <2>1, <2>2
<1>5. QED
  BY <1>4 DEF HoldLog

LEMMA HoldInit == LoopInit => HoldInv
BY ActuatorsAssumption, LoopAssumption DEF LoopInit, ActuatorsInit, HoldInv, HoldLog

\* A tick in which nothing can be predicted holds, or does nothing at all.
LEMMA TickHolds ==
    ASSUME HoldInv, enough > 0, LoopTick
    PROVE  pending' = {} /\ trials' = trials /\ HoldLog'
<1>1. Predictable = {} /\ trials' = trials
  BY NothingPredictable DEF LoopTick
<1>2. PICK improved \in BOOLEAN, unskilled \in BOOLEAN, overrun \in BOOLEAN :
        LET d == DogAfterOutcome(improved)
            verdict == Verdict(d, unskilled)
        IN  \/ verdict = "stop" /\ Stops(d, overrun) /\ pending' = {} /\ UNCHANGED policy
            \/ verdict = "pause" /\ dog' = Completed(d, overrun) /\ pending' = {}
               /\ UNCHANGED <<machine, actuators, policy>>
            \/ verdict = "proceed" /\ Acts(d, overrun)
  BY DEF LoopTick
<1>. DEFINE d == DogAfterOutcome(improved)
<1>3. CASE Stops(d, overrun) /\ pending' = {}
  <2>1. log' = log
    BY <1>3, NothingToUndo DEF Stops
  <2>2. QED
    BY <1>1, <1>3, <2>1 DEF HoldInv, HoldLog
<1>4. CASE pending' = {} /\ UNCHANGED <<machine, actuators, policy>>
  BY <1>1, <1>4 DEF actuators, HoldInv, HoldLog
<1>5. CASE Acts(d, overrun)
  <2>1. PICK choice \in Decisions([policy EXCEPT !.decisions = @ + 1]) :
          /\ Perform(choice.kind)
          /\ choice.kind = Hold => pending' = {}
    BY <1>5 DEF Acts
  <2>2. choice.kind = Hold
    BY <1>1, <2>1 DEF Decisions
  <2>3. QED
    BY <1>1, <2>1, <2>2, HoldIsRecorded
<1>6. QED
  BY <1>2, <1>3, <1>4, <1>5

\* A loop that predicts with what it has learned from its own actions, and with
\* nothing else, never acts, whatever it is offered and however long it runs
\* (effects.rs, learn and predict; policy.rs, decide).
THEOREM HoldsForEver == LoopSpec => []OnlyHeldOnEffects
<1>1. HoldInv /\ [LoopNext]_loopVars => HoldInv'
  <2>1. SUFFICES ASSUME HoldInv, [LoopNext]_loopVars PROVE HoldInv'
    OBVIOUS
  <2>2. ASSUME log' = log, UNCHANGED <<now, enough, pending, trials>> PROVE HoldInv'
    BY <2>1, <2>2 DEF HoldInv, HoldLog
  <2>3. CASE LoopTick
    <3>1. enough' = enough /\ now' = now
      BY <2>3 DEF LoopTick
    <3>2. QED
      BY <2>1, <2>3, <3>1, TickHolds DEF HoldInv
  <2>4. CASE NextReflection
    <3>1. now' = now + 1 /\ log' = log /\ UNCHANGED <<enough, pending, trials>>
      BY <2>4 DEF NextReflection, Tick, actuators, loop
    <3>2. QED
      BY <2>1, <3>1 DEF HoldInv, HoldLog
  <2>5. CASE Leave \/ SourceFails
    BY <2>2, <2>5 DEF Leave, SourceFails, actuators, loop
  <2>6. CASE Revert
    <3>1. UNCHANGED <<now, enough, pending, trials>> /\ RevertLast
      BY <2>6 DEF Revert, loop
    <3>2. CASE enough > 0
      BY <2>1, <2>2, <3>1, <3>2, NothingToUndo
    <3>3. CASE ~(enough > 0)
      BY <2>1, <3>1, <3>3 DEF HoldInv
    <3>4. QED
      BY <3>2, <3>3
  <2>7. CASE Environment
    BY <2>2, <2>7 DEF Environment, ProcessComesAndGoes, actuators, loop
  <2>8. CASE UNCHANGED loopVars
    BY <2>2, <2>8 DEF loopVars, actuators, loop
  <2>9. QED
    BY <2>1, <2>3, <2>4, <2>5, <2>6, <2>7, <2>8 DEF LoopNext
<1>2. HoldInv => OnlyHeldOnEffects
  BY HoldLogHolds DEF HoldInv, OnlyHeldOnEffects, IsHold
<1>3. QED
  BY <1>1, <1>2, HoldInit, PTL DEF LoopSpec

-----------------------------------------------------------------------------
(* What one step does to the log and to the machine.                       *)

Dispositions == {"applied", "unconfirmed", "failed", "refused", "reverted"}

Event_ == [kind : Kinds \cup {Hold}, disposition : Dispositions,
           previous : SUBSET Value, at : Nat]

\* What a hold changed is nothing, and nothing can be undone of it.
Entry_ == {e \in Event_ : e.kind = Hold => e.previous = {}}

LoopTypeInv ==
    /\ now \in Nat /\ setting \in [Family \X Target -> Value]
    /\ log \in Seq(Entry_) /\ Len(log) <= LogCapacity
    /\ done \in Seq([target : Target, at : Nat])
    /\ dog \in [stopped : BOOLEAN, failures : Nat, ticks : {dog.ticks},
                overruns : {dog.overruns}, regressions : {dog.regressions},
                recent : {dog.recent}]

\* What an entry says of the machine is what was done to it, and to the process
\* that has the number now.
Effect(e) ==
    IF e.kind = Hold \/ e.disposition = "refused" THEN UNCHANGED <<setting, ended>>
    ELSE /\ \E v \in Value :
               /\ setting' = [setting EXCEPT ![<<e.kind.family, e.kind.target>>] = v]
               /\ e.disposition = "applied" => v = e.kind.value
         /\ ended \ {<<e.kind.family, e.kind.target>>} \subseteq ended'

\* A process that comes or goes disturbs no setting but those that are from
\* then on another process's.
Passes ==
    /\ log' = log /\ setting' \in [Family \X Target -> Value]
    /\ ended \subseteq ended'
    /\ \A x \in Family \X Target : x \in ended' \/ setting'[x] = setting[x]

Records(e) == e \in Entry_ /\ e.at = now /\ log' = Recorded(log, e) /\ Effect(e)

LEMMA HoldIsNoKind == Hold \notin Kinds
BY ActuatorsAssumption DEF Hold, Kinds

\* Each entry of r but the last was in s, one further on if the first of s was
\* dropped to make room.
Shifted(s, r, k) ==
    /\ Len(r) = Len(s) + 1 - k
    /\ k = 1 => Len(s) = LogCapacity
    /\ \A i \in 1 .. Len(r) - 1 : i + k \in 1 .. Len(s) /\ r[i] = s[i + k]

\* Where the entries of the log are once one more is recorded: all that were
\* there, but perhaps the first, and after them the new one.
LEMMA RecordedLog ==
    ASSUME NEW S, NEW s \in Seq(S), Len(s) <= LogCapacity, NEW e \in S
    PROVE  LET r == Recorded(s, e) IN
           /\ r \in Seq(S) /\ Len(r) <= LogCapacity /\ Len(r) \in Nat \ {0}
           /\ r[Len(r)] = e
           /\ \E k \in {0, 1} : Shifted(s, r, k)
<1>1. LogCapacity \in Nat \ {0} /\ Len(s) \in Nat
  BY ActuatorsAssumption
<1>2. CASE Len(s) = LogCapacity
  <2>. DEFINE t == Tail(s)
  <2>1. s # << >>
    BY <1>1, <1>2
  <2>2. t \in Seq(S) /\ Len(t) = Len(s) - 1 /\ \A i \in 1 .. Len(s) - 1 : t[i] = s[i + 1]
    BY <2>1
  <2>. HIDE DEF t
  <2>3. Recorded(s, e) = Append(t, e)
    BY <1>2 DEF Recorded, t
  <2>. DEFINE r == Append(t, e)
  <2>4. /\ r \in Seq(S) /\ Len(r) = Len(s) /\ r[Len(r)] = e
        /\ \A i \in 1 .. Len(r) - 1 : r[i] = s[i + 1] /\ i + 1 \in 1 .. Len(s)
    BY <1>1, <2>2
  <2>. HIDE DEF r
  <2>5. Len(r) = Len(s) + 1 - 1
    BY <1>1, <2>4
  <2>6. Shifted(s, r, 1)
    BY <1>2, <2>4, <2>5 DEF Shifted
  <2>7. QED
    BY <1>1, <1>2, <2>3, <2>4, <2>6 DEF r
<1>3. CASE Len(s) # LogCapacity
  <2>. DEFINE r == Append(s, e)
  <2>1. Recorded(s, e) = r
    BY <1>3 DEF Recorded
  <2>2. /\ r \in Seq(S) /\ Len(r) = Len(s) + 1 /\ r[Len(r)] = e
        /\ \A i \in 1 .. Len(r) - 1 : r[i] = s[i + 0] /\ i + 0 \in 1 .. Len(s)
    BY <1>1
  <2>. HIDE DEF r
  <2>3. Len(r) = Len(s) + 1 - 0
    BY <1>1, <2>2
  <2>4. Shifted(s, r, 0)
    BY <2>2, <2>3 DEF Shifted
  <2>5. QED
    BY <1>1, <1>3, <2>1, <2>2, <2>4
<1>4. QED
  BY <1>2, <1>3

\* What the kernel may do with an action is a value of the setting it is about;
\* and what is then called confirmed is what was asked for.
LEMMA ApplyIsAValue ==
    ASSUME LoopTypeInv, NEW kind \in Kinds, NEW outcome \in Apply(kind)
    PROVE  /\ outcome.value \in Value
           /\ Disposition(outcome) = "applied" => outcome.value = kind.value
           /\ Disposition(outcome) \in {"applied", "failed", "unconfirmed"}
<1>1. kind.family \in Family /\ kind.target \in Target /\ kind.value \in Value
  BY DEF Kinds
<1>2. setting[kind.family, kind.target] \in Value
  BY <1>1 DEF LoopTypeInv
<1>3. \/ outcome = [value |-> setting[kind.family, kind.target], attempted |-> FALSE,
                    confirmed |-> "unknown"]
      \/ outcome = [value |-> setting[kind.family, kind.target], attempted |-> TRUE,
                    confirmed |-> "no"]
      \/ \E v \in Value : outcome = [value |-> v, attempted |-> TRUE, confirmed |-> "unknown"]
      \/ \E v \in Value : outcome = [value |-> v, attempted |-> TRUE,
                                     confirmed |-> IF v = kind.value THEN "yes" ELSE "no"]
  BY DEF Apply
<1>4. /\ outcome.value \in Value
      /\ outcome.confirmed \in {"unknown", "no", "yes"}
      /\ outcome.attempted \in BOOLEAN
      /\ outcome.confirmed = "yes" => outcome.value = kind.value
  <2>1. ASSUME NEW v \in Value,
               outcome = [value |-> v, attempted |-> TRUE,
                          confirmed |-> IF v = kind.value THEN "yes" ELSE "no"]
        PROVE  /\ outcome.value = v /\ outcome.attempted = TRUE
               /\ outcome.confirmed = IF v = kind.value THEN "yes" ELSE "no"
    BY <2>1
  <2>2. ASSUME NEW v \in Value, NEW attempted \in BOOLEAN, NEW confirmed \in {"unknown", "no"},
               outcome = [value |-> v, attempted |-> attempted, confirmed |-> confirmed]
        PROVE  outcome.value = v /\ outcome.attempted = attempted /\ outcome.confirmed = confirmed
    BY <2>2
  <2>. DEFINE before == setting[kind.family, kind.target]
              Good == /\ outcome.value \in Value
                      /\ outcome.confirmed \in {"unknown", "no", "yes"}
                      /\ outcome.attempted \in BOOLEAN
                      /\ outcome.confirmed = "yes" => outcome.value = kind.value
  <2>3. ASSUME outcome = [value |-> before, attempted |-> FALSE, confirmed |-> "unknown"]
        PROVE  Good
    BY <1>2, <2>2, <2>3
  <2>4. ASSUME outcome = [value |-> before, attempted |-> TRUE, confirmed |-> "no"]
        PROVE  Good
    BY <1>2, <2>2, <2>4
  <2>5. ASSUME NEW v \in Value,
               outcome = [value |-> v, attempted |-> TRUE, confirmed |-> "unknown"]
        PROVE  Good
    BY <2>2, <2>5
  <2>6. ASSUME NEW v \in Value,
               outcome = [value |-> v, attempted |-> TRUE,
                          confirmed |-> IF v = kind.value THEN "yes" ELSE "no"]
        PROVE  Good
    BY <2>1, <2>6
  <2>. HIDE DEF Good
  <2>7. Good
    BY <1>3, <2>3, <2>4, <2>5, <2>6
  <2>8. QED
    BY <2>7 DEF Good
<1>5. QED
  BY <1>4 DEF Disposition

LEMMA PerformRecords ==
    ASSUME LoopTypeInv, NEW kind \in Kinds \cup {Hold}, Perform(kind)
    PROVE  \E e \in Entry_ :
              /\ Records(e) /\ e.kind = kind
              /\ e.disposition # "reverted"
              /\ kind # Hold /\ Changed(e.disposition) => CheckRate(kind.target)
<1>1. now \in Nat
  BY DEF LoopTypeInv
<1>2. CASE kind = Hold
  <2>. DEFINE e == Event(Hold, "applied", {})
  <2>1. e \in Entry_ /\ e.kind = Hold /\ e.at = now /\ e.disposition = "applied"
    BY <1>1 DEF Event, Entry_, Event_, Dispositions
  <2>2. log' = Recorded(log, e) /\ UNCHANGED <<setting, ended>>
    BY <1>2 DEF Perform
  <2>. HIDE DEF e
  <2>3. Records(e)
    BY <2>1, <2>2 DEF Records, Effect
  <2>4. QED
    BY <1>2, <2>1, <2>3
<1>3. ASSUME NEW before \in SUBSET Value, kind # Hold, UNCHANGED <<setting, ended>>,
             log' = Recorded(log, Event(kind, "refused", before))
      PROVE  \E e \in Entry_ : Records(e) /\ e.kind = kind /\ e.disposition = "refused"
  <2>. DEFINE e == Event(kind, "refused", before)
  <2>1. e \in Entry_ /\ e.kind = kind /\ e.at = now /\ e.disposition = "refused"
    BY <1>1, <1>3 DEF Event, Entry_, Event_, Dispositions
  <2>. HIDE DEF e
  <2>2. log' = Recorded(log, e)
    BY <1>3 DEF e
  <2>3. QED
    BY <1>3, <2>1, <2>2 DEF Records, Effect
<1>4. CASE kind # Hold /\ \/ ~InScope(kind.target) \/ kind.value \notin Permitted
                          \/ ~CheckRate(kind.target)
  <2>1. log' = Recorded(log, Event(kind, "refused", {})) /\ UNCHANGED <<setting, ended>>
    BY <1>4 DEF Perform
  <2>2. QED
    BY <1>3, <1>4, <2>1 DEF Changed
<1>5. CASE kind # Hold /\ ~(\/ ~InScope(kind.target) \/ kind.value \notin Permitted
                            \/ ~CheckRate(kind.target))
  <2>1. kind \in Kinds /\ CheckRate(kind.target)
    BY <1>5
  <2>2. PICK before \in Read(kind) :
            IF dry_run THEN
                /\ log' = Recorded(log, Event(kind, "refused", before))
                /\ UNCHANGED <<setting, ended>>
            ELSE \E outcome \in Apply(kind) :
                /\ log' = Recorded(log, Event(kind, Disposition(outcome), before))
                /\ Sets(kind, outcome.value)
    BY <1>5 DEF Perform
  <2>3. before \in SUBSET Value
    <3>1. setting[kind.family, kind.target] \in Value
      BY <2>1 DEF LoopTypeInv, Kinds
    <3>2. QED
      BY <3>1 DEF Read
  <2>4. CASE dry_run
    BY <1>3, <1>5, <2>2, <2>3, <2>4 DEF Changed
  <2>5. CASE ~dry_run
    <3>1. PICK outcome \in Apply(kind) :
            /\ log' = Recorded(log, Event(kind, Disposition(outcome), before))
            /\ Sets(kind, outcome.value)
      BY <2>2, <2>5
    <3>2. /\ outcome.value \in Value
          /\ Disposition(outcome) = "applied" => outcome.value = kind.value
          /\ Disposition(outcome) \in {"applied", "failed", "unconfirmed"}
      BY <2>1, ApplyIsAValue
    <3>. DEFINE e == Event(kind, Disposition(outcome), before)
    <3>3. /\ e \in Entry_ /\ e.kind = kind /\ e.at = now
          /\ e.disposition = Disposition(outcome)
      BY <1>1, <1>5, <2>3, <3>2 DEF Event, Entry_, Event_, Dispositions
    <3>. HIDE DEF e
    <3>4. log' = Recorded(log, e)
      BY <3>1 DEF e
    <3>5. Effect(e)
      BY <1>5, <3>1, <3>2, <3>3 DEF Effect, Sets
    <3>6. Records(e) /\ e.disposition # "reverted"
      BY <3>2, <3>3, <3>4, <3>5 DEF Records
    <3>7. QED
      BY <2>1, <3>3, <3>6
  <2>6. QED
    BY <2>4, <2>5
<1>6. QED
  BY <1>2, <1>4, <1>5

LEMMA RevertRecords ==
    ASSUME LoopTypeInv, RevertLast
    PROVE  \/ UNCHANGED <<setting, ended, log>>
           \/ \E e \in Entry_ :
                Records(e) /\ e.kind \in Kinds /\ e.disposition \in {"reverted", "failed"}
<1>1. CASE Undoable = {}
  BY <1>1 DEF RevertLast
<1>2. CASE Undoable # {}
  <2>1. PICK event \in Undoable :
          LET kind == RevertKind(event)
          IN  IF dry_run THEN
                  /\ log' = Recorded(log, Event(kind, "failed", {}))
                  /\ UNCHANGED <<setting, ended>>
              ELSE \E outcome \in Apply(kind) :
                  /\ log' = Recorded(log, Event(kind,
                          IF outcome.attempted /\ outcome.confirmed # "no"
                          THEN "reverted" ELSE "failed", {}))
                  /\ Sets(kind, outcome.value)
    BY <1>2 DEF RevertLast
  <2>. DEFINE kind == RevertKind(event)
  <2>2. event \in Entry_ /\ event.previous # {}
    <3>1. \E j \in DOMAIN log : event = log[j] /\ log[j].previous # {}
      BY <2>1 DEF Undoable
    <3>2. log \in Seq(Entry_)
      BY DEF LoopTypeInv
    <3>3. QED
      BY <3>1, <3>2
  <2>3. event.kind \in Kinds /\ (CHOOSE v \in event.previous : TRUE) \in Value
    BY <2>2 DEF Entry_, Event_
  <2>4. kind \in Kinds
    BY <2>3 DEF RevertKind, Kinds
  <2>. HIDE DEF kind
  <2>5. kind # Hold /\ kind.family \in Family /\ kind.target \in Target
    BY <2>4, HoldIsNoKind DEF Kinds
  <2>6. ASSUME NEW disposition \in {"reverted", "failed"}, NEW v \in Value,
               log' = Recorded(log, Event(kind, disposition, {})),
               setting' = [setting EXCEPT ![<<kind.family, kind.target>>] = v],
               ended \ {<<kind.family, kind.target>>} \subseteq ended'
        PROVE  \E e \in Entry_ :
                 Records(e) /\ e.kind \in Kinds /\ e.disposition \in {"reverted", "failed"}
    <3>. DEFINE e == Event(kind, disposition, {})
    <3>1. e \in Entry_ /\ e.kind = kind /\ e.at = now /\ e.disposition = disposition
      BY <2>4, <2>6 DEF Event, Entry_, Event_, Dispositions, LoopTypeInv
    <3>. HIDE DEF e
    <3>2. log' = Recorded(log, e)
      BY <2>6 DEF e
    <3>3. Effect(e)
      BY <2>5, <2>6, <3>1 DEF Effect
    <3>4. QED
      BY <2>4, <3>1, <3>2, <3>3 DEF Records
  <2>7. CASE dry_run
    <3>1. log' = Recorded(log, Event(kind, "failed", {})) /\ UNCHANGED <<setting, ended>>
      BY <2>1, <2>7 DEF kind
    <3>2. /\ setting \in [Family \X Target -> Value]
          /\ <<kind.family, kind.target>> \in Family \X Target
      BY <2>5 DEF LoopTypeInv
    <3>3. /\ setting[<<kind.family, kind.target>>] \in Value
          /\ setting' = [setting EXCEPT ![<<kind.family, kind.target>>] =
                            setting[<<kind.family, kind.target>>]]
      BY <3>1, <3>2
    <3>4. QED
      BY <2>6, <3>1, <3>3
  <2>8. CASE ~dry_run
    <3>1. PICK outcome \in Apply(kind) :
            /\ log' = Recorded(log, Event(kind,
                        IF outcome.attempted /\ outcome.confirmed # "no"
                        THEN "reverted" ELSE "failed", {}))
            /\ setting' = [setting EXCEPT ![<<kind.family, kind.target>>] = outcome.value]
            /\ ended' = ended \ {<<kind.family, kind.target>>}
      BY <2>1, <2>8 DEF kind, Sets
    <3>2. outcome.value \in Value
      BY <2>4, ApplyIsAValue
    <3>3. QED
      BY <2>6, <3>1, <3>2
  <2>9. QED
    BY <2>7, <2>8
<1>3. QED
  BY <1>1, <1>2

-----------------------------------------------------------------------------
(* What the watchdog makes of a tick.                                      *)

DogLike(d) ==
    d \in [stopped : BOOLEAN, failures : Nat, ticks : {d.ticks}, overruns : {d.overruns},
           regressions : {d.regressions}, recent : {d.recent}]

LEMMA CompletedDog ==
    ASSUME NEW d, DogLike(d), NEW overrun \in BOOLEAN
    PROVE  /\ DogLike(Completed(d, overrun))
           /\ Completed(d, overrun).failures = d.failures
           /\ d.stopped => Completed(d, overrun).stopped
BY DEF Completed, DogLike

LEMMA ActionDog ==
    ASSUME NEW d, DogLike(d), NEW succeeded \in BOOLEAN
    PROVE  /\ DogLike(ActionTaken(d, succeeded))
           /\ ActionTaken(d, succeeded).failures = IF succeeded THEN 0 ELSE d.failures + 1
           /\ d.stopped => ActionTaken(d, succeeded).stopped
           /\ ActionTaken(d, succeeded).failures >= MaxFailures => ActionTaken(d, succeeded).stopped
<1>. DEFINE n == IF succeeded THEN 0 ELSE d.failures + 1
            r == SelectSeq(Append(d.recent, now), LAMBDA t : t >= Cutoff)
            s == d.stopped \/ n >= MaxFailures
<1>1. ActionTaken(d, succeeded) = [d EXCEPT !.recent = r, !.failures = n, !.stopped = s]
  BY DEF ActionTaken
<1>2. n \in Nat /\ s \in BOOLEAN /\ d.stopped \in BOOLEAN /\ MaxFailures \in Nat
  BY LoopAssumption DEF DogLike
<1>. HIDE DEF r, n, s
<1>3. /\ DogLike(ActionTaken(d, succeeded))
      /\ ActionTaken(d, succeeded).failures = n /\ ActionTaken(d, succeeded).stopped = s
  BY <1>1, <1>2 DEF DogLike
<1>4. QED
  BY <1>2, <1>3 DEF n, s

LEMMA OutcomeDog ==
    ASSUME DogLike(dog), NEW improved \in BOOLEAN
    PROVE  /\ DogLike(DogAfterOutcome(improved))
           /\ DogAfterOutcome(improved).failures = dog.failures
           /\ dog.stopped => DogAfterOutcome(improved).stopped
BY DEF DogAfterOutcome, OutcomeObserved, DogLike

\* A tick that leaves the log alone, undoes, holds or acts.
Idles == UNCHANGED <<setting, ended, log>> /\ dog'.failures = dog.failures

Undoes ==
    /\ dog'.stopped
    /\ \E e \in Entry_ : /\ Records(e) /\ Last(log') = e
                         /\ e.kind \in Kinds /\ e.disposition \in {"reverted", "failed"}

Holds ==
    /\ dog'.failures = dog.failures
    /\ \E e \in Entry_ : Records(e) /\ Last(log') = e /\ e.kind = Hold

ActsWith(e) ==
    /\ Records(e) /\ Last(log') = e
    /\ e.kind \in Kinds /\ e.disposition # "reverted"
    /\ Changed(e.disposition) => CheckRate(e.kind.target)
    /\ dog'.failures = IF Changed(e.disposition) THEN 0 ELSE dog.failures + 1
    /\ dog'.failures >= MaxFailures => dog'.stopped

LEMMA RecordedStep ==
    ASSUME LoopTypeInv, NEW e \in Entry_, Records(e)
    PROVE  /\ log' \in Seq(Entry_) /\ Len(log') \in Nat \ {0} /\ log'[Len(log')] = e
           /\ \E k \in {0, 1} : Shifted(log, log', k)
<1>1. log \in Seq(Entry_) /\ Len(log) <= LogCapacity
  BY DEF LoopTypeInv
<1>2. log' = Recorded(log, e)
  BY DEF Records
<1>3. /\ Recorded(log, e) \in Seq(Entry_) /\ Len(Recorded(log, e)) \in Nat \ {0}
      /\ Recorded(log, e)[Len(Recorded(log, e))] = e
      /\ \E k \in {0, 1} : Shifted(log, Recorded(log, e), k)
  BY <1>1, RecordedLog
<1>4. QED
  BY <1>2, <1>3

LEMMA LastRecorded ==
    ASSUME LoopTypeInv, NEW e \in Entry_, Records(e) PROVE Last(log') = e
<1>1. log \in Seq(Entry_) /\ Len(log) <= LogCapacity
  BY DEF LoopTypeInv
<1>2. Recorded(log, e)[Len(Recorded(log, e))] = e
  BY <1>1, RecordedLog
<1>3. QED
  BY <1>2 DEF Records, Last

LEMMA TickCases ==
    ASSUME LoopTypeInv, LoopTick
    PROVE  /\ DogLike(dog') /\ (dog.stopped => dog'.stopped)
           /\ Idles \/ Undoes \/ Holds \/ \E e \in Entry_ : ActsWith(e)
<1>1. PICK improved \in BOOLEAN, unskilled \in BOOLEAN, overrun \in BOOLEAN :
        LET d == DogAfterOutcome(improved)
            verdict == Verdict(d, unskilled)
        IN  \/ verdict = "stop" /\ Stops(d, overrun) /\ pending' = {} /\ UNCHANGED policy
            \/ verdict = "pause" /\ dog' = Completed(d, overrun) /\ pending' = {}
               /\ UNCHANGED <<machine, actuators, policy>>
            \/ verdict = "proceed" /\ Acts(d, overrun)
  BY DEF LoopTick
<1>. DEFINE d == DogAfterOutcome(improved)
<1>2. DogLike(d) /\ d.failures = dog.failures /\ (dog.stopped => d.stopped)
  BY OutcomeDog DEF LoopTypeInv, DogLike
<1>. HIDE DEF d
<1>3. CASE Stops(d, overrun)
  <2>. DEFINE halted == [d EXCEPT !.stopped = TRUE]
  <2>1. DogLike(halted) /\ halted.failures = d.failures /\ halted.stopped
    BY <1>2 DEF DogLike
  <2>2. dog' = Completed(halted, overrun) /\ RevertLast
    BY <1>3 DEF Stops
  <2>. HIDE DEF halted
  <2>3. DogLike(dog') /\ dog'.failures = dog.failures /\ dog'.stopped
    BY <1>2, <2>1, <2>2, CompletedDog
  <2>4. Idles \/ Undoes
    BY <2>2, <2>3, RevertRecords, LastRecorded DEF Idles, Undoes
  <2>5. QED
    BY <2>3, <2>4
<1>4. CASE dog' = Completed(d, overrun) /\ UNCHANGED <<machine, actuators>>
  <2>1. DogLike(dog') /\ dog'.failures = dog.failures /\ (dog.stopped => dog'.stopped)
    BY <1>2, <1>4, CompletedDog
  <2>2. QED
    BY <1>4, <2>1 DEF Idles, machine, actuators
<1>5. CASE Acts(d, overrun)
  <2>1. PICK choice \in Decisions([policy EXCEPT !.decisions = @ + 1]) :
          /\ Perform(choice.kind)
          /\ LET changed == Changed(Last(log').disposition)
             IN  IF choice.kind = Hold
                 THEN dog' = Completed(d, overrun) /\ pending' = {}
                 ELSE /\ dog' = Completed(ActionTaken(d, changed), overrun)
                      /\ pending' = IF changed THEN {choice.kind.family} ELSE {}
    BY <1>5 DEF Acts
  <2>2. choice.kind \in Kinds \cup {Hold}
    BY <2>1, LoopAssumption DEF Decisions, Predictable
  <2>3. PICK e \in Entry_ :
          /\ Records(e) /\ e.kind = choice.kind
          /\ e.disposition # "reverted"
          /\ choice.kind # Hold /\ Changed(e.disposition) => CheckRate(choice.kind.target)
    BY <2>1, <2>2, PerformRecords
  <2>4. Last(log') = e
    BY <2>3, LastRecorded
  <2>5. CASE choice.kind = Hold
    <3>1. dog' = Completed(d, overrun)
      BY <2>1, <2>5
    <3>2. DogLike(dog') /\ dog'.failures = dog.failures /\ (dog.stopped => dog'.stopped)
      BY <1>2, <3>1, CompletedDog
    <3>3. QED
      BY <2>3, <2>4, <2>5, <3>2 DEF Holds
  <2>6. CASE choice.kind # Hold
    <3>. DEFINE changed == Changed(e.disposition)
                acted == ActionTaken(d, changed)
    <3>1. dog' = Completed(acted, overrun)
      BY <2>1, <2>4, <2>6
    <3>2. changed \in BOOLEAN
      BY DEF Changed
    <3>. HIDE DEF changed
    <3>3. /\ DogLike(acted) /\ acted.failures = IF changed THEN 0 ELSE dog.failures + 1
          /\ dog.stopped => acted.stopped
          /\ acted.failures >= MaxFailures => acted.stopped
      BY <1>2, <3>2, ActionDog
    <3>. HIDE DEF acted
    <3>4. /\ DogLike(dog') /\ dog'.failures = acted.failures /\ (acted.stopped => dog'.stopped)
      BY <3>1, <3>3, CompletedDog
    <3>5. ActsWith(e)
      BY <2>2, <2>3, <2>4, <2>6, <3>3, <3>4 DEF ActsWith, changed
    <3>6. QED
      BY <3>3, <3>4, <3>5
  <2>7. QED
    BY <2>5, <2>6
<1>6. QED
  BY <1>1, <1>3, <1>4, <1>5 DEF d

\* What a tick adds to the changes made was applied, or may have been, after
\* the bounds were asked.
AddsTo(e) ==
    /\ ActsWith(e) /\ Changed(e.disposition)
    /\ done' = Append(done, [target |-> e.kind.target, at |-> now])

LEMMA DoneOfTick ==
    ASSUME LoopTypeInv, LoopTick PROVE done' = done \/ \E e \in Entry_ : AddsTo(e)
<1>. DEFINE adds == /\ log' # log /\ Last(log').disposition \in {"applied", "unconfirmed"}
                    /\ Last(log').kind # Hold
<1>1. done' = IF adds THEN Append(done, [target |-> Last(log').kind.target, at |-> now]) ELSE done
  BY DEF LoopTick
<1>2. CASE Idles
  BY <1>1, <1>2 DEF Idles
<1>3. CASE Undoes
  <2>1. ~adds
    BY <1>3 DEF Undoes
  <2>2. QED
    BY <1>1, <2>1
<1>4. CASE Holds
  <2>1. ~adds
    BY <1>4 DEF Holds
  <2>2. QED
    BY <1>1, <2>1
<1>5. ASSUME NEW e \in Entry_, ActsWith(e), adds PROVE AddsTo(e)
  BY <1>1, <1>5 DEF ActsWith, AddsTo, Changed
<1>6. QED
  BY <1>1, <1>2, <1>3, <1>4, <1>5, TickCases

-----------------------------------------------------------------------------
(* Types.                                                                  *)

LEMMA RecordsTypes ==
    ASSUME LoopTypeInv, NEW e \in Entry_, Records(e)
    PROVE  /\ setting' \in [Family \X Target -> Value]
           /\ log' \in Seq(Entry_) /\ Len(log') <= LogCapacity
<1>1. setting' \in [Family \X Target -> Value]
  BY DEF LoopTypeInv, Records, Effect
<1>2. log \in Seq(Entry_) /\ Len(log) <= LogCapacity /\ log' = Recorded(log, e)
  BY DEF LoopTypeInv, Records
<1>3. QED
  BY <1>1, <1>2, RecordedLog

LEMMA LoopTypesOfInit == LoopInit => LoopTypeInv
<1>. SUFFICES ASSUME LoopInit PROVE LoopTypeInv
  OBVIOUS
<1>1. /\ now = 0 /\ setting \in [Family \X Target -> Value] /\ log = << >>
      /\ done = << >> /\ dog = NewDog
  BY DEF LoopInit, ActuatorsInit
<1>2. DogLike(dog)
  BY <1>1 DEF NewDog, DogLike
<1>3. Len(log) = 0 /\ log \in Seq(Entry_) /\ done \in Seq([target : Target, at : Nat])
  BY <1>1
<1>4. QED
  BY <1>1, <1>2, <1>3, ActuatorsAssumption DEF LoopTypeInv, DogLike

LEMMA TickTypes ==
    ASSUME LoopTypeInv, LoopTick PROVE LoopTypeInv'
<1>1. DogLike(dog') /\ now' = now
  BY TickCases DEF LoopTick
<1>2. UNCHANGED <<setting, ended, log>> \/ \E e \in Entry_ : Records(e)
  BY TickCases DEF Idles, Undoes, Holds, ActsWith
<1>3. /\ setting' \in [Family \X Target -> Value]
      /\ log' \in Seq(Entry_) /\ Len(log') <= LogCapacity
  BY <1>2, RecordsTypes DEF LoopTypeInv
<1>4. done' \in Seq([target : Target, at : Nat])
  <2>1. ASSUME NEW e \in Entry_, AddsTo(e) PROVE done' \in Seq([target : Target, at : Nat])
    <3>1. e.kind.target \in Target /\ now \in Nat
      BY <2>1 DEF AddsTo, ActsWith, Kinds, LoopTypeInv
    <3>2. QED
      BY <2>1, <3>1 DEF AddsTo, LoopTypeInv
  <2>2. QED
    BY <2>1, DoneOfTick DEF LoopTypeInv
<1>5. QED
  BY <1>1, <1>3, <1>4 DEF LoopTypeInv, DogLike

LEMMA ComesAndGoesPasses ==
    ASSUME LoopTypeInv, ProcessComesAndGoes PROVE Passes
<1>1. PICK p \in Pid :
        (ProcessEnds(p) \/ NumberIsReused(p)) /\ ended' = ended \cup (Family \X {p})
  BY DEF ProcessComesAndGoes
<1>2. log' = log /\ setting \in [Family \X Target -> Value]
  BY DEF ProcessComesAndGoes, actuators, LoopTypeInv
<1>3. CASE ProcessEnds(p)
  BY <1>1, <1>2, <1>3 DEF ProcessEnds, Passes
<1>4. CASE NumberIsReused(p)
  <2>1. PICK v \in [Family -> Value] :
          setting' = [x \in Family \X Target |-> IF x[2] = p THEN v[x[1]] ELSE setting[x]]
    BY <1>4 DEF NumberIsReused
  <2>2. setting' \in [Family \X Target -> Value]
    BY <1>2, <2>1
  <2>3. ASSUME NEW x \in Family \X Target PROVE x \in ended' \/ setting'[x] = setting[x]
    <3>1. CASE x[2] = p
      BY <1>1, <2>3, <3>1
    <3>2. CASE x[2] # p
      BY <2>1, <2>3, <3>2
    <3>3. QED
      BY <3>1, <3>2
  <2>4. QED
    BY <1>1, <1>2, <2>2, <2>3 DEF Passes
<1>5. QED
  BY <1>1, <1>3, <1>4

\* What is not a tick of the loop decides nothing: only the revert on the way
\* out touches the log.
LEMMA OtherSteps ==
    ASSUME LoopTypeInv, [LoopNext]_loopVars, ~LoopTick
    PROVE  /\ UNCHANGED <<dog, done>>
           /\ \/ /\ UNCHANGED <<setting, ended, log>> \/ Passes
                 /\ phase' = "running" => phase = "running"
              \/ phase = "leaving" /\ phase' = "gone" /\ \E e \in Entry_ : Records(e)
           /\ \/ UNCHANGED <<now, ticked>>
              \/ phase = "running" /\ now' = now + 1 /\ ticked' = FALSE /\ log' = log
<1>1. CASE NextReflection
  BY <1>1 DEF NextReflection, Tick, machine, actuators, loop
<1>2. CASE Leave \/ SourceFails
  BY <1>2 DEF Leave, SourceFails, machine, actuators, loop
<1>3. CASE Environment
  <2>1. /\ ProcessComesAndGoes /\ UNCHANGED <<dog, done, now, ticked, phase>> /\ log' = log
    BY <1>3 DEF Environment, ProcessComesAndGoes, actuators, loop, program
  <2>2. QED
    BY <2>1, ComesAndGoesPasses
<1>4. CASE UNCHANGED loopVars
  BY <1>4 DEF loopVars, machine, actuators, loop, program
<1>5. CASE Revert
  BY <1>5, RevertRecords DEF Revert, loop
<1>6. QED
  BY <1>1, <1>2, <1>3, <1>4, <1>5 DEF LoopNext

LEMMA LoopTypesOfStep == LoopTypeInv /\ [LoopNext]_loopVars => LoopTypeInv'
<1>. SUFFICES ASSUME LoopTypeInv, [LoopNext]_loopVars PROVE LoopTypeInv'
  OBVIOUS
<1>1. CASE LoopTick
  BY <1>1, TickTypes
<1>2. CASE ~LoopTick
  <2>1. UNCHANGED <<dog, done>> /\ now' \in Nat
    <3>1. UNCHANGED <<dog, done>> /\ (now' = now \/ now' = now + 1)
      BY <1>2, OtherSteps
    <3>2. QED
      BY <3>1 DEF LoopTypeInv
  <2>2. UNCHANGED <<setting, log>> \/ Passes \/ \E e \in Entry_ : Records(e)
    BY <1>2, OtherSteps
  <2>3. /\ setting' \in [Family \X Target -> Value]
        /\ log' \in Seq(Entry_) /\ Len(log') <= LogCapacity
    BY <2>2, RecordsTypes DEF LoopTypeInv, Passes
  <2>4. QED
    BY <2>1, <2>3 DEF LoopTypeInv
<1>3. QED
  BY <1>1, <1>2

-----------------------------------------------------------------------------
(* Why the log is true: an attempt is recorded together with what it did,  *)
(* and disturbs one setting, which its own entry is then the last about.   *)

SameSetting(a, b) == a.family = b.family /\ a.target = b.target

LEMMA AuditOfRecord ==
    ASSUME LoopTypeInv, AuditIsTrue, NEW e \in Entry_, Records(e)
    PROVE  AuditIsTrue'
<1>1. /\ log \in Seq(Entry_) /\ Len(log) <= LogCapacity /\ Len(log) \in Nat
      /\ log' = Recorded(log, e) /\ Effect(e)
      /\ setting \in [Family \X Target -> Value]
  BY DEF LoopTypeInv, Records
<1>2. /\ log' \in Seq(Entry_) /\ Len(log') \in Nat \ {0} /\ log'[Len(log')] = e
      /\ \E k \in {0, 1} : Shifted(log, log', k)
  BY RecordedStep
<1>3. PICK k \in {0, 1} :
        /\ Len(log') = Len(log) + 1 - k
        /\ \A i \in 1 .. Len(log') - 1 : i + k \in 1 .. Len(log) /\ log'[i] = log[i + k]
  BY <1>2 DEF Shifted
<1>4. SUFFICES ASSUME NEW i \in DOMAIN log',
                      log'[i].disposition = "applied", log'[i].kind # Hold,
                      {j \in i + 1 .. Len(log') :
                        /\ log'[j].disposition # "refused"
                        /\ log'[j].kind.family = log'[i].kind.family
                        /\ log'[j].kind.target = log'[i].kind.target} = {},
                      <<log'[i].kind.family, log'[i].kind.target>> \notin ended'
               PROVE  setting'[log'[i].kind.family, log'[i].kind.target] = log'[i].kind.value
  BY DEF AuditIsTrue
<1>5. i \in 1 .. Len(log') /\ log'[i].kind \in Kinds
  <2>1. log'[i] \in Entry_
    BY <1>2
  <2>2. QED
    BY <1>2, <1>4, <2>1 DEF Entry_, Event_
<1>6. <<log'[i].kind.family, log'[i].kind.target>> \in Family \X Target
  BY <1>5 DEF Kinds
<1>7. CASE i = Len(log')
  <2>1. log'[i] = e
    BY <1>2, <1>7
  <2>2. PICK v \in Value :
          /\ setting' = [setting EXCEPT ![<<e.kind.family, e.kind.target>>] = v]
          /\ e.disposition = "applied" => v = e.kind.value
    BY <1>1, <1>4, <2>1 DEF Effect
  <2>3. QED
    BY <1>1, <1>4, <1>6, <2>1, <2>2
<1>8. CASE i # Len(log')
  <2>1. i \in 1 .. Len(log') - 1 /\ i + k \in DOMAIN log /\ log'[i] = log[i + k]
    BY <1>1, <1>2, <1>3, <1>5, <1>8
  <2>2. ~(e.disposition # "refused" /\ SameSetting(e.kind, log'[i].kind))
    <3>1. Len(log') \in i + 1 .. Len(log')
      BY <1>2, <1>5, <1>8
    <3>2. QED
      BY <1>2, <1>4, <3>1 DEF SameSetting
  <2>3. \A j \in i + k + 1 .. Len(log) :
          ~(log[j].disposition # "refused" /\ SameSetting(log[j].kind, log[i + k].kind))
    <3>. SUFFICES ASSUME NEW j \in i + k + 1 .. Len(log)
                  PROVE  ~(log[j].disposition # "refused" /\ SameSetting(log[j].kind, log[i + k].kind))
      OBVIOUS
    <3>1. j - k \in i + 1 .. Len(log') /\ j - k \in 1 .. Len(log') - 1 /\ (j - k) + k = j
      BY <1>1, <1>2, <1>3, <1>5
    <3>2. log'[j - k] = log[j]
      BY <1>3, <3>1
    <3>3. QED
      BY <1>4, <2>1, <3>1, <3>2 DEF SameSetting
  <2>4. setting[log[i + k].kind.family, log[i + k].kind.target] = log[i + k].kind.value
    <3>1. <<log'[i].kind.family, log'[i].kind.target>> \notin ended
      <4>1. CASE e.kind = Hold \/ e.disposition = "refused"
        BY <1>1, <1>4, <4>1 DEF Effect
      <4>2. CASE ~(e.kind = Hold \/ e.disposition = "refused")
        <5>1. ended \ {<<e.kind.family, e.kind.target>>} \subseteq ended'
          BY <1>1, <4>2 DEF Effect
        <5>2. <<e.kind.family, e.kind.target>> # <<log'[i].kind.family, log'[i].kind.target>>
          BY <2>2, <4>2 DEF SameSetting
        <5>3. QED
          BY <1>4, <5>1, <5>2
      <4>3. QED
        BY <4>1, <4>2
    <3>2. QED
      BY <1>4, <2>1, <2>3, <3>1 DEF AuditIsTrue, SameSetting
  <2>5. setting'[log'[i].kind.family, log'[i].kind.target] =
        setting[log'[i].kind.family, log'[i].kind.target]
    <3>1. CASE e.kind = Hold \/ e.disposition = "refused"
      BY <1>1, <3>1 DEF Effect
    <3>2. CASE ~(e.kind = Hold \/ e.disposition = "refused")
      <4>1. PICK v \in Value :
              setting' = [setting EXCEPT ![<<e.kind.family, e.kind.target>>] = v]
        BY <1>1, <3>2 DEF Effect
      <4>2. <<e.kind.family, e.kind.target>> # <<log'[i].kind.family, log'[i].kind.target>>
        BY <2>2, <3>2 DEF SameSetting
      <4>3. QED
        BY <1>1, <1>6, <4>1, <4>2
    <3>3. QED
      BY <3>1, <3>2
  <2>6. QED
    BY <2>1, <2>4, <2>5
<1>9. QED
  BY <1>7, <1>8

\* What the log says was applied is in force until the log has another attempt
\* on the same setting, or the process has ended, whatever the kernel does with
\* the attempts between (actuators.rs: perform, revert_last; audit.rs: record).
THEOREM LogIsTrue == LoopSpec => []AuditIsTrue
<1>1. LoopInit => AuditIsTrue
  <2>1. LoopInit => DOMAIN log = {}
    BY DEF LoopInit, ActuatorsInit
  <2>2. QED
    BY <2>1 DEF AuditIsTrue
<1>2. LoopTypeInv /\ AuditIsTrue /\ [LoopNext]_loopVars => AuditIsTrue'
  <2>. SUFFICES ASSUME LoopTypeInv, AuditIsTrue, [LoopNext]_loopVars PROVE AuditIsTrue'
    OBVIOUS
  <2>1. UNCHANGED <<setting, ended, log>> \/ Passes \/ \E e \in Entry_ : Records(e)
    <3>1. CASE LoopTick
      BY <3>1, TickCases DEF Idles, Undoes, Holds, ActsWith
    <3>2. CASE ~LoopTick
      BY <3>2, OtherSteps
    <3>3. QED
      BY <3>1, <3>2
  <2>2. CASE UNCHANGED <<setting, ended, log>>
    BY <2>2 DEF AuditIsTrue
  <2>3. CASE Passes
    <3>1. \A i \in DOMAIN log :
            log[i].kind # Hold => <<log[i].kind.family, log[i].kind.target>> \in Family \X Target
      BY DEF LoopTypeInv, Entry_, Event_, Kinds
    <3>2. QED
      BY <2>3, <3>1 DEF AuditIsTrue, Passes
  <2>4. QED
    BY <2>1, <2>2, <2>3, AuditOfRecord
<1>3. QED
  BY <1>1, <1>2, LoopTypesOfInit, LoopTypesOfStep, PTL DEF LoopSpec

-----------------------------------------------------------------------------
(* Why failures stop the loop: the watchdog counts at least the failures   *)
(* that end the log, because only a change sets its count back, and a      *)
(* change is an entry that did not fail.                                   *)

FailInv ==
    phase = "running" =>
        /\ ~dog.stopped
        /\ Cardinality(Failing) <= dog.failures
        /\ dog.failures = 0 \/ dog.failures < MaxFailures

LEMMA FailingIsFinite ==
    ASSUME NEW S, log \in Seq(S)
    PROVE  IsFiniteSet(Failing) /\ Cardinality(Failing) \in Nat
<1>1. IsFiniteSet(1 .. Len(log)) /\ DOMAIN log = 1 .. Len(log)
  BY FS_Interval
<1>2. IsFiniteSet(Failing)
  BY <1>1, FS_Subset DEF Failing
<1>3. QED
  BY <1>2, FS_CardinalityType

\* An entry that did not fail leaves no failures at the end of the log; one of
\* a failure is one more; a hold is none.
LEMMA FailingOfRecord ==
    ASSUME LoopTypeInv, NEW e \in Entry_, Records(e)
    PROVE  /\ Cardinality(Failing') \in Nat
           /\ e.kind # Hold /\ Changed(e.disposition) => Cardinality(Failing') = 0
           /\ e.kind = Hold => Cardinality(Failing') <= Cardinality(Failing)
           /\ Cardinality(Failing') <= Cardinality(Failing) + 1
<1>1. /\ log \in Seq(Entry_) /\ Len(log) <= LogCapacity /\ Len(log) \in Nat
      /\ log' = Recorded(log, e)
  BY DEF LoopTypeInv, Records
<1>2. /\ log' \in Seq(Entry_) /\ Len(log') \in Nat \ {0} /\ log'[Len(log')] = e
      /\ \E k \in {0, 1} : Shifted(log, log', k)
  BY RecordedStep
<1>3. PICK k \in {0, 1} :
        /\ Len(log') = Len(log) + 1 - k
        /\ \A i \in 1 .. Len(log') - 1 : i + k \in 1 .. Len(log) /\ log'[i] = log[i + k]
  BY <1>2 DEF Shifted
<1>. DEFINE n == Len(log')
            Before == Failing' \ {n}
<1>4. Failing' \subseteq 1 .. n /\ DOMAIN log' = 1 .. n
  BY <1>2 DEF Failing
<1>5. IsFiniteSet(Failing') /\ Cardinality(Failing') \in Nat
  <2>1. IsFiniteSet(1 .. n)
    BY <1>2, FS_Interval
  <2>2. IsFiniteSet(Failing')
    BY <1>4, <2>1, FS_Subset
  <2>3. QED
    BY <2>2, FS_CardinalityType
<1>6. IsFiniteSet(Failing) /\ Cardinality(Failing) \in Nat
  BY <1>1, FailingIsFinite
<1>7. \A i \in Before : i + k \in Failing
  <2>. SUFFICES ASSUME NEW i \in Before PROVE i + k \in Failing
    OBVIOUS
  <2>1. i \in 1 .. n - 1 /\ i \in Failing'
    <3>1. i \in Failing' /\ i # n /\ n \in Nat
      BY <1>2
    <3>2. i \in 1 .. n
      BY <1>4, <3>1
    <3>. HIDE DEF n
    <3>3. QED
      BY <3>1, <3>2
  <2>2. i + k \in DOMAIN log /\ log'[i] = log[i + k]
    BY <1>1, <1>3, <2>1
  <2>3. log'[i].kind # Hold
    BY <2>1 DEF Failing
  <2>4. \A j \in i + k .. Len(log) : log[j].kind # Hold => ~Changed(log[j].disposition)
    <3>. SUFFICES ASSUME NEW j \in i + k .. Len(log), log[j].kind # Hold
                  PROVE  ~Changed(log[j].disposition)
      OBVIOUS
    <3>1. j - k \in i .. n /\ j - k \in 1 .. n - 1 /\ (j - k) + k = j
      BY <1>1, <1>2, <1>3, <2>1
    <3>2. log'[j - k] = log[j]
      BY <1>3, <3>1
    <3>3. \A m \in i .. n : log'[m].kind # Hold => ~Changed(log'[m].disposition)
      BY <2>1 DEF Failing, Changed
    <3>4. QED
      BY <3>1, <3>2, <3>3
  <2>5. QED
    BY <2>2, <2>3, <2>4 DEF Failing
<1>8. IsFiniteSet(Before) /\ Cardinality(Before) \in Nat
      /\ Cardinality(Before) <= Cardinality(Failing)
  <2>. DEFINE f == [i \in Before |-> i + k]
  <2>1. f \in [Before -> Failing]
    BY <1>7
  <2>2. \A i, j \in Before : f[i] = f[j] => i = j
    <3>1. \A i \in Before : i \in 1 .. n
      BY <1>4
    <3>2. \A i \in Before : i \in Int /\ f[i] = i + k
      <4>. HIDE DEF Before, n
      <4>1. QED
        BY <3>1
    <3>. HIDE DEF Before, n, f
    <3>3. \A a, b \in Int : a + k = b + k => a = b
      OBVIOUS
    <3>4. QED
      BY <3>2, <3>3
  <2>. HIDE DEF f, Before
  <2>3. f \in Injection(Before, Failing)
    BY <2>1, <2>2 DEF Injection, IsInjective
  <2>4. QED
    BY <1>6, <2>3, FS_Injection, FS_CardinalityType
<1>9. Cardinality(Before) = IF n \in Failing' THEN Cardinality(Failing') - 1 ELSE Cardinality(Failing')
  BY <1>5, FS_RemoveElement
<1>10. ASSUME e.kind = Hold PROVE n \notin Failing'
  BY <1>2, <1>10 DEF Failing
<1>11. ASSUME e.kind # Hold, Changed(e.disposition) PROVE Failing' = {}
  <2>. SUFFICES ASSUME NEW i \in Failing' PROVE FALSE
    OBVIOUS
  <2>1. n \in i .. n
    BY <1>2, <1>4
  <2>2. log'[n].kind # Hold => ~Changed(log'[n].disposition)
    BY <2>1 DEF Failing, Changed
  <2>3. QED
    BY <1>2, <1>11, <2>2
<1>. HIDE DEF Before, n
<1>12. QED
  BY <1>5, <1>6, <1>8, <1>9, <1>10, <1>11, FS_EmptySet

LEMMA FailInvOfTick ==
    ASSUME LoopTypeInv, FailInv, LoopTick PROVE FailInv'
<1>. SUFFICES ASSUME phase' = "running" PROVE FailInv'
  BY DEF FailInv
<1>1. phase = "running" /\ ~dog'.stopped
  BY DEF LoopTick, AfterTick
<1>2. /\ Cardinality(Failing) <= dog.failures /\ Cardinality(Failing) \in Nat
      /\ dog.failures \in Nat /\ MaxFailures \in Nat
      /\ dog.failures = 0 \/ dog.failures < MaxFailures
  BY <1>1, FailingIsFinite, LoopAssumption DEF FailInv, LoopTypeInv
<1>3. CASE Idles
  <2>1. Failing' = Failing
    BY <1>3 DEF Idles, Failing, Changed
  <2>2. QED
    BY <1>1, <1>2, <1>3, <2>1 DEF FailInv, Idles
<1>4. CASE Undoes
  BY <1>1, <1>4 DEF Undoes
<1>5. CASE Holds
  <2>1. Cardinality(Failing') \in Nat /\ Cardinality(Failing') <= Cardinality(Failing)
    BY <1>5, FailingOfRecord DEF Holds
  <2>2. QED
    BY <1>1, <1>2, <1>5, <2>1 DEF FailInv, Holds
<1>6. ASSUME NEW e \in Entry_, ActsWith(e) PROVE FailInv'
  <2>1. Records(e) /\ e.kind # Hold
    BY <1>6, HoldIsNoKind DEF ActsWith
  <2>2. /\ Cardinality(Failing') \in Nat
        /\ Changed(e.disposition) => Cardinality(Failing') = 0
        /\ Cardinality(Failing') <= Cardinality(Failing) + 1
    BY <2>1, FailingOfRecord
  <2>3. /\ dog'.failures = IF Changed(e.disposition) THEN 0 ELSE dog.failures + 1
        /\ ~(dog'.failures >= MaxFailures)
    BY <1>1, <1>6 DEF ActsWith
  <2>4. QED
    BY <1>1, <1>2, <2>2, <2>3 DEF FailInv
<1>7. QED
  BY <1>3, <1>4, <1>5, <1>6, TickCases

\* Actions that keep failing stop the loop (safeguards.rs: action_taken): while
\* it runs, the failures that end the log are fewer than the limit, whatever
\* holds and pauses are between them, and whatever of the log is forgotten.
THEOREM FailuresStop == LoopSpec => []FailuresStopTheLoop
<1>1. LoopInit => FailInv
  <2>. SUFFICES ASSUME LoopInit PROVE FailInv
    OBVIOUS
  <2>1. log = << >> /\ dog = NewDog
    BY DEF LoopInit, ActuatorsInit
  <2>2. Failing = {}
    BY <2>1 DEF Failing
  <2>3. QED
    BY <2>1, <2>2, FS_EmptySet DEF FailInv, NewDog
<1>2. LoopTypeInv /\ FailInv /\ [LoopNext]_loopVars => FailInv'
  <2>. SUFFICES ASSUME LoopTypeInv, FailInv, [LoopNext]_loopVars PROVE FailInv'
    OBVIOUS
  <2>1. CASE LoopTick
    BY <2>1, FailInvOfTick
  <2>2. CASE ~LoopTick
    <3>1. UNCHANGED dog /\ (phase' = "running" => log' = log /\ phase = "running")
      BY <2>2, OtherSteps DEF Passes
    <3>2. QED
      BY <3>1 DEF FailInv, Failing, Changed
  <2>3. QED
    BY <2>1, <2>2
<1>3. LoopTypeInv /\ FailInv => FailuresStopTheLoop
  <2>. SUFFICES ASSUME LoopTypeInv, FailInv, phase = "running", Failing # {}
                PROVE  ~dog.stopped /\ Cardinality(Failing) < MaxFailures
    BY DEF FailuresStopTheLoop, FailInv
  <2>1. IsFiniteSet(Failing) /\ Cardinality(Failing) \in Nat
    BY FailingIsFinite DEF LoopTypeInv
  <2>2. Cardinality(Failing) # 0
    BY <2>1, FS_EmptySet
  <2>3. QED
    BY <2>1, <2>2, LoopAssumption DEF FailInv, LoopTypeInv
<1>4. QED
  BY <1>1, <1>2, <1>3, LoopTypesOfInit, LoopTypesOfStep, PTL DEF LoopSpec

-----------------------------------------------------------------------------
(* Why the rate is a rate although it is counted from a log that forgets:  *)
(* a tick records one entry at most, so an entry that has LogCapacity      *)
(* newer ones is that many ticks old.  As long as the log holds more than  *)
(* a minute of ticks, and as many as lie between two changes of a target,  *)
(* what it has forgotten is too old for either bound.  (The code's log     *)
(* holds 4096 events: ticks of 15 ms or more.)                             *)

LogOutlastsTheBounds == LogCapacity > Minute /\ LogCapacity >= MinInterval

\* The log still has the entry of this change.
EntryOf(n) ==
    {i \in DOMAIN log : /\ Changed(log[i].disposition)
                        /\ log[i].kind.target = done[n].target /\ log[i].at = done[n].at}

Remembered(n) == EntryOf(n) # {}

TimesInv ==
    phase = "running" =>
        /\ \A i \in DOMAIN log :
              /\ log[i].at + (Len(log) - i) <= now
              /\ ~ticked => log[i].at + (Len(log) - i) < now
        /\ \A n \in DOMAIN done : done[n].at <= now /\ (~ticked => done[n].at < now)
        /\ \A m, n \in DOMAIN done : m < n => done[m].at < done[n].at
        /\ \A n \in DOMAIN done : Remembered(n) \/ done[n].at + LogCapacity <= now

RateInv == TimesInv /\ RateHolds

DoneLately == {n \in DOMAIN done : now - done[n].at <= Minute}
LoggedLately == {i \in DOMAIN log : Changed(log[i].disposition) /\ now - log[i].at <= Minute}

LEMMA RateTypes ==
    ASSUME LoopTypeInv
    PROVE  /\ now \in Nat /\ Minute \in Nat /\ MinInterval \in Nat /\ PerMinute \in Nat
           /\ LogCapacity \in Nat \ {0}
           /\ Len(log) \in Nat /\ DOMAIN log = 1 .. Len(log)
           /\ \A i \in DOMAIN log : log[i] \in Entry_ /\ log[i].at \in Nat
           /\ Len(done) \in Nat /\ DOMAIN done = 1 .. Len(done)
           /\ \A n \in DOMAIN done : done[n].at \in Nat /\ done[n].target \in Target
<1>1. /\ now \in Nat /\ Minute \in Nat /\ MinInterval \in Nat /\ PerMinute \in Nat
      /\ LogCapacity \in Nat \ {0}
  BY ActuatorsAssumption DEF LoopTypeInv
<1>2. /\ Len(log) \in Nat /\ DOMAIN log = 1 .. Len(log)
      /\ \A i \in DOMAIN log : log[i] \in Entry_
  BY DEF LoopTypeInv
<1>3. \A i \in DOMAIN log : log[i].at \in Nat
  BY <1>2 DEF Entry_, Event_
<1>4. /\ Len(done) \in Nat /\ DOMAIN done = 1 .. Len(done)
      /\ \A n \in DOMAIN done : done[n] \in [target : Target, at : Nat]
  <2>. DEFINE Done_ == [target : Target, at : Nat]
  <2>1. done \in Seq(Done_)
    BY DEF LoopTypeInv
  <2>. HIDE DEF Done_
  <2>2. /\ Len(done) \in Nat /\ DOMAIN done = 1 .. Len(done)
        /\ \A n \in DOMAIN done : done[n] \in Done_
    BY <2>1
  <2>3. QED
    BY <2>2 DEF Done_
<1>5. \A n \in DOMAIN done : done[n].at \in Nat /\ done[n].target \in Target
  BY <1>4
<1>6. QED
  BY <1>1, <1>2, <1>3, <1>4, <1>5

LEMMA LatelyIsFinite ==
    ASSUME LoopTypeInv
    PROVE  /\ IsFiniteSet(DoneLately) /\ Cardinality(DoneLately) \in Nat
           /\ IsFiniteSet(LoggedLately) /\ Cardinality(LoggedLately) \in Nat
<1>1. IsFiniteSet(1 .. Len(done)) /\ IsFiniteSet(1 .. Len(log))
  BY RateTypes, FS_Interval
<1>2. DoneLately \subseteq 1 .. Len(done) /\ LoggedLately \subseteq 1 .. Len(log)
  BY RateTypes DEF DoneLately, LoggedLately
<1>3. IsFiniteSet(DoneLately) /\ IsFiniteSet(LoggedLately)
  BY <1>1, <1>2, FS_Subset
<1>4. QED
  BY <1>3, FS_CardinalityType

\* What the bounds count is all there is to count.
LEMMA TheLogKnowsWhatWasDone ==
    ASSUME LoopTypeInv, TimesInv, phase = "running", LogOutlastsTheBounds
    PROVE  Cardinality(DoneLately) <= RecentChanges
<1>1. \A n \in DoneLately : Remembered(n)
  <2>1. \A n \in DoneLately : n \in DOMAIN done /\ ~(done[n].at + LogCapacity <= now)
    BY RateTypes DEF DoneLately, LogOutlastsTheBounds
  <2>2. QED
    BY <2>1 DEF TimesInv
<1>. DEFINE f == [n \in DoneLately |-> CHOOSE i \in EntryOf(n) : TRUE]
<1>2. \A n \in DoneLately : f[n] \in EntryOf(n)
  BY <1>1 DEF Remembered
<1>. HIDE DEF f
<1>3. \A n \in DoneLately : f[n] \in LoggedLately /\ log[f[n]].at = done[n].at
  BY <1>2 DEF DoneLately, LoggedLately, EntryOf
<1>4. \A m, n \in DoneLately : f[m] = f[n] => m = n
  <2>. SUFFICES ASSUME NEW m \in DoneLately, NEW n \in DoneLately, f[m] = f[n], m # n
                PROVE  FALSE
    OBVIOUS
  <2>1. m \in 1 .. Len(done) /\ n \in 1 .. Len(done) /\ m \in DOMAIN done /\ n \in DOMAIN done
    BY RateTypes DEF DoneLately
  <2>2. done[m].at = done[n].at /\ done[n].at \in Nat
    BY <1>3, <2>1, RateTypes
  <2>3. m < n \/ n < m
    BY <2>1
  <2>4. done[m].at < done[n].at \/ done[n].at < done[m].at
    BY <2>1, <2>3 DEF TimesInv
  <2>5. QED
    BY <2>2, <2>4
<1>5. f \in Injection(DoneLately, LoggedLately)
  <2>1. f \in [DoneLately -> LoggedLately]
    BY <1>3 DEF f
  <2>2. QED
    BY <1>4, <2>1 DEF Injection, IsInjective
<1>6. QED
  BY <1>5, LatelyIsFinite, FS_Injection DEF RecentChanges, LoggedLately

\* An entry is followed by one for each tick since, at most.
LEMMA TimesOfRecord ==
    ASSUME LoopTypeInv, TimesInv, phase = "running", ~ticked, now' = now,
           NEW e \in Entry_, Records(e)
    PROVE  /\ \A i \in DOMAIN log' : log'[i].at + (Len(log') - i) <= now
           /\ \A n \in DOMAIN done :
                \/ \E i \in DOMAIN log' :
                      /\ Changed(log'[i].disposition)
                      /\ log'[i].kind.target = done[n].target /\ log'[i].at = done[n].at
                \/ done[n].at + LogCapacity <= now
<1>1. /\ log' \in Seq(Entry_) /\ Len(log') \in Nat \ {0} /\ log'[Len(log')] = e
      /\ DOMAIN log' = 1 .. Len(log') /\ e.at = now
  BY RecordedStep DEF Records
<1>2. PICK k \in {0, 1} : Shifted(log, log', k)
  BY RecordedStep
<1>3. /\ Len(log') = Len(log) + 1 - k
      /\ k = 1 => Len(log) = LogCapacity
      /\ \A i \in 1 .. Len(log') - 1 : i + k \in 1 .. Len(log) /\ log'[i] = log[i + k]
  BY <1>2 DEF Shifted
<1>4. ASSUME NEW i \in DOMAIN log' PROVE log'[i].at + (Len(log') - i) <= now
  <2>1. CASE i = Len(log')
    BY <1>1, <2>1, RateTypes
  <2>2. CASE i # Len(log')
    <3>1. i \in 1 .. Len(log') - 1
      BY <1>1, <2>2
    <3>2. i + k \in DOMAIN log /\ log'[i] = log[i + k]
      BY <1>3, <3>1, RateTypes
    <3>3. log[i + k].at \in Nat /\ log[i + k].at + (Len(log) - (i + k)) < now
      BY <3>2, RateTypes DEF TimesInv
    <3>4. Len(log') - i = (Len(log) - (i + k)) + 1
      BY <1>3, <3>1, RateTypes
    <3>5. Len(log) - (i + k) \in Int /\ now \in Int
      BY <3>1, RateTypes
    <3>6. \A a, x, t \in Int : a + x < t => a + (x + 1) <= t
      OBVIOUS
    <3>7. QED
      BY <3>2, <3>3, <3>4, <3>5, <3>6
  <2>3. QED
    BY <2>1, <2>2
<1>5. ASSUME NEW n \in DOMAIN done, Remembered(n)
      PROVE  \/ \E i \in DOMAIN log' :
                    /\ Changed(log'[i].disposition)
                    /\ log'[i].kind.target = done[n].target /\ log'[i].at = done[n].at
             \/ done[n].at + LogCapacity <= now
  <2>1. PICK i \in EntryOf(n) : TRUE
    BY <1>5 DEF Remembered
  <2>2. /\ i \in 1 .. Len(log) /\ i \in DOMAIN log /\ Changed(log[i].disposition)
        /\ log[i].kind.target = done[n].target /\ log[i].at = done[n].at
    BY <2>1, RateTypes DEF EntryOf
  <2>3. CASE i - k >= 1
    <3>1. i - k \in 1 .. Len(log') - 1 /\ i - k \in DOMAIN log' /\ (i - k) + k = i
      BY <1>1, <1>3, <2>2, <2>3, RateTypes
    <3>2. log'[i - k] = log[i]
      BY <1>3, <3>1
    <3>3. QED
      BY <2>2, <3>1, <3>2
  <2>4. CASE ~(i - k >= 1)
    <3>1. i = 1 /\ Len(log) = LogCapacity
      BY <1>3, <2>2, <2>4
    <3>2. log[i].at + (Len(log) - i) < now
      BY <2>2 DEF TimesInv
    <3>3. QED
      BY <2>2, <3>1, <3>2, RateTypes
  <2>5. QED
    BY <2>3, <2>4
<1>6. QED
  BY <1>4, <1>5 DEF TimesInv

\* The places of the changes in `done' after a tick that adds one.
LEMMA DoneAfter ==
    ASSUME LoopTypeInv, NEW e \in Entry_, AddsTo(e)
    PROVE  /\ Len(done') = Len(done) + 1 /\ DOMAIN done' = 1 .. Len(done) + 1
           /\ \A n \in DOMAIN done : done'[n] = done[n]
           /\ done'[Len(done) + 1].at = now
           /\ done'[Len(done) + 1].target = e.kind.target
<1>. DEFINE Done_ == [target : Target, at : Nat]
            new == [target |-> e.kind.target, at |-> now]
<1>1. e.kind.target \in Target /\ now \in Nat
  BY DEF AddsTo, ActsWith, Kinds, LoopTypeInv
<1>2. new \in Done_ /\ new.target = e.kind.target /\ new.at = now
  BY <1>1
<1>3. done \in Seq(Done_) /\ done' = Append(done, new)
  BY DEF LoopTypeInv, AddsTo
<1>. HIDE DEF Done_, new
<1>4. /\ Len(done') = Len(done) + 1 /\ DOMAIN done' = 1 .. Len(done) + 1
      /\ \A n \in DOMAIN done : done'[n] = done[n]
      /\ done'[Len(done) + 1] = new
  BY <1>2, <1>3
<1>5. QED
  BY <1>2, <1>4

\* A change of a target comes MinInterval after every earlier one of it.
LEMMA TheNextOneIsNotTooSoon ==
    ASSUME LoopTypeInv, TimesInv, phase = "running", LogOutlastsTheBounds,
           NEW target, CheckRate(target), NEW n \in DOMAIN done, done[n].target = target
    PROVE  now - done[n].at >= MinInterval
<1>1. CASE Remembered(n)
  <2>1. PICK i \in EntryOf(n) : TRUE
    BY <1>1 DEF Remembered
  <2>2. log[i].at \in ChangesOf(target) /\ log[i].at = done[n].at
    BY <2>1 DEF EntryOf, ChangesOf
  <2>3. QED
    BY <2>2 DEF CheckRate
<1>2. CASE done[n].at + LogCapacity <= now
  BY <1>2, RateTypes DEF LogOutlastsTheBounds
<1>3. QED
  BY <1>1, <1>2 DEF TimesInv

LEMMA RateOfAddition ==
    ASSUME LoopTypeInv, RateInv, phase = "running", ~ticked, now' = now, ticked',
           LogOutlastsTheBounds, NEW e \in Entry_, AddsTo(e)
    PROVE  RateInv'
<1>. DEFINE new == Len(done) + 1
<1>1. /\ Records(e) /\ e.kind \in Kinds /\ Changed(e.disposition) /\ CheckRate(e.kind.target)
      /\ TimesInv /\ RateHolds
  BY DEF AddsTo, ActsWith, RateInv
<1>2. /\ Len(done) \in Nat /\ new \in Nat /\ DOMAIN done = 1 .. Len(done) /\ DOMAIN done' = 1 .. new
      /\ \A n \in DOMAIN done : done'[n] = done[n]
      /\ done'[new].at = now /\ done'[new].target = e.kind.target
  BY DoneAfter, RateTypes
<1>. HIDE DEF new
<1>3. \A n \in DOMAIN done' : n = new \/ (n \in DOMAIN done /\ done'[n] = done[n] /\ n < new)
  BY <1>2 DEF new
<1>4. /\ log'[Len(log')] = e /\ e.at = now /\ Len(log') \in DOMAIN log'
  <2>1. log' \in Seq(Entry_) /\ Len(log') \in Nat \ {0} /\ log'[Len(log')] = e
    BY <1>1, RecordedStep
  <2>2. QED
    BY <1>1, <2>1 DEF Records
<1>5. \A n \in DOMAIN done : done[n].at < now
  BY <1>1 DEF TimesInv
<1>6. TimesInv'
  <2>1. \A i \in DOMAIN log' : log'[i].at + (Len(log') - i) <= now
    BY <1>1, TimesOfRecord
  <2>2. \A n \in DOMAIN done' : done'[n].at <= now
    BY <1>1, <1>2, <1>3, RateTypes DEF TimesInv
  <2>3. ASSUME NEW m \in DOMAIN done', NEW n \in DOMAIN done', m < n
        PROVE  done'[m].at < done'[n].at
    <3>1. m \in DOMAIN done /\ done'[m] = done[m]
      BY <1>2, <1>3, <2>3
    <3>2. CASE n = new
      BY <1>2, <1>5, <3>1, <3>2
    <3>3. CASE n # new
      BY <1>1, <1>3, <2>3, <3>1, <3>3 DEF TimesInv
    <3>4. QED
      BY <3>2, <3>3
  <2>4. ASSUME NEW n \in DOMAIN done'
        PROVE  \/ \E i \in DOMAIN log' :
                      /\ Changed(log'[i].disposition)
                      /\ log'[i].kind.target = done'[n].target /\ log'[i].at = done'[n].at
               \/ done'[n].at + LogCapacity <= now
    <3>1. CASE n = new
      BY <1>1, <1>2, <1>4, <3>1
    <3>2. CASE n # new
      BY <1>1, <1>3, <3>2, TimesOfRecord
    <3>3. QED
      BY <3>1, <3>2
  <2>5. QED
    BY <2>1, <2>2, <2>3, <2>4 DEF TimesInv, Remembered, EntryOf
<1>7. Cardinality(DoneLately') <= PerMinute
  <2>1. IsFiniteSet(DoneLately) /\ Cardinality(DoneLately) \in Nat
    BY LatelyIsFinite
  <2>2. DoneLately' \subseteq DoneLately \cup {new}
    BY <1>3 DEF DoneLately
  <2>3. /\ IsFiniteSet(DoneLately \cup {new})
        /\ Cardinality(DoneLately \cup {new}) <= Cardinality(DoneLately) + 1
        /\ Cardinality(DoneLately \cup {new}) \in Nat
    BY <2>1, FS_AddElement, FS_CardinalityType
  <2>4. /\ Cardinality(DoneLately') <= Cardinality(DoneLately \cup {new})
        /\ Cardinality(DoneLately') \in Nat
    BY <2>2, <2>3, FS_Subset, FS_CardinalityType
  <2>5. Cardinality(DoneLately) <= RecentChanges /\ RecentChanges < PerMinute
    BY <1>1, TheLogKnowsWhatWasDone DEF CheckRate
  <2>6. RecentChanges \in Nat
    BY LatelyIsFinite DEF RecentChanges, LoggedLately
  <2>7. QED
    BY <2>1, <2>3, <2>4, <2>5, <2>6, RateTypes
<1>8. ASSUME NEW i \in DOMAIN done', NEW j \in DOMAIN done',
             i < j, done'[i].target = done'[j].target
      PROVE  done'[j].at - done'[i].at >= MinInterval
  <2>1. i \in DOMAIN done /\ done'[i] = done[i]
    BY <1>2, <1>3, <1>8
  <2>2. CASE j = new
    BY <1>1, <1>2, <1>8, <2>1, <2>2, TheNextOneIsNotTooSoon
  <2>3. CASE j # new
    BY <1>1, <1>3, <1>8, <2>1, <2>3 DEF RateHolds
  <2>4. QED
    BY <2>2, <2>3
<1>9. QED
  BY <1>6, <1>7, <1>8 DEF RateInv, RateHolds, DoneLately

LEMMA RateOfTick ==
    ASSUME LoopTypeInv, RateInv, LoopTick, LogOutlastsTheBounds PROVE RateInv'
<1>1. phase = "running" /\ ~ticked /\ now' = now /\ ticked' /\ TimesInv /\ RateHolds
  BY DEF LoopTick, RateInv
<1>2. CASE \E e \in Entry_ : AddsTo(e)
  BY <1>1, <1>2, RateOfAddition
<1>3. CASE done' = done
  <2>1. RateHolds'
    BY <1>1, <1>3 DEF RateHolds
  <2>2. CASE log' = log
    BY <1>1, <1>3, <2>1, <2>2, RateTypes DEF RateInv, TimesInv, Remembered, EntryOf
  <2>3. ASSUME NEW e \in Entry_, Records(e) PROVE TimesInv'
    <3>1. /\ \A i \in DOMAIN log' : log'[i].at + (Len(log') - i) <= now
          /\ \A n \in DOMAIN done :
               \/ \E i \in DOMAIN log' :
                     /\ Changed(log'[i].disposition)
                     /\ log'[i].kind.target = done[n].target /\ log'[i].at = done[n].at
               \/ done[n].at + LogCapacity <= now
      BY <1>1, <2>3, TimesOfRecord
    <3>2. QED
      BY <1>1, <1>3, <3>1 DEF TimesInv, Remembered, EntryOf
  <2>4. log' = log \/ \E e \in Entry_ : Records(e)
    BY TickCases DEF Idles, Undoes, Holds, ActsWith
  <2>5. QED
    BY <2>1, <2>2, <2>3, <2>4 DEF RateInv
<1>4. QED
  BY <1>2, <1>3, DoneOfTick

LEMMA RateOfReflection ==
    ASSUME LoopTypeInv, RateInv, NextReflection PROVE RateInv'
<1>1. /\ phase = "running" /\ now' = now + 1 /\ log' = log /\ done' = done /\ ~ticked'
      /\ TimesInv /\ RateHolds
  BY DEF NextReflection, Tick, actuators, RateInv
<1>2. TimesInv'
  <2>1. \A i \in DOMAIN log : log[i].at + (Len(log) - i) < now + 1
    BY <1>1, RateTypes DEF TimesInv
  <2>2. \A n \in DOMAIN done : done[n].at < now + 1
    BY <1>1, RateTypes DEF TimesInv
  <2>3. \A n \in DOMAIN done : Remembered(n) \/ done[n].at + LogCapacity <= now + 1
    BY <1>1, RateTypes DEF TimesInv
  <2>4. \A i \in DOMAIN log : log[i].at + (Len(log) - i) <= now + 1
    BY <1>1, RateTypes DEF TimesInv
  <2>5. \A n \in DOMAIN done : done[n].at <= now + 1
    BY <1>1, RateTypes DEF TimesInv
  <2>6. QED
    BY <1>1, <2>1, <2>2, <2>3, <2>4, <2>5 DEF TimesInv, Remembered, EntryOf
<1>3. RateHolds'
  <2>1. DoneLately' \subseteq DoneLately
    BY <1>1, RateTypes DEF DoneLately
  <2>2. /\ Cardinality(DoneLately') <= Cardinality(DoneLately)
        /\ Cardinality(DoneLately') \in Nat /\ Cardinality(DoneLately) \in Nat
    BY <2>1, LatelyIsFinite, FS_Subset, FS_CardinalityType
  <2>3. Cardinality(DoneLately') <= PerMinute
    BY <1>1, <2>2, RateTypes DEF RateHolds, DoneLately
  <2>4. QED
    BY <1>1, <2>3 DEF RateHolds, DoneLately
<1>4. QED
  BY <1>2, <1>3 DEF RateInv

LEMMA RateOfStart ==
    ASSUME LoopInit PROVE RateInv
<1>1. now = 0 /\ log = << >> /\ done = << >>
  BY DEF LoopInit, ActuatorsInit
<1>2. DOMAIN log = {} /\ DOMAIN done = {} /\ PerMinute \in Nat
  BY <1>1, ActuatorsAssumption
<1>3. DoneLately = {} /\ Cardinality(DoneLately) = 0
  BY <1>2, FS_EmptySet DEF DoneLately
<1>4. QED
  BY <1>2, <1>3 DEF RateInv, TimesInv, RateHolds, DoneLately

\* No more changes in a minute than the limit, and no two of a target sooner
\* than the interval, though both are counted from a log that forgets, as long
\* as it does not forget within either (actuators.rs, check_rate; audit.rs).
THEOREM RateIsARate ==
    ASSUME LogOutlastsTheBounds PROVE LoopSpec => []RateHolds
<1>1. LoopTypeInv /\ RateInv /\ [LoopNext]_loopVars => RateInv'
  <2>. SUFFICES ASSUME LoopTypeInv, RateInv, [LoopNext]_loopVars PROVE RateInv'
    OBVIOUS
  <2>1. ASSUME phase' # "running" \/ (phase' = phase /\ ticked' = ticked /\ log' = log),
               done' = done, now' = now
        PROVE  RateInv'
    BY <2>1 DEF RateInv, TimesInv, RateHolds, Remembered, EntryOf
  <2>2. CASE LoopTick
    BY <2>2, RateOfTick
  <2>3. CASE NextReflection
    BY <2>3, RateOfReflection
  <2>4. CASE Leave \/ Revert \/ SourceFails
    BY <2>1, <2>4 DEF Leave, Revert, SourceFails
  <2>5. CASE Environment
    BY <2>1, <2>5 DEF Environment, ProcessComesAndGoes, actuators, program
  <2>6. CASE UNCHANGED loopVars
    BY <2>1, <2>6 DEF loopVars, actuators, program
  <2>7. QED
    BY <2>2, <2>3, <2>4, <2>5, <2>6 DEF LoopNext
<1>2. LoopInit => RateInv
  BY RateOfStart
<1>3. RateInv => RateHolds
  BY DEF RateInv
<1>4. QED
  BY <1>1, <1>2, <1>3, LoopTypesOfInit, LoopTypesOfStep, PTL DEF LoopSpec

-----------------------------------------------------------------------------
(* The reflections: clean is stored.                                       *)

\* A catalogue knows its states and numbers the next.
Knows(c) == {"ids", "nextId"} \subseteq DOMAIN c

SameStates(c, d) == c.ids = d.ids /\ c.nextId = d.nextId

\* What SavedWhenClean says, at any time.
Synced == stored.normalizer = normalizer /\ SameStates(stored.latent, catalogue)

\* A forgetting clears what is stored before it clears the memory; what is
\* saved is saved before it is called clean; and a scaling is never lost from
\* memory while it is stored.
LearnedInv ==
    /\ doing \in {"idle", "sample", "cursor", "latent", "normalizer", "rest",
                 "clear settings", "reset", "clear events"}
    /\ Knows(catalogue) /\ Knows(stored.latent)
    /\ stored = [latent |-> stored.latent, normalizer |-> stored.normalizer]
    /\ normalizer = 0 => stored.normalizer = 0
    /\ doing \in {"idle", "sample", "cursor", "clear settings"} /\ ~dirty /\ intact => Synced
    /\ doing \in {"latent", "normalizer", "rest"} => dirty
    /\ doing \in {"normalizer", "rest"} => SameStates(stored.latent, catalogue)
    /\ doing = "rest" => stored.normalizer = normalizer
    /\ doing = "reset" => stored = Fresh
    /\ doing = "clear events" => Synced

LEMMA FreshKnows == Knows(NewCatalogue) /\ Fresh.latent = NewCatalogue /\ Fresh.normalizer = 0
  BY DEF Knows, NewCatalogue, Fresh

LEMMA CountedKeeps ==
    ASSUME NEW c, Knows(c)
    PROVE  /\ Knows(Counted(c)) /\ SameStates(Counted(c), c)
           /\ Knows([Counted(c) EXCEPT !.suppressed = @ + 1])
           /\ SameStates([Counted(c) EXCEPT !.suppressed = @ + 1], c)
<1>. DEFINE d == Counted(c)
<1>1. Knows(d) /\ SameStates(d, c)
  BY DEF Counted, Knows, SameStates
<1>. HIDE DEF d
<1>2. Knows([d EXCEPT !.suppressed = @ + 1]) /\ SameStates([d EXCEPT !.suppressed = @ + 1], d)
  BY <1>1 DEF Knows, SameStates
<1>3. QED
  BY <1>1, <1>2 DEF SameStates, d

LEMMA VisitedKeeps ==
    ASSUME NEW c, NEW i, Knows(c)
    PROVE  Knows(Visited(c, i)) /\ SameStates(Visited(c, i), c)
<1>. DEFINE here == [c EXCEPT !.occupancy[i] = @ + 1]
            moved == IF \E j \in Positions(c) : c.current = {c.ids[j]}
                     THEN [c.moves EXCEPT ![Here(c)][i] = @ + 1] ELSE c.moves
            there == [here EXCEPT !.entries[i] = @ + 1, !.current = {c.ids[i]}, !.moves = moved]
<1>1. Knows(here) /\ SameStates(here, c)
  BY DEF Knows, SameStates
<1>. HIDE DEF here
<1>2. Knows(there) /\ SameStates(there, here)
  BY <1>1 DEF Knows, SameStates
<1>3. Visited(c, i) = here \/ Visited(c, i) = there
  BY DEF Visited, here
<1>. HIDE DEF there
<1>4. QED
  BY <1>1, <1>2, <1>3 DEF SameStates

LEMMA FoundedKnows ==
    ASSUME NEW c, Knows(c) PROVE Knows(Founded(c))
  BY DEF Knows, Founded

\* What a reflection changes of the states known, it changes by founding one.
LEMMA ObservedKeeps ==
    ASSUME NEW c, NEW nearest, NEW close \in BOOLEAN, Knows(c)
    PROVE  /\ Knows(Observed(c, nearest, close))
           /\ ~IsNovel(c, close) => SameStates(Observed(c, nearest, close), c)
<1>1. CASE close
  BY <1>1, CountedKeeps, VisitedKeeps DEF Observed, SameStates, IsNovel
<1>2. CASE ~close /\ ~(Len(c.ids) < MaxStates)
  BY <1>2, CountedKeeps, VisitedKeeps DEF Observed, SameStates, IsNovel
<1>3. CASE ~close /\ Len(c.ids) < MaxStates
  BY <1>3, CountedKeeps, FoundedKnows, VisitedKeeps DEF Observed, IsNovel
<1>4. QED
  BY <1>1, <1>2, <1>3

LEMMA RecordingSaysSo ==
    ASSUME LearnedInv, RecordReflection
    PROVE  LearnedInv'
<1>1. doing = "idle" /\ doing' = "sample" /\ stored' = stored /\ intact' = intact
  BY DEF RecordReflection
<1>2. CASE MakesNoRow
  BY <1>1, <1>2 DEF MakesNoRow, LearnedInv, Synced
<1>3. CASE GathersBaseline
  <2>1. catalogue' = catalogue /\ normalizer = 0
    BY <1>3 DEF GathersBaseline
  <2>2. UNCHANGED <<normalizer, dirty>> \/ dirty'
    BY <1>3 DEF GathersBaseline
  <2>3. QED
    BY <1>1, <2>1, <2>2 DEF LearnedInv, Synced
<1>4. ASSUME NEW nearest, NEW close \in BOOLEAN, Recognises(nearest, close)
      PROVE  LearnedInv'
  <2>1. /\ catalogue' = Observed(catalogue, nearest, close) /\ normalizer' = normalizer
        /\ dirty' = dirty \/ dirty'
        /\ ~IsNovel(catalogue, close) => dirty' = dirty
        /\ IsNovel(catalogue, close) => dirty'
    BY <1>4 DEF Recognises
  <2>2. /\ Knows(catalogue')
        /\ ~IsNovel(catalogue, close) => SameStates(catalogue', catalogue)
    BY <2>1, ObservedKeeps DEF LearnedInv
  <2>3. CASE IsNovel(catalogue, close)
    BY <1>1, <2>1, <2>2, <2>3 DEF LearnedInv
  <2>4. CASE ~IsNovel(catalogue, close)
    BY <1>1, <2>1, <2>2, <2>4 DEF LearnedInv, Synced, SameStates
  <2>5. QED
    BY <2>3, <2>4
<1>5. QED
  BY <1>2, <1>3, <1>4 DEF RecordReflection

LEMMA SavingIsInOrder ==
    ASSUME LearnedInv, Persist \/ SaveLatent \/ SaveNormalizer \/ SaveRest
    PROVE  LearnedInv'
<1>1. CASE Persist
  BY <1>1 DEF Persist, learnedVars, LearnedInv, Synced
<1>2. CASE SaveLatent
  <2>1. /\ doing = "latent" /\ doing' = "normalizer" /\ UNCHANGED <<catalogue, normalizer, dirty>>
        /\ stored' = [latent |-> catalogue, normalizer |-> stored.normalizer]
    BY <1>2 DEF SaveLatent, learnedVars, LearnedInv
  <2>2. QED
    BY <2>1 DEF LearnedInv, SameStates
<1>3. CASE SaveNormalizer
  <2>1. /\ doing = "normalizer" /\ doing' = "rest" /\ UNCHANGED <<catalogue, normalizer, dirty>>
        /\ stored' = [latent |-> stored.latent, normalizer |-> normalizer]
    BY <1>3 DEF SaveNormalizer, learnedVars, LearnedInv
  <2>2. QED
    BY <2>1 DEF LearnedInv, SameStates
<1>4. CASE SaveRest
  BY <1>4 DEF SaveRest, LearnedInv, Synced
<1>5. QED
  BY <1>1, <1>2, <1>3, <1>4

LEMMA ForgettingIsInOrder ==
    ASSUME LearnedInv, ForgetEverything \/ ClearSettings \/ ForgetMemory \/ ClearEvents
    PROVE  LearnedInv'
<1>1. CASE ForgetEverything
  BY <1>1 DEF ForgetEverything, learnedVars, LearnedInv, Synced
<1>2. CASE ClearSettings
  BY <1>2, FreshKnows DEF ClearSettings, learnedVars, LearnedInv, Synced, Fresh
<1>3. CASE ForgetMemory
  BY <1>3, FreshKnows DEF ForgetMemory, LearnedInv, Synced, SameStates
<1>4. CASE ClearEvents
  BY <1>4 DEF ClearEvents, LearnedInv, Synced
<1>5. QED
  BY <1>1, <1>2, <1>3, <1>4

LEMMA OtherReflectionSteps ==
    ASSUME LearnedInv,
           PushSample \/ PushCursor \/ WriteFails \/ Restart \/ UNCHANGED reflectionsVars
    PROVE  LearnedInv'
<1>1. CASE PushSample
  BY <1>1 DEF PushSample, learnedVars, LearnedInv, Synced
<1>2. CASE PushCursor
  BY <1>2 DEF PushCursor, learnedVars, LearnedInv, Synced
<1>3. CASE WriteFails
  BY <1>3 DEF WriteFails, learnedVars, LearnedInv, Synced
<1>4. CASE Restart
  BY <1>4 DEF Restart, LearnedInv, Synced, SameStates
<1>5. CASE UNCHANGED reflectionsVars
  BY <1>5 DEF reflectionsVars, learnedVars, LearnedInv, Synced
<1>6. QED
  BY <1>1, <1>2, <1>3, <1>4, <1>5

\* Wherever a save or a forgetting is cut short: between requests, an engine
\* that is not dirty has saved which states it knows and how it scales
\* (engine.rs, record_reflection, persist, forget).
THEOREM LearnedIsSaved == ReflectionsSpec => []SavedWhenClean
<1>1. ReflectionsInit => LearnedInv
  BY FreshKnows DEF ReflectionsInit, LearnedInv, Synced, SameStates, Fresh
<1>2. LearnedInv /\ [ReflectionsNext]_reflectionsVars => LearnedInv'
  BY RecordingSaysSo, SavingIsInOrder, ForgettingIsInOrder, OtherReflectionSteps
  DEF ReflectionsNext
<1>3. LearnedInv => SavedWhenClean
  BY DEF LearnedInv, SavedWhenClean, Synced, SameStates
<1>4. QED
  BY <1>1, <1>2, <1>3, PTL DEF ReflectionsSpec

-----------------------------------------------------------------------------
(* The ring.                                                               *)

\* A position that shares its slot with a later one is a whole turn before it.
LEMMA SameSlot ==
    ASSUME NEW i \in Nat, NEW j \in Nat, i < j, i % Capacity = j % Capacity
    PROVE  i + Capacity <= j
<1>. DEFINE n == Capacity
            a == i \div n
            b == j \div n
            r == i % n
<1>1. n \in Nat /\ n > 0
  BY CapacityAssumption
<1>2. a \in Nat /\ b \in Nat /\ r \in 0 .. n - 1 /\ i = n * a + r /\ j = n * b + r
  BY <1>1
<1>. HIDE DEF n, a, b, r
<1>3. a + 1 <= b
  <2>1. SUFFICES ASSUME b <= a PROVE FALSE
    BY <1>2
  <2>2. n * b <= n * a
    BY <1>1, <1>2, <2>1
  <2>3. n * b \in Nat /\ n * a \in Nat
    BY <1>1, <1>2
  <2>4. QED
    BY <1>1, <1>2, <2>2, <2>3
<1>4. n * (a + 1) <= n * b
  BY <1>1, <1>2, <1>3
<1>5. n * (a + 1) = n * a + n
  BY <1>1, <1>2
<1>6. n * a \in Nat /\ n * b \in Nat
  BY <1>1, <1>2
<1>7. i + n <= j
  BY <1>1, <1>2, <1>4, <1>5, <1>6
<1>8. QED
  BY <1>7 DEF n

LEMMA InASlot ==
    ASSUME NEW i \in Nat PROVE i % Capacity \in Slot
  BY CapacityAssumption DEF Slot

RingTypes ==
    /\ slots \in [Slot -> Nat] /\ cursor \in Nat /\ written \in Nat /\ pushes \in Nat
    /\ intended \in Seq(Nat) /\ Len(intended) = written
    /\ behind \in Nat /\ uncleared \in BOOLEAN

\* The position a write may by now have reached, of those whose cursor is not
\* yet behind: from the cursor on, unless it is of samples that were cleared.
Reached == IF uncleared THEN written ELSE cursor + behind

\* A sample is in its place, or is a turn before what was reached.
InPlace ==
    \A i \in 0 .. written - 1 :
        slots[i % Capacity] = intended[i + 1] \/ i + Capacity <= Reached

\* The cursor is behind by what it was seen to be, and by one more while it is
\* about to be written.
Lag(steps) == uncleared \/ (cursor <= written /\ written <= cursor + behind + steps)

RingInv ==
    /\ RingTypes /\ InPlace
    /\ IF doing = "cursor" THEN Lag(1) ELSE Lag(0)

\* The slot of the next sample is that of the oldest.
LEMMA OldestIsReached ==
    ASSUME RingTypes, Lag(0), NEW i \in 0 .. written - 1,
           i % Capacity = written % Capacity
    PROVE  i + Capacity <= Reached
<1>1. i + Capacity <= written
  BY SameSlot DEF RingTypes
<1>2. written <= Reached
  BY DEF RingTypes, Lag, Reached
<1>3. Reached \in Nat
  BY DEF RingTypes, Reached
<1>4. QED
  BY <1>1, <1>2, <1>3, CapacityAssumption DEF RingTypes

\* Whatever is written there, only the oldest suffers.
LEMMA OneSlotIsWritten ==
    ASSUME RingTypes, InPlace, Lag(0), NEW x \in Nat, NEW i \in 0 .. written - 1
    PROVE  \/ [slots EXCEPT ![written % Capacity] = x][i % Capacity] = intended[i + 1]
           \/ i + Capacity <= Reached
<1>1. i % Capacity \in Slot /\ written % Capacity \in Slot
  BY InASlot DEF RingTypes
<1>2. CASE i % Capacity = written % Capacity
  BY <1>2, OldestIsReached
<1>3. CASE i % Capacity # written % Capacity
  <2>1. [slots EXCEPT ![written % Capacity] = x][i % Capacity] = slots[i % Capacity]
    BY <1>1, <1>3 DEF RingTypes
  <2>2. QED
    BY <2>1 DEF InPlace
<1>4. QED
  BY <1>2, <1>3

LEMMA PushKeepsItsPlace ==
    ASSUME RingTypes, InPlace, Lag(0), WriteSample
    PROVE  RingTypes' /\ InPlace' /\ Lag(1)'
<1>1. /\ slots' = [slots EXCEPT ![written % Capacity] = pushes + 1]
      /\ written' = written + 1 /\ pushes' = pushes + 1
      /\ intended' = Append(SubSeq(intended, 1, written), pushes + 1)
      /\ UNCHANGED <<cursor, behind, uncleared>>
  BY DEF WriteSample
<1>2. intended \in Seq(Nat) /\ SubSeq(intended, 1, written) = intended
  BY SubSeqFull DEF RingTypes
<1>3. /\ intended' \in Seq(Nat) /\ Len(intended') = written + 1
      /\ \A i \in 0 .. written - 1 : intended'[i + 1] = intended[i + 1]
      /\ intended'[written + 1] = pushes + 1
  BY <1>1, <1>2 DEF RingTypes
<1>4. RingTypes'
  <2>1. pushes + 1 \in Nat /\ slots \in [Slot -> Nat]
    BY DEF RingTypes
  <2>2. slots' \in [Slot -> Nat]
    BY <1>1, <2>1
  <2>3. QED
    BY <1>1, <1>3, <2>2 DEF RingTypes
<1>5. Lag(1)'
  BY <1>1 DEF Lag, RingTypes
<1>6. Reached <= Reached' /\ Reached \in Nat /\ Reached' \in Nat
  BY <1>1, <1>4 DEF Reached, RingTypes
<1>7. ASSUME NEW i \in 0 .. written
      PROVE  slots'[i % Capacity] = intended'[i + 1] \/ i + Capacity <= Reached'
  <2>1. CASE i = written
    BY <1>1, <1>3, <2>1, InASlot DEF RingTypes
  <2>2. CASE i \in 0 .. written - 1
    <3>1. slots'[i % Capacity] = intended[i + 1] \/ i + Capacity <= Reached
      BY <1>1, <2>2, OneSlotIsWritten DEF RingTypes
    <3>2. QED
      BY <1>3, <1>6, <2>2, <3>1, CapacityAssumption
  <2>3. QED
    BY <2>1, <2>2 DEF RingTypes
<1>8. InPlace'
  BY <1>1, <1>7 DEF InPlace, RingTypes
<1>9. QED
  BY <1>4, <1>5, <1>8

\* A slot that is torn, or not: what a failed write leaves, and a death in one.
LEMMA TornIsTheOldest ==
    ASSUME RingTypes, InPlace, Lag(0), NEW torn,
           torn = [slots EXCEPT ![written % Capacity] = Torn] \/ torn = slots
    PROVE  /\ torn \in [Slot -> Nat]
           /\ \A i \in 0 .. written - 1 :
                torn[i % Capacity] = intended[i + 1] \/ i + Capacity <= Reached
<1>1. Torn \in Nat
  BY DEF Torn
<1>2. torn \in [Slot -> Nat]
  BY <1>1 DEF RingTypes
<1>3. CASE torn = slots
  BY <1>2, <1>3 DEF InPlace
<1>4. CASE torn = [slots EXCEPT ![written % Capacity] = Torn]
  BY <1>1, <1>2, <1>4, OneSlotIsWritten
<1>5. QED
  BY <1>3, <1>4

LEMMA ReachingMore ==
    ASSUME InPlace, UNCHANGED <<slots, written, intended>>, written \in Nat,
           Reached <= Reached', Reached \in Nat, Reached' \in Nat
    PROVE  InPlace'
<1>1. ASSUME NEW i \in 0 .. written - 1
      PROVE  slots[i % Capacity] = intended[i + 1] \/ i + Capacity <= Reached'
  <2>1. slots[i % Capacity] = intended[i + 1] \/ i + Capacity <= Reached
    BY DEF InPlace
  <2>2. QED
    BY <2>1, CapacityAssumption
<1>2. QED
  BY <1>1 DEF InPlace

LEMMA CursorFollows ==
    ASSUME RingTypes, InPlace, Lag(1), WriteCursor \/ CursorFails
    PROVE  RingTypes' /\ InPlace' /\ Lag(0)'
<1>1. CASE WriteCursor
  <2>1. cursor' = written /\ uncleared' = FALSE /\ UNCHANGED <<slots, written, pushes, intended, behind>>
    BY <1>1 DEF WriteCursor
  <2>2. RingTypes' /\ Lag(0)'
    <3>1. RingTypes'
      BY <2>1 DEF RingTypes
    <3>2. cursor' <= written' /\ written' <= cursor' + behind' + 0
      BY <2>1 DEF RingTypes
    <3>3. QED
      BY <3>1, <3>2, Zenon DEF Lag
  <2>3. Reached <= Reached' /\ Reached \in Nat /\ Reached' \in Nat
    BY <2>1 DEF RingTypes, Reached, Lag
  <2>4. InPlace'
    BY <2>1, <2>3, ReachingMore DEF RingTypes
  <2>5. QED
    BY <2>2, <2>4
<1>2. CASE CursorFails
  <2>1. /\ behind' = Larger(behind, IF written > cursor THEN written - cursor ELSE 0)
        /\ UNCHANGED <<slots, cursor, written, pushes, intended, uncleared>>
    BY <1>2 DEF CursorFails
  <2>2. RingTypes' /\ Lag(0)' /\ behind' >= behind
    BY <2>1 DEF RingTypes, Lag, Larger
  <2>3. Reached <= Reached' /\ Reached \in Nat /\ Reached' \in Nat
    BY <2>1, <2>2 DEF RingTypes, Reached
  <2>4. InPlace'
    BY <2>1, <2>3, ReachingMore DEF RingTypes
  <2>5. QED
    BY <2>2, <2>4
<1>3. QED
  BY <1>1, <1>2

LEMMA ClearingStartsAgain ==
    ASSUME RingTypes, ClearRing \/ ClearRingFails
    PROVE  RingTypes' /\ InPlace' /\ Lag(0)'
<1>1. written' = 0 /\ intended' = <<>> /\ UNCHANGED <<slots, pushes>>
  BY DEF ClearRing, ClearRingFails
<1>2. cursor' \in Nat /\ behind' \in Nat /\ uncleared' \in BOOLEAN
  <2>1. CASE ClearRing
    BY <2>1 DEF ClearRing
  <2>2. CASE ClearRingFails
    BY <2>2 DEF ClearRingFails, RingTypes
  <2>3. QED
    BY <2>1, <2>2
<1>3. RingTypes' /\ InPlace'
  BY <1>1, <1>2 DEF RingTypes, InPlace
<1>4. uncleared' \/ (cursor' = 0 /\ behind' = 0)
  BY DEF ClearRing, ClearRingFails
<1>5. Lag(0)'
  BY <1>1, <1>4 DEF Lag
<1>6. QED
  BY <1>3, <1>5

LEMMA ReopenedInPlace ==
    ASSUME RingTypes, InPlace, NEW writing \in BOOLEAN, ReopenRing(writing),
           writing => Lag(0), Lag(0) \/ Lag(1)
    PROVE  RingTypes' /\ InPlace' /\ Lag(0)'
<1>1. /\ written' = cursor /\ uncleared' = FALSE /\ UNCHANGED <<cursor, pushes, behind>>
      /\ \/ slots' = slots
         \/ Lag(0) /\ slots' = [slots EXCEPT ![written % Capacity] = Torn]
      /\ intended' = IF uncleared THEN [i \in 1 .. cursor |-> slots'[(i - 1) % Capacity]]
                     ELSE SubSeq(intended, 1, Smaller(cursor, Len(intended)))
  BY DEF ReopenRing
<1>2. /\ slots' \in [Slot -> Nat]
      /\ \A i \in 0 .. written - 1 :
            slots'[i % Capacity] = intended[i + 1] \/ i + Capacity <= Reached
  BY <1>1, TornIsTheOldest DEF RingTypes, InPlace
<1>3. Lag(0)'
  BY <1>1 DEF Lag, RingTypes
<1>4. CASE uncleared
  <2>1. intended' = [i \in 1 .. cursor |-> slots'[(i - 1) % Capacity]]
    BY <1>1, <1>4
  <2>2. \A i \in 1 .. cursor : slots'[(i - 1) % Capacity] \in Nat
    BY <1>2, InASlot DEF RingTypes
  <2>3. intended' \in Seq(Nat) /\ Len(intended') = cursor
    BY <2>1, <2>2 DEF RingTypes
  <2>4. \A i \in 0 .. cursor - 1 : intended'[i + 1] = slots'[i % Capacity]
    BY <2>1 DEF RingTypes
  <2>5. RingTypes' /\ InPlace'
    BY <1>1, <1>2, <2>3, <2>4 DEF RingTypes, InPlace
  <2>6. QED
    BY <1>3, <2>5
<1>5. CASE ~uncleared
  <2>1. cursor <= written
    BY <1>5 DEF Lag
  <2>2. intended' = SubSeq(intended, 1, cursor)
    BY <1>1, <1>5, <2>1 DEF RingTypes, Smaller
  <2>3. \A i \in 1 .. cursor : intended[i] \in Nat
    BY <2>1 DEF RingTypes
  <2>4. /\ intended' \in Seq(Nat) /\ Len(intended') = cursor
        /\ \A i \in 1 .. cursor : intended'[i] = intended[i]
    BY <2>2, <2>3, SubSeqProperties DEF RingTypes
  <2>5. RingTypes'
    BY <1>1, <1>2, <2>4 DEF RingTypes
  <2>6. Reached' = Reached
    BY <1>1, <1>5 DEF Reached
  <2>7. ASSUME NEW i \in 0 .. cursor - 1
        PROVE  slots'[i % Capacity] = intended'[i + 1] \/ i + Capacity <= Reached'
    <3>1. i \in 0 .. written - 1 /\ i + 1 \in 1 .. cursor
      BY <2>1 DEF RingTypes
    <3>2. QED
      BY <1>2, <2>4, <2>6, <3>1
  <2>8. InPlace'
    BY <1>1, <2>7 DEF InPlace
  <2>9. QED
    BY <1>3, <2>5, <2>8
<1>6. QED
  BY <1>4, <1>5

\* What can be read of the ring after any deaths, failed writes and clearings is
\* what was pushed, but for the oldest (ring.rs, push, clear and open).
THEOREM OnlyTheOldestIsLost == ReflectionsSpec => []RingLosesOnlyTheOldest
<1>1. ReflectionsInit => RingInv
  <2>. SUFFICES ASSUME ReflectionsInit PROVE RingInv
    OBVIOUS
  <2>1. /\ slots = [k \in Slot |-> Torn] /\ cursor = 0 /\ written = 0 /\ pushes = 0
        /\ intended = <<>> /\ behind = 0 /\ uncleared = FALSE /\ doing = "idle"
    BY DEF ReflectionsInit, RingInit
  <2>2. slots \in [Slot -> Nat]
    BY <2>1 DEF Torn
  <2>3. RingTypes
    <3>1. intended \in Seq(Nat) /\ Len(intended) = written
      BY <2>1
    <3>2. uncleared \in BOOLEAN
      BY <2>1
    <3>3. cursor \in Nat /\ written \in Nat /\ pushes \in Nat /\ behind \in Nat
      BY <2>1
    <3>4. QED
      BY <2>2, <3>1, <3>2, <3>3, Zenon DEF RingTypes
  <2>4. InPlace
    BY <2>1 DEF InPlace
  <2>5. cursor <= written /\ written <= cursor + behind + 0
    BY <2>1
  <2>6. Lag(0)
    BY <2>5, Zenon DEF Lag
  <2>7. QED
    BY <2>1, <2>3, <2>4, <2>6 DEF RingInv
<1>2. RingInv /\ [ReflectionsNext]_reflectionsVars => RingInv'
  <2>. SUFFICES ASSUME RingInv, [ReflectionsNext]_reflectionsVars PROVE RingInv'
    OBVIOUS
  <2>1. CASE PushSample
    <3>1. doing = "sample" /\ RingTypes /\ InPlace /\ Lag(0)
      BY <2>1 DEF PushSample, RingInv
    <3>2. CASE WriteSample /\ doing' = "cursor"
      BY <3>1, <3>2, PushKeepsItsPlace DEF RingInv
    <3>3. CASE SampleFails /\ doing' = "idle"
      <4>1. /\ slots' = [slots EXCEPT ![written % Capacity] = Torn] \/ slots' = slots
            /\ UNCHANGED <<cursor, written, pushes, intended, behind, uncleared>>
        BY <3>3 DEF SampleFails
      <4>2. /\ slots' \in [Slot -> Nat]
            /\ \A i \in 0 .. written - 1 :
                    slots'[i % Capacity] = intended[i + 1] \/ i + Capacity <= Reached
        BY <3>1, <4>1, TornIsTheOldest
      <4>3. RingTypes' /\ InPlace' /\ Lag(0)'
        BY <3>1, <4>1, <4>2 DEF RingTypes, InPlace, Lag, Reached
      <4>4. QED
        BY <3>3, <4>3 DEF RingInv
    <3>4. QED
      BY <2>1, <3>2, <3>3 DEF PushSample
  <2>2. CASE PushCursor
    BY <2>2, CursorFollows DEF PushCursor, RingInv
  <2>3. CASE ForgetMemory
    BY <2>3, ClearingStartsAgain DEF ForgetMemory, RingInv
  <2>4. CASE Restart
    <3>1. ReopenRing(doing = "sample") /\ doing' = "idle"
      BY <2>4 DEF Restart
    <3>2. /\ RingTypes /\ InPlace /\ (doing = "sample" => Lag(0)) /\ (Lag(0) \/ Lag(1))
          /\ (doing = "sample") \in BOOLEAN
      BY DEF RingInv
    <3>3. RingTypes' /\ InPlace' /\ Lag(0)'
      BY <3>1, <3>2, ReopenedInPlace
    <3>4. QED
      BY <3>1, <3>3 DEF RingInv
  <2>5. CASE UNCHANGED ringVars /\ doing # "cursor" /\ doing' # "cursor"
    BY <2>5 DEF ringVars, RingInv, RingTypes, InPlace, Lag, Reached
  <2>6. CASE UNCHANGED <<ringVars, doing>>
    BY <2>6 DEF ringVars, RingInv, RingTypes, InPlace, Lag, Reached
  <2>7. CASE RecordReflection \/ Persist \/ SaveLatent \/ SaveNormalizer \/ SaveRest
    BY <2>5, <2>7 DEF RecordReflection, Persist, SaveLatent, SaveNormalizer, SaveRest
  <2>8. CASE ForgetEverything \/ ClearSettings \/ ClearEvents \/ WriteFails
    BY <2>5, <2>8 DEF ForgetEverything, ClearSettings, ClearEvents, WriteFails
  <2>9. CASE UNCHANGED reflectionsVars
    BY <2>6, <2>9 DEF reflectionsVars
  <2>10. QED
    BY <2>1, <2>2, <2>3, <2>4, <2>7, <2>8, <2>9 DEF ReflectionsNext
<1>3. RingInv => RingLosesOnlyTheOldest
  <2>. SUFFICES ASSUME RingInv, ~uncleared, NEW i \in Readable
       PROVE  ReadAt(i) = intended[i + 1] \/ i + Capacity <= written + behind
    BY DEF RingLosesOnlyTheOldest
  <2>1. i \in 0 .. written - 1
    BY CapacityAssumption DEF RingInv, RingTypes, Readable, RingLen, Smaller
  <2>2. Reached <= written + behind /\ Reached \in Nat
    BY DEF RingInv, RingTypes, Lag, Reached
  <2>3. slots[i % Capacity] = intended[i + 1] \/ i + Capacity <= Reached
    BY <2>1 DEF RingInv, InPlace
  <2>4. QED
    BY <2>1, <2>2, <2>3, CapacityAssumption DEF ReadAt, RingInv, RingTypes
<1>4. QED
  BY <1>1, <1>2, <1>3, PTL DEF ReflectionsSpec

-----------------------------------------------------------------------------
(* The catalogue of states counts every reflection.                        *)

\* A catalogue has the fields named here.
Has(c) ==
    {"ids", "nextId", "entries", "occupancy", "moves", "current", "observations", "suppressed"}
        \subseteq DOMAIN c

\* How often a state was entered from another.
Column(c, i) == SumFunction([j \in Positions(c) |-> c.moves[j][i]])

\* A catalogue that fits together, with `due' of its reflections not counted
\* for a state yet.  The machine is in one of the states, unless none is known:
\* without this, a transition out of nowhere would not be counted as one.
Tidy(c, due) ==
    /\ Has(c)
    /\ c.ids \in Seq(Nat) /\ c.nextId \in Nat /\ Len(c.ids) <= MaxStates
    /\ \A i, j \in Positions(c) : c.ids[i] = c.ids[j] => i = j
    /\ \A i \in Positions(c) : c.ids[i] < c.nextId
    /\ c.entries \in Seq(Nat) /\ Len(c.entries) = Len(c.ids)
    /\ c.occupancy \in Seq(Nat) /\ Len(c.occupancy) = Len(c.ids)
    /\ c.moves \in [Positions(c) -> [Positions(c) -> Nat]]
    /\ c.observations \in Nat /\ SumFunction(c.occupancy) + due = c.observations
    /\ \A i \in Positions(c) : c.moves[i][i] = 0
    /\ c.current = {} \/ \E i \in Positions(c) : c.current = {c.ids[i]}
    /\ c.current = {} => Len(c.ids) <= due
    /\ \A i \in Positions(c) :
          c.entries[i] = Column(c, i) + (IF i = 1 /\ c.current # {} THEN 1 ELSE 0)

LEMMA TidyIsCoherent ==
    ASSUME NEW c, Tidy(c, 0)
    PROVE  Coherent(c) /\ EveryReflectionCounted(c)
<1>1. c.current \subseteq Ids(c) /\ Cardinality(c.current) <= 1
  <2>1. CASE c.current = {}
    <3>1. Cardinality(c.current) = 0
      BY <2>1, FS_EmptySet
    <3>2. QED
      BY <2>1, <3>1
  <2>2. ASSUME NEW i \in Positions(c), c.current = {c.ids[i]}
        PROVE  c.current \subseteq Ids(c) /\ Cardinality(c.current) <= 1
    <3>1. Cardinality(c.current) = 1
      BY <2>2, FS_Singleton
    <3>2. QED
      BY <2>2, <3>1 DEF Ids
  <2>3. QED
    BY <2>1, <2>2 DEF Tidy
<1>2. Coherent(c)
  <2>1. \A id \in Ids(c) : id < c.nextId
    BY DEF Tidy, Ids
  <2>2. DOMAIN c.moves = Positions(c) /\ \A i \in Positions(c) : DOMAIN c.moves[i] = Positions(c)
    BY DEF Tidy
  <2>3. \A i, j \in Positions(c) : c.ids[i] = c.ids[j] => i = j
    BY DEF Tidy
  <2>4. Len(c.ids) <= MaxStates
    BY DEF Tidy
  <2>5. QED
    BY <1>1, <2>1, <2>2, <2>3, <2>4 DEF Coherent
<1>3. SumFunction(c.occupancy) = c.observations
  <2>1. SumFunction(c.occupancy) \in Nat
    BY SumOfAppended DEF Tidy
  <2>2. QED
    BY <2>1 DEF Tidy
<1>4. ASSUME NEW i \in Positions(c)
      PROVE  c.entries[i] = Column(c, i) + (IF i = 1 THEN 1 ELSE 0)
  <2>1. c.current # {}
    BY DEF Tidy, Positions
  <2>2. QED
    BY <2>1 DEF Tidy
<1>5. QED
  BY <1>2, <1>3, <1>4 DEF EveryReflectionCounted, Tidy, Column

LEMMA NewIsTidy == Tidy(NewCatalogue, 0)
<1>1. /\ NewCatalogue.ids = <<>> /\ NewCatalogue.entries = <<>> /\ NewCatalogue.occupancy = <<>>
      /\ NewCatalogue.moves = <<>> /\ NewCatalogue.nextId = 0 /\ NewCatalogue.current = {}
      /\ NewCatalogue.observations = 0 /\ Has(NewCatalogue)
  BY DEF NewCatalogue, Has
<1>2. SumFunction(<<>>) = 0
  BY SumOfEmpty DEF SumFunction
<1>3. Positions(NewCatalogue) = {}
  BY <1>1 DEF Positions
<1>4. <<>> \in [{} -> [{} -> Nat]]
  OBVIOUS
<1>5. 0 <= MaxStates
  BY ReflectionsAssumption
<1>. HIDE DEF NewCatalogue
<1>6. QED
  BY <1>1, <1>2, <1>3, <1>4, <1>5 DEF Tidy

LEMMA ColumnIsANumber ==
    ASSUME NEW c, NEW due, Tidy(c, due), NEW i \in Positions(c)
    PROVE  /\ IsFiniteSet(Positions(c))
           /\ \A j \in Positions(c) : c.moves[j][i] \in Nat
           /\ Column(c, i) =
                SumFunctionOnSet([j \in Positions(c) |-> c.moves[j][i]], Positions(c))
           /\ Column(c, i) \in Nat
<1>. DEFINE P == Positions(c)
            f == [j \in P |-> c.moves[j][i]]
<1>1. IsFiniteSet(P)
  <2>1. P = 1 .. Len(c.ids) /\ Len(c.ids) \in Nat
    BY DEF Positions, Tidy
  <2>2. QED
    BY <2>1, FS_Interval
<1>2. \A j \in P : c.moves[j][i] \in Nat
  BY DEF Tidy
<1>3. DOMAIN f = P /\ \A j \in P : f[j] \in Nat
  BY <1>2
<1>4. Column(c, i) = SumFunctionOnSet(f, P)
  BY <1>3 DEF Column, SumFunction
<1>5. SumFunctionOnSet(f, P) \in Nat
  <2>. HIDE DEF f, P
  <2>1. QED
    BY <1>1, <1>3, SumIsANumber
<1>6. QED
  BY <1>1, <1>2, <1>4, <1>5

\* A catalogue with the same states and counts is as tidy.
LEMMA SameIsTidy ==
    ASSUME NEW c, NEW due \in Nat, Tidy(c, due), NEW d, Has(d),
           d.ids = c.ids, d.nextId = c.nextId, d.entries = c.entries,
           d.occupancy = c.occupancy, d.moves = c.moves, d.current = c.current,
           NEW more \in Nat, d.observations = c.observations + more
    PROVE  Tidy(d, due + more)
<1>1. Positions(d) = Positions(c)
  BY DEF Positions
<1>2. \A i : Column(d, i) = Column(c, i)
  BY <1>1 DEF Column
<1>3. SumFunction(d.occupancy) \in Nat
  BY SumOfAppended DEF Tidy
<1>4. /\ d.moves \in [Positions(d) -> [Positions(d) -> Nat]]
      /\ \A i \in Positions(d) : d.moves[i][i] = 0
      /\ \A i, j \in Positions(d) : d.ids[i] = d.ids[j] => i = j
      /\ \A i \in Positions(d) : d.ids[i] < d.nextId
  BY <1>1 DEF Tidy
<1>5. /\ d.observations \in Nat /\ SumFunction(d.occupancy) + (due + more) = d.observations
  BY <1>3 DEF Tidy
<1>6. /\ d.current = {} \/ \E i \in Positions(d) : d.current = {d.ids[i]}
      /\ d.current = {} => Len(d.ids) <= due + more
  BY <1>1 DEF Tidy
<1>7. \A i \in Positions(d) :
          d.entries[i] = Column(d, i) + (IF i = 1 /\ d.current # {} THEN 1 ELSE 0)
  BY <1>1, <1>2 DEF Tidy
<1>8. /\ d.ids \in Seq(Nat) /\ d.nextId \in Nat /\ Len(d.ids) <= MaxStates
      /\ d.entries \in Seq(Nat) /\ Len(d.entries) = Len(d.ids)
      /\ d.occupancy \in Seq(Nat) /\ Len(d.occupancy) = Len(d.ids)
  BY DEF Tidy
<1>9. QED
  BY <1>4, <1>5, <1>6, <1>7, <1>8 DEF Tidy

LEMMA CountedIsDue ==
    ASSUME NEW c, Tidy(c, 0)
    PROVE  /\ Tidy(Counted(c), 1) /\ Counted(c).ids = c.ids /\ Counted(c).current = c.current
           /\ Tidy([Counted(c) EXCEPT !.suppressed = @ + 1], 1)
           /\ [Counted(c) EXCEPT !.suppressed = @ + 1].ids = c.ids
<1>. DEFINE d == Counted(c)
            e == [d EXCEPT !.suppressed = @ + 1]
<1>1. /\ Has(d) /\ d.ids = c.ids /\ d.nextId = c.nextId /\ d.entries = c.entries
      /\ d.occupancy = c.occupancy /\ d.moves = c.moves /\ d.current = c.current
      /\ d.observations = c.observations + 1
  BY DEF Counted, Has, Tidy
<1>. HIDE DEF d
<1>2. Tidy(d, 1)
  <2>1. Tidy(d, 0 + 1)
    BY <1>1, SameIsTidy
  <2>2. QED
    BY <2>1
<1>3. /\ Has(e) /\ e.ids = d.ids /\ e.nextId = d.nextId /\ e.entries = d.entries
      /\ e.occupancy = d.occupancy /\ e.moves = d.moves /\ e.current = d.current
      /\ e.observations = d.observations + 0
  BY <1>1, <1>2 DEF Has, Tidy
<1>. HIDE DEF e
<1>4. Tidy(e, 1)
  <2>1. Tidy(e, 1 + 0)
    BY <1>2, <1>3, SameIsTidy
  <2>2. QED
    BY <2>1
<1>5. QED
  BY <1>1, <1>2, <1>3, <1>4 DEF d, e

\* A state that is founded is one nothing was counted for.
LEMMA FoundedIsTidy ==
    ASSUME NEW c, Tidy(c, 1), c.current = {} => c.ids = <<>>, Len(c.ids) < MaxStates
    PROVE  /\ Tidy(Founded(c), 1)
           /\ Len(c.ids) + 1 \in Positions(Founded(c))
<1>. DEFINE d == Founded(c)
            n == Len(c.ids) + 1
            P == Positions(c)
            Q == Positions(d)
<1>1. n \in Nat /\ P = 1 .. n - 1 /\ P \subseteq 1 .. n
  BY DEF Tidy, Positions
<1>0. /\ c.ids \in Seq(Nat) /\ c.nextId \in Nat
      /\ c.entries \in Seq(Nat) /\ Len(c.entries) = Len(c.ids)
      /\ c.occupancy \in Seq(Nat) /\ Len(c.occupancy) = Len(c.ids)
      /\ \A i \in P : c.ids[i] \in Nat /\ c.ids[i] < c.nextId
  <2>1. c.ids \in Seq(Nat)
    BY DEF Tidy
  <2>2. \A i \in P : c.ids[i] \in Nat
    BY <2>1 DEF Positions
  <2>3. QED
    BY <2>2 DEF Tidy
<1>2. /\ Has(d) /\ d.ids = Append(c.ids, c.nextId) /\ d.nextId = c.nextId + 1
      /\ d.entries = Append(c.entries, 0) /\ d.occupancy = Append(c.occupancy, 0)
      /\ d.moves = Grown(c.moves, n) /\ d.current = c.current
      /\ d.observations = c.observations
  BY DEF Founded, Has, Tidy
<1>. HIDE DEF d
<1>3. /\ d.ids \in Seq(Nat) /\ Len(d.ids) = n /\ Q = 1 .. n
      /\ \A i \in P : d.ids[i] = c.ids[i]
      /\ d.ids[n] = c.nextId /\ d.nextId \in Nat
  <2>1. /\ d.ids \in Seq(Nat) /\ Len(d.ids) = n /\ d.ids[n] = c.nextId
        /\ \A i \in 1 .. Len(c.ids) : d.ids[i] = c.ids[i]
    BY <1>0, <1>2, AppendProperties
  <2>2. Q = 1 .. n /\ P = 1 .. Len(c.ids)
    BY <1>0, <2>1 DEF Positions
  <2>3. QED
    BY <1>0, <1>2, <2>1, <2>2
<1>4. /\ d.entries \in Seq(Nat) /\ Len(d.entries) = n
      /\ \A i \in P : d.entries[i] = c.entries[i]
      /\ d.entries[n] = 0
      /\ d.occupancy \in Seq(Nat) /\ Len(d.occupancy) = n
  <2>1. 0 \in Nat
    OBVIOUS
  <2>2. /\ d.entries \in Seq(Nat) /\ Len(d.entries) = n /\ d.entries[n] = 0
        /\ \A i \in 1 .. Len(c.ids) : d.entries[i] = c.entries[i]
    BY <1>0, <1>2, <2>1, AppendProperties
  <2>3. d.occupancy \in Seq(Nat) /\ Len(d.occupancy) = n
    BY <1>0, <1>2, <2>1, AppendProperties
  <2>4. P = 1 .. Len(c.ids)
    BY <1>0 DEF Positions
  <2>5. QED
    BY <2>2, <2>3, <2>4
<1>5. SumFunction(d.occupancy) = SumFunction(c.occupancy)
  <2>1. SumFunction(d.occupancy) = SumFunction(c.occupancy) + 0 /\ SumFunction(c.occupancy) \in Nat
    BY <1>2, SumOfAppended DEF Tidy
  <2>2. QED
    BY <2>1
<1>6. /\ d.moves \in [Q -> [Q -> Nat]]
      /\ \A i, j \in P : d.moves[i][j] = c.moves[i][j]
      /\ \A i \in Q : d.moves[i][n] = 0 /\ d.moves[n][i] = 0
  <2>1. \A i, j \in P : i < n /\ j < n /\ c.moves[i][j] \in Nat
    <3>1. \A i, j \in P : c.moves[i][j] \in Nat
      BY DEF Tidy
    <3>2. \A i \in P : i < n
      BY <1>1
    <3>3. QED
      BY <3>1, <3>2
  <2>2. \A i, j \in 1 .. n : d.moves[i][j] = IF i < n /\ j < n THEN c.moves[i][j] ELSE 0
    BY <1>2 DEF Grown
  <2>3. \A i, j \in 1 .. n : d.moves[i][j] \in Nat
    <3>. TAKE i, j \in 1 .. n
    <3>1. CASE i < n /\ j < n
      <4>1. i \in P /\ j \in P
        BY <1>1, <3>1
      <4>2. QED
        BY <2>1, <2>2, <3>1, <4>1
    <3>2. CASE ~(i < n /\ j < n)
      BY <2>2, <3>2
    <3>3. QED
      BY <3>1, <3>2
  <2>4. d.moves = [i \in 1 .. n |-> [j \in 1 .. n |-> d.moves[i][j]]]
    BY <1>2 DEF Grown
  <2>5. d.moves \in [1 .. n -> [1 .. n -> Nat]]
    <3>. DEFINE m == d.moves
    <3>. HIDE DEF m
    <3>1. m = [i \in 1 .. n |-> [j \in 1 .. n |-> m[i][j]]] /\ \A i, j \in 1 .. n : m[i][j] \in Nat
      BY <2>3, <2>4 DEF m
    <3>2. \A i \in 1 .. n : m[i] \in [1 .. n -> Nat]
      BY <3>1
    <3>3. DOMAIN m = 1 .. n /\ m = [i \in 1 .. n |-> m[i]]
      BY <3>1
    <3>4. m \in [1 .. n -> [1 .. n -> Nat]]
      BY <3>2, <3>3
    <3>5. QED
      BY <3>4 DEF m
  <2>6. \A i, j \in P : d.moves[i][j] = c.moves[i][j]
    BY <2>1, <2>2, <1>1
  <2>7. \A i \in 1 .. n : d.moves[i][n] = 0 /\ d.moves[n][i] = 0
    BY <2>2, <1>1
  <2>8. QED
    BY <2>5, <2>6, <2>7, <1>3
<1>7. \A i \in P : Column(d, i) = Column(c, i)
  <2>. TAKE i \in P
  <2>. DEFINE f == [j \in P |-> c.moves[j][i]]
              g == [j \in Q |-> d.moves[j][i]]
  <2>1. /\ Column(c, i) = SumFunctionOnSet(f, P) /\ Column(d, i) = SumFunctionOnSet(g, Q)
    <3>1. DOMAIN f = P /\ DOMAIN g = Q
      OBVIOUS
    <3>2. QED
      BY <3>1 DEF Column, SumFunction
  <2>2. IsFiniteSet(P) /\ IsFiniteSet(Q) /\ n \in Q /\ Q \ {n} = P
    <3>1. IsFiniteSet(1 .. n - 1) /\ IsFiniteSet(1 .. n)
      BY <1>1, FS_Interval
    <3>2. n \in 1 .. n /\ (1 .. n) \ {n} = 1 .. n - 1
      BY <1>0, <1>1
    <3>3. QED
      BY <3>1, <3>2, <1>1, <1>3
  <2>3. /\ \A j \in P : f[j] = g[j]
        /\ \A j \in Q : g[j] \in Nat
        /\ g[n] = 0
    <3>1. i \in Q /\ n \in Q /\ P \subseteq Q
      BY <2>2
    <3>2. \A j \in Q : g[j] = d.moves[j][i]
      OBVIOUS
    <3>3. \A j \in P : f[j] = c.moves[j][i]
      OBVIOUS
    <3>. HIDE DEF f, g, P, Q
    <3>4. QED
      BY <3>1, <3>2, <3>3, <1>6
  <2>. HIDE DEF f, g, P, Q
  <2>4. SumFunctionOnSet(g, Q) = g[n] + SumFunctionOnSet(g, P)
    BY <2>2, <2>3, SumSplits
  <2>5. SumFunctionOnSet(f, P) = SumFunctionOnSet(g, P)
    BY <2>2, <2>3, SumsAgree
  <2>6. SumFunctionOnSet(g, P) \in Nat
    <3>1. \A j \in P : g[j] \in Nat
      BY <2>2, <2>3
    <3>2. QED
      BY <2>2, <3>1, SumIsANumber
  <2>7. QED
    BY <2>1, <2>3, <2>4, <2>5, <2>6
<1>8. Column(d, n) = 0
  <2>. DEFINE g == [j \in Q |-> d.moves[j][n]]
  <2>1. Column(d, n) = SumFunctionOnSet(g, Q)
    <3>1. DOMAIN g = Q
      OBVIOUS
    <3>2. QED
      BY <3>1 DEF Column, SumFunction
  <2>2. IsFiniteSet(Q) /\ \A j \in Q : g[j] = 0
    BY <1>1, <1>3, <1>6, FS_Interval
  <2>. HIDE DEF g, Q
  <2>3. QED
    BY <2>1, <2>2, SumOfZeros
<1>9. \A i, j \in Q : d.ids[i] = d.ids[j] => i = j
  <2>1. \A i \in P : c.ids[i] < c.nextId /\ c.ids[i] \in Nat
    BY <1>0
  <2>2. \A i, j \in P : c.ids[i] = c.ids[j] => i = j
    BY DEF Tidy
  <2>3. Q = P \cup {n} /\ c.nextId \in Nat
    <3>1. 1 .. n = (1 .. n - 1) \cup {n}
      BY <1>0, <1>1
    <3>2. QED
      BY <3>1, <1>0, <1>1, <1>3
  <2>. HIDE DEF P, Q, n
  <2>4. QED
    BY <1>3, <2>1, <2>2, <2>3
<1>10. \A i \in Q : d.ids[i] < d.nextId
  <2>1. \A i \in P : d.ids[i] < d.nextId
    <3>1. \A i \in P : d.ids[i] = c.ids[i] /\ c.ids[i] \in Nat /\ c.ids[i] < c.nextId
      BY <1>0, <1>3
    <3>2. d.nextId = c.nextId + 1 /\ c.nextId \in Nat
      BY <1>0, <1>2
    <3>3. ASSUME NEW i \in P PROVE d.ids[i] < d.nextId
      <4>1. d.ids[i] = c.ids[i] /\ c.ids[i] \in Nat /\ c.ids[i] < c.nextId
        BY <3>1
      <4>2. QED
        BY <3>2, <4>1
    <3>4. QED
      BY <3>3
  <2>2. d.ids[n] < d.nextId
    BY <1>0, <1>2, <1>3
  <2>3. Q = P \cup {n}
    <3>1. 1 .. n = (1 .. n - 1) \cup {n}
      BY <1>0, <1>1
    <3>2. QED
      BY <3>1, <1>1, <1>3
  <2>4. QED
    BY <2>1, <2>2, <2>3
<1>11. \A i \in Q : d.moves[i][i] = 0
  <2>1. \A i \in P : c.moves[i][i] = 0
    BY DEF Tidy
  <2>2. QED
    BY <1>1, <1>3, <1>6, <2>1
<1>12. /\ d.current = {} \/ \E i \in Q : d.current = {d.ids[i]}
       /\ d.current = {} => n <= 1
  <2>1. ASSUME NEW i \in P, c.current = {c.ids[i]} PROVE i \in Q /\ d.current = {d.ids[i]}
    BY <1>1, <1>2, <1>3, <2>1
  <2>2. c.current = {} \/ \E i \in P : c.current = {c.ids[i]}
    BY DEF Tidy
  <2>3. d.current = {} => n <= 1
    BY <1>2
  <2>4. QED
    BY <1>2, <2>1, <2>2, <2>3
<1>13. \A i \in Q : d.entries[i] = Column(d, i) + (IF i = 1 /\ d.current # {} THEN 1 ELSE 0)
  <2>1. ASSUME NEW i \in P
        PROVE  d.entries[i] = Column(d, i) + (IF i = 1 /\ d.current # {} THEN 1 ELSE 0)
    BY <1>2, <1>4, <1>7 DEF Tidy
  <2>2. d.entries[n] = Column(d, n) + (IF n = 1 /\ d.current # {} THEN 1 ELSE 0)
    <3>1. ~(n = 1 /\ d.current # {})
      <4>1. c.current # {} => P # {}
        BY DEF Tidy
      <4>2. QED
        BY <1>1, <1>2, <4>1
    <3>2. QED
      BY <1>4, <1>8, <3>1
  <2>3. Q = P \cup {n}
    BY <1>1, <1>3
  <2>4. QED
    BY <2>1, <2>2, <2>3
<1>14. Tidy(d, 1)
  <2>1. d.observations \in Nat /\ SumFunction(d.occupancy) + 1 = d.observations
    BY <1>2, <1>5 DEF Tidy
  <2>2. n <= MaxStates
    BY <1>1, ReflectionsAssumption
  <2>. HIDE DEF n
  <2>3. QED
    BY <1>2, <1>3, <1>4, <1>6, <1>9, <1>10, <1>11, <1>12, <1>13, <2>1, <2>2 DEF Tidy
<1>15. n \in Q
  BY <1>1, <1>3
<1>16. QED
  BY <1>14, <1>15 DEF d

LEMMA OneMoreAtOnePlace ==
    \A S, f, g : \A i \in S :
        /\ IsFiniteSet(S) /\ DOMAIN f = S /\ DOMAIN g = S
        /\ \A j \in S : f[j] \in Nat
        /\ \A j \in S : g[j] = IF j = i THEN f[j] + 1 ELSE f[j]
        => SumFunction(g) = SumFunction(f) + 1
<1>. SUFFICES ASSUME NEW S, NEW f, NEW g, NEW i \in S,
                     IsFiniteSet(S), DOMAIN f = S, DOMAIN g = S, \A j \in S : f[j] \in Nat,
                     \A j \in S : g[j] = IF j = i THEN f[j] + 1 ELSE f[j]
              PROVE  SumFunction(g) = SumFunction(f) + 1
  OBVIOUS
<1>1. {i} \in SUBSET S /\ \A j \in S : g[j] = IF j \in {i} THEN f[j] + 1 ELSE f[j]
  OBVIOUS
<1>2. SumFunctionOnSet(g, S) = SumFunctionOnSet(f, S) + Cardinality({i})
  BY <1>1, SumOfOneMore
<1>3. Cardinality({i}) = 1
  BY FS_Singleton
<1>4. QED
  BY <1>2, <1>3 DEF SumFunction

LEMMA OneMoreInSequence ==
    ASSUME NEW s \in Seq(Nat), NEW i \in 1 .. Len(s)
    PROVE  LET t == [s EXCEPT ![i] = @ + 1]
           IN  /\ t \in Seq(Nat) /\ Len(t) = Len(s) /\ t[i] = s[i] + 1
               /\ \A j \in 1 .. Len(s) : j # i => t[j] = s[j]
               /\ SumFunction(t) = SumFunction(s) + 1
<1>. DEFINE S == 1 .. Len(s)
            t == [s EXCEPT ![i] = @ + 1]
<1>1. Len(s) \in Nat /\ DOMAIN s = S /\ IsFiniteSet(S)
  <2>1. Len(s) \in Nat
    OBVIOUS
  <2>2. QED
    BY <2>1, FS_Interval
<1>2. \A j \in S : s[j] \in Nat
  OBVIOUS
<1>3. t = [j \in S |-> IF j = i THEN s[j] + 1 ELSE s[j]]
  BY <1>1
<1>. HIDE DEF t
<1>4. t \in Seq(Nat) /\ Len(t) = Len(s)
  <2>1. \A j \in S : t[j] \in Nat
    BY <1>2, <1>3
  <2>2. t \in [1 .. Len(s) -> Nat]
    BY <1>3, <2>1
  <2>3. QED
    BY <1>1, <2>2
<1>5. DOMAIN t = S /\ \A j \in S : t[j] = IF j = i THEN s[j] + 1 ELSE s[j]
  BY <1>3
<1>6. SumFunction(t) = SumFunction(s) + 1
  <2>1. i \in S
    OBVIOUS
  <2>. HIDE DEF S
  <2>2. QED
    BY <2>1, <1>1, <1>2, <1>5, OneMoreAtOnePlace
<1>7. QED
  BY <1>4, <1>5, <1>6 DEF t

\* Of the columns of transitions, one more from j to i changes the column of i.
LEMMA OneMoreMove ==
    ASSUME NEW c, Tidy(c, 1), NEW d, d.ids = c.ids, NEW h \in Positions(c), NEW i \in Positions(c),
           \A j, k \in Positions(c) :
              d.moves[j][k] = IF j = h /\ k = i THEN c.moves[j][k] + 1 ELSE c.moves[j][k]
    PROVE  \A k \in Positions(c) : Column(d, k) = Column(c, k) + (IF k = i THEN 1 ELSE 0)
<1>. DEFINE P == Positions(c)
<1>1. Positions(d) = P
  BY DEF Positions
<1>2. c.moves \in [P -> [P -> Nat]]
  BY DEF Tidy
<1>. HIDE DEF P
<1>3. \A j, k \in P :
        d.moves[j][k] = IF j = h /\ k = i THEN c.moves[j][k] + 1 ELSE c.moves[j][k]
  BY DEF P
<1>5. ASSUME NEW k \in P
      PROVE  Column(d, k) = Column(c, k) + (IF k = i THEN 1 ELSE 0)
  <2>. DEFINE f == [j \in P |-> c.moves[j][k]]
              g == [j \in P |-> d.moves[j][k]]
              T == IF k = i THEN {h} ELSE {}
  <2>1. /\ IsFiniteSet(P) /\ Column(c, k) = SumFunctionOnSet(f, P) /\ Column(c, k) \in Nat
    BY ColumnIsANumber, <1>5 DEF P
  <2>2. Column(d, k) = SumFunctionOnSet(g, P)
    <3>1. DOMAIN g = P
      OBVIOUS
    <3>2. QED
      BY <1>1, <3>1 DEF Column, SumFunction
  <2>3. /\ \A j \in P : f[j] \in Nat
        /\ \A j \in P : g[j] = IF j \in T THEN f[j] + 1 ELSE f[j]
        /\ T \in SUBSET P
    BY <1>2, <1>3, <1>5 DEF P
  <2>4. Cardinality(T) = IF k = i THEN 1 ELSE 0
    BY FS_Singleton, FS_EmptySet
  <2>. HIDE DEF f, g, T
  <2>5. SumFunctionOnSet(g, P) = SumFunctionOnSet(f, P) + Cardinality(T)
    BY <2>1, <2>3, SumOfOneMore
  <2>6. QED
    BY <2>1, <2>2, <2>4, <2>5
<1>6. QED
  BY <1>5 DEF P

\* The reflection that was due is counted for the state it belongs to, and the
\* transition into it for the state it was entered from.
LEMMA VisitedIsTidy ==
    ASSUME NEW c, Tidy(c, 1), NEW i \in Positions(c)
    PROVE  Tidy(Visited(c, i), 0)
<1>. DEFINE P == Positions(c)
            id == c.ids[i]
            here == [c EXCEPT !.occupancy[i] = @ + 1]
            moved == IF \E j \in Positions(c) : c.current = {c.ids[j]}
                     THEN [c.moves EXCEPT ![Here(c)][i] = @ + 1] ELSE c.moves
            there == [here EXCEPT !.entries[i] = @ + 1, !.current = {id}, !.moves = moved]
<1>1. /\ Has(here) /\ here.ids = c.ids /\ here.nextId = c.nextId /\ here.entries = c.entries
      /\ here.occupancy = [c.occupancy EXCEPT ![i] = @ + 1] /\ here.moves = c.moves
      /\ here.current = c.current /\ here.observations = c.observations
  BY DEF Has, Tidy
<1>2. Visited(c, i) = IF c.current = {id} THEN here ELSE there
  BY DEF Visited
<1>3. /\ c.ids \in Seq(Nat) /\ P = 1 .. Len(c.ids) /\ c.nextId \in Nat
      /\ c.entries \in Seq(Nat) /\ Len(c.entries) = Len(c.ids)
      /\ c.occupancy \in Seq(Nat) /\ Len(c.occupancy) = Len(c.ids)
      /\ c.observations \in Nat /\ SumFunction(c.occupancy) + 1 = c.observations
      /\ Len(c.ids) <= MaxStates
      /\ c.moves \in [P -> [P -> Nat]] /\ \A j \in P : c.moves[j][j] = 0
      /\ \A j, k \in P : c.ids[j] = c.ids[k] => j = k
      /\ \A j \in P : c.ids[j] < c.nextId
  <2>1. c.ids \in Seq(Nat)
    BY DEF Tidy
  <2>2. P = 1 .. Len(c.ids)
    BY <2>1 DEF Positions
  <2>3. QED
    BY <2>1, <2>2 DEF Tidy
<1>. HIDE DEF here
<1>4. /\ here.occupancy \in Seq(Nat) /\ Len(here.occupancy) = Len(c.ids)
      /\ SumFunction(here.occupancy) = c.observations
  <2>1. i \in 1 .. Len(c.occupancy)
    BY <1>3
  <2>2. c.occupancy \in Seq(Nat)
    BY <1>3
  <2>3. LET t == [c.occupancy EXCEPT ![i] = @ + 1]
        IN  t \in Seq(Nat) /\ Len(t) = Len(c.occupancy) /\ SumFunction(t) = SumFunction(c.occupancy) + 1
    BY <2>1, <2>2, OneMoreInSequence
  <2>4. QED
    BY <1>1, <1>3, <2>3
\* Any catalogue like this one but for who entered and from where.
<1>5. ASSUME NEW d, Has(d), d.ids = c.ids, d.nextId = c.nextId, d.occupancy = here.occupancy,
             d.observations = c.observations, d.entries \in Seq(Nat),
             Len(d.entries) = Len(c.ids), d.moves \in [P -> [P -> Nat]],
             \A j \in P : d.moves[j][j] = 0, d.current = {id},
             \A j \in P : d.entries[j] = Column(d, j) + (IF j = 1 THEN 1 ELSE 0)
      PROVE  Tidy(d, 0)
  <2>1. Positions(d) = P
    BY <1>5 DEF Positions
  <2>2. d.current # {} /\ \E j \in P : d.current = {d.ids[j]}
    BY <1>5
  <2>3. /\ d.ids \in Seq(Nat) /\ d.nextId \in Nat /\ Len(d.ids) <= MaxStates
        /\ \A j, k \in P : d.ids[j] = d.ids[k] => j = k
        /\ \A j \in P : d.ids[j] < d.nextId
    BY <1>3, <1>5
  <2>4. /\ d.occupancy \in Seq(Nat) /\ Len(d.occupancy) = Len(d.ids)
        /\ d.observations \in Nat /\ SumFunction(d.occupancy) + 0 = d.observations
    BY <1>3, <1>4, <1>5
  <2>5. Has(d) /\ d.entries \in Seq(Nat) /\ Len(d.entries) = Len(d.ids)
    BY <1>5
  <2>6. /\ d.moves \in [P -> [P -> Nat]] /\ \A j \in P : d.moves[j][j] = 0
        /\ \A j \in P :
              d.entries[j] = Column(d, j) + (IF j = 1 /\ d.current # {} THEN 1 ELSE 0)
    BY <1>5, <2>2
  <2>. HIDE DEF P
  <2>7. QED
    BY <2>1, <2>2, <2>3, <2>4, <2>5, <2>6, Zenon DEF Tidy
<1>6. CASE c.current = {id}
  <2>1. \A j \in P : c.entries[j] = Column(c, j) + (IF j = 1 THEN 1 ELSE 0)
    <3>1. c.current # {}
      BY <1>6
    <3>2. QED
      BY <3>1 DEF Tidy
  <2>2. \A j \in P : Column(here, j) = Column(c, j)
    <3>1. Positions(here) = P
      BY <1>1 DEF Positions
    <3>2. QED
      BY <1>1, <3>1 DEF Column
  <2>3. Tidy(here, 0)
    BY <1>1, <1>3, <1>5, <1>6, <2>1, <2>2
  <2>4. QED
    BY <1>2, <1>6, <2>3
<1>7. CASE c.current # {id}
  <2>1. /\ Has(there) /\ there.ids = c.ids /\ there.nextId = c.nextId
        /\ there.entries = [c.entries EXCEPT ![i] = @ + 1]
        /\ there.occupancy = here.occupancy /\ there.observations = c.observations
        /\ there.current = {id} /\ there.moves = moved
    <3>. HIDE DEF moved
    <3>1. QED
      BY <1>1 DEF Has
  <2>. HIDE DEF there
  <2>2. /\ there.entries \in Seq(Nat) /\ Len(there.entries) = Len(c.ids)
        /\ \A j \in P : there.entries[j] = c.entries[j] + (IF j = i THEN 1 ELSE 0)
    <3>1. i \in 1 .. Len(c.entries)
      BY <1>3
    <3>2. there.entries = [c.entries EXCEPT ![i] = @ + 1] /\ c.entries \in Seq(Nat)
      BY <1>3, <2>1
    <3>3. /\ there.entries \in Seq(Nat) /\ Len(there.entries) = Len(c.entries)
          /\ there.entries[i] = c.entries[i] + 1
          /\ \A j \in 1 .. Len(c.entries) : j # i => there.entries[j] = c.entries[j]
      BY <3>1, <3>2, OneMoreInSequence
    <3>4. Len(c.entries) = Len(c.ids) /\ P = 1 .. Len(c.entries)
      BY <1>3
    <3>5. \A j \in 1 .. Len(c.entries) : c.entries[j] \in Nat
      BY <3>2
    <3>6. QED
      BY <3>3, <3>4, <3>5
  <2>3. \A j \in P : Column(c, j) \in Nat
    BY ColumnIsANumber
  <2>4. CASE \E j \in P : c.current = {c.ids[j]}
    <3>1. Here(c) \in P /\ c.current = {c.ids[Here(c)]}
      BY <2>4 DEF Here
    <3>2. Here(c) # i
      BY <1>7, <3>1
    <3>3. there.moves = [c.moves EXCEPT ![Here(c)][i] = @ + 1]
      BY <1>1, <2>1, <2>4
    <3>4. /\ there.moves \in [P -> [P -> Nat]]
          /\ \A j \in P : there.moves[j][j] = c.moves[j][j]
          /\ \A k \in P : Column(there, k) = Column(c, k) + (IF k = i THEN 1 ELSE 0)
      <4>1. there.ids = c.ids
        BY <2>1
      <4>. DEFINE h == Here(c)
      <4>. HIDE DEF h
      <4>2. h \in P /\ h # i /\ i \in P
        BY <3>1, <3>2 DEF h
      <4>3. there.moves = [c.moves EXCEPT ![h][i] = @ + 1] /\ c.moves \in [P -> [P -> Nat]]
        BY <1>3, <3>3 DEF h
      <4>. HIDE DEF P
      <4>4. /\ there.moves \in [P -> [P -> Nat]]
            /\ \A j, k \in P : there.moves[j][k] =
                   IF j = h /\ k = i THEN c.moves[j][k] + 1 ELSE c.moves[j][k]
        BY <4>2, <4>3
      <4>5. \A j \in P : there.moves[j][j] = c.moves[j][j]
        BY <4>2, <4>4
      <4>6. \A k \in P : Column(there, k) = Column(c, k) + (IF k = i THEN 1 ELSE 0)
        BY <4>1, <4>2, <4>4, OneMoreMove DEF P
      <4>7. QED
        BY <4>4, <4>5, <4>6
    <3>5. \A j \in P : c.entries[j] = Column(c, j) + (IF j = 1 THEN 1 ELSE 0)
      <4>1. c.current # {}
        BY <3>1
      <4>2. QED
        BY <4>1 DEF Tidy
    <3>6. \A j \in P : there.entries[j] = Column(there, j) + (IF j = 1 THEN 1 ELSE 0)
      BY <2>2, <2>3, <3>4, <3>5
    <3>7. Tidy(there, 0)
      BY <1>3, <1>5, <2>1, <2>2, <3>4, <3>6
    <3>8. QED
      BY <1>2, <1>7, <3>7
  <2>5. CASE ~(\E j \in P : c.current = {c.ids[j]})
    <3>1. c.current = {} /\ Len(c.ids) <= 1
      BY <2>5 DEF Tidy
    <3>2. i = 1 /\ \A j \in P : j = 1
      BY <1>3, <3>1
    <3>3. there.moves = c.moves
      BY <1>1, <2>1, <2>5
    <3>4. \A j \in P : Column(there, j) = Column(c, j)
      <4>1. Positions(there) = P
        BY <2>1 DEF Positions
      <4>2. QED
        BY <3>3, <4>1 DEF Column
    <3>5. \A j \in P : c.entries[j] = Column(c, j)
      <4>1. \A j \in P : c.entries[j] = Column(c, j) + 0
        BY <3>1 DEF Tidy
      <4>2. QED
        BY <2>3, <4>1
    <3>6. \A j \in P : there.entries[j] = Column(there, j) + (IF j = 1 THEN 1 ELSE 0)
      BY <2>2, <3>2, <3>4, <3>5
    <3>7. Tidy(there, 0)
      BY <1>3, <1>5, <2>1, <2>2, <3>3, <3>6
    <3>8. QED
      BY <1>2, <1>7, <3>7
  <2>6. QED
    BY <2>4, <2>5
<1>8. QED
  BY <1>6, <1>7

LEMMA ObservedIsTidy ==
    ASSUME NEW c, Tidy(c, 0), NEW nearest, NEW close \in BOOLEAN,
           nearest \in Positions(c) \/ (c.ids = <<>> /\ ~close)
    PROVE  Tidy(Observed(c, nearest, close), 0)
<1>1. Tidy(Counted(c), 1) /\ Positions(Counted(c)) = Positions(c)
  BY CountedIsDue DEF Positions
<1>2. CASE close
  <2>1. nearest \in Positions(Counted(c))
    BY <1>1, <1>2
  <2>2. QED
    BY <1>1, <1>2, <2>1, VisitedIsTidy DEF Observed
<1>3. CASE ~close /\ Len(c.ids) < MaxStates
  <2>1. Counted(c).ids = c.ids /\ Counted(c).current = c.current
    BY CountedIsDue
  <2>2. c.current = {} => c.ids = <<>>
    BY DEF Tidy
  <2>3. /\ Tidy(Founded(Counted(c)), 1)
        /\ Len(c.ids) + 1 \in Positions(Founded(Counted(c)))
    BY <1>1, <1>3, <2>1, <2>2, FoundedIsTidy
  <2>4. QED
    BY <1>3, <2>3, VisitedIsTidy DEF Observed
<1>4. CASE ~close /\ ~(Len(c.ids) < MaxStates)
  <2>. DEFINE d == [Counted(c) EXCEPT !.suppressed = @ + 1]
  <2>1. Tidy(d, 1) /\ Positions(d) = Positions(c)
    BY CountedIsDue DEF Positions
  <2>2. Len(c.ids) # 0
    BY <1>4, ReflectionsAssumption DEF Tidy
  <2>3. nearest \in Positions(d)
    BY <2>1, <2>2
  <2>. HIDE DEF d
  <2>4. Tidy(Visited(d, nearest), 0)
    BY <2>1, <2>3, VisitedIsTidy
  <2>5. QED
    BY <1>4, <2>4 DEF Observed, d
<1>5. QED
  BY <1>2, <1>3, <1>4

\* What is counted in memory and in the store, what the live view shows, and
\* the numbers of the events kept.
CountInv ==
    /\ stored = [latent |-> stored.latent, normalizer |-> stored.normalizer]
    /\ Tidy(catalogue, 0) /\ Tidy(stored.latent, 0)
    /\ \E S : trail \in Seq(S)
    /\ Len(trail) <= TrailLength
    /\ eventLog \in [first : Nat, last : Nat, next : Nat]
    /\ eventLog.last + 1 - eventLog.first \in 0 .. EventCeiling

LEMMA TrailIsCut ==
    ASSUME NEW state, \E S : trail \in Seq(S), Len(trail) <= TrailLength, Kept(state)
    PROVE  (\E S : trail' \in Seq(S)) /\ Len(trail') <= TrailLength
<1>1. PICK S : trail \in Seq(S)
  OBVIOUS
<1>. DEFINE T == S \cup {state}
            longer == Append(trail, state)
<1>2. trail \in Seq(T) /\ state \in T
  <2>1. \A i \in 1 .. Len(trail) : trail[i] \in T
    BY <1>1
  <2>2. trail = [i \in 1 .. Len(trail) |-> trail[i]] /\ Len(trail) \in Nat
    BY <1>1
  <2>3. trail \in Seq(T)
    BY <2>1, <2>2
  <2>4. QED
    BY <2>3
<1>. HIDE DEF T
<1>3. longer \in Seq(T) /\ Len(longer) = Len(trail) + 1 /\ Len(trail) \in Nat
  BY <1>2, AppendProperties
<1>4. trail' = IF Len(longer) > TrailLength THEN Tail(longer) ELSE longer
  BY DEF Kept
<1>. HIDE DEF longer
<1>5. CASE Len(longer) > TrailLength
  <2>1. longer # <<>>
    BY <1>3
  <2>2. Tail(longer) \in Seq(T) /\ Len(Tail(longer)) = Len(longer) - 1
    BY <1>3, <2>1, HeadTailProperties
  <2>3. QED
    BY <1>3, <1>4, <1>5, <2>2
<1>6. CASE ~(Len(longer) > TrailLength)
  BY <1>3, <1>4, <1>6, ReflectionsAssumption
<1>7. QED
  BY <1>5, <1>6

LEMMA EventsAreCut ==
    ASSUME NEW l \in [first : Nat, last : Nat, next : Nat],
           l.last + 1 - l.first \in 0 .. EventCeiling
    PROVE  /\ Appended(l) \in [first : Nat, last : Nat, next : Nat]
           /\ Appended(l).last + 1 - Appended(l).first \in 0 .. EventCeiling
<1>. DEFINE sequence == IF IsEmptyLog(l) THEN l.next ELSE l.last + 1
            start == IF IsEmptyLog(l) THEN sequence ELSE l.first
            cut == IF sequence - start + 1 > EventCeiling
                   THEN sequence - EventCeiling + 1 ELSE start
<1>1. Appended(l) = [l EXCEPT !.last = sequence, !.first = cut]
  BY DEF Appended
<1>2. sequence \in Nat /\ start \in Nat /\ start <= sequence
  BY DEF IsEmptyLog
<1>. HIDE DEF sequence, start
<1>3. cut \in Nat /\ sequence + 1 - cut \in 0 .. EventCeiling
  BY <1>2, ReflectionsAssumption
<1>. HIDE DEF cut
<1>4. QED
  BY <1>1, <1>2, <1>3

LEMMA NotingKeepsCount ==
    ASSUME CountInv, Note \/ UNCHANGED eventLog
    PROVE  /\ eventLog' \in [first : Nat, last : Nat, next : Nat]
           /\ eventLog'.last + 1 - eventLog'.first \in 0 .. EventCeiling
  BY EventsAreCut DEF Note, CountInv

LEMMA RecordingCounts ==
    ASSUME CountInv, RecordReflection
    PROVE  CountInv'
<1>1. stored' = stored
  BY DEF RecordReflection
<1>2. \E state : Kept(state)
  BY DEF RecordReflection, MakesNoRow, GathersBaseline, Recognises
<1>3. (\E S : trail' \in Seq(S)) /\ Len(trail') <= TrailLength
  BY <1>2, TrailIsCut DEF CountInv
<1>4. Note \/ UNCHANGED eventLog
  BY DEF RecordReflection, MakesNoRow, GathersBaseline, Recognises
<1>5. Tidy(catalogue', 0)
  <2>1. CASE MakesNoRow \/ GathersBaseline
    BY <2>1 DEF MakesNoRow, GathersBaseline, CountInv
  <2>2. ASSUME NEW nearest, NEW close \in BOOLEAN, Recognises(nearest, close)
        PROVE  Tidy(catalogue', 0)
    BY <2>2, ObservedIsTidy DEF Recognises, CountInv
  <2>3. QED
    BY <2>1, <2>2 DEF RecordReflection
<1>6. QED
  BY <1>1, <1>3, <1>4, <1>5, NotingKeepsCount DEF CountInv

\* Through any number of reflections, saves, forgettings and deaths of the
\* service: in memory and in the store the catalogue fits together, every
\* reflection is counted for one state and every entry of a state for one
\* transition, and what is kept besides keeps to its ceilings (latent.rs,
\* observe; engine.rs, record_reflection; store.rs, append).
THEOREM EveryReflectionIsCounted == ReflectionsSpec => []ReflectionsCounted
<1>1. ReflectionsInit => CountInv
  <2>. SUFFICES ASSUME ReflectionsInit PROVE CountInv
    OBVIOUS
  <2>1. /\ catalogue = NewCatalogue /\ stored = Fresh /\ trail = <<>>
        /\ eventLog = [first |-> 1, last |-> 0, next |-> 1]
    BY DEF ReflectionsInit
  <2>2. stored = [latent |-> stored.latent, normalizer |-> stored.normalizer]
        /\ stored.latent = NewCatalogue
    BY <2>1 DEF Fresh
  <2>3. (\E S : trail \in Seq(S)) /\ Len(trail) <= TrailLength
    BY <2>1, ReflectionsAssumption
  <2>4. /\ eventLog \in [first : Nat, last : Nat, next : Nat]
        /\ eventLog.last + 1 - eventLog.first \in 0 .. EventCeiling
    BY <2>1, ReflectionsAssumption
  <2>5. QED
    BY <2>1, <2>2, <2>3, <2>4, NewIsTidy DEF CountInv
<1>2. CountInv /\ [ReflectionsNext]_reflectionsVars => CountInv'
  <2>. SUFFICES ASSUME CountInv, [ReflectionsNext]_reflectionsVars PROVE CountInv'
    OBVIOUS
  <2>1. CASE RecordReflection
    BY <2>1, RecordingCounts
  <2>2. ASSUME UNCHANGED <<catalogue, trail, stored, eventLog>> PROVE CountInv'
    BY <2>2 DEF CountInv
  <2>3. CASE PushSample \/ PushCursor \/ Persist \/ ForgetEverything \/ WriteFails
    BY <2>2, <2>3
    DEF PushSample, PushCursor, Persist, ForgetEverything, WriteFails, learnedVars
  <2>4. CASE SaveLatent
    <3>1. /\ stored' = [latent |-> catalogue, normalizer |-> stored.normalizer]
          /\ UNCHANGED <<catalogue, trail, eventLog>>
      BY <2>4 DEF SaveLatent, learnedVars, CountInv
    <3>2. QED
      BY <3>1 DEF CountInv
  <2>5. CASE SaveNormalizer
    <3>1. /\ stored' = stored \/ stored' = [latent |-> stored.latent, normalizer |-> normalizer]
          /\ UNCHANGED <<catalogue, trail, eventLog>>
      BY <2>5 DEF SaveNormalizer, learnedVars, CountInv
    <3>2. QED
      BY <3>1 DEF CountInv
  <2>6. CASE SaveRest
    BY <2>2, <2>6 DEF SaveRest
  <2>7. CASE ClearSettings
    <3>1. stored' = Fresh /\ UNCHANGED <<catalogue, trail, eventLog>>
      BY <2>7 DEF ClearSettings, learnedVars
    <3>2. Fresh = [latent |-> Fresh.latent, normalizer |-> Fresh.normalizer]
          /\ Fresh.latent = NewCatalogue
      BY DEF Fresh
    <3>3. QED
      BY <3>1, <3>2, NewIsTidy DEF CountInv
  <2>8. CASE ForgetMemory
    <3>1. catalogue' = NewCatalogue /\ UNCHANGED <<trail, stored, eventLog>>
      BY <2>8 DEF ForgetMemory
    <3>2. QED
      BY <3>1, NewIsTidy DEF CountInv
  <2>9. CASE ClearEvents
    <3>1. /\ eventLog' = [eventLog EXCEPT !.first = eventLog.last + 1]
          /\ UNCHANGED <<catalogue, trail, stored>>
      BY <2>9 DEF ClearEvents
    <3>2. /\ eventLog' \in [first : Nat, last : Nat, next : Nat]
          /\ eventLog'.last + 1 - eventLog'.first \in 0 .. EventCeiling
      <4>1. eventLog \in [first : Nat, last : Nat, next : Nat]
        BY DEF CountInv
      <4>2. /\ eventLog' \in [first : Nat, last : Nat, next : Nat]
            /\ eventLog'.last = eventLog.last /\ eventLog'.first = eventLog.last + 1
            /\ eventLog.last \in Nat
        BY <3>1, <4>1
      <4>3. QED
        BY <4>2, ReflectionsAssumption
    <3>3. QED
      BY <3>1, <3>2 DEF CountInv
  <2>10. CASE Restart
    <3>1. /\ catalogue' = stored.latent /\ trail' = <<>> /\ stored' = stored
          /\ eventLog' = [eventLog EXCEPT !.next =
                            IF IsEmptyLog(eventLog) THEN 1 ELSE eventLog.last + 1]
      BY <2>10 DEF Restart
    <3>2. /\ eventLog' \in [first : Nat, last : Nat, next : Nat]
          /\ eventLog'.last = eventLog.last /\ eventLog'.first = eventLog.first
      BY <3>1 DEF CountInv
    <3>3. (\E S : trail' \in Seq(S)) /\ Len(trail') <= TrailLength
      BY <3>1, ReflectionsAssumption
    <3>4. QED
      BY <3>1, <3>2, <3>3 DEF CountInv
  <2>11. CASE UNCHANGED reflectionsVars
    BY <2>2, <2>11 DEF reflectionsVars, learnedVars
  <2>12. QED
    BY <2>1, <2>3, <2>4, <2>5, <2>6, <2>7, <2>8, <2>9, <2>10, <2>11 DEF ReflectionsNext
<1>3. CountInv => ReflectionsCounted
  BY TidyIsCoherent DEF CountInv, ReflectionsCounted
<1>4. QED
  BY <1>1, <1>2, <1>3, PTL DEF ReflectionsSpec
=============================================================================
