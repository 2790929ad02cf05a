-------------------------- MODULE ObservationProofs --------------------------
(***************************************************************************)
(* What the engine remembers of agents, for any sessions, agents,          *)
(* operations, ceilings and windows: that what is not dirty is saved, that *)
(* no session has more retries than failures, and that the counts of a     *)
(* pair are part of those of its operation.                                *)
(***************************************************************************)
EXTENDS Observation, SumTheorems, FiniteSetTheorems, TLAPS

-----------------------------------------------------------------------------
(* Clean is stored.                                                        *)

\* The agents that are stored are among those in memory, for only a forgetting
\* takes them from memory, and it has cleared the documents first.
IsMap(f) == f = [k \in DOMAIN f |-> f[k]]

SavedInv ==
    /\ dirty \in BOOLEAN
    /\ IsMap(agents) /\ IsMap(stored.agents)
    /\ stored = [evidence |-> stored.evidence, agents |-> stored.agents]
    /\ DOMAIN stored.agents \subseteq DOMAIN agents
    /\ doing \in {"clear settings", "forget everything"} => DOMAIN stored.agents = {}
    /\ doing \in {"experience", "agents"} => dirty
    /\ doing = "agents" => stored.evidence = evidence
    /\ CleanIsStored

LEMMA NoMap == IsMap(<<>>) /\ DOMAIN <<>> = {}
  BY DEF IsMap

\* A request that changes what is to be saved says so.
LEMMA HandlersAreDirty ==
    ASSUME SavedInv, dirty', doing' \in {"idle", "experience"}, UNCHANGED stored,
           IsMap(agents'), DOMAIN agents \subseteq DOMAIN agents'
    PROVE  SavedInv'
  BY DEF SavedInv, CleanIsStored

LEMMA SavingSaves ==
    ASSUME SavedInv, SaveExperience \/ SaveAgents
    PROVE  SavedInv'
<1>1. CASE SaveExperience
  <2>1. /\ doing = "experience" /\ doing' = "agents" /\ dirty' = dirty
        /\ stored' = [evidence |-> evidence, agents |-> stored.agents]
        /\ agents' = agents /\ evidence' = evidence
    BY <1>1 DEF SaveExperience, SavedInv
  <2>2. QED
    BY <2>1 DEF SavedInv, CleanIsStored
<1>2. CASE SaveAgents
  <2>. DEFINE merged == [a \in DOMAIN stored.agents \cup DOMAIN agents |->
                            Entry(agents, a, Entry(stored.agents, a, NewAgent))]
  <2>1. /\ doing = "agents" /\ doing' = "idle" /\ dirty' = FALSE
        /\ stored' = [evidence |-> stored.evidence, agents |-> merged]
        /\ agents' = agents /\ evidence' = evidence
    BY <1>2 DEF SaveAgents, SavedInv
  <2>2. DOMAIN stored.agents \cup DOMAIN agents = DOMAIN agents
    BY DEF SavedInv
  <2>3. merged = [a \in DOMAIN agents |-> agents[a]]
    BY <2>2 DEF Entry
  <2>4. merged = agents
    BY <2>3 DEF SavedInv, IsMap
  <2>. HIDE DEF merged
  <2>5. stored'.evidence = evidence' /\ stored'.agents = agents'
    BY <2>1, <2>4 DEF SavedInv
  <2>6. QED
    BY <2>1, <2>5 DEF SavedInv, CleanIsStored
<1>3. QED
  BY <1>1, <1>2

LEMMA ForgettingForgets ==
    ASSUME SavedInv, (\E everything \in BOOLEAN : Forget(everything)) \/ ClearSettings
    PROVE  SavedInv'
<1>1. ASSUME NEW everything \in BOOLEAN, Forget(everything) PROVE SavedInv'
  <2>1. /\ doing' \in {"clear settings", "forget activity"}
        /\ stored' = [evidence |-> stored.evidence, agents |-> <<>>]
        /\ agents' = agents /\ evidence' = evidence /\ dirty' = dirty
    BY <1>1 DEF Forget, SavedInv
  <2>2. IsMap(<<>>) /\ DOMAIN <<>> = {}
    BY NoMap
  <2>3. QED
    BY <2>1, <2>2 DEF SavedInv, CleanIsStored
<1>2. CASE ClearSettings
  <2>1. /\ doing = "clear settings" /\ doing' = "forget everything"
        /\ stored' = [evidence |-> Nothing, agents |-> stored.agents]
        /\ agents' = agents /\ evidence' = evidence /\ dirty' = dirty
    BY <1>2 DEF ClearSettings, SavedInv
  <2>2. QED
    BY <2>1 DEF SavedInv, CleanIsStored
<1>3. QED
  BY <1>1, <1>2

LEMMA MemoryIsForgotten ==
    ASSUME SavedInv, ForgetMemory
    PROVE  SavedInv'
<1>1. /\ dirty' = TRUE /\ doing' = "experience" /\ stored' = stored
      /\ agents' = IF doing = "forget everything" THEN <<>> ELSE agents
  BY DEF ForgetMemory
<1>2. IsMap(<<>>) /\ DOMAIN <<>> = {}
  BY NoMap
<1>3. CASE doing = "forget everything"
  BY <1>1, <1>2, <1>3 DEF SavedInv, CleanIsStored
<1>4. CASE doing # "forget everything"
  BY <1>1, <1>4 DEF SavedInv, CleanIsStored
<1>5. QED
  BY <1>3, <1>4

\* What is cut short leaves it dirty, or was a forgetting; what starts again
\* starts from what is stored.
LEMMA CrashIsHonest ==
    ASSUME SavedInv, WriteFails \/ Restart
    PROVE  SavedInv'
<1>1. CASE WriteFails
  <2>1. /\ doing' = "idle" /\ (intact' => doing \in {"experience", "agents"})
        /\ agents' = agents /\ evidence' = evidence /\ dirty' = dirty /\ stored' = stored
    BY <1>1 DEF WriteFails
  <2>2. QED
    BY <2>1 DEF SavedInv, CleanIsStored
<1>2. CASE Restart
  <2>1. /\ doing' = "idle" /\ dirty' = FALSE /\ stored' = stored
        /\ agents' = stored.agents /\ evidence' = stored.evidence
    BY <1>2 DEF Restart
  <2>2. QED
    BY <2>1 DEF SavedInv, CleanIsStored
<1>3. QED
  BY <1>1, <1>2

\* Whatever is written, cut short, forgotten and begun again: between requests,
\* an engine with nothing to save has saved all it has (engine.rs, persist,
\* forget, and every handler that sets `dirty').
THEOREM CleanMeansStored == Spec => []CleanIsStored
<1>1. Init => SavedInv
  <2>. SUFFICES ASSUME Init PROVE SavedInv
    OBVIOUS
  <2>1. /\ stored = [evidence |-> Nothing, agents |-> <<>>] /\ evidence = Nothing
        /\ agents = <<>> /\ dirty = FALSE /\ doing = "idle"
    BY DEF Init, NoStore
  <2>2. IsMap(agents) /\ IsMap(stored.agents) /\ DOMAIN stored.agents = {}
    BY <2>1, NoMap
  <2>3. QED
    BY <2>1, <2>2 DEF SavedInv, CleanIsStored
<1>2. SavedInv /\ [Next]_vars => SavedInv'
  <2>. SUFFICES ASSUME SavedInv, [Next]_vars PROVE SavedInv'
    OBVIOUS
  <2>1. CASE UNCHANGED <<agents, evidence, dirty, stored, doing, intact>>
    BY <2>1 DEF SavedInv, CleanIsStored
  <2>2. ASSUME NEW a \in Agent, Hello(a) PROVE SavedInv'
    <3>1. PICK agent : agents' = Put(agents, a, agent)
      BY <2>2 DEF Hello
    <3>2. IsMap(agents') /\ DOMAIN agents \subseteq DOMAIN agents'
      BY <3>1 DEF IsMap, Put
    <3>3. dirty' = TRUE /\ doing' = "experience" /\ stored' = stored
      BY <2>2 DEF Hello
    <3>4. QED
      BY <3>2, <3>3, HandlersAreDirty
  <2>3. ASSUME NEW s \in Session, Goodbye(s) PROVE SavedInv'
    BY <2>3 DEF Goodbye, SavedInv, CleanIsStored
  <2>4. ASSUME NEW s \in Session, NEW o \in Operation, NEW w \in Place, NEW started,
               NEW failed \in BOOLEAN, NEW blamed, AgentObserve(s, o, w, started, failed, blamed)
        PROVE  SavedInv'
    <3>1. dirty' = TRUE /\ doing' = "experience" /\ stored' = stored
      BY <2>4 DEF AgentObserve
    <3>2. PICK a : agents' = AgentsAfter(a)
      BY <2>4 DEF AgentObserve
    <3>3. IsMap(agents') /\ DOMAIN agents' = DOMAIN agents
      BY <3>2 DEF AgentsAfter, Put, IsMap, SavedInv
    <3>4. QED
      BY <3>1, <3>3, HandlersAreDirty
  <2>5. ASSUME EnvironmentFaults PROVE SavedInv'
    BY <2>5 DEF EnvironmentFaults, SavedInv, CleanIsStored
  <2>6. ASSUME PersistTimer PROVE SavedInv'
    BY <2>6 DEF PersistTimer, volatile, SavedInv, CleanIsStored
  <2>7. ASSUME Tick \/ MachineChanges \/ UNCHANGED vars PROVE SavedInv'
    BY <2>1, <2>7 DEF Tick, MachineChanges, vars
  <2>8. QED
    BY <2>2, <2>3, <2>4, <2>5, <2>6, <2>7, SavingSaves, ForgettingForgets,
       MemoryIsForgotten, CrashIsHonest DEF Next
<1>3. SavedInv => CleanIsStored
  BY DEF SavedInv
<1>4. QED
  BY <1>1, <1>2, <1>3, PTL DEF Spec

-----------------------------------------------------------------------------
(* Retries.                                                                *)

\* The failures of a session that a retry could still answer.
Pending(l, s) == {k \in DOMAIN l : k[1] = s /\ l[k].failed}

\* Each retry has answered one failure, and what is pending is unanswered.
Backed(l, s, session) ==
    /\ session = [agent |-> session.agent, actions |-> session.actions,
                  failures |-> session.failures, retries |-> session.retries]
    /\ session.failures \in Nat /\ session.retries \in Nat
    /\ session.retries + Cardinality(Pending(l, s)) <= session.failures

RetryInv ==
    /\ IsFiniteSet(DOMAIN last)
    /\ \A k \in DOMAIN last : k[1] \in DOMAIN sessions
    /\ \A s \in DOMAIN sessions : Backed(last, s, sessions[s])

LEMMA PendingIsFinite ==
    ASSUME NEW l, NEW s, IsFiniteSet(DOMAIN l)
    PROVE  IsFiniteSet(Pending(l, s)) /\ Cardinality(Pending(l, s)) \in Nat
<1>1. Pending(l, s) \in SUBSET DOMAIN l
  BY DEF Pending
<1>2. QED
  BY <1>1, FS_Subset, FS_CardinalityType

\* `to' is what is left of `from' when it was put to it how an operation ended.
Ends(to, from, key, failed) ==
    /\ DOMAIN to \subseteq DOMAIN from \cup {key}
    /\ \A k \in DOMAIN to : to[k].failed = IF k = key THEN failed ELSE from[k].failed

LEMMA LastEnds ==
    ASSUME NEW s, NEW o, NEW started, NEW failed
    PROVE  Ends(LastAfter(s, o, started, failed), last, <<s, o>>, failed)
<1>. DEFINE all == Put(last, <<s, o>>, [at |-> started, failed |-> failed])
            after == LastAfter(s, o, started, failed)
<1>1. /\ DOMAIN all = DOMAIN last \cup {<<s, o>>}
      /\ \A k \in DOMAIN all : all[k] = IF k = <<s, o>> THEN [at |-> started, failed |-> failed]
                                        ELSE last[k]
  BY DEF Put
<1>2. /\ DOMAIN after \subseteq DOMAIN all
      /\ \A k \in DOMAIN after : after[k] = all[k]
  <2>. HIDE DEF all
  <2>1. CASE Cardinality(DOMAIN all) <= RecentCeiling
    BY <2>1 DEF LastAfter, all
  <2>2. CASE ~(Cardinality(DOMAIN all) <= RecentCeiling)
    <3>. DEFINE young == {k \in DOMAIN all : all[k].at >= Monus(now, RetryWindow)}
    <3>1. after = Restrict(all, young)
      BY <2>2 DEF LastAfter, all
    <3>2. young \subseteq DOMAIN all
      OBVIOUS
    <3>. HIDE DEF young, after
    <3>3. QED
      BY <3>1, <3>2 DEF Restrict
  <2>3. QED
    BY <2>1, <2>2
<1>. HIDE DEF after, all
<1>3. \A k \in DOMAIN after : after[k].failed = IF k = <<s, o>> THEN failed ELSE last[k].failed
  <2>. TAKE k \in DOMAIN after
  <2>1. k \in DOMAIN all /\ after[k] = all[k]
    BY <1>2
  <2>2. CASE k = <<s, o>>
    BY <1>1, <2>1, <2>2
  <2>3. CASE k # <<s, o>>
    BY <1>1, <2>1, <2>3
  <2>4. QED
    BY <2>2, <2>3
<1>4. DOMAIN after \subseteq DOMAIN last \cup {<<s, o>>}
  BY <1>1, <1>2
<1>5. QED
  BY <1>3, <1>4 DEF Ends, after

\* Another session has no more pending than before, this one no more than the
\* end of this operation adds to what is pending of the others.
LEMMA PendingAfter ==
    ASSUME NEW to, NEW from, NEW s, NEW o, NEW failed \in BOOLEAN,
           IsFiniteSet(DOMAIN from), Ends(to, from, <<s, o>>, failed)
    PROVE  /\ IsFiniteSet(DOMAIN to)
           /\ \A t : t # s => Cardinality(Pending(to, t)) <= Cardinality(Pending(from, t))
           /\ Cardinality(Pending(to, s)) <=
                Cardinality(Pending(from, s))
                - (IF <<s, o>> \in Pending(from, s) THEN 1 ELSE 0)
                + (IF failed THEN 1 ELSE 0)
<1>. DEFINE key == <<s, o>>
<1>1. IsFiniteSet(DOMAIN to)
  <2>1. IsFiniteSet(DOMAIN from \cup {key})
    BY FS_AddElement
  <2>2. DOMAIN to \in SUBSET (DOMAIN from \cup {key})
    BY DEF Ends
  <2>. HIDE DEF key
  <2>3. QED
    BY <2>1, <2>2, FS_Subset
<1>2. ASSUME NEW t, t # s
      PROVE  Cardinality(Pending(to, t)) <= Cardinality(Pending(from, t))
  <2>1. Pending(to, t) \in SUBSET Pending(from, t)
    BY <1>2 DEF Pending, Ends
  <2>2. IsFiniteSet(Pending(from, t))
    BY PendingIsFinite
  <2>3. QED
    BY <2>1, <2>2, FS_Subset
<1>. DEFINE others == Pending(from, s) \ {key}
<1>3. /\ IsFiniteSet(Pending(from, s)) /\ Cardinality(Pending(from, s)) \in Nat
  BY PendingIsFinite
<1>4. /\ IsFiniteSet(others)
      /\ Cardinality(others) = Cardinality(Pending(from, s))
                               - (IF key \in Pending(from, s) THEN 1 ELSE 0)
  <2>. DEFINE was == Pending(from, s)
  <2>. HIDE DEF key, was
  <2>1. IsFiniteSet(was) /\ Cardinality(was) \in Nat
    BY <1>3 DEF was
  <2>2. IsFiniteSet(was \ {key}) /\ Cardinality(was \ {key}) =
            IF key \in was THEN Cardinality(was) - 1 ELSE Cardinality(was)
    BY <2>1, FS_RemoveElement
  <2>3. QED
    BY <2>1, <2>2 DEF was
<1>5. CASE failed
  <2>1. Pending(to, s) \in SUBSET (others \cup {key})
    BY DEF Pending, Ends
  <2>. HIDE DEF others, key
  <2>2. IsFiniteSet(others \cup {key}) /\ Cardinality(others \cup {key}) <= Cardinality(others) + 1
    <3>1. Cardinality(others) \in Nat
      BY <1>4, FS_CardinalityType
    <3>2. IsFiniteSet(others \cup {key}) /\ Cardinality(others \cup {key}) =
            IF key \in others THEN Cardinality(others) ELSE Cardinality(others) + 1
      BY <1>4, FS_AddElement
    <3>3. QED
      BY <3>1, <3>2
  <2>3. /\ Cardinality(Pending(to, s)) <= Cardinality(others \cup {key})
        /\ Cardinality(Pending(to, s)) \in Nat /\ Cardinality(others \cup {key}) \in Nat
        /\ Cardinality(others) \in Nat
    BY <1>1, <1>4, <2>1, <2>2, FS_Subset, FS_CardinalityType, PendingIsFinite
  <2>4. Cardinality(Pending(to, s)) <= Cardinality(others) + 1
    BY <2>2, <2>3
  <2>5. QED
    BY <1>1, <1>2, <1>3, <1>4, <1>5, <2>4, <2>3 DEF key
<1>6. CASE ~failed
  <2>1. Pending(to, s) \in SUBSET others
    BY <1>6 DEF Pending, Ends
  <2>. HIDE DEF others, key
  <2>2. Cardinality(Pending(to, s)) <= Cardinality(others)
    BY <1>4, <2>1, FS_Subset
  <2>3. QED
    BY <1>1, <1>2, <1>3, <1>4, <1>6, <2>2 DEF key
<1>7. QED
  BY <1>5, <1>6

\* A report counts a retry only where it takes a failure off what is pending.
LEMMA ReportBacksItsRetry ==
    ASSUME RetryInv, NEW s \in Session, NEW o \in Operation, NEW w, NEW started,
           NEW failed \in BOOLEAN, NEW blamed, AgentObserve(s, o, w, started, failed, blamed)
    PROVE  RetryInv'
<1>. DEFINE key == <<s, o>>
            retry == IsRetry(s, o, started)
<1>1. PICK a : sessions' = Put(sessions, s, SessionAfter(Entry(sessions, s, NewSession(a)),
                                                         failed, retry))
  BY DEF AgentObserve
<1>. DEFINE was == Entry(sessions, s, NewSession(a))
            is == SessionAfter(was, failed, retry)
<1>2. Ends(last', last, key, failed)
  BY LastEnds DEF AgentObserve
<1>3. /\ IsFiniteSet(DOMAIN last')
      /\ \A t : t # s => Cardinality(Pending(last', t)) <= Cardinality(Pending(last, t))
      /\ Cardinality(Pending(last', s)) <=
            Cardinality(Pending(last, s))
            - (IF key \in Pending(last, s) THEN 1 ELSE 0) + (IF failed THEN 1 ELSE 0)
  BY <1>2, PendingAfter DEF RetryInv
<1>4. \A t : /\ Cardinality(Pending(last, t)) \in Nat /\ Cardinality(Pending(last', t)) \in Nat
  BY <1>3, PendingIsFinite DEF RetryInv
<1>5. retry => key \in Pending(last, s)
  BY DEF IsRetry, Pending
<1>6. Backed(last, s, was)
  <2>1. CASE s \in DOMAIN sessions
    BY <2>1 DEF RetryInv, Entry
  <2>2. CASE s \notin DOMAIN sessions
    <3>1. Pending(last, s) = {}
      BY <2>2 DEF Pending, RetryInv
    <3>2. Cardinality(Pending(last, s)) = 0
      BY <3>1, FS_EmptySet
    <3>3. was = [agent |-> a, actions |-> 0, failures |-> 0, retries |-> 0]
      BY <2>2 DEF Entry, NewSession
    <3>4. QED
      BY <3>2, <3>3 DEF Backed
  <2>3. QED
    BY <2>1, <2>2
<1>. HIDE DEF was, retry, key
<1>7. /\ is = [agent |-> was.agent, actions |-> was.actions + 1,
               failures |-> IF failed THEN was.failures + 1 ELSE was.failures,
               retries |-> IF retry THEN was.retries + 1 ELSE was.retries]
  <2>. DEFINE one == [was EXCEPT !.actions = @ + 1]
              two == [one EXCEPT !.failures = IF failed THEN @ + 1 ELSE @]
  <2>1. is = [two EXCEPT !.retries = IF retry THEN @ + 1 ELSE @]
    BY DEF SessionAfter
  <2>2. was = [agent |-> was.agent, actions |-> was.actions,
               failures |-> was.failures, retries |-> was.retries]
    BY <1>6 DEF Backed
  <2>3. one = [agent |-> was.agent, actions |-> was.actions + 1,
               failures |-> was.failures, retries |-> was.retries]
    BY <2>2
  <2>. HIDE DEF one, is
  <2>4. two = [agent |-> was.agent, actions |-> was.actions + 1,
               failures |-> IF failed THEN was.failures + 1 ELSE was.failures,
               retries |-> was.retries]
    BY <2>3
  <2>. HIDE DEF two
  <2>5. QED
    BY <2>1, <2>4
<1>. HIDE DEF is
<1>8. Backed(last', s, is)
  BY <1>3, <1>4, <1>5, <1>6, <1>7 DEF Backed
<1>9. ASSUME NEW t \in DOMAIN sessions, t # s PROVE Backed(last', t, sessions[t])
  BY <1>3, <1>4, <1>9 DEF RetryInv, Backed
<1>10. /\ DOMAIN sessions' = DOMAIN sessions \cup {s} /\ sessions'[s] = is
       /\ \A t \in DOMAIN sessions : t # s => sessions'[t] = sessions[t]
  BY <1>1 DEF Put, is, was
<1>11. \A k \in DOMAIN last' : k[1] \in DOMAIN sessions'
  BY <1>2, <1>10 DEF Ends, RetryInv, key
<1>12. \A t \in DOMAIN sessions' : Backed(last', t, sessions'[t])
  BY <1>8, <1>9, <1>10
<1>13. QED
  BY <1>3, <1>11, <1>12 DEF RetryInv

\* However operations of several sessions end, are run again and are cut from
\* the memory of the last ones: no failure is answered twice (ingest.rs,
\* observe; session.rs, record).
THEOREM NoRetryWithoutFailure == Spec => []RetriesAreBacked
<1>1. Init => RetryInv
  <2>. SUFFICES ASSUME Init PROVE RetryInv
    OBVIOUS
  <2>1. DOMAIN last = {} /\ DOMAIN sessions = {}
    BY NoMap DEF Init
  <2>2. QED
    BY <2>1, FS_EmptySet DEF RetryInv
<1>2. RetryInv /\ [Next]_vars => RetryInv'
  <2>. SUFFICES ASSUME RetryInv, [Next]_vars PROVE RetryInv'
    OBVIOUS
  <2>1. CASE UNCHANGED <<sessions, last>>
    BY <2>1 DEF RetryInv
  <2>2. CASE sessions' = <<>> /\ last' = <<>>
    <3>1. DOMAIN last' = {} /\ DOMAIN sessions' = {}
      BY <2>2, NoMap
    <3>2. QED
      BY <3>1, FS_EmptySet DEF RetryInv
  <2>3. \/ UNCHANGED <<sessions, last>> \/ (sessions' = <<>> /\ last' = <<>>)
        \/ \E s \in Session, o \in Operation, w \in Place, started \in 0 .. now,
              failed \in BOOLEAN, blamed \in SUBSET Path :
                AgentObserve(s, o, w, started, failed, blamed)
    <3>1. ASSUME NEW a \in Agent, Hello(a) PROVE UNCHANGED <<sessions, last>>
      BY <3>1 DEF Hello, volatile
    <3>2. ASSUME NEW s \in Session, Goodbye(s) PROVE UNCHANGED <<sessions, last>>
      BY <3>2 DEF Goodbye
    <3>3. ASSUME NEW everything \in BOOLEAN, Forget(everything)
          PROVE  UNCHANGED <<sessions, last>>
      BY <3>3 DEF Forget, volatile
    <3>4. ASSUME EnvironmentFaults \/ PersistTimer
          PROVE  UNCHANGED <<sessions, last>>
      BY <3>4 DEF EnvironmentFaults, PersistTimer, volatile
    <3>5. ASSUME SaveExperience \/ SaveAgents \/ ClearSettings \/ WriteFails
          PROVE  UNCHANGED <<sessions, last>>
      BY <3>5 DEF SaveExperience, SaveAgents, ClearSettings, WriteFails, volatile
    <3>6. ASSUME Tick \/ MachineChanges \/ UNCHANGED vars
          PROVE  UNCHANGED <<sessions, last>>
      BY <3>6 DEF Tick, MachineChanges, vars, volatile
    <3>7. ASSUME ForgetMemory \/ Restart PROVE sessions' = <<>> /\ last' = <<>>
      BY <3>7 DEF ForgetMemory, Restart
    <3>8. QED
      BY <3>1, <3>2, <3>3, <3>4, <3>5, <3>6, <3>7 DEF Next
  <2>4. QED
    BY <2>1, <2>2, <2>3, ReportBacksItsRetry
<1>3. RetryInv => RetriesAreBacked
  <2>. SUFFICES ASSUME RetryInv, NEW s \in DOMAIN sessions
       PROVE  sessions[s].retries <= sessions[s].failures
    BY DEF RetriesAreBacked
  <2>1. Backed(last, s, sessions[s]) /\ Cardinality(Pending(last, s)) \in Nat
    BY PendingIsFinite DEF RetryInv
  <2>2. QED
    BY <2>1 DEF Backed
<1>4. QED
  BY <1>1, <1>2, <1>3, PTL DEF Spec

-----------------------------------------------------------------------------
(* The counts nest.                                                        *)

Counts == {c \in [attempts : Nat, failures : Nat] : c.failures <= c.attempts}

Fields == {"modes", "pairs", "procedures", "faults", "observed", "lost"}

Shape(e) == IsMap(e) /\ DOMAIN e = Fields

\* Evidence whose counts are numbers, and nest.  Nothing fails more often than
\* it is attempted: without this, a pair first seen with an operation that has
\* been counted before need not nest.
SoundEvidence(e) ==
    /\ Shape(e)
    /\ IsFiniteSet(DOMAIN e.modes)
    /\ \A k \in DOMAIN e.modes : e.modes[k] \in Counts
    /\ \A k \in DOMAIN e.pairs : e.pairs[k].counts \in Counts
    /\ e.observed \in Nat
    /\ Nested(e)

NestInv ==
    /\ stored = [evidence |-> stored.evidence, agents |-> stored.agents]
    /\ SoundEvidence(evidence) /\ SoundEvidence(stored.evidence)

\* `part' counts in no more than `all' does.
Part(part, all) ==
    /\ part.attempts <= all.attempts /\ part.failures <= all.failures
    /\ part.attempts - part.failures <= all.attempts - all.failures

Kept(e) == SumFunction([k \in DOMAIN e.modes |-> e.modes[k].attempts])

LEMMA NestedIs ==
    ASSUME NEW e
    PROVE  Nested(e) <=>
             /\ \A pair \in DOMAIN e.pairs :
                  pair[1] \in DOMAIN e.modes /\ Part(e.pairs[pair].counts, e.modes[pair[1]])
             /\ Kept(e) <= e.observed
  BY DEF Nested, Part, Kept

LEMMA ProceduresEdited ==
    ASSUME NEW e, Shape(e), NEW x, NEW f,
           f = [e EXCEPT !.procedures = x]
    PROVE  /\ Shape(f)
           /\ f.modes = e.modes /\ f.pairs = e.pairs /\ f.procedures = x
           /\ f.faults = e.faults /\ f.observed = e.observed /\ f.lost = e.lost
  BY DEF Shape, Fields, IsMap

LEMMA FaultsEdited ==
    ASSUME NEW e, Shape(e), NEW x, NEW f,
           f = [e EXCEPT !.faults = x]
    PROVE  /\ Shape(f)
           /\ f.modes = e.modes /\ f.pairs = e.pairs /\ f.procedures = e.procedures
           /\ f.faults = x /\ f.observed = e.observed /\ f.lost = e.lost
  BY DEF Shape, Fields, IsMap

LEMMA NothingIsSound == SoundEvidence(Nothing)
<1>1. /\ Nothing.modes = <<>> /\ Nothing.pairs = <<>> /\ Nothing.observed = 0
      /\ Shape(Nothing)
  BY DEF Nothing, Shape, Fields, IsMap
<1>2. DOMAIN <<>> = {} /\ IsFiniteSet({})
  BY FS_EmptySet
<1>3. Kept(Nothing) = 0
  <2>1. DOMAIN [k \in DOMAIN Nothing.modes |-> Nothing.modes[k].attempts] = {}
    BY <1>1, <1>2
  <2>2. QED
    BY <2>1, SumOfEmpty DEF Kept, SumFunction
<1>4. QED
  BY <1>1, <1>2, <1>3, NestedIs DEF SoundEvidence

\* What is proposed from counts and what is missed by an operation change none.
LEMMA SameCountsNest ==
    ASSUME NEW e, SoundEvidence(e), NEW paths, NEW operation
    PROVE  /\ SoundEvidence(WithProposals(e))
           /\ SoundEvidence(WithFaults(e, paths, operation))
           /\ SoundEvidence(WithoutFaults(e, paths))
<1>1. ASSUME NEW f, f.modes = e.modes, f.pairs = e.pairs, f.observed = e.observed, Shape(f)
      PROVE  SoundEvidence(f)
  BY <1>1 DEF SoundEvidence, Nested
<1>2. Shape(e)
  BY DEF SoundEvidence
<1>3. SoundEvidence(WithProposals(e))
  <2>. DEFINE procedures == e.procedures \cup Associations(e)
  <2>1. WithProposals(e) = [e EXCEPT !.procedures = procedures]
    BY DEF WithProposals
  <2>. HIDE DEF procedures
  <2>2. QED
    BY <1>1, <1>2, <2>1, ProceduresEdited
<1>4. ASSUME NEW x PROVE SoundEvidence([e EXCEPT !.faults = x])
  BY <1>1, <1>2, FaultsEdited
<1>5. SoundEvidence(WithFaults(e, paths, operation)) /\ SoundEvidence(WithoutFaults(e, paths))
  BY <1>4 DEF WithFaults, WithoutFaults
<1>6. QED
  BY <1>3, <1>5

\* Less is kept of operations, and with them go their pairs.
LEMMA EvictionNests ==
    ASSUME NEW e, SoundEvidence(e), NEW doomed
    PROVE  /\ SoundEvidence(WithoutModes(e, doomed))
           /\ SoundEvidence(WithoutPairs(e, doomed))
<1>1. SoundEvidence(WithoutModes(e, doomed))
  <2>. DEFINE left == DOMAIN e.modes \ doomed
              of == {k \in DOMAIN e.pairs : k[1] \notin doomed}
              lost == {k \in e.lost : k[1] \notin doomed}
              f == WithoutModes(e, doomed)
              was == [k \in DOMAIN e.modes |-> e.modes[k].attempts]
              is == [k \in left |-> e.modes[k].attempts]
  <2>1. f.modes = [k \in left |-> e.modes[k]] /\ f.pairs = [k \in of |-> e.pairs[k]]
        /\ f.observed = e.observed /\ Shape(f)
    <3>. DEFINE modes == [k \in left |-> e.modes[k]]
                pairs == [k \in of |-> e.pairs[k]]
    <3>1. f = [e EXCEPT !.modes = modes, !.pairs = pairs, !.lost = lost]
      BY DEF WithoutModes, Restrict
    <3>2. Shape(e)
      BY DEF SoundEvidence
    <3>. HIDE DEF modes, pairs, lost, f
    <3>3. f.modes = modes /\ f.pairs = pairs /\ f.observed = e.observed /\ Shape(f)
      BY <3>1, <3>2 DEF Shape, Fields, IsMap
    <3>4. QED
      BY <3>3 DEF modes, pairs
  <2>2. /\ DOMAIN f.modes = left /\ \A k \in left : f.modes[k] = e.modes[k]
        /\ DOMAIN f.pairs = of /\ \A k \in of : f.pairs[k] = e.pairs[k]
        /\ f.observed = e.observed /\ Shape(f)
    BY <2>1
  <2>3. IsFiniteSet(left) /\ left \in SUBSET DOMAIN e.modes
    BY FS_Subset DEF SoundEvidence
  <2>4. \A k \in DOMAIN e.modes : e.modes[k].attempts \in Nat
    BY DEF SoundEvidence, Counts
  <2>5. Kept(f) = SumFunctionOnSet(is, left) /\ Kept(e) = SumFunctionOnSet(was, DOMAIN e.modes)
    <3>1. [k \in DOMAIN f.modes |-> f.modes[k].attempts] = is
      BY <2>2
    <3>2. DOMAIN is = left /\ DOMAIN was = DOMAIN e.modes
      OBVIOUS
    <3>3. QED
      BY <3>1, <3>2 DEF Kept, SumFunction
  <2>6. SumFunctionOnSet(is, left) <= SumFunctionOnSet(was, DOMAIN e.modes)
    <3>1. /\ \A k \in DOMAIN e.modes : was[k] \in Nat
          /\ \A k \in left : is[k] = was[k]
      BY <2>4
    <3>. HIDE DEF was, is, left
    <3>2. SumFunctionOnSet(is, left) = SumFunctionOnSet(was, left)
      BY <3>1, <2>3, SumsAgree
    <3>3. SumFunctionOnSet(was, left) <= SumFunctionOnSet(was, DOMAIN e.modes)
      BY <3>1, <2>3, SumOfPart DEF SoundEvidence
    <3>4. QED
      BY <3>2, <3>3
  <2>7. Kept(f) <= f.observed
    <3>1. Kept(e) <= e.observed /\ e.observed \in Nat
      BY NestedIs DEF SoundEvidence
    <3>2. \A k \in DOMAIN e.modes : was[k] \in Nat
      BY <2>4
    <3>. HIDE DEF was, is, left, f
    <3>3. SumFunctionOnSet(is, left) \in Nat /\ SumFunctionOnSet(was, DOMAIN e.modes) \in Nat
      <4>1. \A k \in left : is[k] \in Nat
        BY <2>3, <3>2 DEF is, was, left
      <4>2. QED
        BY <2>3, <3>2, <4>1, SumIsANumber DEF SoundEvidence
    <3>4. QED
      BY <2>2, <2>5, <2>6, <3>1, <3>3
  <2>8. \A pair \in DOMAIN f.pairs :
          pair[1] \in DOMAIN f.modes /\ Part(f.pairs[pair].counts, f.modes[pair[1]])
    <3>1. \A pair \in DOMAIN e.pairs :
            pair[1] \in DOMAIN e.modes /\ Part(e.pairs[pair].counts, e.modes[pair[1]])
      BY NestedIs DEF SoundEvidence
    <3>. HIDE DEF f
    <3>2. QED
      BY <2>2, <3>1
  <2>9. Nested(f)
    BY <2>7, <2>8, NestedIs
  <2>. HIDE DEF f
  <2>10. /\ IsFiniteSet(DOMAIN f.modes) /\ f.observed \in Nat
         /\ \A k \in DOMAIN f.modes : f.modes[k] \in Counts
         /\ \A k \in DOMAIN f.pairs : f.pairs[k].counts \in Counts
    BY <2>2, <2>3 DEF SoundEvidence
  <2>11. SoundEvidence(f)
    BY <2>2, <2>9, <2>10 DEF SoundEvidence
  <2>12. QED
    BY <2>11 DEF f
<1>2. SoundEvidence(WithoutPairs(e, doomed))
  <2>. DEFINE of == DOMAIN e.pairs \ doomed
              f == WithoutPairs(e, doomed)
  <2>1. f.modes = e.modes /\ f.pairs = [k \in of |-> e.pairs[k]]
        /\ f.observed = e.observed /\ Shape(f)
    <3>. DEFINE pairs == [k \in of |-> e.pairs[k]]
                lost == e.lost \cup doomed
    <3>1. f = [e EXCEPT !.pairs = pairs, !.lost = lost]
      BY DEF WithoutPairs, Restrict
    <3>2. Shape(e)
      BY DEF SoundEvidence
    <3>. HIDE DEF pairs, lost, f
    <3>3. f.modes = e.modes /\ f.pairs = pairs /\ f.observed = e.observed /\ Shape(f)
      BY <3>1, <3>2 DEF Shape, Fields, IsMap
    <3>4. QED
      BY <3>3 DEF pairs
  <2>2. /\ DOMAIN f.pairs = of /\ of \subseteq DOMAIN e.pairs
        /\ \A k \in of : f.pairs[k] = e.pairs[k]
        /\ f.modes = e.modes /\ f.observed = e.observed /\ Shape(f)
    BY <2>1
  <2>. HIDE DEF f, of
  <2>3. /\ IsFiniteSet(DOMAIN f.modes) /\ f.observed \in Nat
        /\ \A k \in DOMAIN f.modes : f.modes[k] \in Counts
        /\ \A k \in DOMAIN f.pairs : f.pairs[k].counts \in Counts
    BY <2>2 DEF SoundEvidence
  <2>4. Nested(f)
    <3>1. Nested(e)
      BY DEF SoundEvidence
    <3>2. QED
      BY <2>2, <3>1 DEF Nested
  <2>5. SoundEvidence(f)
    BY <2>2, <2>3, <2>4 DEF SoundEvidence
  <2>6. QED
    BY <2>5 DEF f
<1>3. QED
  BY <1>1, <1>2

\* What is left by an eviction of sound evidence is sound.
LEMMA EvictedNests ==
    ASSUME NEW e, SoundEvidence(e), NEW left \in Evicted(e)
    PROVE  SoundEvidence(left)
<1>1. PICK f \in EvictedModes(e) : left \in EvictedPairs(f)
  BY DEF Evicted
<1>2. f = e \/ \E doomed : f = WithoutModes(e, doomed)
  BY <1>1 DEF EvictedModes
<1>3. SoundEvidence(f)
  BY <1>2, EvictionNests
<1>4. left = f \/ \E doomed : left = WithoutPairs(f, doomed)
  BY <1>1 DEF EvictedPairs
<1>5. QED
  BY <1>3, <1>4, EvictionNests

\* One more is counted of an operation, and of each of the pairs it is seen
\* in, whether or not what they had counted before was evicted.
LEMMA CountingNests ==
    ASSUME NEW e, SoundEvidence(e), NEW key, NEW before, NEW failed \in BOOLEAN, NEW started
    PROVE  SoundEvidence(WithAction(e, key, before, failed, started))
<1>. DEFINE f == WithAction(e, key, before, failed, started)
            seen == {<<key, p>> : p \in before}
            pair(p) == Entry(e.pairs, <<key, p>>, [counts |-> NoCounts, last |-> 0])
            modes == Put(e.modes, key, Counted(Entry(e.modes, key, NoCounts), failed))
            pairs == [k \in DOMAIN e.pairs \cup seen |->
                        IF k \in seen
                        THEN [counts |-> Counted(pair(k[2]).counts, failed), last |-> started]
                        ELSE e.pairs[k]]
            one == IF failed THEN 1 ELSE 0
            ops == DOMAIN e.modes \cup {key}
<1>1. Shape(e)
  BY DEF SoundEvidence
<1>2. f.modes = modes /\ f.pairs = pairs /\ f.observed = e.observed + 1 /\ Shape(f)
  <2>1. f = [e EXCEPT !.observed = @ + 1, !.modes = modes, !.pairs = pairs]
    BY DEF WithAction
  <2>. HIDE DEF modes, pairs, f
  <2>2. QED
    BY <2>1, <1>1 DEF Shape, Fields, IsMap
<1>. HIDE DEF f
<1>3. one \in Nat /\ one <= 1
  OBVIOUS
<1>4. ASSUME NEW c \in Counts
      PROVE  /\ Counted(c, failed) \in Counts
             /\ Counted(c, failed).attempts = c.attempts + 1
             /\ Counted(c, failed).failures = c.failures + one
  <2>1. PICK a \in Nat, b \in Nat : c = [attempts |-> a, failures |-> b] /\ b <= a
    BY <1>4 DEF Counts
  <2>. DEFINE sum == Counted(c, failed)
  <2>2. /\ sum.attempts = a + 1 /\ sum.failures = IF failed THEN b + 1 ELSE b
        /\ IsMap(sum) /\ DOMAIN sum = {"attempts", "failures"}
    BY <2>1 DEF Counted, IsMap
  <2>. HIDE DEF sum
  <2>3. sum = [attempts |-> a + 1, failures |-> b + one]
    BY <2>2 DEF IsMap
  <2>. USE DEF sum
  <2>. HIDE DEF one
  <2>4. QED
    BY <1>3, <2>1, <2>3 DEF Counts
<1>. HIDE DEF one
<1>5. NoCounts \in Counts /\ NoCounts.attempts = 0 /\ NoCounts.failures = 0
  BY DEF NoCounts, Counts
<1>6. /\ \A k \in DOMAIN e.modes : e.modes[k] \in Counts
      /\ \A k \in DOMAIN e.pairs :
            /\ e.pairs[k].counts \in Counts /\ k[1] \in DOMAIN e.modes
            /\ Part(e.pairs[k].counts, e.modes[k[1]])
      /\ Kept(e) <= e.observed /\ e.observed \in Nat /\ IsFiniteSet(DOMAIN e.modes)
  BY NestedIs DEF SoundEvidence
<1>7. /\ DOMAIN modes = ops /\ key \in ops
      /\ \A k \in DOMAIN e.modes \ {key} : modes[k] = e.modes[k]
      /\ modes[key] = Counted(Entry(e.modes, key, NoCounts), failed)
  BY DEF Put
<1>. DEFINE was == Entry(e.modes, key, NoCounts)
<1>8. /\ was \in Counts
      /\ key \in DOMAIN e.modes => was = e.modes[key]
      /\ key \notin DOMAIN e.modes => was.attempts = 0 /\ was.failures = 0
  BY <1>5, <1>6 DEF Entry
<1>. HIDE DEF was
<1>9. /\ modes[key] \in Counts /\ modes[key].attempts = was.attempts + 1
      /\ modes[key].failures = was.failures + one
  BY <1>4, <1>7, <1>8 DEF was
<1>10. IsFiniteSet(ops) /\ \A k \in ops : modes[k] \in Counts
  <2>1. IsFiniteSet(ops)
    BY <1>6, FS_AddElement
  <2>. HIDE DEF modes
  <2>2. QED
    BY <2>1, <1>6, <1>7, <1>9
<1>. HIDE DEF modes
<1>11. ASSUME NEW k \in DOMAIN e.pairs \cup seen
       PROVE  /\ pairs[k].counts \in Counts /\ k[1] \in ops
              /\ Part(pairs[k].counts, modes[k[1]])
  <2>1. CASE k \in seen
    <3>1. PICK p \in before : k = <<key, p>>
      BY <2>1
    <3>2. k[1] = key /\ k[2] = p
      BY <3>1
    <3>3. pairs[k].counts = Counted(pair(p).counts, failed)
      BY <2>1, <3>2
    <3>4. /\ pair(p).counts \in Counts /\ Part(pair(p).counts, was)
      <4>1. CASE k \in DOMAIN e.pairs
        BY <4>1, <1>6, <1>8, <3>1, <3>2 DEF Entry
      <4>2. CASE k \notin DOMAIN e.pairs
        <5>1. pair(p).counts = NoCounts
          BY <4>2, <3>1 DEF Entry
        <5>2. Part(NoCounts, was)
          <6>1. CASE key \in DOMAIN e.modes
            BY <1>5, <1>8 DEF Part, Counts
          <6>2. CASE key \notin DOMAIN e.modes
            BY <6>2, <1>5, <1>8 DEF Part, Counts
          <6>3. QED
            BY <6>1, <6>2
        <5>3. QED
          BY <5>1, <5>2, <1>5
      <4>3. QED
        BY <4>1, <4>2
    <3>. HIDE DEF pair, pairs
    <3>5. /\ pairs[k].counts \in Counts
          /\ pairs[k].counts.attempts = pair(p).counts.attempts + 1
          /\ pairs[k].counts.failures = pair(p).counts.failures + one
      BY <1>4, <3>3, <3>4
    <3>6. Part(pairs[k].counts, modes[key])
      BY <3>4, <3>5, <1>3, <1>8, <1>9 DEF Part, Counts
    <3>7. QED
      BY <3>2, <3>5, <3>6
  <2>2. CASE k \notin seen
    <3>1. k \in DOMAIN e.pairs /\ pairs[k] = e.pairs[k]
      BY <2>2
    <3>. HIDE DEF pairs
    <3>2. CASE k[1] = key
      <4>1. /\ Part(e.pairs[k].counts, was) /\ e.pairs[k].counts \in Counts
        BY <3>1, <3>2, <1>6, <1>8
      <4>2. QED
        BY <3>1, <3>2, <4>1, <1>3, <1>8, <1>9 DEF Part, Counts
    <3>3. CASE k[1] # key
      BY <3>1, <3>3, <1>6, <1>7
    <3>4. QED
      BY <3>2, <3>3
  <2>3. QED
    BY <2>1, <2>2
<1>12. Kept(f) <= e.observed + 1
  <2>. DEFINE old == [k \in DOMAIN e.modes |-> e.modes[k].attempts]
              wide == [k \in ops |-> IF k \in DOMAIN e.modes THEN e.modes[k].attempts ELSE 0]
              new == [k \in ops |-> modes[k].attempts]
  <2>1. /\ Kept(f) = SumFunctionOnSet(new, ops)
        /\ Kept(e) = SumFunctionOnSet(old, DOMAIN e.modes)
    <3>1. DOMAIN f.modes = ops /\ f.modes = modes
      BY <1>2, <1>7
    <3>2. [k \in DOMAIN f.modes |-> f.modes[k].attempts] = new
      BY <3>1
    <3>3. DOMAIN new = ops /\ DOMAIN old = DOMAIN e.modes
      OBVIOUS
    <3>4. QED
      BY <3>2, <3>3 DEF Kept, SumFunction
  <2>2. /\ \A k \in DOMAIN e.modes : old[k] \in Nat
        /\ \A k \in ops : wide[k] \in Nat
        /\ \A k \in DOMAIN e.modes : wide[k] = old[k]
        /\ \A k \in ops \ DOMAIN e.modes : wide[k] = 0
    BY <1>6 DEF Counts
  <2>3. \A k \in ops : new[k] = IF k \in {key} THEN wide[k] + 1 ELSE wide[k]
    BY <1>7, <1>8, <1>9
  <2>. DEFINE D == DOMAIN e.modes
  <2>4. /\ IsFiniteSet(D) /\ IsFiniteSet(ops \ D) /\ D \cap (ops \ D) = {}
        /\ ops = D \cup (ops \ D) /\ {key} \in SUBSET ops
    BY <1>6, <1>10, FS_Subset
  <2>5. \A k \in D : wide[k] = old[k] /\ old[k] \in Nat
    BY <2>2
  <2>. HIDE DEF old, wide, new, ops, D
  <2>6. SumFunctionOnSet(wide, ops) = SumFunctionOnSet(wide, D) + SumFunctionOnSet(wide, ops \ D)
    BY <2>2, <2>4, SumOfUnion
  <2>7. SumFunctionOnSet(wide, ops \ D) = 0
    BY <2>2, <2>4, SumOfZeros DEF D
  <2>8. /\ SumFunctionOnSet(wide, D) = SumFunctionOnSet(old, D)
        /\ SumFunctionOnSet(old, D) \in Nat
    BY <2>4, <2>5, SumsAgree, SumIsANumber
  <2>9. SumFunctionOnSet(new, ops) = SumFunctionOnSet(wide, ops) + Cardinality({key})
    BY <2>2, <2>3, <2>4, <1>10, SumOfOneMore
  <2>10. Cardinality({key}) = 1
    BY FS_Singleton
  <2>11. QED
    BY <1>6, <2>1, <2>6, <2>7, <2>8, <2>9, <2>10 DEF D
<1>13. Nested(f)
  <2>1. DOMAIN f.pairs = DOMAIN e.pairs \cup seen /\ f.pairs = pairs
    BY <1>2
  <2>2. DOMAIN f.modes = ops /\ f.modes = modes
    BY <1>2, <1>7
  <2>. HIDE DEF pairs, seen, ops
  <2>3. QED
    BY <1>2, <1>11, <1>12, <2>1, <2>2, NestedIs
<1>14. SoundEvidence(f)
  <2>1. DOMAIN f.pairs = DOMAIN e.pairs \cup seen /\ f.pairs = pairs
    BY <1>2
  <2>2. DOMAIN f.modes = ops /\ f.modes = modes
    BY <1>2, <1>7
  <2>3. f.observed \in Nat
    BY <1>2, <1>6
  <2>. HIDE DEF pairs, seen, ops
  <2>4. QED
    BY <1>2, <1>10, <1>11, <1>13, <2>1, <2>2, <2>3 DEF SoundEvidence
<1>15. QED
  BY <1>14 DEF f

\* Whatever is reported, evicted, forgotten, lost and begun again: what is
\* counted of an operation after a precursor is part of what is counted of the
\* operation, so the two sides of a comparison add up (experience.rs, observe,
\* evict; engine.rs, agent_observe, forget, persist).
THEOREM SidesAddUp == Spec => []CountsNest
<1>1. Init => NestInv
  BY NothingIsSound DEF Init, NoStore, NestInv
<1>2. NestInv /\ [Next]_vars => NestInv'
  <2>. SUFFICES ASSUME NestInv, [Next]_vars PROVE NestInv'
    OBVIOUS
  <2>1. ASSUME SoundEvidence(evidence'), stored' = stored PROVE NestInv'
    BY <2>1 DEF NestInv
  <2>2. ASSUME NEW s \in Session, NEW o \in Operation, NEW w \in Place, NEW started,
               NEW failed \in BOOLEAN, NEW blamed, AgentObserve(s, o, w, started, failed, blamed)
        PROVE  NestInv'
    <3>1. PICK before, left :
             /\ left \in Evicted(WithAction(evidence, <<o, w>>, before, failed, started))
             /\ evidence' = WithProposals(WithFaults(left, FaultsFound(failed, blamed), o))
      BY <2>2 DEF AgentObserve
    <3>2. SoundEvidence(left)
      BY <3>1, CountingNests, EvictedNests DEF NestInv
    <3>3. SoundEvidence(WithFaults(left, FaultsFound(failed, blamed), o))
      BY <3>2, SameCountsNest
    <3>4. SoundEvidence(evidence')
      BY <3>1, <3>3, SameCountsNest
    <3>5. stored' = stored
      BY <2>2 DEF AgentObserve
    <3>6. QED
      BY <2>1, <3>4, <3>5
  <2>3. CASE EnvironmentFaults
    BY <2>1, <2>3, SameCountsNest DEF EnvironmentFaults, NestInv
  <2>4. CASE ForgetMemory
    BY <2>1, <2>4, NothingIsSound DEF ForgetMemory
  <2>5. CASE Restart
    BY <2>1, <2>5 DEF Restart, NestInv
  <2>6. CASE SaveExperience
    BY <2>6 DEF SaveExperience, NestInv
  <2>7. CASE SaveAgents
    <3>1. PICK saved : stored' = [stored EXCEPT !.agents = saved]
      BY <2>7 DEF SaveAgents
    <3>2. evidence' = evidence
      BY <2>7 DEF SaveAgents
    <3>3. QED
      BY <3>1, <3>2 DEF NestInv
  <2>8. ASSUME NEW everything \in BOOLEAN, Forget(everything) PROVE NestInv'
    <3>1. stored' = [stored EXCEPT !.agents = <<>>] /\ evidence' = evidence
      BY <2>8 DEF Forget
    <3>2. QED
      BY <3>1 DEF NestInv
  <2>9. CASE ClearSettings
    BY <2>9, NothingIsSound DEF ClearSettings, NestInv
  <2>10. ASSUME UNCHANGED <<evidence, stored>> PROVE NestInv'
    BY <2>10 DEF NestInv
  <2>11. ASSUME NEW a \in Agent, Hello(a) PROVE NestInv'
    BY <2>10, <2>11 DEF Hello
  <2>12. ASSUME NEW s \in Session, Goodbye(s) PROVE NestInv'
    BY <2>10, <2>12 DEF Goodbye
  <2>13. ASSUME PersistTimer \/ WriteFails \/ Tick \/ MachineChanges \/ UNCHANGED vars
         PROVE  NestInv'
    BY <2>10, <2>13 DEF PersistTimer, WriteFails, Tick, MachineChanges, vars
  <2>14. QED
    BY <2>2, <2>3, <2>4, <2>5, <2>6, <2>7, <2>8, <2>9, <2>11, <2>12, <2>13 DEF Next
<1>3. NestInv => CountsNest
  BY DEF NestInv, SoundEvidence, CountsNest
<1>4. QED
  BY <1>1, <1>2, <1>3, PTL DEF Spec
=============================================================================
