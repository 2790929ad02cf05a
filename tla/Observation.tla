---------------------------- MODULE Observation ----------------------------
(***************************************************************************)
(* What agents tell the engine about themselves and their actions:         *)
(* product-api/src/engine.rs (agent_hello, agent_observe, agent_goodbye,   *)
(* learn_environment, environment_faults, forget) with agent-observation   *)
(* (ingest.rs, session.rs, agent.rs), over the evidence of Evidence.tla.   *)
(*                                                                         *)
(* Every report is counted in its session, for the agent the session is    *)
(* attributed to, and in the evidence; and what failed and is run again in *)
(* the same session is counted as a retry.  A report says itself when the  *)
(* action started, which may be well before it arrives.  Requests hold the *)
(* mutex of the engine; each ends in persist, whose transactions are the   *)
(* steps here, as in Lifecycle.  Trials that wait for their outcome are    *)
(* the subject of Trials, capabilities that of Lifecycle.  Whether a       *)
(* session has ended or an agent is connected is only shown.               *)
(***************************************************************************)
EXTENDS Evidence

CONSTANTS
    Session, Agent,
    Unattributed,     \* "mcp", the agent of a session nobody else is there for
    Path,             \* of files the machine may or may not have
    RetryWindow, AgentTimeout, RecentCeiling,
    MaxActions, MaxHellos, MaxTime, MaxFaults  \* bounds: actions counted, sessions of an
                                    \* agent, the clock

ASSUME ObservationAssumption ==
    /\ ModeCeiling \in Nat /\ PairCeiling \in Nat /\ Slack \in Nat
    /\ SessionHistory \in Nat \ {0}

VARIABLES
    now, missing,       \* the clock; the paths the machine does not have
    agents, sessions,   \* Engine::agents, Engine::sessions, those that exist
    last,               \* Ingest::last, by session and operation
    history,            \* Experience::history, by session
    evidence,           \* Engine::experience
    dirty,
    stored,             \* the documents: [evidence, agents]
    doing,              \* the transaction the current request is at
    intact,             \* ghost: no forgetting has failed since start-up
    faults              \* ghost: writes that failed and restarts

world == <<now, missing>>
volatile == <<sessions, last, history>>
vars == <<world, agents, volatile, evidence, dirty, stored, doing, intact, faults>>

NoStore == [evidence |-> Nothing, agents |-> <<>>]

Init ==
    /\ now = 0 /\ missing = Path
    /\ agents = <<>> /\ sessions = <<>> /\ last = <<>> /\ history = <<>>
    /\ evidence = Nothing /\ dirty = FALSE
    /\ stored = NoStore /\ doing = "idle"
    /\ intact = TRUE /\ faults = 0

-----------------------------------------------------------------------------
(* Agents.                                                                 *)

NewAgent == [sessions |-> 0, actions |-> 0, seen |-> now]

Touched(agent) == [agent EXCEPT !.seen = now]

Hello(a) ==
    /\ doing = "idle"
    /\ Entry(agents, a, NewAgent).sessions < MaxHellos
    /\ agents' = Put(agents, a, [Touched(Entry(agents, a, NewAgent)) EXCEPT !.sessions = @ + 1])
    /\ dirty' = TRUE /\ doing' = "experience"
    /\ UNCHANGED <<world, volatile, evidence, stored, intact, faults>>

\* Engine::connected_id: the agent heard from last, if it is recent.
Connected ==
    LET recent == {a \in DOMAIN agents : now - agents[a].seen <= AgentTimeout}
        newest == {a \in recent : \A b \in recent : agents[b].seen <= agents[a].seen}
    IN  IF recent = {} THEN {Unattributed} ELSE newest

-----------------------------------------------------------------------------
(* Actions.                                                                *)

\* Ingest::observe: the same operation failed in this session, not long ago.
IsRetry(s, o, started) ==
    /\ <<s, o>> \in DOMAIN last
    /\ last[<<s, o>>].failed
    /\ Monus(started, last[<<s, o>>].at) <= RetryWindow

LastAfterMutant(s, o, started, failed) == \* a success does not end the failure
    IF <<s, o>> \in DOMAIN last /\ ~failed THEN last
    ELSE Put(last, <<s, o>>, [at |-> started, failed |-> failed])

\* Too many are cut down to those inside the window.
LastAfter(s, o, started, failed) ==
    LET all == Put(last, <<s, o>>, [at |-> started, failed |-> failed])
    IN  IF Cardinality(DOMAIN all) <= RecentCeiling THEN all
        ELSE Restrict(all, {k \in DOMAIN all : all[k].at >= Monus(now, RetryWindow)})

NewSession(a) ==
    [agent |-> a, actions |-> 0, failures |-> 0, retries |-> 0]

SessionAfter(session, failed, retry) ==
    [session EXCEPT !.actions = @ + 1,
                    !.failures = IF failed THEN @ + 1 ELSE @,
                    !.retries = IF retry THEN @ + 1 ELSE @]

AgentsAfter(a) ==
    IF a \in DOMAIN agents
    THEN Put(agents, a, [Touched(agents[a]) EXCEPT !.actions = @ + 1]) ELSE agents

\* learn_environment: what a failure blames is looked for there and then.
FaultsFound(failed, blamed) == IF failed THEN blamed \cap missing ELSE {}

\* agent_observe, for a report of operation o in place w by session s.
AgentObserve(s, o, w, started, failed, blamed) ==
    /\ doing = "idle" /\ evidence.observed < MaxActions
    /\ \A a \in DOMAIN agents : agents[a].actions < MaxActions
    /\ \E a \in Connected :
        LET session == Entry(sessions, s, NewSession(a))
        IN  /\ sessions' = Put(sessions, s, SessionAfter(session, failed, IsRetry(s, o, started)))
            /\ agents' = AgentsAfter(session.agent)
    /\ last' = LastAfter(s, o, started, failed)
    /\ LET before == Entry(history, s, <<>>)
           counted == WithAction(evidence, <<o, w>>, Precursors(before, o, started),
                                 failed, started)
       IN  /\ history' = Put(history, s, Remembered(before, o, started))
           /\ \E left \in Evicted(counted) :
                evidence' = WithProposals(WithFaults(left, FaultsFound(failed, blamed), o))
    /\ dirty' = TRUE /\ doing' = "experience"
    /\ UNCHANGED <<world, stored, intact, faults>>

\* agent_goodbye.  The session stays, and may report again.
Goodbye(s) ==
    /\ doing = "idle"
    /\ history' = Restrict(history, DOMAIN history \ {s})
    /\ doing' = IF dirty THEN "experience" ELSE "idle"
    /\ UNCHANGED <<world, agents, sessions, last, evidence, dirty, stored, intact, faults>>

\* environment_faults: what is no longer missing is forgotten.  Not every
\* request that asks persists; those that do are followed by PersistTimer.
EnvironmentFaults ==
    /\ doing = "idle"
    /\ evidence' = WithoutFaults(evidence, Path \ missing)
    /\ dirty' = (dirty \/ evidence' # evidence)
    /\ UNCHANGED <<world, agents, volatile, stored, doing, intact, faults>>

-----------------------------------------------------------------------------
(* persist and forget.                                                     *)

PersistTimer ==
    /\ doing = "idle" /\ dirty /\ doing' = "experience"
    /\ UNCHANGED <<world, agents, volatile, evidence, dirty, stored, intact, faults>>

SaveExperience ==
    /\ doing = "experience" /\ doing' = "agents"
    /\ stored' = [stored EXCEPT !.evidence = evidence]
    /\ UNCHANGED <<world, agents, volatile, evidence, dirty, intact, faults>>

SaveAgentsMutant == \* a new agent is written only once
    /\ doing = "agents" /\ doing' = "idle" /\ dirty' = FALSE
    /\ stored' = [stored EXCEPT !.agents = [a \in DOMAIN agents |-> Entry(@, a, agents[a])]]
    /\ UNCHANGED <<world, agents, volatile, evidence, intact, faults>>

SaveAgents ==
    /\ doing = "agents" /\ doing' = "idle" /\ dirty' = FALSE
    /\ stored' = [stored EXCEPT !.agents = [a \in DOMAIN @ \cup DOMAIN agents |->
                                              Entry(agents, a, Entry(@, a, NewAgent))]]
    /\ UNCHANGED <<world, agents, volatile, evidence, intact, faults>>

\* Engine::forget: the agents are the first documents cleared, the settings,
\* among them the evidence, go only with everything.
Forget(everything) ==
    /\ doing = "idle"
    /\ doing' = IF everything THEN "clear settings" ELSE "forget activity"
    /\ stored' = [stored EXCEPT !.agents = <<>>]
    /\ UNCHANGED <<world, agents, volatile, evidence, dirty, intact, faults>>

ClearSettings ==
    /\ doing = "clear settings" /\ doing' = "forget everything"
    /\ stored' = [stored EXCEPT !.evidence = Nothing]
    /\ UNCHANGED <<world, agents, volatile, evidence, dirty, intact, faults>>

ForgetMemory ==
    /\ doing \in {"forget activity", "forget everything"}
    /\ evidence' = Nothing /\ sessions' = <<>> /\ last' = <<>> /\ history' = <<>>
    /\ agents' = IF doing = "forget everything" THEN <<>> ELSE agents
    /\ dirty' = TRUE /\ doing' = "experience"
    /\ UNCHANGED <<world, stored, intact, faults>>

WriteFails ==
    /\ doing # "idle" /\ doing' = "idle"
    /\ faults < MaxFaults /\ faults' = faults + 1
    /\ intact' = (intact /\ doing \in {"experience", "agents"})
    /\ UNCHANGED <<world, agents, volatile, evidence, dirty, stored>>

Restart ==
    /\ faults < MaxFaults /\ faults' = faults + 1
    /\ agents' = stored.agents
    /\ sessions' = <<>> /\ last' = <<>> /\ history' = <<>>
    /\ evidence' = stored.evidence /\ dirty' = FALSE
    /\ doing' = "idle" /\ intact' = TRUE
    /\ UNCHANGED <<world, stored>>

-----------------------------------------------------------------------------
Tick ==
    /\ doing = "idle" /\ now < MaxTime /\ now' = now + 1
    /\ UNCHANGED <<missing, agents, volatile, evidence, dirty, stored, doing, intact, faults>>

\* A drive is mounted, or is gone.
MachineChanges ==
    /\ doing = "idle"
    /\ \E p \in Path : missing' = IF p \in missing THEN missing \ {p} ELSE missing \cup {p}
    /\ UNCHANGED <<now, agents, volatile, evidence, dirty, stored, doing, intact, faults>>

Next ==
    \/ \E a \in Agent : Hello(a)
    \/ \E s \in Session :
        \/ Goodbye(s)
        \/ \E o \in Operation, w \in Place, started \in 0 .. now,
              failed \in BOOLEAN, blamed \in SUBSET Path :
                AgentObserve(s, o, w, started, failed, blamed)
    \/ EnvironmentFaults \/ PersistTimer \/ SaveExperience \/ SaveAgents
    \/ \E everything \in BOOLEAN : Forget(everything)
    \/ ClearSettings \/ ForgetMemory
    \/ WriteFails \/ Restart
    \/ Tick \/ MachineChanges

Spec == Init /\ [][Next]_vars

-----------------------------------------------------------------------------
(* Properties.                                                             *)

\* Every variable keeps its type, and every map its ceiling: operations,
\* pairs and the history of a session.
TypeOK ==
    /\ now \in 0 .. MaxTime /\ missing \subseteq Path
    /\ DOMAIN agents \subseteq Agent /\ DOMAIN sessions \subseteq Session
    /\ DOMAIN last \subseteq Session \X Operation /\ DOMAIN history \subseteq Session
    /\ \A s \in DOMAIN history : Len(history[s]) <= SessionHistory
    /\ DOMAIN evidence.modes \subseteq Key
    /\ DOMAIN evidence.pairs \subseteq Key \X Operation
    /\ Cardinality(DOMAIN evidence.modes) <= ModeCeiling + Slack
    /\ Cardinality(DOMAIN evidence.pairs) <= PairCeiling + Slack
    /\ evidence.procedures \subseteq Key \X Operation
    /\ dirty \in BOOLEAN /\ intact \in BOOLEAN

\* In memory and in the store, through evictions, restarts and forgetting:
\* see Evidence.tla.
CountsNest == Nested(evidence) /\ Nested(stored.evidence)

\* A retry answers a failure of its own session that no other retry answers
\* (ingest.rs, observe: only the last action of a session on an operation is
\* looked at, "counting unrelated repeats as retries would inflate every
\* failure statistic"): no session has more retries than failures.
RetriesAreBacked ==
    \A s \in DOMAIN sessions : sessions[s].retries <= sessions[s].failures

\* Between requests, unless a forgetting was cut short, an engine with nothing
\* to save has saved all it learned from agents and about them (engine.rs:
\* `dirty', which each of its handlers must set).
CleanIsStored ==
    doing = "idle" /\ ~dirty /\ intact =>
        stored.evidence = evidence /\ stored.agents = agents

\* engine.rs, forget: "everything CoreScout knew about your AI activity was
\* deleted" -- when a request to forget it comes to its end, from memory too.
ForgottenActivityIsGone ==
    [][doing = "forget activity" /\ doing' = "experience" => agents' = <<>>]_vars

\* See Evidence.tla.
RatesAreOfTheirSide == Separated(evidence)
=============================================================================
