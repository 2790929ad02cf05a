----------------------------- MODULE Lifecycle -----------------------------
(***************************************************************************)
(* What the engine knows about capabilities, in memory and in the store,   *)
(* and the requests that change either: product-api/src/engine.rs with     *)
(* storage/src/store.rs.                                                   *)
(*                                                                         *)
(* A request holds the engine's mutex until it has answered, so requests   *)
(* do not overlap.  But persist writes the documents one transaction each, *)
(* a deletion and a forgetting write before it does, any of those writes   *)
(* may fail, which ends the request with an error, and the service may die *)
(* between two of them.  Every transaction is a step here; `doing' is the  *)
(* one the request is at, "idle" between requests.                         *)
(*                                                                         *)
(* A procedure is identified with the capability it would become, whose id *)
(* is derived from it.  The evidence is whether the procedure is a         *)
(* candidate now.  Latent states, the normaliser, agents and sessions,     *)
(* which persist and forget handle alongside, are left out, and so are the *)
(* name and steps of a definition.                                         *)
(***************************************************************************)
EXTENDS Naturals

CONSTANTS
    Capability,
    MaxUses      \* bound: runs counted for one capability

ASSUME UsesAssumption == MaxUses \in Nat

VARIABLES
    known, learned, grants, uses, paused,  \* the engine's memory:
                \* Engine::capabilities, the candidates of Engine::experience,
                \* the decisions on record, Capability::uses, the pause
    dirty,      \* Engine::dirty
    storedKnown, storedLearned, storedGrants, storedUses, storedPaused, \* the store
    doing,      \* the transaction the current request is at
    left,       \* capabilities the request has still to delete or write
    saved,      \* ghost: no write has failed since the last complete persist
    intact,     \* ghost: no deletion or clearing has failed since start-up
    gone,       \* ghost: capabilities deleted, or forgotten with everything
                \* else, that no agent's report has brought back
    forgotten   \* ghost: everything forgotten and no agent heard since

memory == <<known, learned, grants, uses, paused, dirty>>
disk   == <<storedKnown, storedLearned, storedGrants, storedUses, storedPaused>>
request == <<doing, left>>
ghosts == <<saved, intact, gone, forgotten>>
vars == <<memory, disk, request, ghosts>>

\* What Permissions::grant says of a capability.  "undecided" is no entry, or
\* one whose approval was withdrawn: neither approved nor switched off.
Decision == {"undecided", "approved", "off"}

Transactions == {"idle", "delete", "clear activity", "clear capabilities",
                 "clear settings", "reset", "clear events", "permissions",
                 "experience", "capabilities"}

Init ==
    /\ known = {} /\ learned = {} /\ paused = FALSE /\ dirty = FALSE
    /\ grants = [c \in Capability |-> "undecided"]
    /\ uses = [c \in Capability |-> 0]
    /\ storedKnown = {} /\ storedLearned = {} /\ storedPaused = FALSE
    /\ storedGrants = [c \in Capability |-> "undecided"]
    /\ storedUses = [c \in Capability |-> 0]
    /\ doing = "idle" /\ left = {}
    /\ saved = TRUE /\ intact = TRUE /\ gone = {} /\ forgotten = FALSE

-----------------------------------------------------------------------------
(* Requests.  Each ends in persist.                                        *)

Persist == doing' = "permissions" /\ left' = {}

\* Engine::promote: every candidate that is not a capability becomes one.
Promote(candidates) ==
    /\ known' = known \cup candidates
    /\ gone' = gone \ candidates

\* Engine::agent_observe: the outcome of an action moves the evidence for one
\* procedure, in favour or against.
AgentObserve(c, isCandidate) ==
    /\ doing = "idle"
    /\ learned' = IF isCandidate THEN learned \cup {c} ELSE learned \ {c}
    /\ Promote(learned')
    /\ dirty' = TRUE /\ forgotten' = FALSE
    /\ Persist
    /\ UNCHANGED <<grants, uses, paused, disk, saved, intact>>

DecideCapability(c, decision) ==
    /\ doing = "idle" /\ c \in known
    /\ grants' = [grants EXCEPT ![c] = decision]
    /\ Persist
    /\ UNCHANGED <<known, learned, uses, paused, dirty, disk, ghosts>>

Pause(value) ==
    /\ doing = "idle"
    /\ paused' = value
    /\ Persist
    /\ UNCHANGED <<known, learned, grants, uses, dirty, disk, ghosts>>

\* A run that was allowed and has been carried out; which are, Execution.tla says.
RunCapability(c) ==
    /\ doing = "idle" /\ c \in known /\ ~paused /\ grants[c] # "off"
    /\ uses[c] < MaxUses
    /\ uses' = [uses EXCEPT ![c] = @ + 1]
    /\ dirty' = TRUE
    /\ Persist
    /\ UNCHANGED <<known, learned, grants, paused, disk, ghosts>>

\* The service's timer.
PersistTimer ==
    /\ doing = "idle"
    /\ Persist
    /\ UNCHANGED <<memory, disk, ghosts>>

DeleteCapability(c) ==
    /\ doing = "idle" /\ c \in known
    /\ known' = known \ {c}
    /\ uses' = [uses EXCEPT ![c] = 0]
    /\ grants' = [grants EXCEPT ![c] = "undecided"]
    /\ doing' = "delete" /\ left' = {c}
    /\ UNCHANGED <<learned, paused, dirty, disk, ghosts>>

DeleteStoredMutant == \* only memory forgets the capability
    /\ doing = "delete"
    /\ gone' = gone \cup left
    /\ Persist
    /\ UNCHANGED <<memory, disk, saved, intact, forgotten>>

DeleteStored ==
    /\ doing = "delete"
    /\ storedKnown' = storedKnown \ left
    /\ storedUses' = [c \in Capability |-> IF c \in left THEN 0 ELSE storedUses[c]]
    /\ gone' = gone \cup left
    /\ Persist
    /\ UNCHANGED <<memory, storedLearned, storedGrants, storedPaused,
                   saved, intact, forgotten>>

\* Engine::forget(false): the kinds of agents' activity in turn, of which this
\* module keeps none, then the memory of it.
ForgetActivity ==
    /\ doing = "idle"
    /\ doing' = "clear activity"
    /\ UNCHANGED <<memory, disk, left, ghosts>>

ForgetLearned ==
    /\ doing = "clear activity"
    /\ learned' = {} /\ dirty' = TRUE
    /\ Persist
    /\ UNCHANGED <<known, grants, uses, paused, disk, ghosts>>

\* Engine::forget(true): every kind in turn, the capabilities before the
\* settings, then the memory -- but not the permissions -- and persist.
ForgetEverything ==
    /\ doing = "idle"
    /\ doing' = "clear capabilities"
    /\ UNCHANGED <<memory, disk, left, ghosts>>

ClearCapabilities ==
    /\ doing = "clear capabilities"
    /\ storedKnown' = {} /\ storedUses' = [c \in Capability |-> 0]
    /\ doing' = "clear settings"
    /\ UNCHANGED <<memory, storedLearned, storedGrants, storedPaused, left, ghosts>>

ClearSettings ==
    /\ doing = "clear settings"
    /\ storedLearned' = {} /\ storedPaused' = FALSE
    /\ storedGrants' = [c \in Capability |-> "undecided"]
    /\ doing' = "reset"
    /\ UNCHANGED <<memory, storedKnown, storedUses, left, ghosts>>

ForgetMemoryMutant == \* Experience::forget is not called
    /\ doing = "reset"
    /\ known' = {} /\ uses' = [c \in Capability |-> 0]
    /\ gone' = Capability /\ forgotten' = TRUE
    /\ doing' = "clear events"
    /\ UNCHANGED <<learned, grants, paused, dirty, disk, left, saved, intact>>

ForgetMemory ==
    /\ doing = "reset"
    /\ known' = {} /\ uses' = [c \in Capability |-> 0]
    /\ learned' = {}
    /\ gone' = Capability /\ forgotten' = TRUE
    /\ doing' = "clear events"
    /\ UNCHANGED <<grants, paused, dirty, disk, left, saved, intact>>

\* The event log goes last; only then is memory marked to be written.
ClearEvents ==
    /\ doing = "clear events"
    /\ dirty' = TRUE
    /\ Persist
    /\ UNCHANGED <<known, learned, grants, uses, paused, disk, ghosts>>

-----------------------------------------------------------------------------
(* Engine::persist: permissions always, the rest if something was learned. *)

Finish ==
    /\ doing' = "idle" /\ dirty' = FALSE /\ saved' = TRUE

SavePermissionsMutant == \* the dirty mark is not looked at
    /\ doing = "permissions"
    /\ storedGrants' = grants /\ storedPaused' = paused
    /\ Finish
    /\ UNCHANGED <<known, learned, grants, uses, paused,
                   storedKnown, storedLearned, storedUses, left, intact, gone, forgotten>>

SavePermissions ==
    /\ doing = "permissions"
    /\ storedGrants' = grants /\ storedPaused' = paused
    /\ IF dirty THEN doing' = "experience" /\ UNCHANGED <<dirty, saved>> ELSE Finish
    /\ UNCHANGED <<known, learned, grants, uses, paused,
                   storedKnown, storedLearned, storedUses, left, intact, gone, forgotten>>

SaveExperience ==
    /\ doing = "experience"
    /\ storedLearned' = learned
    /\ left' = known
    /\ IF known # {} THEN doing' = "capabilities" /\ UNCHANGED <<dirty, saved>> ELSE Finish
    /\ UNCHANGED <<known, learned, grants, uses, paused,
                   storedKnown, storedGrants, storedUses, storedPaused,
                   intact, gone, forgotten>>

SaveCapability(c) ==
    /\ doing = "capabilities" /\ c \in left
    /\ storedKnown' = storedKnown \cup {c}
    /\ storedUses' = [storedUses EXCEPT ![c] = uses[c]]
    /\ left' = left \ {c}
    /\ IF left' # {} THEN UNCHANGED <<doing, dirty, saved>> ELSE Finish
    /\ UNCHANGED <<known, learned, grants, uses, paused,
                   storedLearned, storedGrants, storedPaused,
                   intact, gone, forgotten>>

\* A transaction that does not commit ends the request with an error.
WriteFails ==
    /\ doing # "idle"
    /\ doing' = "idle" /\ left' = {}
    /\ saved' = FALSE
    /\ intact' = (intact /\ doing \in {"clear activity", "permissions", "experience",
                                     "capabilities"})
    /\ UNCHANGED <<memory, disk, gone, forgotten>>

-----------------------------------------------------------------------------
\* The service dies and Engine::open reads the store.
Restart ==
    /\ known' = storedKnown /\ learned' = storedLearned /\ grants' = storedGrants
    /\ uses' = storedUses
    /\ paused' = storedPaused /\ dirty' = FALSE
    /\ doing' = "idle" /\ left' = {}
    /\ saved' = TRUE /\ intact' = TRUE
    /\ UNCHANGED <<disk, gone, forgotten>>

Orderly ==
    \/ \E c \in Capability :
          \/ \E isCandidate \in BOOLEAN : AgentObserve(c, isCandidate)
          \/ \E decision \in Decision : DecideCapability(c, decision)
          \/ RunCapability(c) \/ DeleteCapability(c) \/ SaveCapability(c)
    \/ \E value \in BOOLEAN : Pause(value)
    \/ PersistTimer \/ DeleteStored
    \/ ForgetActivity \/ ForgetLearned \/ ForgetEverything
    \/ ClearCapabilities \/ ClearSettings \/ ForgetMemory \/ ClearEvents
    \/ SavePermissions \/ SaveExperience

Next == Orderly \/ WriteFails \/ Restart

Spec == Init /\ [][Next]_vars

\* A service that never dies and whose every transaction commits.
OrderlySpec == Init /\ [][Orderly]_vars

-----------------------------------------------------------------------------
(* Properties.                                                             *)

\* Every variable keeps its type.
TypeOK ==
    /\ known \subseteq Capability /\ learned \subseteq Capability
    /\ grants \in [Capability -> Decision] /\ uses \in [Capability -> 0..MaxUses]
    /\ paused \in BOOLEAN /\ dirty \in BOOLEAN
    /\ storedKnown \subseteq Capability /\ storedLearned \subseteq Capability
    /\ storedGrants \in [Capability -> Decision]
    /\ storedUses \in [Capability -> 0..MaxUses] /\ storedPaused \in BOOLEAN
    /\ doing \in Transactions /\ left \subseteq Capability
    /\ saved \in BOOLEAN /\ intact \in BOOLEAN
    /\ gone \subseteq Capability /\ forgotten \in BOOLEAN

\* Once a request has been answered without an error, nothing it or a request
\* before it decided or learned can be lost (engine.rs: persist, which looks at
\* Engine::dirty): the decisions, the pause, the capabilities, the evidence and
\* the counts in force are the stored ones.
AnsweredIsStored ==
    doing = "idle" /\ saved /\ intact =>
        /\ storedGrants = grants /\ storedPaused = paused
        /\ storedKnown = known /\ storedLearned = learned
        /\ \A c \in known : storedUses[c] = uses[c]

\* What was deleted, or forgotten with everything else, is neither known nor
\* stored until an agent's own report brings it back (engine.rs:
\* delete_capability, forget): no timer, retry or restart does.  That a report
\* can, of any action whatever, is because a deletion leaves the evidence:
\* EvidenceGoesToo.
GoneStaysGone ==
    /\ gone \cap known = {}
    /\ gone \cap storedKnown = {}

\* engine.rs:1070, of a deletion: "the capability and the evidence behind it are
\* removed" -- so none of it is left once the request has been answered.
EvidenceGoesToo ==
    doing = "idle" /\ saved /\ intact => gone \cap (learned \cup storedLearned) = {}

\* After forgetting everything no evidence survives either, in memory, on disk
\* or through a restart, while no agent has reported anything (engine.rs:
\* forget, "no record of this machine or of any AI that worked on it remains").
ForgottenLeavesNoEvidence ==
    forgotten => learned = {} /\ storedLearned = {}

\* engine.rs, promote: a capability created there "arrives unapproved, and
\* the user decides" -- so one that was deleted or forgotten and is learned
\* again does not inherit the approval it had.
ArrivesUnapproved ==
    [][\A c \in Capability : c \in gone /\ c \in known' => grants'[c] # "approved"]_vars

=============================================================================
