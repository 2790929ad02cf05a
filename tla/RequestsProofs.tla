---------------------------- MODULE RequestsProofs ----------------------------
(***************************************************************************)
(* What the engine knows and what its store holds, for any capabilities:   *)
(* types, that what was deleted or forgotten does not come back by itself, *)
(* and that what a request answered for is stored.  Then the set-up, for   *)
(* any files, owners and callers: a file loses something from known        *)
(* causes.  Last the exchange, for any bridges, lines and pieces: what an  *)
(* AI is told was done was done, and was asked for.                        *)
(***************************************************************************)
EXTENDS Lifecycle, Setup, Exchange, SumTheorems, FiniteSetTheorems, SequenceTheorems, TLAPS

LEMMA TypesOfStep == TypeOK /\ [Next]_vars => TypeOK'
<1>. SUFFICES ASSUME TypeOK, [Next]_vars PROVE TypeOK'
  OBVIOUS
<1>0. 0 \in 0..MaxUses
  BY UsesAssumption
<1>. USE UsesAssumption, <1>0 DEF TypeOK, Persist, Finish, Transactions, Decision
<1>1. ASSUME NEW c \in Capability, NEW isCandidate \in BOOLEAN, AgentObserve(c, isCandidate)
      PROVE  TypeOK'
  BY <1>1 DEF AgentObserve, Promote, disk
<1>2. ASSUME NEW c \in Capability, NEW decision \in Decision, DecideCapability(c, decision)
      PROVE  TypeOK'
  BY <1>2 DEF DecideCapability, disk, ghosts
<1>3. ASSUME NEW c \in Capability, RunCapability(c) PROVE TypeOK'
  BY <1>3 DEF RunCapability, disk, ghosts
<1>4. ASSUME NEW c \in Capability, DeleteCapability(c) PROVE TypeOK'
  BY <1>4 DEF DeleteCapability, disk, ghosts
<1>5. ASSUME NEW c \in Capability, SaveCapability(c) PROVE TypeOK'
  BY <1>5 DEF SaveCapability
<1>6. ASSUME NEW value \in BOOLEAN, Pause(value) PROVE TypeOK'
  BY <1>6 DEF Pause, disk, ghosts
<1>7. CASE PersistTimer \/ ForgetActivity \/ ForgetLearned \/ ForgetEverything
  BY <1>7 DEF PersistTimer, ForgetActivity, ForgetLearned, ForgetEverything, memory, disk, ghosts
<1>8. CASE DeleteStored
  BY <1>8 DEF DeleteStored, memory
<1>9. CASE ClearCapabilities \/ ClearSettings \/ ForgetMemory \/ ClearEvents
  <2>1. CASE ClearCapabilities
    BY <2>1 DEF ClearCapabilities, memory, ghosts
  <2>2. CASE ClearSettings
    BY <2>2 DEF ClearSettings, memory, ghosts
  <2>3. CASE ForgetMemory
    BY <2>3 DEF ForgetMemory, disk
  <2>4. CASE ClearEvents
    BY <2>4 DEF ClearEvents, disk, ghosts
  <2>5. QED
    BY <1>9, <2>1, <2>2, <2>3, <2>4
<1>10. CASE SavePermissions \/ SaveExperience
  BY <1>10 DEF SavePermissions, SaveExperience
<1>11. CASE WriteFails
  BY <1>11 DEF WriteFails, memory, disk
<1>12. CASE Restart
  BY <1>12 DEF Restart, disk
<1>13. CASE UNCHANGED vars
  BY <1>13 DEF vars, memory, disk, request, ghosts
<1>14. QED
  BY <1>1, <1>2, <1>3, <1>4, <1>5, <1>6, <1>7, <1>8, <1>9, <1>10, <1>11, <1>12, <1>13
     DEF Next, Orderly

LEMMA TypesOfInit == Init => TypeOK
<1>1. 0 \in 0..MaxUses
  BY UsesAssumption
<1>2. QED
  BY <1>1 DEF Init, TypeOK, Decision, Transactions

\* Every variable keeps its type, whatever fails and whenever the service dies.
THEOREM Typing == Spec => []TypeOK
<1>1. QED
  BY TypesOfInit, TypesOfStep, PTL DEF Spec

-----------------------------------------------------------------------------
(* Why nothing comes back by itself.                                       *)

\* Where a request is says what of the store has been dealt with already.
GoneInv ==
    /\ GoneStaysGone /\ ForgottenLeavesNoEvidence
    /\ doing = "delete" => left \cap known = {}
    /\ doing = "capabilities" => left \subseteq known
    /\ doing \in {"clear settings", "reset"} => storedKnown = {}
    /\ doing = "reset" => storedLearned = {}

LEMMA GoneOfStep == GoneInv /\ [Next]_vars => GoneInv'
<1>. SUFFICES ASSUME GoneInv, [Next]_vars PROVE GoneInv'
  OBVIOUS
<1>. USE DEF GoneInv, GoneStaysGone, ForgottenLeavesNoEvidence, Persist, Finish
<1>1. ASSUME NEW c \in Capability, NEW isCandidate \in BOOLEAN, AgentObserve(c, isCandidate)
      PROVE  GoneInv'
  BY <1>1 DEF AgentObserve, Promote, disk
<1>2. ASSUME NEW c \in Capability, NEW decision \in Decision, DecideCapability(c, decision)
      PROVE  GoneInv'
  BY <1>2 DEF DecideCapability, disk, ghosts
<1>3. ASSUME NEW c \in Capability, RunCapability(c) PROVE GoneInv'
  BY <1>3 DEF RunCapability, disk, ghosts
<1>4. ASSUME NEW c \in Capability, DeleteCapability(c) PROVE GoneInv'
  BY <1>4 DEF DeleteCapability, disk, ghosts
<1>5. ASSUME NEW c \in Capability, SaveCapability(c) PROVE GoneInv'
  BY <1>5 DEF SaveCapability
<1>6. ASSUME NEW value \in BOOLEAN, Pause(value) PROVE GoneInv'
  BY <1>6 DEF Pause, disk, ghosts
<1>7. CASE PersistTimer \/ ForgetActivity \/ ForgetLearned \/ ForgetEverything
  <2>1. CASE PersistTimer
    BY <2>1 DEF PersistTimer, memory, disk, ghosts
  <2>2. CASE ForgetActivity \/ ForgetEverything
    <3>1. CASE ForgetActivity
      BY <3>1 DEF ForgetActivity, memory, disk, ghosts
    <3>2. CASE ForgetEverything
      BY <3>2 DEF ForgetEverything, memory, disk, ghosts
    <3>3. QED
      BY <2>2, <3>1, <3>2
  <2>3. CASE ForgetLearned
    BY <2>3 DEF ForgetLearned, disk, ghosts
  <2>4. QED
    BY <1>7, <2>1, <2>2, <2>3
<1>8. CASE DeleteStored
  BY <1>8 DEF DeleteStored, memory
<1>9. CASE ClearCapabilities \/ ClearSettings
  <2>1. CASE ClearCapabilities
    BY <2>1 DEF ClearCapabilities, memory, ghosts
  <2>2. CASE ClearSettings
    BY <2>2 DEF ClearSettings, memory, ghosts
  <2>3. QED
    BY <1>9, <2>1, <2>2
<1>10. CASE ForgetMemory \/ ClearEvents
  <2>1. CASE ForgetMemory
    BY <2>1 DEF ForgetMemory, disk
  <2>2. CASE ClearEvents
    BY <2>2 DEF ClearEvents, disk, ghosts
  <2>3. QED
    BY <1>10, <2>1, <2>2
<1>11. CASE SavePermissions \/ SaveExperience
  <2>1. CASE SavePermissions
    BY <2>1 DEF SavePermissions
  <2>2. CASE SaveExperience
    BY <2>2 DEF SaveExperience
  <2>3. QED
    BY <1>11, <2>1, <2>2
<1>12. CASE WriteFails \/ Restart
  <2>1. CASE WriteFails
    BY <2>1 DEF WriteFails, memory, disk
  <2>2. CASE Restart
    BY <2>2 DEF Restart, disk
  <2>3. QED
    BY <1>12, <2>1, <2>2
<1>13. CASE UNCHANGED vars
  BY <1>13 DEF vars, memory, disk, request, ghosts
<1>14. QED
  BY <1>1, <1>2, <1>3, <1>4, <1>5, <1>6, <1>7, <1>8, <1>9, <1>10, <1>11, <1>12, <1>13
     DEF Next, Orderly

LEMMA GoneOfInit == Init => GoneInv
  BY DEF Init, GoneInv, GoneStaysGone, ForgottenLeavesNoEvidence

\* What was deleted or forgotten stays so until an agent brings it back
\* (engine.rs: delete_capability, forget), whatever fails in between.
THEOREM GoneStays == Spec => []GoneStaysGone
<1>1. GoneInv => GoneStaysGone
  BY DEF GoneInv
<1>2. QED
  BY <1>1, GoneOfInit, GoneOfStep, PTL DEF Spec

\* No evidence survives forgetting everything (engine.rs: forget).
THEOREM NoEvidenceSurvives == Spec => []ForgottenLeavesNoEvidence
<1>1. GoneInv => ForgottenLeavesNoEvidence
  BY DEF GoneInv
<1>2. QED
  BY <1>1, GoneOfInit, GoneOfStep, PTL DEF Spec

-----------------------------------------------------------------------------
(* Why what was answered is stored.                                        *)

CountsStored(S) == \A c \in S : storedUses[c] = uses[c]

StoredInv ==
    /\ TypeOK
    /\ doing = "idle" /\ saved => storedGrants = grants /\ storedPaused = paused /\ ~dirty
    /\ doing \in {"experience", "capabilities"} =>
          dirty /\ storedGrants = grants /\ storedPaused = paused
    \* The store never holds a capability memory does not know of.
    /\ intact => storedKnown \subseteq (known \cup (IF doing = "delete" THEN left ELSE {}))
    \* Without the dirty mark the rest is up to date.
    /\ intact /\ ~dirty /\ doing \in {"idle", "permissions", "delete", "clear activity"} =>
          known \subseteq storedKnown /\ storedLearned = learned /\ CountsStored(known)
    /\ doing = "delete" => left \cap known = {}
    /\ doing \in {"clear settings", "reset"} => storedKnown = {}
    /\ doing = "capabilities" =>
          /\ left \subseteq known /\ storedLearned = learned
          /\ known \ left \subseteq storedKnown /\ CountsStored(known \ left)

LEMMA StoredOfStep == StoredInv /\ [Next]_vars => StoredInv'
<1>. SUFFICES ASSUME StoredInv, [Next]_vars PROVE StoredInv'
  OBVIOUS
<1>1. TypeOK /\ TypeOK'
  BY TypesOfStep DEF StoredInv
<1>. USE <1>1 DEF StoredInv, CountsStored, Persist, Finish
<1>2. ASSUME NEW c \in Capability, NEW isCandidate \in BOOLEAN, AgentObserve(c, isCandidate)
      PROVE  StoredInv'
  BY <1>2 DEF AgentObserve, Promote, disk
<1>3. ASSUME NEW c \in Capability, NEW decision \in Decision, DecideCapability(c, decision)
      PROVE  StoredInv'
  BY <1>3 DEF DecideCapability, disk, ghosts
<1>4. ASSUME NEW c \in Capability, RunCapability(c) PROVE StoredInv'
  BY <1>4 DEF RunCapability, disk, ghosts
<1>5. ASSUME NEW c \in Capability, DeleteCapability(c) PROVE StoredInv'
  BY <1>5 DEF DeleteCapability, TypeOK, disk, ghosts
<1>6. ASSUME NEW c \in Capability, SaveCapability(c) PROVE StoredInv'
  BY <1>6 DEF SaveCapability, TypeOK
<1>7. ASSUME NEW value \in BOOLEAN, Pause(value) PROVE StoredInv'
  BY <1>7 DEF Pause, disk, ghosts
<1>8. CASE PersistTimer \/ ForgetActivity \/ ForgetLearned \/ ForgetEverything
  <2>1. CASE PersistTimer
    BY <2>1 DEF PersistTimer, memory, disk, ghosts
  <2>2. CASE ForgetActivity \/ ForgetEverything
    <3>1. CASE ForgetActivity
      BY <3>1 DEF ForgetActivity, memory, disk, ghosts
    <3>2. CASE ForgetEverything
      BY <3>2 DEF ForgetEverything, memory, disk, ghosts
    <3>3. QED
      BY <2>2, <3>1, <3>2
  <2>3. CASE ForgetLearned
    BY <2>3 DEF ForgetLearned, disk, ghosts
  <2>4. QED
    BY <1>8, <2>1, <2>2, <2>3
<1>9. CASE DeleteStored
  BY <1>9 DEF DeleteStored, TypeOK, memory
<1>10. CASE ClearCapabilities \/ ClearSettings
  BY <1>10 DEF ClearCapabilities, ClearSettings, memory, ghosts
<1>11. CASE ForgetMemory \/ ClearEvents
  <2>1. CASE ForgetMemory
    BY <2>1 DEF ForgetMemory, disk
  <2>2. CASE ClearEvents
    BY <2>2 DEF ClearEvents, disk, ghosts
  <2>3. QED
    BY <1>11, <2>1, <2>2
<1>12. CASE SavePermissions
  BY <1>12 DEF SavePermissions
<1>13. CASE SaveExperience
  BY <1>13 DEF SaveExperience
<1>14. CASE WriteFails
  <2>1. intact' => intact /\ doing \in {"clear activity", "permissions", "experience",
                                    "capabilities"}
    BY <1>14 DEF WriteFails
  <2>2. doing' = "idle" /\ saved' = FALSE /\ UNCHANGED <<memory, disk>>
    BY <1>14 DEF WriteFails
  <2>3. UNCHANGED <<known, learned, grants, uses, paused, dirty, storedKnown, storedLearned,
                    storedGrants, storedUses, storedPaused>>
    BY <2>2 DEF memory, disk
  <2>4. QED
    BY <2>1, <2>2, <2>3
<1>15. CASE Restart
  BY <1>15 DEF Restart, disk
<1>16. CASE UNCHANGED vars
  BY <1>16 DEF vars, memory, disk, request, ghosts
<1>17. QED
  BY <1>2, <1>3, <1>4, <1>5, <1>6, <1>7, <1>8, <1>9, <1>10, <1>11, <1>12, <1>13, <1>14,
     <1>15, <1>16 DEF Next, Orderly

\* Once a request has been answered without an error, what it and the requests
\* before it decided or learned survives a restart (engine.rs: persist).
THEOREM AnsweredStaysStored == Spec => []AnsweredIsStored
<1>1. Init => StoredInv
  BY TypesOfInit DEF Init, StoredInv, CountsStored
<1>2. StoredInv => AnsweredIsStored
  BY DEF StoredInv, AnsweredIsStored, CountsStored
<1>3. QED
  BY <1>1, <1>2, StoredOfStep, PTL DEF Spec


-----------------------------------------------------------------------------
(* The set-up: what a request has read and not yet written is all that its *)
(* owner wanted in the file, unless one of the known causes has come.      *)

\* The one request that is at the file has what its owner wanted there, and the
\* file has it until it is opened.
SafeFile(d) ==
    /\ \A b, c \in Busy(d) : b = c
    /\ Busy(d) = {} => wanted[d] \subseteq file[d].theirs
    /\ \A c \in Busy(d) :
          /\ wanted[d] \subseteq merge[c].text.theirs
          /\ merge[c].stage = "opening" => wanted[d] \subseteq file[d].theirs

CauseInv == \A d \in File \ excused : SafeFile(d)

LEMMA SetupStarts == SetupInit => SetupTypeOK /\ CauseInv
<1>. SUFFICES ASSUME SetupInit PROVE SetupTypeOK /\ CauseInv
  OBVIOUS
<1>1. Empty \in Content
  BY DEF Empty, Content
<1>2. \A o \in {"none", "old"} : [text |-> "whole", theirs |-> Setting, ours |-> o] \in Content
  BY DEF Content
<1>3. file \in [File -> Content]
  BY <1>1, <1>2 DEF SetupInit
<1>4. \A d \in File : file[d].theirs \in SUBSET Setting
  BY <1>3 DEF Content
<1>5. \A d \in File : Busy(d) = {}
  BY DEF SetupInit, Busy
<1>6. SetupTypeOK
  BY <1>3, <1>4, SetupAssumption DEF SetupInit, SetupTypeOK
<1>7. QED
  BY <1>4, <1>5, <1>6 DEF SetupInit, CauseInv, SafeFile

LEMMA BusyIsWriting ==
    ASSUME SetupTypeOK, NEW c \in Caller, merge[c] # Idle
    PROVE  /\ merge[c] \in Writing /\ merge[c].file \in File /\ merge[c].text \in Content
           /\ merge[c].stage \in {"opening", "filling"} /\ c \in Busy(merge[c].file)
<1>1. merge[c] \in Writing
  BY DEF SetupTypeOK
<1>2. QED
  BY <1>1 DEF Writing, Busy

LEMMA MergedIsContent ==
    ASSUME NEW d \in File, NEW text \in Content
    PROVE  Merged(d, text) \in Content /\ Merged(d, text).theirs = TheirsKept(d, text)
<1>1. text.theirs \in SUBSET Setting /\ text.ours \in {"none", "old", "current"}
  BY DEF Content
<1>2. TheirsKept(d, text) \in SUBSET Setting
  BY <1>1 DEF TheirsKept
<1>. DEFINE t == IF text.text = "garbled" THEN "garbled" ELSE "whole"
            o == IF Format[d] = "table" /\ text.ours # "none" THEN text.ours ELSE "current"
<1>3. t \in {"empty", "whole", "garbled"} /\ o \in {"none", "old", "current"}
  BY <1>1
<1>4. Merged(d, text) = [text |-> t, theirs |-> TheirsKept(d, text), ours |-> o]
  BY DEF Merged
<1>. HIDE DEF t, o
<1>5. QED
  BY <1>2, <1>3, <1>4 DEF Content

\* A file nobody's request moved at, and its owner left alone.
LEMMA OtherFiles ==
    ASSUME NEW d \in File, SafeFile(d), file'[d] = file[d], wanted'[d] = wanted[d],
           \A c \in Caller : \/ merge'[c] = merge[c]
                             \/ c \notin Busy(d) /\ (merge'[c] # Idle => merge'[c].file # d)
    PROVE  SafeFile(d)'
BY DEF SafeFile, Busy

LEMMA ReadIsSafe ==
    ASSUME SetupTypeOK, CauseInv, NEW c \in Caller, NEW d \in File, Read(c, d)
    PROVE  SetupTypeOK' /\ CauseInv'
<1>. DEFINE text == IF readable[d] THEN file[d] ELSE Empty
            m == [file |-> d, stage |-> "opening", text |-> Merged(d, text)]
<1>1. text \in Content
  BY DEF SetupTypeOK, Empty, Content
<1>. HIDE DEF text
<1>2. Merged(d, text) \in Content /\ Merged(d, text).theirs = TheirsKept(d, text)
  BY <1>1, MergedIsContent
<1>3. /\ m \in Writing /\ m.file = d /\ m.stage = "opening" /\ m # Idle
      /\ m.text.theirs = TheirsKept(d, text)
  BY <1>2, SetupAssumption DEF Writing
<1>. HIDE DEF m
<1>4. /\ merge[c] = Idle /\ merge' = [merge EXCEPT ![c] = m]
      /\ UNCHANGED <<file, readable, wanted, edits, failures>>
      /\ excused' = IF \/ ~readable[d] \/ Busy(d) # {}
                       \/ Format[d] = "hooks" /\ text.theirs \cap Namesake # {}
                    THEN excused \cup {d} ELSE excused
  BY DEF Read, text, m
<1>5. merge'[c] = m /\ \A b \in Caller \ {c} : merge'[b] = merge[b]
  BY <1>4 DEF SetupTypeOK
<1>6. SetupTypeOK'
  BY <1>3, <1>4 DEF SetupTypeOK
<1>7. ASSUME NEW f \in File \ excused' PROVE SafeFile(f)'
  <2>1. f \in File \ excused /\ SafeFile(f)
    BY <1>4, <1>7 DEF CauseInv
  <2>2. CASE f # d
    <3>1. c \notin Busy(f) /\ merge'[c].file # f
      BY <1>3, <1>4, <1>5, <2>2 DEF Busy
    <3>2. QED
      BY <1>4, <1>5, <2>1, <3>1, OtherFiles
  <2>3. CASE f = d
    <3>1. readable[d] /\ Busy(d) = {} /\ text = file[d]
      BY <1>4, <1>7, <2>3 DEF text
    <3>2. Format[d] = "hooks" => text.theirs \cap Namesake = {}
      BY <1>4, <1>7, <2>3
    <3>3. TheirsKept(d, text) = file[d].theirs
      BY <3>1, <3>2 DEF TheirsKept
    <3>4. wanted[d] \subseteq file[d].theirs
      BY <2>1, <2>3, <3>1 DEF SafeFile
    <3>5. Busy(d)' = {c}
      BY <1>3, <1>5, <3>1 DEF Busy
    <3>6. QED
      BY <1>3, <1>4, <1>5, <2>3, <3>3, <3>4, <3>5 DEF SafeFile
  <2>4. QED
    BY <2>2, <2>3
<1>8. QED
  BY <1>6, <1>7 DEF CauseInv

LEMMA OpenIsSafe ==
    ASSUME SetupTypeOK, CauseInv, NEW c \in Caller, Open(c)
    PROVE  SetupTypeOK' /\ CauseInv'
<1>. DEFINE m == [merge[c] EXCEPT !.stage = "filling"]
            d == merge[c].file
<1>1. merge[c] \in Writing /\ d \in File /\ merge[c].text \in Content /\ c \in Busy(d)
  BY BusyIsWriting DEF Open
<1>2. m \in Writing /\ m.file = d /\ m.stage = "filling" /\ m.text = merge[c].text /\ m # Idle
  BY <1>1, SetupAssumption DEF Writing
<1>3. /\ merge[c] # Idle /\ merge[c].stage = "opening"
      /\ file' = [file EXCEPT ![d] = Empty] /\ merge' = [merge EXCEPT ![c] = m]
      /\ UNCHANGED <<readable, wanted, edits, failures, excused>>
  BY DEF Open, SetupTypeOK
<1>. HIDE DEF m
<1>4. merge'[c] = m /\ \A b \in Caller \ {c} : merge'[b] = merge[b]
  BY <1>3 DEF SetupTypeOK
<1>5. SetupTypeOK'
  BY <1>1, <1>2, <1>3 DEF SetupTypeOK, Empty, Content
<1>6. ASSUME NEW f \in File \ excused' PROVE SafeFile(f)'
  <2>1. f \in File \ excused /\ SafeFile(f)
    BY <1>3, <1>6 DEF CauseInv
  <2>2. CASE f # d
    <3>1. file'[f] = file[f] /\ c \notin Busy(f) /\ merge'[c].file # f
      BY <1>2, <1>3, <1>4, <2>1, <2>2 DEF SetupTypeOK, Busy
    <3>2. QED
      BY <1>3, <1>4, <2>1, <3>1, OtherFiles
  <2>3. CASE f = d
    <3>1. Busy(f) = {c} /\ wanted[f] \subseteq merge[c].text.theirs
      BY <1>1, <2>1, <2>3 DEF SafeFile
    <3>2. Busy(f)' = {c}
      BY <1>2, <1>4, <2>3, <3>1 DEF Busy
    <3>3. QED
      BY <1>2, <1>3, <1>4, <3>1, <3>2 DEF SafeFile
  <2>4. QED
    BY <2>2, <2>3
<1>7. QED
  BY <1>5, <1>6 DEF CauseInv

LEMMA FillIsSafe ==
    ASSUME SetupTypeOK, CauseInv, NEW c \in Caller, Fill(c)
    PROVE  SetupTypeOK' /\ CauseInv'
<1>. DEFINE d == merge[c].file
            text == merge[c].text
            torn == [text EXCEPT !.text = "garbled"]
<1>1. merge[c] \in Writing /\ d \in File /\ text \in Content /\ c \in Busy(d)
  BY BusyIsWriting DEF Fill
<1>2. torn \in Content /\ torn.theirs = text.theirs
  BY <1>1 DEF Content
<1>3. /\ \/ file' = [file EXCEPT ![d] = text]
         \/ file' = [file EXCEPT ![d] = torn]
      /\ merge' = [merge EXCEPT ![c] = Idle]
      /\ UNCHANGED <<readable, wanted, edits, failures, excused>>
  BY DEF Fill
<1>. HIDE DEF torn
<1>4. merge'[c] = Idle /\ \A b \in Caller \ {c} : merge'[b] = merge[b]
  BY <1>3 DEF SetupTypeOK
<1>5. SetupTypeOK'
  BY <1>1, <1>2, <1>3 DEF SetupTypeOK
<1>6. ASSUME NEW f \in File \ excused' PROVE SafeFile(f)'
  <2>1. f \in File \ excused /\ SafeFile(f)
    BY <1>3, <1>6 DEF CauseInv
  <2>2. CASE f # d
    <3>1. file'[f] = file[f] /\ c \notin Busy(f)
      BY <1>3, <2>1, <2>2 DEF SetupTypeOK, Busy
    <3>2. QED
      BY <1>3, <1>4, <2>1, <3>1, OtherFiles
  <2>3. CASE f = d
    <3>1. Busy(f) = {c} /\ wanted[f] \subseteq text.theirs
      BY <1>1, <2>1, <2>3 DEF SafeFile
    <3>2. Busy(f)' = {}
      BY <1>4, <3>1 DEF Busy
    <3>3. file'[f].theirs = text.theirs
      BY <1>1, <1>2, <1>3, <2>3 DEF SetupTypeOK
    <3>4. QED
      BY <1>3, <3>1, <3>2, <3>3 DEF SafeFile
  <2>4. QED
    BY <2>2, <2>3
<1>7. QED
  BY <1>5, <1>6 DEF CauseInv

LEMMA FailIsSafe ==
    ASSUME SetupTypeOK, CauseInv, NEW c \in Caller, Fail(c)
    PROVE  SetupTypeOK' /\ CauseInv'
<1>. DEFINE d == merge[c].file
<1>1. /\ merge[c] \in Writing /\ d \in File /\ c \in Busy(d)
      /\ merge[c].stage \in {"opening", "filling"}
  BY BusyIsWriting DEF Fail
<1>2. /\ merge' = [merge EXCEPT ![c] = Idle] /\ UNCHANGED <<file, readable, wanted, edits>>
      /\ failures < MaxFailures /\ failures' = failures + 1
      /\ excused' = IF merge[c].stage = "filling" THEN excused \cup {d} ELSE excused
  BY DEF Fail
<1>3. merge'[c] = Idle /\ \A b \in Caller \ {c} : merge'[b] = merge[b]
  BY <1>2 DEF SetupTypeOK
<1>4. SetupTypeOK'
  BY <1>1, <1>2, SetupAssumption DEF SetupTypeOK
<1>5. ASSUME NEW f \in File \ excused' PROVE SafeFile(f)'
  <2>1. f \in File \ excused /\ SafeFile(f)
    BY <1>2, <1>5 DEF CauseInv
  <2>2. CASE f # d
    <3>1. c \notin Busy(f)
      BY <2>2 DEF Busy
    <3>2. QED
      BY <1>2, <1>3, <2>1, <3>1, OtherFiles
  <2>3. CASE f = d
    <3>1. merge[c].stage = "opening"
      BY <1>1, <1>2, <1>5, <2>3
    <3>2. Busy(f) = {c} /\ wanted[f] \subseteq file[f].theirs
      BY <1>1, <2>1, <2>3, <3>1 DEF SafeFile
    <3>3. Busy(f)' = {}
      BY <1>3, <3>2 DEF Busy
    <3>4. QED
      BY <1>2, <3>2, <3>3 DEF SafeFile
  <2>4. QED
    BY <2>2, <2>3
<1>6. QED
  BY <1>4, <1>5 DEF CauseInv

LEMMA CrashIsSafe ==
    ASSUME SetupTypeOK, CauseInv, Crash
    PROVE  SetupTypeOK' /\ CauseInv'
<1>1. /\ failures < MaxFailures /\ failures' = failures + 1
      /\ excused' = excused \cup {d \in File : \E c \in Busy(d) : merge[c].stage = "filling"}
      /\ merge' = [c \in Caller |-> Idle] /\ UNCHANGED <<file, readable, wanted, edits>>
  BY DEF Crash
<1>2. SetupTypeOK'
  BY <1>1, SetupAssumption DEF SetupTypeOK
<1>3. ASSUME NEW f \in File \ excused' PROVE SafeFile(f)'
  <2>1. f \in File \ excused /\ SafeFile(f) /\ \A c \in Busy(f) : merge[c].stage # "filling"
    BY <1>1, <1>3 DEF CauseInv
  <2>2. \A c \in Busy(f) : merge[c].stage = "opening"
    BY <2>1, BusyIsWriting DEF Busy
  <2>3. wanted[f] \subseteq file[f].theirs
    BY <2>1, <2>2 DEF SafeFile
  <2>4. Busy(f)' = {}
    BY <1>1 DEF Busy
  <2>5. QED
    BY <1>1, <2>3, <2>4 DEF SafeFile
<1>4. QED
  BY <1>2, <1>3 DEF CauseInv

LEMMA EditIsSafe ==
    ASSUME SetupTypeOK, CauseInv, NEW d \in File, Edit(d)
    PROVE  SetupTypeOK' /\ CauseInv'
<1>1. /\ edits < MaxEdits /\ edits' = edits + 1 /\ UNCHANGED <<readable, merge, failures>>
      /\ excused' = IF Busy(d) = {} THEN excused ELSE excused \cup {d}
  BY DEF Edit
<1>2. file[d] \in Content /\ wanted[d] \subseteq Setting
  BY DEF SetupTypeOK
<1>. DEFINE Gains(new) ==
              /\ file' \in [File -> Content] /\ wanted' \in [File -> SUBSET Setting]
              /\ file'[d].theirs = file[d].theirs \cup new /\ wanted'[d] = wanted[d] \cup new
              /\ \A f \in File \ {d} : file'[f] = file[f] /\ wanted'[f] = wanted[f]
<1>3. PICK new \in SUBSET Setting : Gains(new)
  <2>1. ASSUME NEW s \in Setting,
               file' = [file EXCEPT ![d].theirs = @ \cup {s},
                                    ![d].text = IF @ = "empty" THEN "whole" ELSE @],
               wanted' = [wanted EXCEPT ![d] = @ \cup {s}]
        PROVE  Gains({s})
    BY <1>2, <2>1 DEF SetupTypeOK, Content
  <2>2. ASSUME NEW text \in {"whole", "garbled"}, file' = [file EXCEPT ![d].text = text],
               wanted' = wanted
        PROVE  Gains({})
    BY <1>2, <2>2 DEF SetupTypeOK, Content
  <2>. HIDE DEF Gains
  <2>3. CASE \E s \in Setting : Gains({s})
    BY <2>3
  <2>4. CASE Gains({})
    BY <2>4
  <2>5. QED
    BY <2>1, <2>2, <2>3, <2>4 DEF Edit
<1>4. SetupTypeOK'
  BY <1>1, <1>3, SetupAssumption DEF SetupTypeOK
<1>5. ASSUME NEW f \in File \ excused' PROVE SafeFile(f)'
  <2>1. f \in File \ excused /\ SafeFile(f)
    BY <1>1, <1>5 DEF CauseInv
  <2>2. CASE f # d
    BY <1>1, <1>3, <2>1, <2>2, OtherFiles
  <2>3. CASE f = d
    <3>1. Busy(f) = {} /\ Busy(f)' = {}
      BY <1>1, <1>5, <2>3 DEF Busy
    <3>2. wanted[f] \subseteq file[f].theirs
      BY <2>1, <3>1 DEF SafeFile
    <3>3. QED
      BY <1>3, <2>3, <3>1, <3>2 DEF SafeFile
  <2>4. QED
    BY <2>2, <2>3
<1>6. QED
  BY <1>4, <1>5 DEF CauseInv

LEMMA SetupStepIsSafe ==
    SetupTypeOK /\ CauseInv /\ [SetupNext]_setupVars => SetupTypeOK' /\ CauseInv'
<1>. SUFFICES ASSUME SetupTypeOK, CauseInv, [SetupNext]_setupVars
              PROVE  SetupTypeOK' /\ CauseInv'
  OBVIOUS
<1>1. ASSUME UNCHANGED <<file, merge, wanted, excused, edits, failures>>,
             readable' \in [File -> BOOLEAN]
      PROVE  SetupTypeOK' /\ CauseInv'
  BY <1>1 DEF SetupTypeOK, CauseInv, SafeFile, Busy
<1>2. ASSUME NEW d \in File, Recode(d) PROVE SetupTypeOK' /\ CauseInv'
  BY <1>1, <1>2 DEF Recode, SetupTypeOK
<1>3. CASE UNCHANGED setupVars
  BY <1>1, <1>3 DEF setupVars, SetupTypeOK
<1>4. QED
  BY <1>2, <1>3, ReadIsSafe, OpenIsSafe, FillIsSafe, FailIsSafe, CrashIsSafe, EditIsSafe
  DEF SetupNext

\* However many set-ups run, overlap with each other and with the owners of the
\* files, fail and die, a file loses what its owner put there from the causes
\* that are known, and from no other (setup.rs, apply).
THEOREM LossIsCaused == SetupSpec => []LossHasACause
<1>1. CauseInv => LossHasACause
  BY DEF CauseInv, LossHasACause, SafeFile
<1>2. QED
  BY <1>1, SetupStarts, SetupStepIsSafe, PTL DEF SetupSpec

-----------------------------------------------------------------------------
(* What an AI is told is true.                                             *)

Told == {"value", "refused", "not running", "error", "nothing"}
CallKey == Asker \X Nat \X {1, 2}

Bridge ==
    [at : {"reading", "connecting", "calling", "ended"}, line : Nat, step : 0 .. 2,
     client : BOOLEAN]

CallState ==
    [sent : 0 .. 3, closed : BOOLEAN,
     thread : {"reading", "waiting", "performing", "replying", "gone"},
     status : {0, 200, 400, 401}, shown : 0 .. 2]

ExchangeTypes ==
    /\ asked \in [Asker -> Seq(Kind)]
    /\ heard \in [Asker -> Seq([line : Nat, what : Told])]
    /\ bridge \in [Asker -> Bridge]
    /\ DOMAIN calls \subseteq DOMAIN performed
    /\ DOMAIN performed \subseteq CallKey
    /\ \A c \in DOMAIN performed : performed[c] \in {0, 1}

\* Where a bridge is on the line it handles: it calls for a line of a tool once
\* and for a handshake at most twice, and while it calls the call is there.
OnItsLine(a) ==
    /\ bridge[a].line \in 1 .. Len(asked[a]) + 1
    /\ bridge[a].at \in {"connecting", "calling"} =>
        /\ bridge[a].line <= Len(asked[a]) /\ Line(a) \in {"initialize", "tool"}
        /\ bridge[a].step \in 1 .. LastStep(Line(a))
    /\ bridge[a].at = "calling" =>
        Call(a) \in DOMAIN calls /\ ~calls[Call(a)].closed

\* Every call was made from a line and a step the bridge has come to.
Behind(c, place) ==
    \/ c[2] < place.line
    \/ c[2] = place.line /\ place.at = "calling" /\ c[3] <= place.step
    \/ c[2] = place.line /\ place.at = "connecting" /\ c[3] < place.step
    \/ c[2] = place.line /\ place.at = "ended"

MadeFromALine(c) ==
    /\ c[2] \in 1 .. Len(asked[c[1]])
    /\ c[3] = 2 => asked[c[1]][c[2]] = "initialize"
    /\ Behind(c, bridge[c[1]])

\* How far a call is, and how often it was performed.
Fits(call, ran) ==
    /\ call \in CallState
    /\ call.thread \in {"waiting", "performing"} => call.sent = WholeRequest
    /\ call.thread \in {"reading", "waiting", "performing"} => ran = 0
    /\ call.status = 200 => ran = 1
    /\ ran = 1 => call.sent = WholeRequest

Ran(c) == c \in DOMAIN performed /\ performed[c] = 1

\* What was heard: the answers of the lines that want one, in their order, and
\* what is told as an answer of a tool comes from a run of it.
HeardInOrder(a) ==
    /\ \A m, n \in DOMAIN heard[a] : m < n => heard[a][m].line < heard[a][n].line
    /\ {heard[a][n].line : n \in DOMAIN heard[a]} =
          {l \in 1 .. bridge[a].line - 1 : Wants(asked[a][l])}
    /\ \A n \in DOMAIN heard[a] :
          asked[a][heard[a][n].line] = "tool" /\ heard[a][n].what \in {"value", "nothing"} =>
             Ran(<<a, heard[a][n].line, 1>>)

ExchangeInv ==
    /\ ExchangeTypes
    /\ \A a \in Asker : OnItsLine(a) /\ HeardInOrder(a)
    /\ \A c \in DOMAIN performed : MadeFromALine(c)
    /\ \A c \in DOMAIN calls : Fits(calls[c], performed[c])
    /\ \A c \in DOMAIN calls : c = holder => calls[c].thread = "performing"
    /\ holder = Nobody \/ holder \in DOMAIN calls

\* What calls there are, which of them has the engine, and how far they are.
CallsFit ==
    /\ DOMAIN calls \subseteq DOMAIN performed
    /\ \A c \in DOMAIN calls : Fits(calls[c], performed[c])
    /\ \A c \in DOMAIN calls : c = holder => calls[c].thread = "performing"
    /\ holder = Nobody \/ holder \in DOMAIN calls

\* A step that changes one call at most, and lets go of no call of a bridge.
KeepsWhatIsOpen ==
    /\ DOMAIN calls' \subseteq DOMAIN calls
    /\ \A c \in DOMAIN calls : ~calls[c].closed => c \in DOMAIN calls' /\ ~calls'[c].closed

\* What was performed stays performed, and is performed once.
PerformedGrows ==
    /\ DOMAIN performed' = DOMAIN performed
    /\ \A c \in DOMAIN performed :
          performed'[c] \in {0, 1} /\ (performed[c] = 1 => performed'[c] = 1)

LEMMA NobodyIsNoCall == Nobody \notin CallKey
BY DEF Nobody, CallKey

LEMMA Became ==
    ASSUME NEW c \in DOMAIN calls, NEW call, Becomes(c, call)
    PROVE  /\ DOMAIN calls' \subseteq DOMAIN calls /\ DOMAIN calls \ {c} \subseteq DOMAIN calls'
           /\ \A d \in DOMAIN calls \ {c} : calls'[d] = calls[d]
           /\ c \in DOMAIN calls' => calls'[c] = call
           /\ ~(call.closed /\ call.thread = "gone") => c \in DOMAIN calls'
<1>1. CASE call.closed /\ call.thread = "gone"
  BY <1>1 DEF Becomes
<1>2. CASE ~(call.closed /\ call.thread = "gone")
  BY <1>2 DEF Becomes
<1>3. QED
  BY <1>1, <1>2

\* The engine is with nobody, with the call of the step, or with another call.
LEMMA CallStep ==
    ASSUME ExchangeInv, NEW c \in DOMAIN calls, NEW call, Becomes(c, call),
           Fits(call, performed'[c]), PerformedGrows,
           \A d \in DOMAIN performed \ {c} : performed'[d] = performed[d],
           \/ holder' = Nobody
           \/ holder' = c /\ call.thread = "performing"
           \/ holder' = holder /\ holder # c
    PROVE  CallsFit'
<1>1. /\ DOMAIN calls' \subseteq DOMAIN calls /\ DOMAIN calls \ {c} \subseteq DOMAIN calls'
      /\ \A d \in DOMAIN calls \ {c} : calls'[d] = calls[d]
      /\ c \in DOMAIN calls' => calls'[c] = call
      /\ ~(call.closed /\ call.thread = "gone") => c \in DOMAIN calls'
  BY Became
<1>2. /\ DOMAIN calls \subseteq DOMAIN performed /\ DOMAIN performed \subseteq CallKey
      /\ \A d \in DOMAIN calls : Fits(calls[d], performed[d])
      /\ \A d \in DOMAIN calls : d = holder => calls[d].thread = "performing"
      /\ holder = Nobody \/ holder \in DOMAIN calls
  BY DEF ExchangeInv, ExchangeTypes
<1>3. DOMAIN calls' \subseteq DOMAIN performed'
  BY <1>1, <1>2 DEF PerformedGrows
<1>4. ASSUME NEW d \in DOMAIN calls' PROVE Fits(calls'[d], performed'[d])
  <2>1. CASE d = c
    BY <1>1, <2>1
  <2>2. CASE d # c
    <3>1. d \in DOMAIN performed \ {c} /\ d \in DOMAIN calls \ {c}
      BY <1>1, <1>2, <2>2
    <3>2. calls'[d] = calls[d] /\ performed'[d] = performed[d]
      BY <1>1, <3>1
    <3>3. Fits(calls[d], performed[d])
      BY <1>2, <3>1
    <3>4. QED
      BY <3>2, <3>3
  <2>3. QED
    BY <2>1, <2>2
<1>5. ASSUME NEW d \in DOMAIN calls', d = holder' PROVE calls'[d].thread = "performing"
  <2>1. d # Nobody
    BY <1>1, <1>2, NobodyIsNoCall
  <2>2. CASE d = c
    BY <1>1, <1>5, <2>1, <2>2
  <2>3. CASE d # c
    <3>1. d \in DOMAIN calls /\ calls'[d] = calls[d] /\ d = holder
      BY <1>1, <1>5, <2>1, <2>3
    <3>2. QED
      BY <1>2, <3>1
  <2>4. QED
    BY <2>2, <2>3
<1>6. holder' = Nobody \/ holder' \in DOMAIN calls'
  <2>1. CASE holder' = c /\ call.thread = "performing"
    BY <1>1, <2>1
  <2>2. CASE holder' = holder /\ holder # c
    BY <1>1, <1>2, <2>2
  <2>3. QED
    BY <2>1, <2>2
<1>7. QED
  BY <1>3, <1>4, <1>5, <1>6 DEF CallsFit

\* A step of the service's leaves the bridges where they are.
LEMMA BridgesStay ==
    ASSUME ExchangeInv, UNCHANGED <<asked, heard, bridge>>,
           CallsFit', PerformedGrows, KeepsWhatIsOpen
    PROVE  ExchangeInv'
<1>1. /\ ExchangeTypes /\ CallsFit'
      /\ \A a \in Asker : OnItsLine(a) /\ HeardInOrder(a)
      /\ \A c \in DOMAIN performed : MadeFromALine(c)
      /\ asked' = asked /\ heard' = heard /\ bridge' = bridge
  BY DEF ExchangeInv
<1>2. ExchangeTypes'
  BY <1>1 DEF ExchangeTypes, PerformedGrows, CallsFit
<1>3. ASSUME NEW a \in Asker PROVE OnItsLine(a)'
  <2>1. OnItsLine(a)
    BY <1>1
  <2>2. Call(a)' = Call(a) /\ Line(a)' = Line(a)
    BY <1>1 DEF Call, Line
  <2>3. bridge[a].at = "calling" => Call(a) \in DOMAIN calls' /\ ~calls'[Call(a)].closed
    BY <2>1 DEF OnItsLine, KeepsWhatIsOpen
  <2>4. QED
    BY <1>1, <2>1, <2>2, <2>3 DEF OnItsLine
<1>4. ASSUME NEW a \in Asker PROVE HeardInOrder(a)'
  <2>1. HeardInOrder(a)
    BY <1>1
  <2>2. \A c : Ran(c) => Ran(c)'
    BY DEF Ran, PerformedGrows
  <2>3. QED
    BY <1>1, <2>1, <2>2 DEF HeardInOrder
<1>5. ASSUME NEW c \in DOMAIN performed' PROVE MadeFromALine(c)'
  <2>1. c \in DOMAIN performed /\ MadeFromALine(c)
    BY <1>1 DEF PerformedGrows
  <2>2. QED
    BY <1>1, <2>1 DEF MadeFromALine, Behind
<1>6. QED
  BY <1>1, <1>2, <1>3, <1>4, <1>5 DEF ExchangeInv, CallsFit

\* A thread goes on: its call stays with its bridge, and is performed at most once.
LEMMA ThreadStep ==
    ASSUME ExchangeInv, UNCHANGED <<asked, heard, bridge>>,
           NEW c \in DOMAIN calls, NEW call, Becomes(c, call), call.closed = calls[c].closed,
           Fits(call, performed'[c]), PerformedGrows,
           \A d \in DOMAIN performed \ {c} : performed'[d] = performed[d],
           \/ holder' = Nobody
           \/ holder' = c /\ call.thread = "performing"
           \/ holder' = holder /\ holder # c
    PROVE  ExchangeInv'
<1>1. CallsFit'
  BY CallStep
<1>2. KeepsWhatIsOpen
  <2>1. /\ DOMAIN calls' \subseteq DOMAIN calls /\ DOMAIN calls \ {c} \subseteq DOMAIN calls'
        /\ \A d \in DOMAIN calls \ {c} : calls'[d] = calls[d]
        /\ c \in DOMAIN calls' => calls'[c] = call
        /\ ~(call.closed /\ call.thread = "gone") => c \in DOMAIN calls'
    BY Became
  <2>2. ASSUME NEW d \in DOMAIN calls, ~calls[d].closed
        PROVE  d \in DOMAIN calls' /\ ~calls'[d].closed
    BY <2>1, <2>2
  <2>3. QED
    BY <2>1, <2>2 DEF KeepsWhatIsOpen
<1>3. QED
  BY <1>1, <1>2, BridgesStay

LEMMA CallFits ==
    ASSUME ExchangeInv, NEW c \in DOMAIN calls
    PROVE  /\ Fits(calls[c], performed[c]) /\ c \in DOMAIN performed /\ performed[c] \in {0, 1}
           /\ c = holder => calls[c].thread = "performing"
BY DEF ExchangeInv, ExchangeTypes

LEMMA PerformedStays ==
    ASSUME ExchangeInv, performed' = performed
    PROVE  PerformedGrows
BY DEF ExchangeInv, ExchangeTypes, PerformedGrows

PerformedBy(c, n) == performed' = [performed EXCEPT ![c] = @ + n]

LEMMA PerformedOnce ==
    ASSUME ExchangeInv, NEW c \in DOMAIN calls, calls[c].thread = "performing", NEW n \in {0, 1},
           PerformedBy(c, n)
    PROVE  /\ PerformedGrows /\ performed'[c] = n
           /\ \A d \in DOMAIN performed \ {c} : performed'[d] = performed[d]
<1>1. performed[c] = 0 /\ c \in DOMAIN performed
  BY CallFits DEF Fits
<1>2. QED
  BY <1>1 DEF PerformedGrows, ExchangeInv, ExchangeTypes, PerformedBy

\* What a call becomes when two of its fields change.
Replying(call, status) == [call EXCEPT !.thread = "replying", !.status = status]
Responded(call) == [call EXCEPT !.shown = WholeReply, !.thread = "gone"]
LetGo(call, n) == [call EXCEPT !.closed = TRUE, !.sent = n]

LEMMA ReplyingIs ==
    ASSUME NEW call \in CallState, NEW status \in {200, 400, 401}
    PROVE  LET new == Replying(call, status)
           IN  /\ new \in CallState /\ new.sent = call.sent /\ new.closed = call.closed
               /\ new.thread = "replying" /\ new.status = status
<1>. DEFINE one == [call EXCEPT !.thread = "replying"]
            new == [one EXCEPT !.status = status]
<1>1. /\ one \in CallState /\ one.sent = call.sent /\ one.closed = call.closed
      /\ one.thread = "replying"
  BY DEF CallState
<1>. HIDE DEF one
<1>2. /\ new \in CallState /\ new.sent = one.sent /\ new.closed = one.closed
      /\ new.status = status /\ new.thread = one.thread
  BY <1>1 DEF CallState
<1>3. QED
  BY <1>1, <1>2 DEF one, Replying

LEMMA RespondedIs ==
    ASSUME NEW call \in CallState
    PROVE  LET new == Responded(call)
           IN  /\ new \in CallState /\ new.sent = call.sent /\ new.closed = call.closed
               /\ new.thread = "gone" /\ new.status = call.status
<1>. DEFINE one == [call EXCEPT !.shown = WholeReply]
            new == [one EXCEPT !.thread = "gone"]
<1>1. /\ one \in CallState /\ one.sent = call.sent /\ one.closed = call.closed
      /\ one.status = call.status
  BY DEF CallState, WholeReply
<1>. HIDE DEF one
<1>2. /\ new \in CallState /\ new.sent = one.sent /\ new.closed = one.closed
      /\ new.thread = "gone" /\ new.status = one.status
  BY <1>1 DEF CallState
<1>3. QED
  BY <1>1, <1>2 DEF one, Responded

LEMMA LetGoIs ==
    ASSUME NEW call \in CallState, NEW n \in 0 .. WholeRequest
    PROVE  LET new == LetGo(call, n)
           IN  /\ new \in CallState /\ new.sent = n /\ new.closed = TRUE
               /\ new.thread = call.thread /\ new.status = call.status
<1>. DEFINE one == [call EXCEPT !.closed = TRUE]
            new == [one EXCEPT !.sent = n]
<1>1. /\ one \in CallState /\ one.closed = TRUE /\ one.thread = call.thread
      /\ one.status = call.status
  BY DEF CallState
<1>. HIDE DEF one
<1>2. /\ new \in CallState /\ new.sent = n /\ new.closed = one.closed
      /\ new.thread = one.thread /\ new.status = one.status
  BY <1>1 DEF CallState, WholeRequest
<1>3. QED
  BY <1>1, <1>2 DEF one, LetGo

LEMMA ReadsKeeps ==
    ASSUME ExchangeInv, NEW c \in DOMAIN calls, Reads(c) \/ ReadTimesOut(c)
    PROVE  ExchangeInv'
<1>1. /\ calls[c].thread = "reading" /\ UNCHANGED <<asked, heard, bridge, holder, performed>>
      /\ Fits(calls[c], performed[c]) /\ c # holder /\ PerformedGrows
      /\ \A d \in DOMAIN performed \ {c} : performed'[d] = performed[d]
  BY CallFits, PerformedStays DEF Reads, ReadTimesOut, At
<1>2. ASSUME calls[c].sent = WholeRequest, Goes(c, "waiting") PROVE ExchangeInv'
  <2>. DEFINE call == [calls[c] EXCEPT !.thread = "waiting"]
  <2>1. call.closed = calls[c].closed /\ Fits(call, performed[c])
    BY <1>1, <1>2 DEF Fits, CallState
  <2>2. Becomes(c, call)
    BY <1>2 DEF Goes
  <2>. HIDE DEF call
  <2>3. QED
    BY <1>1, <2>1, <2>2, ThreadStep
<1>3. ASSUME NEW status \in {400, 401}, Replies(c, status) PROVE ExchangeInv'
  <2>. DEFINE call == Replying(calls[c], status)
  <2>1. call.closed = calls[c].closed /\ Fits(call, performed[c])
    BY <1>1, ReplyingIs DEF Fits
  <2>2. Becomes(c, call)
    BY <1>3 DEF Replies, Replying
  <2>. HIDE DEF call
  <2>3. QED
    BY <1>1, <2>1, <2>2, ThreadStep
<1>4. QED
  BY <1>2, <1>3 DEF Reads, ReadTimesOut, Missed

LEMMA TakesKeeps ==
    ASSUME ExchangeInv, NEW c \in DOMAIN calls, Takes(c)
    PROVE  ExchangeInv'
<1>. DEFINE call == [calls[c] EXCEPT !.thread = "performing"]
<1>1. /\ calls[c].thread = "waiting" /\ holder' = c
      /\ UNCHANGED <<asked, heard, bridge, performed>>
      /\ Fits(calls[c], performed[c]) /\ PerformedGrows
      /\ \A d \in DOMAIN performed \ {c} : performed'[d] = performed[d]
  BY CallFits, PerformedStays DEF Takes, At
<1>2. call.closed = calls[c].closed /\ Fits(call, performed[c]) /\ call.thread = "performing"
  BY <1>1 DEF Fits, CallState
<1>3. Becomes(c, call)
  BY DEF Takes, Goes
<1>. HIDE DEF call
<1>4. QED
  BY <1>1, <1>2, <1>3, ThreadStep

LEMMA PerformsKeeps ==
    ASSUME ExchangeInv, NEW c \in DOMAIN calls, Performs(c) \/ Panics(c)
    PROVE  ExchangeInv'
<1>1. /\ calls[c].thread = "performing" /\ holder' = Nobody
      /\ UNCHANGED <<asked, heard, bridge>>
      /\ Fits(calls[c], performed[c])
  BY CallFits DEF Performs, Panics
<1>2. ASSUME NEW n \in {0, 1}, PerformedBy(c, n),
             NEW status \in {200, 400}, status = 200 => n = 1, Replies(c, status)
      PROVE  ExchangeInv'
  <2>. DEFINE call == Replying(calls[c], status)
  <2>1. /\ PerformedGrows /\ performed'[c] = n
        /\ \A d \in DOMAIN performed \ {c} : performed'[d] = performed[d]
    BY <1>1, <1>2, PerformedOnce
  <2>2. call.closed = calls[c].closed /\ Fits(call, n)
    BY <1>1, <1>2, ReplyingIs DEF Fits
  <2>3. Becomes(c, call)
    BY <1>2 DEF Replies, Replying
  <2>. HIDE DEF call
  <2>4. QED
    BY <1>1, <2>1, <2>2, <2>3, ThreadStep
<1>3. ASSUME NEW n \in {0, 1}, PerformedBy(c, n), Goes(c, "gone")
      PROVE  ExchangeInv'
  <2>. DEFINE call == [calls[c] EXCEPT !.thread = "gone"]
  <2>1. /\ PerformedGrows /\ performed'[c] = n
        /\ \A d \in DOMAIN performed \ {c} : performed'[d] = performed[d]
    BY <1>1, <1>3, PerformedOnce
  <2>2. call.closed = calls[c].closed /\ Fits(call, n)
    BY <1>1 DEF Fits, CallState
  <2>3. Becomes(c, call)
    BY <1>3 DEF Goes
  <2>. HIDE DEF call
  <2>4. QED
    BY <1>1, <2>1, <2>2, <2>3, ThreadStep
<1>4. QED
  BY <1>2, <1>3 DEF Performs, Panics, PerformedBy

LEMMA RespondsKeeps ==
    ASSUME ExchangeInv, NEW c \in DOMAIN calls, Responds(c)
    PROVE  ExchangeInv'
<1>. DEFINE call == Responded(calls[c])
<1>1. /\ calls[c].thread = "replying"
      /\ UNCHANGED <<asked, heard, bridge, holder, performed>>
      /\ Fits(calls[c], performed[c]) /\ c # holder /\ PerformedGrows
      /\ \A d \in DOMAIN performed \ {c} : performed'[d] = performed[d]
  BY CallFits, PerformedStays DEF Responds, At
<1>2. call.closed = calls[c].closed /\ Fits(call, performed[c])
  BY <1>1, RespondedIs DEF Fits
<1>3. Becomes(c, call)
  BY DEF Responds, Responded
<1>. HIDE DEF call
<1>4. QED
  BY <1>1, <1>2, <1>3, ThreadStep

\* Where a bridge is after a step of its own, and that the others stay.
MovesTo(a, at, line, step) ==
    /\ bridge' \in [Asker -> Bridge]
    /\ bridge'[a].at = at /\ bridge'[a].line = line /\ bridge'[a].step = step
    /\ \A b \in Asker \ {a} : bridge'[b] = bridge[b]

LEMMA NextLineMoves ==
    ASSUME ExchangeInv, NEW a \in Asker, NextLine(a)
    PROVE  MovesTo(a, "reading", bridge[a].line + 1, bridge[a].step)
<1>. DEFINE one == [bridge[a] EXCEPT !.at = "reading"]
            new == [one EXCEPT !.line = one.line + 1]
<1>1. bridge \in [Asker -> Bridge] /\ bridge[a] \in Bridge
  BY DEF ExchangeInv, ExchangeTypes
<1>2. one \in Bridge /\ one.at = "reading" /\ one.line = bridge[a].line /\ one.step = bridge[a].step
  BY <1>1 DEF Bridge
<1>3. bridge' \in [Asker -> Bridge] /\ bridge'[a] = new /\ \A b \in Asker \ {a} : bridge'[b] = bridge[b]
  <2>1. bridge' = [[bridge EXCEPT ![a].at = "reading"] EXCEPT ![a].line = @ + 1]
    BY DEF NextLine
  <2>2. [bridge EXCEPT ![a].at = "reading"] = [bridge EXCEPT ![a] = one]
    BY <1>1
  <2>3. [bridge EXCEPT ![a] = one] \in [Asker -> Bridge] /\ [bridge EXCEPT ![a] = one][a] = one
    BY <1>1, <1>2
  <2>. HIDE DEF one
  <2>4. new \in Bridge
    BY <1>2 DEF Bridge
  <2>5. bridge' = [[bridge EXCEPT ![a] = one] EXCEPT ![a].line = @ + 1]
    BY <2>1, <2>2
  <2>6. bridge' = [bridge EXCEPT ![a] = new]
    BY <2>3, <2>5, <1>1
  <2>. HIDE DEF new
  <2>7. QED
    BY <2>4, <2>6, <1>1
<1>. HIDE DEF one
<1>4. new.at = one.at /\ new.line = one.line + 1 /\ new.step = one.step
  BY <1>2 DEF Bridge
<1>. HIDE DEF new
<1>5. QED
  BY <1>2, <1>3, <1>4 DEF MovesTo

LEMMA CallingMoves ==
    ASSUME ExchangeInv, NEW a \in Asker, NEW next \in 0 .. 2, Calling(a, next)
    PROVE  MovesTo(a, "connecting", bridge[a].line, next)
<1>. DEFINE one == [bridge[a] EXCEPT !.at = "connecting"]
            new == [one EXCEPT !.step = next]
<1>1. bridge \in [Asker -> Bridge] /\ bridge[a] \in Bridge
  BY DEF ExchangeInv, ExchangeTypes
<1>2. one \in Bridge /\ one.at = "connecting" /\ one.line = bridge[a].line
  BY <1>1 DEF Bridge
<1>3. bridge' \in [Asker -> Bridge] /\ bridge'[a] = new /\ \A b \in Asker \ {a} : bridge'[b] = bridge[b]
  <2>1. bridge' = [[bridge EXCEPT ![a].at = "connecting"] EXCEPT ![a].step = next]
    BY DEF Calling
  <2>2. [bridge EXCEPT ![a].at = "connecting"] = [bridge EXCEPT ![a] = one]
    BY <1>1
  <2>3. [bridge EXCEPT ![a] = one] \in [Asker -> Bridge] /\ [bridge EXCEPT ![a] = one][a] = one
    BY <1>1, <1>2
  <2>. HIDE DEF one
  <2>4. new \in Bridge
    BY <1>2 DEF Bridge
  <2>5. bridge' = [[bridge EXCEPT ![a] = one] EXCEPT ![a].step = next]
    BY <2>1, <2>2
  <2>6. bridge' = [bridge EXCEPT ![a] = new]
    BY <2>3, <2>5, <1>1
  <2>. HIDE DEF new
  <2>7. QED
    BY <2>4, <2>6, <1>1
<1>. HIDE DEF one
<1>4. new.at = one.at /\ new.line = one.line /\ new.step = next
  BY <1>2 DEF Bridge
<1>. HIDE DEF new
<1>5. QED
  BY <1>2, <1>3, <1>4 DEF MovesTo

LEMMA PlaceMoves ==
    ASSUME ExchangeInv, NEW a \in Asker, NEW place \in {"calling", "ended"},
           bridge' = [bridge EXCEPT ![a].at = place]
    PROVE  MovesTo(a, place, bridge[a].line, bridge[a].step)
<1>. DEFINE new == [bridge[a] EXCEPT !.at = place]
<1>1. bridge \in [Asker -> Bridge] /\ bridge[a] \in Bridge
  BY DEF ExchangeInv, ExchangeTypes
<1>2. /\ new \in Bridge /\ new.at = place /\ new.line = bridge[a].line
      /\ new.step = bridge[a].step
  BY <1>1 DEF Bridge
<1>3. bridge' = [bridge EXCEPT ![a] = new]
  BY <1>1
<1>. HIDE DEF new
<1>4. QED
  BY <1>1, <1>2, <1>3 DEF MovesTo

\* An answer is added after those of the lines before.
LEMMA HearsKeeps ==
    ASSUME ExchangeInv, NEW a \in Asker, NEW what \in Told, Hears(a, what),
           UNCHANGED <<asked, performed>>, MovesTo(a, "reading", bridge[a].line + 1, bridge[a].step),
           bridge[a].line <= Len(asked[a]), Wants(Line(a)),
           Line(a) = "tool" /\ what \in {"value", "nothing"} => Ran(<<a, bridge[a].line, 1>>)
    PROVE  /\ heard' \in [Asker -> Seq([line : Nat, what : Told])]
           /\ \A b \in Asker : HeardInOrder(b)'
<1>. DEFINE line == bridge[a].line
            entry == [line |-> line, what |-> what]
            new == Append(heard[a], entry)
<1>1. /\ heard \in [Asker -> Seq([line : Nat, what : Told])] /\ line \in Nat /\ line >= 1
      /\ \A b \in Asker : HeardInOrder(b)
      /\ asked \in [Asker -> Seq(Kind)]
  <2>1. ExchangeTypes /\ OnItsLine(a) /\ \A b \in Asker : HeardInOrder(b)
    BY DEF ExchangeInv
  <2>2. Len(asked[a]) \in Nat
    BY <2>1 DEF ExchangeTypes
  <2>3. line \in Nat /\ line >= 1
    BY <2>1, <2>2 DEF OnItsLine
  <2>4. QED
    BY <2>1, <2>3 DEF ExchangeTypes
<1>2. heard' = [heard EXCEPT ![a] = new] /\ heard[a] \in Seq([line : Nat, what : Told])
  BY <1>1 DEF Hears
<1>3. entry \in [line : Nat, what : Told] /\ entry.line = line /\ entry.what = what
  BY <1>1
<1>. HIDE DEF entry
<1>4. /\ new \in Seq([line : Nat, what : Told]) /\ Len(new) = Len(heard[a]) + 1
      /\ DOMAIN new = 1 .. Len(heard[a]) + 1 /\ DOMAIN heard[a] = 1 .. Len(heard[a])
      /\ new[Len(heard[a]) + 1] = entry /\ \A n \in DOMAIN heard[a] : new[n] = heard[a][n]
  BY <1>2, <1>3
<1>5. heard'[a] = new /\ \A b \in Asker \ {a} : heard'[b] = heard[b]
  BY <1>1, <1>2
<1>6. heard' \in [Asker -> Seq([line : Nat, what : Told])]
  BY <1>1, <1>2, <1>4
<1>7. ASSUME NEW b \in Asker \ {a} PROVE HeardInOrder(b)'
  <2>1. /\ heard'[b] = heard[b] /\ bridge'[b] = bridge[b] /\ asked' = asked /\ performed' = performed
        /\ HeardInOrder(b)
    BY <1>1, <1>5 DEF MovesTo
  <2>2. QED
    BY <2>1 DEF HeardInOrder, Ran
<1>8. HeardInOrder(a)'
  <2>. DEFINE last == Len(heard[a]) + 1
  <2>1. last \in Nat /\ last \notin DOMAIN heard[a] /\ DOMAIN new = DOMAIN heard[a] \cup {last}
    BY <1>2, <1>4
  <2>2. /\ \A m, n \in DOMAIN heard[a] : m < n => heard[a][m].line < heard[a][n].line
        /\ {heard[a][n].line : n \in DOMAIN heard[a]} = {l \in 1 .. line - 1 : Wants(asked[a][l])}
        /\ \A n \in DOMAIN heard[a] :
              asked[a][heard[a][n].line] = "tool" /\ heard[a][n].what \in {"value", "nothing"} =>
                 Ran(<<a, heard[a][n].line, 1>>)
    BY <1>1 DEF HeardInOrder
  <2>3. \A n \in DOMAIN heard[a] : n < last /\ heard[a][n].line \in 1 .. line - 1
    BY <1>4, <2>2
  <2>4. Line(a) = asked[a][line] /\ new[last] = entry /\ bridge'[a].line = line + 1
    BY <1>4 DEF Line, MovesTo
  <2>. HIDE DEF new, line, last
  <2>5. \A m, n \in DOMAIN new : m < n => new[m].line < new[n].line
    <3>1. SUFFICES ASSUME NEW m \in DOMAIN new, NEW n \in DOMAIN new, m < n
                   PROVE  new[m].line < new[n].line
      OBVIOUS
    <3>2. m # last
      BY <1>4, <2>1, <2>3, <3>1 DEF last
    <3>3. CASE n = last
      <4>1. m \in DOMAIN heard[a]
        BY <2>1, <3>2
      <4>2. new[m] = heard[a][m] /\ heard[a][m].line \in 1 .. line - 1
        BY <1>4, <2>3, <4>1
      <4>3. new[n].line = line
        BY <1>3, <2>4, <3>3
      <4>4. QED
        BY <1>1, <4>2, <4>3
    <3>4. CASE n # last
      BY <1>4, <2>1, <2>2, <3>1, <3>2, <3>4
    <3>5. QED
      BY <3>3, <3>4
  <2>6. {new[n].line : n \in DOMAIN new} = {l \in 1 .. line + 1 - 1 : Wants(asked[a][l])}
    <3>1. {new[n].line : n \in DOMAIN new} = {heard[a][n].line : n \in DOMAIN heard[a]} \cup {line}
      <4>. DEFINE before == {heard[a][n].line : n \in DOMAIN heard[a]}
                  after == {new[n].line : n \in DOMAIN new}
      <4>1. ASSUME NEW n \in DOMAIN new PROVE new[n].line \in before \cup {line}
        <5>1. CASE n = last
          BY <1>3, <2>4, <5>1
        <5>2. CASE n # last
          BY <1>4, <2>1, <5>2
        <5>3. QED
          BY <5>1, <5>2
      <4>2. ASSUME NEW n \in DOMAIN heard[a] PROVE heard[a][n].line \in after
        BY <1>4, <2>1
      <4>3. line \in after
        BY <1>3, <2>1, <2>4
      <4>4. QED
        BY <4>1, <4>2, <4>3
    <3>2. {l \in 1 .. line + 1 - 1 : Wants(asked[a][l])}
            = {l \in 1 .. line - 1 : Wants(asked[a][l])} \cup {line}
      BY <1>1, <2>4
    <3>3. QED
      BY <2>2, <3>1, <3>2
  <2>7. ASSUME NEW n \in DOMAIN new, asked[a][new[n].line] = "tool",
               new[n].what \in {"value", "nothing"}
        PROVE  Ran(<<a, new[n].line, 1>>)
    <3>1. CASE n = last
      BY <1>3, <2>4, <2>7, <3>1 DEF line
    <3>2. CASE n # last
      BY <1>4, <2>1, <2>2, <2>7, <3>2
    <3>3. QED
      BY <3>1, <3>2
  <2>8. asked'[a] = asked[a] /\ heard'[a] = new /\ \A c : Ran(c)' = Ran(c)
    BY <1>5 DEF Ran
  <2>9. \A m, n \in DOMAIN heard'[a] : m < n => heard'[a][m].line < heard'[a][n].line
    BY <2>5, <2>8
  <2>10. {heard'[a][n].line : n \in DOMAIN heard'[a]}
            = {l \in 1 .. bridge'[a].line - 1 : Wants(asked'[a][l])}
    <3>1. {heard'[a][n].line : n \in DOMAIN heard'[a]} = {new[n].line : n \in DOMAIN new}
      BY <2>8
    <3>2. bridge'[a].line - 1 = line + 1 - 1 /\ asked'[a] = asked[a]
      BY <1>1, <2>4, <2>8
    <3>3. {l \in 1 .. bridge'[a].line - 1 : Wants(asked'[a][l])}
            = {l \in 1 .. line + 1 - 1 : Wants(asked[a][l])}
      BY <3>2
    <3>4. QED
      BY <2>6, <3>1, <3>3
  <2>11. \A n \in DOMAIN heard'[a] :
            asked'[a][heard'[a][n].line] = "tool" /\ heard'[a][n].what \in {"value", "nothing"} =>
               /\ <<a, heard'[a][n].line, 1>> \in DOMAIN performed'
               /\ performed'[<<a, heard'[a][n].line, 1>>] = 1
    BY <2>7, <2>8 DEF Ran
  <2>12. QED
    BY <2>9, <2>10, <2>11 DEF HeardInOrder, Ran
<1>9. QED
  BY <1>6, <1>7, <1>8

\* A line that wants no answer has none.
LEMMA QuietKeeps ==
    ASSUME ExchangeInv, NEW a \in Asker, UNCHANGED <<asked, heard>>,
           \A c \in DOMAIN performed : c \in DOMAIN performed' /\ performed'[c] = performed[c],
           \A b \in Asker \ {a} : bridge'[b] = bridge[b],
           \/ bridge'[a].line = bridge[a].line
           \/ bridge'[a].line = bridge[a].line + 1 /\ ~Wants(Line(a))
    PROVE  \A b \in Asker : HeardInOrder(b)'
<1>1. /\ \A b \in Asker : HeardInOrder(b)
      /\ asked' = asked /\ heard' = heard
  BY DEF ExchangeInv
<1>2. bridge[a].line \in Nat /\ bridge[a].line >= 1
  <2>1. ExchangeTypes /\ OnItsLine(a)
    BY DEF ExchangeInv
  <2>2. Len(asked[a]) \in Nat
    BY <2>1 DEF ExchangeTypes
  <2>3. QED
    BY <2>1, <2>2 DEF OnItsLine
<1>3. ASSUME NEW b \in Asker
      PROVE  {l \in 1 .. bridge'[b].line - 1 : Wants(asked[b][l])}
               = {l \in 1 .. bridge[b].line - 1 : Wants(asked[b][l])}
  <2>1. CASE b # a \/ bridge'[a].line = bridge[a].line
    BY <2>1
  <2>2. CASE b = a /\ bridge'[a].line = bridge[a].line + 1 /\ ~Wants(Line(a))
    <3>1. 1 .. bridge'[a].line - 1 = 1 .. bridge[a].line - 1 \cup {bridge[a].line}
      BY <1>2, <2>2
    <3>2. ~Wants(asked[a][bridge[a].line])
      BY <2>2 DEF Line
    <3>3. QED
      BY <2>2, <3>1, <3>2
  <2>3. QED
    BY <2>1, <2>2
<1>4. QED
  BY <1>1, <1>3 DEF HeardInOrder, Ran

\* A step of a bridge leaves the others where they are, and the calls made behind.
LEMMA BridgeStep ==
    ASSUME ExchangeInv, NEW a \in Asker, NEW at, NEW line, NEW step, MovesTo(a, at, line, step),
           asked' = asked, performed' = performed, CallsFit',
           heard' \in [Asker -> Seq([line : Nat, what : Told])],
           \A b \in Asker : HeardInOrder(b)',
           OnItsLine(a)',
           \A c \in DOMAIN performed : c[1] = a /\ Behind(c, bridge[a]) => Behind(c, bridge'[a]),
           \A d \in DOMAIN calls :
              d[1] # a /\ ~calls[d].closed => d \in DOMAIN calls' /\ ~calls'[d].closed
    PROVE  ExchangeInv'
<1>1. /\ ExchangeTypes /\ \A b \in Asker : OnItsLine(b)
      /\ \A c \in DOMAIN performed : MadeFromALine(c)
  BY DEF ExchangeInv
<1>2. ExchangeTypes'
  BY <1>1 DEF ExchangeTypes, CallsFit, MovesTo
<1>3. ASSUME NEW b \in Asker \ {a} PROVE OnItsLine(b)'
  <2>1. OnItsLine(b) /\ bridge'[b] = bridge[b]
    BY <1>1 DEF MovesTo
  <2>2. /\ Line(b)' = Line(b) /\ Call(b)' = Call(b) /\ Call(b)[1] # a
    BY <2>1 DEF Line, Call
  <2>3. bridge[b].at = "calling" => Call(b) \in DOMAIN calls' /\ ~calls'[Call(b)].closed
    BY <2>1, <2>2 DEF OnItsLine
  <2>4. QED
    BY <2>1, <2>2, <2>3 DEF OnItsLine
<1>4. ASSUME NEW c \in DOMAIN performed' PROVE MadeFromALine(c)'
  <2>1. c \in DOMAIN performed /\ MadeFromALine(c) /\ c[1] \in Asker
    BY <1>1 DEF ExchangeTypes, CallKey
  <2>2. Behind(c, bridge'[c[1]])
    BY <2>1 DEF MadeFromALine, MovesTo
  <2>3. QED
    BY <2>1, <2>2 DEF MadeFromALine, Behind
<1>5. QED
  BY <1>2, <1>3, <1>4 DEF ExchangeInv, CallsFit

LEMMA CallsStay ==
    ASSUME ExchangeInv, UNCHANGED <<calls, holder, performed>>
    PROVE  CallsFit'
BY DEF ExchangeInv, ExchangeTypes, CallsFit, Fits

\* What holds of the bridge that makes the step.
LEMMA PlaceOf ==
    ASSUME ExchangeInv, NEW a \in Asker
    PROVE  /\ OnItsLine(a) /\ bridge[a] \in Bridge /\ Len(asked[a]) \in Nat
           /\ bridge[a].line \in Nat /\ bridge[a].line >= 1 /\ bridge[a].line <= Len(asked[a]) + 1
           /\ bridge[a].step \in 0 .. 2
           /\ asked[a] \in Seq(Kind)
           /\ heard \in [Asker -> Seq([line : Nat, what : Told])]
           /\ \A c \in DOMAIN performed : c[2] \in Nat /\ c[3] \in {1, 2}
<1>1. ExchangeTypes /\ OnItsLine(a)
  BY DEF ExchangeInv
<1>2. Len(asked[a]) \in Nat /\ bridge[a] \in Bridge /\ asked[a] \in Seq(Kind)
  BY <1>1 DEF ExchangeTypes
<1>3. bridge[a].line \in Nat /\ bridge[a].line >= 1 /\ bridge[a].line <= Len(asked[a]) + 1
  BY <1>1, <1>2 DEF OnItsLine
<1>4. bridge[a].step \in 0 .. 2
  BY <1>2 DEF Bridge
<1>5. \A c \in DOMAIN performed : c[2] \in Nat /\ c[3] \in {1, 2}
  BY <1>1 DEF ExchangeTypes, CallKey
<1>6. QED
  BY <1>1, <1>2, <1>3, <1>4, <1>5 DEF ExchangeTypes

\* Of a bridge on its next line all that was made before is behind, and so it is of
\* one that makes its next call.
LEMMA BehindStays ==
    ASSUME ExchangeInv, NEW a \in Asker, NEW next \in 0 .. 2,
           \/ MovesTo(a, "reading", bridge[a].line + 1, next)
           \/ MovesTo(a, "connecting", bridge[a].line, next) /\ bridge[a].at = "reading"
           \/ /\ MovesTo(a, "connecting", bridge[a].line, next) /\ next > bridge[a].step
              /\ bridge[a].at \in {"connecting", "calling"}
           \/ MovesTo(a, "ended", bridge[a].line, next)
    PROVE  \A c \in DOMAIN performed : c[1] = a /\ Behind(c, bridge[a]) => Behind(c, bridge'[a])
<1>1. /\ bridge[a].line \in Nat /\ bridge[a].step \in 0 .. 2
      /\ \A c \in DOMAIN performed : c[2] \in Nat /\ c[3] \in {1, 2}
  BY PlaceOf
<1>2. SUFFICES ASSUME NEW c \in DOMAIN performed, c[1] = a, Behind(c, bridge[a])
               PROVE  Behind(c, bridge'[a])
  OBVIOUS
<1>3. CASE MovesTo(a, "reading", bridge[a].line + 1, next)
  BY <1>1, <1>2, <1>3 DEF MovesTo, Behind
<1>4. CASE MovesTo(a, "connecting", bridge[a].line, next) /\ bridge[a].at = "reading"
  BY <1>1, <1>2, <1>4 DEF MovesTo, Behind
<1>5. CASE /\ MovesTo(a, "connecting", bridge[a].line, next) /\ next > bridge[a].step
           /\ bridge[a].at \in {"connecting", "calling"}
  BY <1>1, <1>2, <1>5 DEF MovesTo, Behind
<1>6. CASE MovesTo(a, "ended", bridge[a].line, next)
  BY <1>1, <1>2, <1>6 DEF MovesTo, Behind
<1>7. QED
  BY <1>3, <1>4, <1>5, <1>6

\* Off a call, a bridge is where it can be.
LEMMA OnTheNextLine ==
    ASSUME ExchangeInv, NEW a \in Asker, asked' = asked, bridge[a].line <= Len(asked[a]),
           NEW next \in 0 .. 2,
           \/ MovesTo(a, "reading", bridge[a].line + 1, next)
           \/ MovesTo(a, "ended", bridge[a].line, next)
           \/ /\ MovesTo(a, "connecting", bridge[a].line, next)
              /\ Line(a) \in {"initialize", "tool"} /\ next \in 1 .. LastStep(Line(a))
    PROVE  OnItsLine(a)'
<1>1. /\ bridge[a].line \in Nat /\ bridge[a].line >= 1 /\ Len(asked[a]) \in Nat
  BY PlaceOf
<1>2. CASE MovesTo(a, "reading", bridge[a].line + 1, next)
  BY <1>1, <1>2 DEF MovesTo, OnItsLine
<1>3. CASE MovesTo(a, "ended", bridge[a].line, next)
  BY <1>1, <1>3 DEF MovesTo, OnItsLine
<1>4. CASE /\ MovesTo(a, "connecting", bridge[a].line, next)
           /\ Line(a) \in {"initialize", "tool"} /\ next \in 1 .. LastStep(Line(a))
  <2>1. /\ bridge'[a].line = bridge[a].line /\ bridge'[a].at = "connecting"
        /\ bridge'[a].step = next
    BY <1>4 DEF MovesTo
  <2>2. asked'[a][bridge'[a].line] = Line(a)
    BY <2>1 DEF Line
  <2>3. QED
    BY <1>1, <1>4, <2>1, <2>2 DEF OnItsLine, Line
<1>5. QED
  BY <1>2, <1>3, <1>4

LEMMA HandleLineKeeps ==
    ASSUME ExchangeInv, NEW a \in Asker, HandleLine(a)
    PROVE  ExchangeInv'
<1>1. /\ bridge[a].at = "reading" /\ bridge[a].line <= Len(asked[a])
      /\ UNCHANGED <<asked, calls, holder, performed>>
      /\ CallsFit'
  BY CallsStay DEF HandleLine
<1>2. \A d \in DOMAIN calls : d[1] # a /\ ~calls[d].closed => d \in DOMAIN calls' /\ ~calls'[d].closed
  BY <1>1
<1>3. heard \in [Asker -> Seq([line : Nat, what : Told])] /\ bridge[a].step \in 0 .. 2
  BY PlaceOf
<1>4. ASSUME Line(a) = "quiet", NextLine(a), heard' = heard PROVE ExchangeInv'
  <2>1. MovesTo(a, "reading", bridge[a].line + 1, bridge[a].step)
    BY <1>4, NextLineMoves
  <2>2. \A b \in Asker : HeardInOrder(b)'
    <3>1. /\ \A b \in Asker \ {a} : bridge'[b] = bridge[b]
          /\ bridge'[a].line = bridge[a].line + 1 /\ ~Wants(Line(a))
      BY <1>4, <2>1 DEF MovesTo, Wants
    <3>2. QED
      BY <1>1, <1>4, <3>1, QuietKeeps
  <2>3. OnItsLine(a)'
    BY <1>1, <1>3, <2>1, OnTheNextLine
  <2>4. \A c \in DOMAIN performed : c[1] = a /\ Behind(c, bridge[a]) => Behind(c, bridge'[a])
    BY <1>3, <2>1, BehindStays
  <2>5. heard' \in [Asker -> Seq([line : Nat, what : Told])]
    BY <1>3, <1>4
  <2>6. QED
    BY <1>1, <1>2, <2>1, <2>2, <2>3, <2>4, <2>5, BridgeStep
<1>5. ASSUME NEW what \in Told, NextLine(a), Hears(a, what),
             Wants(Line(a)), Line(a) # "tool" \/ what \notin {"value", "nothing"}
      PROVE  ExchangeInv'
  <2>1. MovesTo(a, "reading", bridge[a].line + 1, bridge[a].step)
    BY <1>5, NextLineMoves
  <2>2. Line(a) = "tool" /\ what \in {"value", "nothing"} => Ran(<<a, bridge[a].line, 1>>)
    BY <1>5
  <2>3. /\ heard' \in [Asker -> Seq([line : Nat, what : Told])]
        /\ \A b \in Asker : HeardInOrder(b)'
    BY <1>1, <1>5, <2>1, <2>2, HearsKeeps
  <2>4. OnItsLine(a)'
    BY <1>1, <1>3, <2>1, OnTheNextLine
  <2>5. \A c \in DOMAIN performed : c[1] = a /\ Behind(c, bridge[a]) => Behind(c, bridge'[a])
    BY <1>3, <2>1, BehindStays
  <2>6. QED
    BY <1>1, <1>2, <2>1, <2>3, <2>4, <2>5, BridgeStep
<1>6. ASSUME bridge' = [bridge EXCEPT ![a].at = "ended"], heard' = heard PROVE ExchangeInv'
  <2>1. MovesTo(a, "ended", bridge[a].line, bridge[a].step)
    BY <1>6, PlaceMoves
  <2>2. \A b \in Asker : HeardInOrder(b)'
    <3>1. /\ \A b \in Asker \ {a} : bridge'[b] = bridge[b]
          /\ bridge'[a].line = bridge[a].line
      BY <2>1 DEF MovesTo
    <3>2. QED
      BY <1>1, <1>6, <3>1, QuietKeeps
  <2>3. OnItsLine(a)'
    BY <1>1, <1>3, <2>1, OnTheNextLine
  <2>4. \A c \in DOMAIN performed : c[1] = a /\ Behind(c, bridge[a]) => Behind(c, bridge'[a])
    BY <1>3, <2>1, BehindStays
  <2>5. heard' \in [Asker -> Seq([line : Nat, what : Told])]
    BY <1>3, <1>6
  <2>6. QED
    BY <1>1, <1>2, <2>1, <2>2, <2>3, <2>4, <2>5, BridgeStep
<1>7. ASSUME NEW next \in 1 .. 2, Calling(a, next), heard' = heard,
             Line(a) \in {"initialize", "tool"}, next \in 1 .. LastStep(Line(a))
      PROVE  ExchangeInv'
  <2>1. MovesTo(a, "connecting", bridge[a].line, next)
    BY <1>7, CallingMoves
  <2>2. \A b \in Asker : HeardInOrder(b)'
    <3>1. /\ \A b \in Asker \ {a} : bridge'[b] = bridge[b]
          /\ bridge'[a].line = bridge[a].line
      BY <2>1 DEF MovesTo
    <3>2. QED
      BY <1>1, <1>7, <3>1, QuietKeeps
  <2>3. OnItsLine(a)'
    BY <1>1, <1>7, <2>1, OnTheNextLine
  <2>4. \A c \in DOMAIN performed : c[1] = a /\ Behind(c, bridge[a]) => Behind(c, bridge'[a])
    BY <1>1, <1>3, <2>1, BehindStays
  <2>5. heard' \in [Asker -> Seq([line : Nat, what : Told])]
    BY <1>3, <1>7
  <2>6. QED
    BY <1>1, <1>2, <2>1, <2>2, <2>3, <2>4, <2>5, BridgeStep
<1>8. CASE Line(a) = "quiet" /\ NextLine(a) /\ UNCHANGED heard
  BY <1>4, <1>8
<1>9. CASE Line(a) = "list" /\ NextLine(a) /\ Hears(a, "value")
  BY <1>5, <1>9 DEF Wants, Told
<1>10. CASE Line(a) = "wrong" /\ NextLine(a) /\ Hears(a, "refused")
  BY <1>5, <1>10 DEF Wants, Told
<1>11. CASE Line(a) = "bytes" /\ bridge' = [bridge EXCEPT ![a].at = "ended"] /\ UNCHANGED heard
  BY <1>6, <1>11
<1>12. CASE Line(a) \in {"initialize", "tool"} /\ NextLine(a) /\ Hears(a, "not running")
  BY <1>5, <1>12 DEF Wants, Told
<1>13. CASE Line(a) = "tool" /\ Calling(a, 1) /\ UNCHANGED heard
  BY <1>7, <1>13 DEF LastStep
<1>14. CASE Line(a) = "initialize" /\ (\E step \in {1, 2} : Calling(a, step)) /\ UNCHANGED heard
  BY <1>7, <1>14 DEF LastStep
<1>15. QED
  BY <1>8, <1>9, <1>10, <1>11, <1>12, <1>13, <1>14 DEF HandleLine

\* What a call came to is told, or the next call is made.
LEMMA ConcludesTells ==
    ASSUME ExchangeInv, NEW a \in Asker, bridge[a].at \in {"connecting", "calling"},
           NEW outcome \in {"value", "nothing", "error"}, Concludes(a, outcome),
           UNCHANGED <<asked, performed>>,
           outcome # "error" => Ran(Call(a))
    PROVE  /\ heard' \in [Asker -> Seq([line : Nat, what : Told])]
           /\ \A b \in Asker : HeardInOrder(b)'
           /\ OnItsLine(a)'
           /\ \A c \in DOMAIN performed : c[1] = a /\ Behind(c, bridge[a]) => Behind(c, bridge'[a])
           /\ \E at, line, step : MovesTo(a, at, line, step)
<1>1. /\ bridge[a].line <= Len(asked[a]) /\ Line(a) \in {"initialize", "tool"}
      /\ bridge[a].step \in 1 .. LastStep(Line(a)) /\ bridge[a].step \in 0 .. 2
      /\ heard \in [Asker -> Seq([line : Nat, what : Told])]
  BY PlaceOf DEF OnItsLine
<1>2. CASE bridge[a].step < LastStep(Line(a))
  <2>1. /\ bridge[a].step = 1 /\ LastStep(Line(a)) = 2 /\ Calling(a, 2) /\ heard' = heard
    BY <1>1, <1>2 DEF Concludes, LastStep
  <2>2. MovesTo(a, "connecting", bridge[a].line, 2)
    BY <2>1, CallingMoves
  <2>3. \A b \in Asker : HeardInOrder(b)'
    <3>1. /\ \A b \in Asker \ {a} : bridge'[b] = bridge[b]
          /\ bridge'[a].line = bridge[a].line
      BY <2>2 DEF MovesTo
    <3>2. QED
      BY <2>1, <3>1, QuietKeeps
  <2>4. OnItsLine(a)'
    BY <1>1, <2>1, <2>2, OnTheNextLine
  <2>5. \A c \in DOMAIN performed : c[1] = a /\ Behind(c, bridge[a]) => Behind(c, bridge'[a])
    <3>1. 2 > bridge[a].step
      BY <2>1
    <3>2. QED
      BY <2>2, <3>1, BehindStays
  <2>6. QED
    BY <1>1, <2>1, <2>2, <2>3, <2>4, <2>5
<1>3. CASE ~(bridge[a].step < LastStep(Line(a)))
  <2>. DEFINE what == IF Line(a) = "initialize" /\ outcome # "value" THEN "not running" ELSE outcome
  <2>1. NextLine(a) /\ Hears(a, what) /\ what \in Told
    BY <1>3 DEF Concludes, Told
  <2>2. MovesTo(a, "reading", bridge[a].line + 1, bridge[a].step)
    BY <2>1, NextLineMoves
  <2>3. Line(a) = "tool" /\ what \in {"value", "nothing"} => Ran(<<a, bridge[a].line, 1>>)
    <3>1. SUFFICES ASSUME Line(a) = "tool", what \in {"value", "nothing"}
                   PROVE  Ran(<<a, bridge[a].line, 1>>)
      OBVIOUS
    <3>2. bridge[a].step = 1 /\ outcome # "error"
      BY <1>1, <3>1 DEF LastStep
    <3>3. Call(a) = <<a, bridge[a].line, 1>>
      BY <3>2 DEF Call
    <3>4. QED
      BY <3>2, <3>3
  <2>4. Wants(Line(a))
    BY <1>1 DEF Wants
  <2>. HIDE DEF what
  <2>5. /\ heard' \in [Asker -> Seq([line : Nat, what : Told])]
        /\ \A b \in Asker : HeardInOrder(b)'
    BY <1>1, <2>1, <2>2, <2>3, <2>4, HearsKeeps
  <2>6. OnItsLine(a)'
    BY <1>1, <2>2, OnTheNextLine
  <2>7. \A c \in DOMAIN performed : c[1] = a /\ Behind(c, bridge[a]) => Behind(c, bridge'[a])
    BY <1>1, <2>2, BehindStays
  <2>8. QED
    BY <2>2, <2>5, <2>6, <2>7
<1>4. QED
  BY <1>2, <1>3

LEMMA RefusedKeeps ==
    ASSUME ExchangeInv, NEW a \in Asker, Connects(a), ~alive
    PROVE  ExchangeInv'
<1>1. /\ bridge[a].at = "connecting" /\ Concludes(a, "error")
      /\ UNCHANGED <<asked, calls, holder, performed>> /\ CallsFit'
  BY CallsStay DEF Connects
<1>2. \A d \in DOMAIN calls : d[1] # a /\ ~calls[d].closed => d \in DOMAIN calls' /\ ~calls'[d].closed
  BY <1>1
<1>3. /\ heard' \in [Asker -> Seq([line : Nat, what : Told])]
      /\ \A b \in Asker : HeardInOrder(b)'
      /\ OnItsLine(a)'
      /\ \A c \in DOMAIN performed : c[1] = a /\ Behind(c, bridge[a]) => Behind(c, bridge'[a])
      /\ \E at, line, step : MovesTo(a, at, line, step)
  BY <1>1, ConcludesTells
<1>4. QED
  BY <1>1, <1>2, <1>3, BridgeStep

\* A call that is made was not made before.
LEMMA ConnectedKeeps ==
    ASSUME ExchangeInv, NEW a \in Asker, Connects(a), alive
    PROVE  ExchangeInv'
<1>. DEFINE key == Call(a)
            fresh == [sent |-> 0, closed |-> FALSE, thread |-> "reading", status |-> 0, shown |-> 0]
<1>1. /\ bridge[a].at = "connecting" /\ bridge' = [bridge EXCEPT ![a].at = "calling"]
      /\ calls' = [c \in DOMAIN calls \cup {key} |-> IF c \in DOMAIN calls THEN calls[c] ELSE fresh]
      /\ performed' = [c \in DOMAIN performed \cup {key} |->
            IF c \in DOMAIN performed THEN performed[c] ELSE 0]
      /\ UNCHANGED <<asked, heard, holder>>
  BY DEF Connects
<1>2. /\ bridge[a].line \in Nat /\ bridge[a].line >= 1 /\ bridge[a].line <= Len(asked[a])
      /\ Line(a) \in {"initialize", "tool"} /\ bridge[a].step \in 1 .. LastStep(Line(a))
      /\ bridge[a].step \in {1, 2} /\ Len(asked[a]) \in Nat
  BY <1>1, PlaceOf DEF OnItsLine
<1>3. /\ key \in CallKey /\ key[1] = a /\ key[2] = bridge[a].line /\ key[3] = bridge[a].step
  BY <1>2 DEF CallKey, Call
<1>4. /\ ExchangeTypes /\ \A b \in Asker : OnItsLine(b)
      /\ \A c \in DOMAIN performed : MadeFromALine(c)
      /\ \A c \in DOMAIN calls : Fits(calls[c], performed[c])
      /\ \A c \in DOMAIN calls : c = holder => calls[c].thread = "performing"
      /\ holder = Nobody \/ holder \in DOMAIN calls
      /\ DOMAIN calls \subseteq DOMAIN performed
  BY DEF ExchangeInv, ExchangeTypes
<1>5. key \notin DOMAIN performed
  <2>1. ~Behind(key, bridge[a])
    BY <1>1, <1>2, <1>3 DEF Behind
  <2>2. QED
    BY <1>3, <1>4, <2>1 DEF MadeFromALine
<1>6. MovesTo(a, "calling", bridge[a].line, bridge[a].step)
  BY <1>1, PlaceMoves
<1>. HIDE DEF key
<1>7. /\ DOMAIN calls' = DOMAIN calls \cup {key} /\ calls'[key] = fresh
      /\ \A c \in DOMAIN calls : c # key /\ calls'[c] = calls[c]
      /\ DOMAIN performed' = DOMAIN performed \cup {key} /\ performed'[key] = 0
      /\ \A c \in DOMAIN performed : c # key /\ performed'[c] = performed[c]
  BY <1>1, <1>4, <1>5
<1>8. /\ fresh \in CallState /\ ~fresh.closed
      /\ Fits(fresh, 0)
  BY DEF CallState, Fits
<1>. HIDE DEF fresh
<1>9. ExchangeTypes'
  <2>1. \A c \in DOMAIN performed' : performed'[c] \in {0, 1}
    BY <1>4, <1>7 DEF ExchangeTypes
  <2>2. DOMAIN calls' \subseteq DOMAIN performed' /\ DOMAIN performed' \subseteq CallKey
    BY <1>3, <1>4, <1>7 DEF ExchangeTypes
  <2>3. QED
    BY <1>1, <1>4, <1>6, <2>1, <2>2 DEF ExchangeTypes, MovesTo
<1>10. \A b \in Asker : HeardInOrder(b)'
  <2>1. \A b \in Asker \ {a} : bridge'[b] = bridge[b]
    BY <1>6 DEF MovesTo
  <2>2. bridge'[a].line = bridge[a].line
    BY <1>6 DEF MovesTo
  <2>3. \A c \in DOMAIN performed : c \in DOMAIN performed' /\ performed'[c] = performed[c]
    BY <1>7
  <2>4. UNCHANGED <<asked, heard>>
    BY <1>1
  <2>5. QED
    BY <2>1, <2>2, <2>3, <2>4, QuietKeeps
<1>11. ASSUME NEW b \in Asker PROVE OnItsLine(b)'
  <2>1. bridge'[b].line = bridge[b].line /\ bridge'[b].step = bridge[b].step
    BY <1>6 DEF MovesTo
  <2>2. Line(b)' = Line(b) /\ Call(b)' = Call(b)
    BY <1>1, <2>1 DEF Line, Call
  <2>3. CASE b = a
    <3>1. bridge'[a].at = "calling" /\ Call(a) \in DOMAIN calls' /\ ~calls'[Call(a)].closed
      BY <1>6, <1>7, <1>8 DEF MovesTo, key
    <3>2. QED
      BY <1>1, <1>2, <2>1, <2>2, <2>3, <3>1 DEF OnItsLine
  <2>4. CASE b # a
    <3>1. OnItsLine(b) /\ bridge'[b] = bridge[b]
      BY <1>4, <1>6, <2>4 DEF MovesTo
    <3>2. bridge[b].at = "calling" => Call(b) \in DOMAIN calls' /\ ~calls'[Call(b)].closed
      BY <1>7, <3>1 DEF OnItsLine
    <3>3. QED
      BY <1>1, <2>2, <3>1, <3>2 DEF OnItsLine
  <2>5. QED
    BY <2>3, <2>4
<1>12. ASSUME NEW c \in DOMAIN performed' PROVE MadeFromALine(c)'
  <2>1. c[1] \in Asker /\ c[2] \in Nat /\ c[3] \in {1, 2}
    BY <1>9 DEF ExchangeTypes, CallKey
  <2>2. bridge'[a].at = "calling" /\ bridge'[a].line = bridge[a].line /\ bridge'[a].step = bridge[a].step
    BY <1>6 DEF MovesTo
  <2>3. CASE c = key
    <3>1. Behind(c, bridge'[a])
      BY <1>2, <1>3, <2>2, <2>3 DEF Behind
    <3>2. c[2] \in 1 .. Len(asked[a]) /\ (c[3] = 2 => asked[a][c[2]] = "initialize")
      BY <1>2, <1>3, <2>3 DEF Line, LastStep
    <3>3. QED
      BY <1>1, <1>3, <2>3, <3>1, <3>2 DEF MadeFromALine, Behind
  <2>4. CASE c # key
    <3>1. c \in DOMAIN performed /\ MadeFromALine(c)
      BY <1>4, <1>7, <2>4
    <3>2. Behind(c, bridge'[c[1]])
      <4>1. CASE c[1] = a
        BY <1>1, <1>2, <2>1, <2>2, <3>1, <4>1 DEF MadeFromALine, Behind
      <4>2. CASE c[1] # a
        BY <1>6, <2>1, <3>1, <4>2 DEF MadeFromALine, MovesTo
      <4>3. QED
        BY <4>1, <4>2
    <3>3. QED
      BY <1>1, <3>1, <3>2 DEF MadeFromALine, Behind
  <2>5. QED
    BY <2>3, <2>4
<1>13. ASSUME NEW c \in DOMAIN calls' PROVE Fits(calls'[c], performed'[c])
  <2>1. CASE c = key
    BY <1>7, <1>8, <2>1
  <2>2. CASE c # key
    <3>1. c \in DOMAIN calls /\ c \in DOMAIN performed
      BY <1>4, <1>7, <2>2
    <3>2. calls'[c] = calls[c] /\ performed'[c] = performed[c]
      BY <1>7, <3>1
    <3>3. Fits(calls[c], performed[c])
      BY <1>4, <3>1
    <3>4. QED
      BY <3>2, <3>3
  <2>3. QED
    BY <2>1, <2>2
<1>14. ASSUME NEW c \in DOMAIN calls', c = holder PROVE calls'[c].thread = "performing"
  <2>1. key # holder
    BY <1>3, <1>4, <1>5, NobodyIsNoCall
  <2>2. QED
    BY <1>4, <1>7, <1>14, <2>1
<1>15. holder' = holder /\ (holder = Nobody \/ holder \in DOMAIN calls')
  BY <1>1, <1>4, <1>7
<1>16. CallsFit'
  BY <1>9, <1>13, <1>14, <1>15 DEF CallsFit, ExchangeTypes
<1>17. QED
  BY <1>9, <1>10, <1>11, <1>12, <1>16 DEF ExchangeInv, CallsFit

LEMMA OpenCall ==
    ASSUME ExchangeInv, NEW a \in Asker, bridge[a].at = "calling"
    PROVE  /\ Call(a) \in DOMAIN calls /\ ~calls[Call(a)].closed /\ Call(a)[1] = a
           /\ Fits(calls[Call(a)], performed[Call(a)]) /\ Call(a) \in DOMAIN performed
           /\ performed[Call(a)] \in {0, 1}
           /\ Call(a) = holder => calls[Call(a)].thread = "performing"
<1>1. Call(a) \in DOMAIN calls /\ ~calls[Call(a)].closed
  BY PlaceOf DEF OnItsLine
<1>2. Call(a)[1] = a
  BY DEF Call
<1>3. QED
  BY <1>1, <1>2, CallFits

LEMMA SendsKeeps ==
    ASSUME ExchangeInv, NEW a \in Asker, Sends(a)
    PROVE  ExchangeInv'
<1>. DEFINE c == Call(a)
            call == [calls[c] EXCEPT !.sent = WholeRequest]
<1>1. /\ bridge[a].at = "calling" /\ calls[c].sent = 0
      /\ calls' = [calls EXCEPT ![c].sent = WholeRequest]
      /\ UNCHANGED <<asked, heard, bridge, holder, performed>>
  BY DEF Sends
<1>2. /\ c \in DOMAIN calls /\ ~calls[c].closed /\ Fits(calls[c], performed[c])
      /\ c = holder => calls[c].thread = "performing"
  BY <1>1, OpenCall
<1>. HIDE DEF c
<1>3. c # holder
  BY <1>1, <1>2 DEF Fits, WholeRequest
<1>4. Fits(call, performed[c]) /\ call.closed = calls[c].closed /\ call.sent = WholeRequest
  BY <1>1, <1>2 DEF Fits, CallState, WholeRequest
<1>5. Becomes(c, call)
  BY <1>1, <1>2, <1>4 DEF Becomes
<1>6. PerformedGrows
  BY <1>1, PerformedStays
<1>. HIDE DEF call
<1>7. QED
  BY <1>1, <1>2, <1>3, <1>4, <1>5, <1>6, ThreadStep

\* A bridge lets go of its call at any time: the thread goes on.
LEMMA LetsGoFits ==
    ASSUME ExchangeInv, NEW a \in Asker, bridge[a].at = "calling", LetsGo(a),
           UNCHANGED <<holder, performed>>
    PROVE  /\ CallsFit'
           /\ \A d \in DOMAIN calls :
                 d[1] # a /\ ~calls[d].closed => d \in DOMAIN calls' /\ ~calls'[d].closed
<1>. DEFINE c == Call(a)
<1>1. /\ c \in DOMAIN calls /\ Fits(calls[c], performed[c]) /\ c[1] = a
      /\ c = holder => calls[c].thread = "performing"
  BY OpenCall
<1>2. PICK n \in 0 .. WholeRequest :
         /\ Becomes(c, LetGo(calls[c], n))
         /\ calls[c].sent # 0 => n = WholeRequest
  <2>1. PICK n \in IF calls[c].sent = 0 THEN 0 .. WholeRequest ELSE {WholeRequest} :
            Becomes(c, LetGo(calls[c], n))
    BY DEF LetsGo, LetGo
  <2>2. QED
    BY <2>1 DEF WholeRequest
<1>3. /\ LetGo(calls[c], n) \in CallState /\ LetGo(calls[c], n).sent = n
      /\ LetGo(calls[c], n).thread = calls[c].thread
      /\ LetGo(calls[c], n).status = calls[c].status
  <2>1. calls[c] \in CallState
    BY <1>1 DEF Fits
  <2>2. QED
    BY <2>1, LetGoIs
<1>4. Fits(LetGo(calls[c], n), performed'[c])
  BY <1>1, <1>2, <1>3 DEF Fits, WholeRequest
<1>5. PerformedGrows
  BY PerformedStays
<1>. HIDE DEF c
<1>6. \/ holder' = c /\ LetGo(calls[c], n).thread = "performing"
      \/ holder' = holder /\ holder # c
  BY <1>1, <1>3
<1>7. CallsFit'
  BY <1>1, <1>2, <1>4, <1>5, <1>6, CallStep
<1>8. \A d \in DOMAIN calls \ {c} : d \in DOMAIN calls' /\ calls'[d] = calls[d]
  BY <1>1, <1>2, Became
<1>9. QED
  BY <1>1, <1>7, <1>8

LEMMA GivesUpKeeps ==
    ASSUME ExchangeInv, NEW a \in Asker, GivesUp(a)
    PROVE  ExchangeInv'
<1>1. /\ bridge[a].at = "calling" /\ Concludes(a, "error") /\ LetsGo(a)
      /\ UNCHANGED <<asked, holder, performed>>
  BY DEF GivesUp
<1>2. /\ CallsFit'
      /\ \A d \in DOMAIN calls :
            d[1] # a /\ ~calls[d].closed => d \in DOMAIN calls' /\ ~calls'[d].closed
  BY <1>1, LetsGoFits
<1>3. /\ heard' \in [Asker -> Seq([line : Nat, what : Told])]
      /\ \A b \in Asker : HeardInOrder(b)'
      /\ OnItsLine(a)'
      /\ \A c \in DOMAIN performed : c[1] = a /\ Behind(c, bridge[a]) => Behind(c, bridge'[a])
      /\ \E at, line, step : MovesTo(a, at, line, step)
  BY <1>1, ConcludesTells
<1>4. QED
  BY <1>1, <1>2, <1>3, BridgeStep

\* What is told as an answer has the status of one.
LEMMA ReceivesKeeps ==
    ASSUME ExchangeInv, NEW a \in Asker, Receives(a)
    PROVE  ExchangeInv'
<1>. DEFINE c == Call(a)
            call == [calls[c] EXCEPT !.closed = TRUE]
            outcome == Parsed(calls[c])
<1>1. /\ bridge[a].at = "calling" /\ calls[c].thread = "gone"
      /\ Concludes(a, outcome) /\ Becomes(c, call)
      /\ UNCHANGED <<asked, holder, performed>>
  BY DEF Receives
<1>2. /\ c \in DOMAIN calls /\ Fits(calls[c], performed[c]) /\ c[1] = a
      /\ c \in DOMAIN performed
      /\ c = holder => calls[c].thread = "performing"
  BY <1>1, OpenCall
<1>3. outcome \in {"value", "nothing", "error"} /\ (outcome # "error" => Ran(c))
  BY <1>2 DEF Parsed, Ran, Fits
<1>4. Fits(call, performed'[c])
  BY <1>1, <1>2 DEF Fits, CallState
<1>5. PerformedGrows /\ holder # c
  BY <1>1, <1>2, PerformedStays
<1>. HIDE DEF outcome, call
<1>6. /\ heard' \in [Asker -> Seq([line : Nat, what : Told])]
      /\ \A b \in Asker : HeardInOrder(b)'
      /\ OnItsLine(a)'
      /\ \A d \in DOMAIN performed : d[1] = a /\ Behind(d, bridge[a]) => Behind(d, bridge'[a])
      /\ \E at, line, step : MovesTo(a, at, line, step)
  BY <1>1, <1>3, ConcludesTells
<1>. HIDE DEF c
<1>7. CallsFit'
  BY <1>1, <1>2, <1>4, <1>5, CallStep
<1>8. \A d \in DOMAIN calls \ {c} : d \in DOMAIN calls' /\ calls'[d] = calls[d]
  BY <1>1, <1>2, Became
<1>9. \A d \in DOMAIN calls :
         d[1] # a /\ ~calls[d].closed => d \in DOMAIN calls' /\ ~calls'[d].closed
  BY <1>2, <1>8
<1>10. QED
  BY <1>1, <1>6, <1>7, <1>9, BridgeStep

LEMMA BridgeEndsKeeps ==
    ASSUME ExchangeInv, NEW a \in Asker, BridgeEnds(a)
    PROVE  ExchangeInv'
<1>1. /\ bridge' = [bridge EXCEPT ![a].at = "ended"]
      /\ UNCHANGED <<asked, heard, holder, performed>>
      /\ IF bridge[a].at = "calling" THEN LetsGo(a) ELSE UNCHANGED calls
  BY DEF BridgeEnds
<1>2. /\ CallsFit'
      /\ \A d \in DOMAIN calls :
            d[1] # a /\ ~calls[d].closed => d \in DOMAIN calls' /\ ~calls'[d].closed
  <2>1. CASE bridge[a].at = "calling"
    BY <1>1, <2>1, LetsGoFits
  <2>2. CASE bridge[a].at # "calling"
    <3>1. calls' = calls
      BY <1>1, <2>2
    <3>2. CallsFit'
      BY <1>1, <3>1, CallsStay
    <3>3. QED
      BY <3>1, <3>2
  <2>3. QED
    BY <2>1, <2>2
<1>3. /\ bridge[a].line \in Nat /\ bridge[a].line >= 1 /\ bridge[a].line <= Len(asked[a]) + 1
      /\ bridge[a].step \in 0 .. 2 /\ Len(asked[a]) \in Nat
      /\ heard \in [Asker -> Seq([line : Nat, what : Told])]
  BY PlaceOf
<1>4. MovesTo(a, "ended", bridge[a].line, bridge[a].step)
  BY <1>1, PlaceMoves
<1>5. \A b \in Asker : HeardInOrder(b)'
  <2>1. /\ \A b \in Asker \ {a} : bridge'[b] = bridge[b]
        /\ bridge'[a].line = bridge[a].line
    BY <1>4 DEF MovesTo
  <2>2. \A c \in DOMAIN performed : c \in DOMAIN performed' /\ performed'[c] = performed[c]
    BY <1>1
  <2>3. QED
    BY <1>1, <2>1, <2>2, QuietKeeps
<1>6. OnItsLine(a)'
  BY <1>1, <1>3, <1>4 DEF MovesTo, OnItsLine
<1>7. \A c \in DOMAIN performed : c[1] = a /\ Behind(c, bridge[a]) => Behind(c, bridge'[a])
  BY <1>3, <1>4, BehindStays
<1>8. heard' \in [Asker -> Seq([line : Nat, what : Told])]
  BY <1>1, <1>3
<1>9. QED
  BY <1>1, <1>2, <1>4, <1>5, <1>6, <1>7, <1>8, BridgeStep

\* What is written comes after all that was.
LEMMA WritesKeeps ==
    ASSUME ExchangeInv, NEW a \in Asker, Writes(a)
    PROVE  ExchangeInv'
<1>1. PICK kind \in Kind : asked' = [asked EXCEPT ![a] = Append(@, kind)]
  BY DEF Writes
<1>2. UNCHANGED <<heard, bridge, calls, holder, performed>> /\ CallsFit'
  BY CallsStay DEF Writes
<1>3. /\ ExchangeTypes /\ \A b \in Asker : OnItsLine(b) /\ HeardInOrder(b)
      /\ \A c \in DOMAIN performed : MadeFromALine(c)
  BY DEF ExchangeInv
<1>4. asked' \in [Asker -> Seq(Kind)]
  BY <1>1, <1>3 DEF ExchangeTypes
<1>5. ASSUME NEW b \in Asker
      PROVE  /\ Len(asked[b]) \in Nat /\ Len(asked'[b]) \in Nat /\ Len(asked[b]) <= Len(asked'[b])
             /\ \A l \in 1 .. Len(asked[b]) : asked'[b][l] = asked[b][l]
  <2>1. asked[b] \in Seq(Kind)
    BY <1>3 DEF ExchangeTypes
  <2>2. CASE b = a
    <3>1. asked'[b] = Append(asked[b], kind)
      BY <1>1, <1>3, <2>2 DEF ExchangeTypes
    <3>2. QED
      BY <2>1, <3>1
  <2>3. CASE b # a
    <3>1. asked'[b] = asked[b]
      BY <1>1, <1>3, <2>3 DEF ExchangeTypes
    <3>2. QED
      BY <2>1, <3>1
  <2>4. QED
    BY <2>2, <2>3
<1>6. ExchangeTypes'
  BY <1>2, <1>3, <1>4 DEF ExchangeTypes
<1>7. ASSUME NEW b \in Asker PROVE OnItsLine(b)'
  <2>1. OnItsLine(b) /\ bridge[b].line \in Nat /\ bridge[b].line >= 1
    BY <1>3, PlaceOf
  <2>2. Call(b)' = Call(b)
    BY <1>2 DEF Call
  <2>3. bridge[b].line <= Len(asked[b]) => Line(b)' = Line(b)
    BY <1>2, <1>5, <2>1 DEF Line
  <2>4. bridge[b].line \in 1 .. Len(asked'[b]) + 1
    BY <1>5, <2>1 DEF OnItsLine
  <2>5. bridge[b].at \in {"connecting", "calling"} =>
           /\ bridge[b].line <= Len(asked'[b]) /\ Line(b)' \in {"initialize", "tool"}
           /\ bridge[b].step \in 1 .. LastStep(Line(b)')
    BY <1>5, <2>1, <2>3 DEF OnItsLine
  <2>6. bridge'[b] = bridge[b] /\ calls' = calls
    BY <1>2
  <2>7. QED
    BY <2>1, <2>2, <2>4, <2>5, <2>6 DEF OnItsLine
<1>8. ASSUME NEW b \in Asker PROVE HeardInOrder(b)'
  <2>1. HeardInOrder(b) /\ OnItsLine(b)
    BY <1>3
  <2>2. bridge[b].line \in Nat /\ bridge[b].line >= 1 /\ bridge[b].line <= Len(asked[b]) + 1
    BY PlaceOf
  <2>3. \A l \in 1 .. bridge[b].line - 1 : l \in 1 .. Len(asked[b]) /\ asked'[b][l] = asked[b][l]
    BY <1>5, <2>2
  <2>4. {l \in 1 .. bridge[b].line - 1 : Wants(asked'[b][l])}
          = {l \in 1 .. bridge[b].line - 1 : Wants(asked[b][l])}
    BY <2>3
  <2>5. \A n \in DOMAIN heard[b] : heard[b][n].line \in 1 .. bridge[b].line - 1
    BY <2>1 DEF HeardInOrder
  <2>6. \A n \in DOMAIN heard[b] : asked'[b][heard[b][n].line] = asked[b][heard[b][n].line]
    BY <2>3, <2>5
  <2>7. /\ \A m, n \in DOMAIN heard'[b] : m < n => heard'[b][m].line < heard'[b][n].line
        /\ {heard'[b][n].line : n \in DOMAIN heard'[b]} =
              {l \in 1 .. bridge'[b].line - 1 : Wants(asked'[b][l])}
    BY <1>2, <2>1, <2>4 DEF HeardInOrder
  <2>8. \A n \in DOMAIN heard'[b] :
           asked'[b][heard'[b][n].line] = "tool" /\ heard'[b][n].what \in {"value", "nothing"} =>
              /\ <<b, heard'[b][n].line, 1>> \in DOMAIN performed'
              /\ performed'[<<b, heard'[b][n].line, 1>>] = 1
    BY <1>2, <2>1, <2>6 DEF HeardInOrder, Ran
  <2>9. QED
    BY <2>7, <2>8 DEF HeardInOrder, Ran
<1>9. ASSUME NEW c \in DOMAIN performed' PROVE MadeFromALine(c)'
  <2>1. MadeFromALine(c) /\ c[1] \in Asker
    BY <1>2, <1>3 DEF ExchangeTypes, CallKey
  <2>2. c[2] \in 1 .. Len(asked'[c[1]]) /\ asked'[c[1]][c[2]] = asked[c[1]][c[2]]
    BY <1>5, <2>1 DEF MadeFromALine
  <2>3. bridge'[c[1]] = bridge[c[1]]
    BY <1>2
  <2>4. QED
    BY <2>1, <2>2, <2>3 DEF MadeFromALine, Behind
<1>10. QED
  BY <1>2, <1>6, <1>7, <1>8, <1>9 DEF ExchangeInv, CallsFit

\* Every thread is gone, and who was in the engine was there once.
LEMMA ServiceDiesKeeps ==
    ASSUME ExchangeInv, ServiceDies
    PROVE  ExchangeInv'
<1>1. /\ ExchangeTypes
      /\ \A c \in DOMAIN calls : Fits(calls[c], performed[c])
      /\ \A c \in DOMAIN calls : c = holder => calls[c].thread = "performing"
      /\ holder = Nobody \/ holder \in DOMAIN calls
      /\ DOMAIN calls \subseteq DOMAIN performed
  BY DEF ExchangeInv, ExchangeTypes
<1>2. UNCHANGED <<asked, heard, bridge>> /\ holder' = Nobody
  BY DEF ServiceDies
<1>3. PICK n \in 0 .. WholeReply :
        calls' = [c \in {d \in DOMAIN calls : ~calls[d].closed} |->
            [calls[c] EXCEPT !.thread = "gone", !.shown = IF At(c, "replying") THEN n ELSE @]]
  BY DEF ServiceDies
<1>4. /\ PerformedGrows
      /\ \A c \in DOMAIN performed : c # holder => performed'[c] = performed[c]
  <2>1. CASE holder = Nobody
    <3>1. performed' = performed
      BY <2>1 DEF ServiceDies
    <3>2. QED
      BY <3>1, PerformedStays
  <2>2. CASE holder # Nobody
    <3>1. PICK more \in {0, 1} : PerformedBy(holder, more)
      BY <2>2 DEF ServiceDies, PerformedBy
    <3>2. holder \in DOMAIN calls /\ calls[holder].thread = "performing"
      BY <1>1, <2>2
    <3>3. QED
      BY <3>1, <3>2, PerformedOnce
  <2>3. QED
    BY <2>1, <2>2
<1>5. ASSUME NEW c \in DOMAIN calls'
      PROVE  /\ c \in DOMAIN calls /\ ~calls[c].closed /\ ~calls'[c].closed
             /\ Fits(calls'[c], performed'[c])
  <2>. DEFINE one == [calls[c] EXCEPT !.thread = "gone"]
              arrived == IF At(c, "replying") THEN n ELSE calls[c].shown
              new == [one EXCEPT !.shown = arrived]
  <2>1. /\ c \in DOMAIN calls /\ ~calls[c].closed
        /\ calls'[c] = [calls[c] EXCEPT !.thread = "gone",
                                        !.shown = IF At(c, "replying") THEN n ELSE @]
    BY <1>3
  <2>2. calls[c] \in CallState /\ Fits(calls[c], performed[c])
    BY <1>1, <2>1 DEF Fits
  <2>3. one \in CallState /\ one.thread = "gone" /\ one.sent = calls[c].sent
        /\ one.closed = calls[c].closed /\ one.status = calls[c].status /\ one.shown = calls[c].shown
    BY <2>2 DEF CallState
  <2>4. calls'[c] = new
    BY <2>1, <2>3
  <2>5. arrived \in 0 .. 2
    BY <2>2 DEF CallState, WholeReply
  <2>. HIDE DEF one, arrived
  <2>6. new \in CallState /\ new.thread = one.thread /\ new.sent = one.sent
        /\ new.closed = one.closed /\ new.status = one.status
    BY <2>3, <2>5 DEF CallState
  <2>. HIDE DEF new
  <2>7. performed'[c] = 1 => calls[c].sent = WholeRequest
    <3>1. CASE c = holder
      BY <1>1, <2>1, <2>2, <3>1 DEF Fits
    <3>2. CASE c # holder
      BY <1>1, <1>4, <2>1, <2>2, <3>2 DEF Fits
    <3>3. QED
      BY <3>1, <3>2
  <2>8. calls[c].status = 200 => performed'[c] = 1
    BY <1>1, <1>4, <2>1, <2>2 DEF Fits, PerformedGrows
  <2>9. QED
    BY <2>1, <2>3, <2>4, <2>6, <2>7, <2>8 DEF Fits
<1>6. ASSUME NEW c \in DOMAIN calls, ~calls[c].closed PROVE c \in DOMAIN calls'
  BY <1>3, <1>6
<1>7. KeepsWhatIsOpen
  BY <1>5, <1>6 DEF KeepsWhatIsOpen
<1>8. CallsFit'
  <2>1. DOMAIN calls' \subseteq DOMAIN performed'
    BY <1>1, <1>4, <1>5 DEF PerformedGrows
  <2>2. ASSUME NEW c \in DOMAIN calls' PROVE c # Nobody
    BY <1>1, <1>5, NobodyIsNoCall DEF ExchangeTypes
  <2>3. QED
    BY <1>2, <1>5, <2>1, <2>2 DEF CallsFit
<1>9. QED
  BY <1>2, <1>4, <1>7, <1>8, BridgesStay

LEMMA ExchangeOfInit == ExchangeInit => ExchangeInv
<1>. SUFFICES ASSUME ExchangeInit PROVE ExchangeInv
  OBVIOUS
<1>1. /\ asked = [a \in Asker |-> << >>] /\ heard = [a \in Asker |-> << >>]
      /\ bridge \in [Asker -> [at : {"reading"}, line : {1}, step : {0}, client : BOOLEAN]]
      /\ DOMAIN calls = {} /\ DOMAIN performed = {} /\ holder = Nobody
  BY DEF ExchangeInit
<1>2. ASSUME NEW a \in Asker
      PROVE  bridge[a] \in Bridge /\ bridge[a].at = "reading" /\ bridge[a].line = 1
  BY <1>1 DEF Bridge
<1>3. ExchangeTypes
  <2>1. bridge \in [Asker -> Bridge]
    BY <1>1, <1>2
  <2>2. QED
    BY <1>1, <2>1 DEF ExchangeTypes
<1>4. ASSUME NEW a \in Asker PROVE OnItsLine(a) /\ HeardInOrder(a)
  <2>1. Len(asked[a]) = 0 /\ DOMAIN heard[a] = {}
    BY <1>1
  <2>2. {l \in 1 .. bridge[a].line - 1 : Wants(asked[a][l])} = {}
    BY <1>2
  <2>3. QED
    BY <1>2, <2>1, <2>2 DEF OnItsLine, HeardInOrder
<1>5. QED
  BY <1>1, <1>3, <1>4 DEF ExchangeInv

LEMMA ExchangeOfStep == ExchangeInv /\ [ExchangeNext]_exchangeVars => ExchangeInv'
<1>. SUFFICES ASSUME ExchangeInv, [ExchangeNext]_exchangeVars PROVE ExchangeInv'
  OBVIOUS
<1>1. ASSUME NEW a \in Asker, Connects(a) PROVE ExchangeInv'
  BY <1>1, RefusedKeeps, ConnectedKeeps
<1>2. ASSUME NEW a \in Asker,
             \/ Writes(a) \/ HandleLine(a) \/ Sends(a) \/ Receives(a) \/ GivesUp(a) \/ BridgeEnds(a)
      PROVE  ExchangeInv'
  BY <1>2, WritesKeeps, HandleLineKeeps, SendsKeeps, ReceivesKeeps, GivesUpKeeps, BridgeEndsKeeps
<1>3. ASSUME NEW c \in DOMAIN calls,
             Reads(c) \/ ReadTimesOut(c) \/ Takes(c) \/ Performs(c) \/ Panics(c) \/ Responds(c)
      PROVE  ExchangeInv'
  BY <1>3, ReadsKeeps, TakesKeeps, PerformsKeeps, RespondsKeeps
<1>4. CASE ServiceDies
  BY <1>4, ServiceDiesKeeps
<1>5. CASE UNCHANGED exchangeVars
  <2>1. UNCHANGED <<asked, heard, bridge, calls, holder, performed>>
    BY <1>5 DEF exchangeVars
  <2>2. CallsFit' /\ PerformedGrows /\ KeepsWhatIsOpen
    BY <2>1, CallsStay, PerformedStays DEF KeepsWhatIsOpen
  <2>3. QED
    BY <2>1, <2>2, BridgesStay
<1>6. QED
  BY <1>1, <1>2, <1>3, <1>4, <1>5 DEF ExchangeNext

\* The calls of a tool's line are one at most.
LEMMA ToolRunsOnce ==
    ASSUME ExchangeInv, NEW a \in Asker, NEW line \in 1 .. Len(asked[a]), asked[a][line] = "tool"
    PROVE  /\ Runs(a, line) <= 1
           /\ Ran(<<a, line, 1>>) => Runs(a, line) = 1
<1>. DEFINE key == <<a, line, 1>>
            made == {c \in DOMAIN performed : c[1] = a /\ c[2] = line}
<1>1. /\ DOMAIN performed \subseteq CallKey /\ \A c \in DOMAIN performed : MadeFromALine(c)
      /\ \A c \in DOMAIN performed : performed[c] \in {0, 1}
  BY DEF ExchangeInv, ExchangeTypes
<1>2. ASSUME NEW c \in made PROVE c = key
  <2>1. c \in CallKey /\ c[1] = a /\ c[2] = line /\ MadeFromALine(c)
    BY <1>1
  <2>2. c[3] = 1
    BY <2>1 DEF MadeFromALine, CallKey
  <2>3. QED
    BY <2>1, <2>2 DEF CallKey
<1>3. key \in DOMAIN performed => key \in made
  OBVIOUS
<1>. HIDE DEF key
<1>4. Runs(a, line) = SumFunctionOnSet(performed, made)
  BY DEF Runs
<1>5. CASE key \in DOMAIN performed
  <2>1. made = {key} /\ performed[key] \in {0, 1}
    BY <1>1, <1>2, <1>3, <1>5
  <2>. HIDE DEF made
  <2>2. IsFiniteSet({key}) /\ {key} \ {key} = {}
    BY FS_Singleton
  <2>3. \A x \in {key} : performed[x] \in Nat
    BY <2>1
  <2>4. SumFunctionOnSet(performed, {key}) = performed[key] + SumFunctionOnSet(performed, {key} \ {key})
    BY <2>2, <2>3, SumSplits
  <2>5. SumFunctionOnSet(performed, {key}) = performed[key] + 0
    BY <2>2, <2>4, SumOfEmpty
  <2>6. Runs(a, line) = performed[key]
    BY <1>4, <2>1, <2>5
  <2>7. QED
    BY <2>1, <2>6 DEF Ran, key
<1>6. CASE key \notin DOMAIN performed
  <2>1. made = {}
    BY <1>2, <1>6
  <2>. HIDE DEF made
  <2>2. Runs(a, line) = 0
    BY <1>4, <2>1, SumOfEmpty
  <2>3. QED
    BY <1>6, <2>2 DEF Ran, key
<1>7. QED
  BY <1>5, <1>6

LEMMA TrueAnswers == ExchangeInv => AnswersAreTrue
<1>. SUFFICES ASSUME ExchangeInv PROVE AnswersAreTrue
  OBVIOUS
<1>1. ASSUME NEW a \in Asker, NEW n \in DOMAIN heard[a], asked[a][heard[a][n].line] = "tool"
      PROVE  /\ Runs(a, heard[a][n].line) <= 1
             /\ heard[a][n].what \in {"value", "nothing"} => Runs(a, heard[a][n].line) = 1
  <2>1. HeardInOrder(a) /\ bridge[a].line \in Nat /\ bridge[a].line <= Len(asked[a]) + 1
        /\ Len(asked[a]) \in Nat
    BY PlaceOf DEF ExchangeInv
  <2>2. heard[a][n].line \in 1 .. bridge[a].line - 1
    BY <2>1 DEF HeardInOrder
  <2>3. heard[a][n].line \in 1 .. Len(asked[a])
    BY <2>1, <2>2
  <2>4. heard[a][n].what \in {"value", "nothing"} => Ran(<<a, heard[a][n].line, 1>>)
    BY <1>1, <2>1 DEF HeardInOrder
  <2>5. QED
    BY <1>1, <2>3, <2>4, ToolRunsOnce
<1>2. ASSUME NEW c \in DOMAIN calls, performed[c] > 0
      PROVE  performed[c] = 1 /\ calls[c].sent = WholeRequest
  BY <1>2, CallFits DEF Fits
<1>3. ASSUME NEW a \in Asker
      PROVE  /\ \A m, n \in DOMAIN heard[a] : m < n => heard[a][m].line < heard[a][n].line
             /\ {heard[a][n].line : n \in DOMAIN heard[a]} =
                   {l \in 1 .. bridge[a].line - 1 : Wants(asked[a][l])}
  BY DEF ExchangeInv, HeardInOrder
<1>4. QED
  BY <1>1, <1>2, <1>3 DEF AnswersAreTrue

\* Every line that wants an answer has one, in order, whatever dies or gives up in
\* whatever order (server.rs, client.rs, http.rs), and what is told of a tool is
\* what was done: a tool that answered was run once, another at most once.
THEOREM AnswersOfTheBridges == ExchangeSpec => []AnswersAreTrue
<1>1. QED
  BY ExchangeOfInit, ExchangeOfStep, TrueAnswers, PTL DEF ExchangeSpec
=============================================================================
