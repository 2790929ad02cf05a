---------------------------- MODULE TrialsProofs ----------------------------
(***************************************************************************)
(* What CoreScout may believe of its own experiments, for any sessions,    *)
(* procedures, budget and rate of forgetting.                              *)
(***************************************************************************)
EXTENDS Trials, FiniteSetTheorems, TLAPS

-----------------------------------------------------------------------------
(* Ageing.                                                                 *)

\* A further trial leaves at most the weight there was.
LEMMA AgeShrinks ==
    ASSUME NEW w \in Nat PROVE Age(w) \in Nat /\ Age(w) <= w
<1>. DEFINE q == (w * Kept) \div Unit
<1>1. Unit \in Nat /\ Unit > 0 /\ Kept \in Nat /\ Kept <= Unit
  BY TrialsAssumption
<1>2. w * Kept \in Nat /\ w * Kept <= w * Unit
  BY <1>1
<1>3. q \in Nat /\ q * Unit <= w * Kept
  BY <1>1, <1>2
<1>4. q * Unit <= w * Unit
  <2>1. q * Unit \in Nat /\ w * Unit \in Nat
    BY <1>1, <1>3
  <2>2. QED
    BY <1>2, <1>3, <2>1
<1>5. q <= w
  <2>1. SUFFICES ASSUME q >= w + 1 PROVE FALSE
    BY <1>3
  <2>2. q * Unit >= (w + 1) * Unit
    BY <2>1, <1>1, <1>3
  <2>3. (w + 1) * Unit = w * Unit + Unit
    BY <1>1
  <2>4. QED
    BY <2>2, <2>3, <1>4, <1>1, <1>3
<1>6. QED
  BY <1>3, <1>5 DEF Age

LEMMA AgedArmType ==
    ASSUME NEW arm \in Arm PROVE AgedArm(arm) \in Arm
BY AgeShrinks DEF AgedArm, Arm

LEMMA RecordedArmType ==
    ASSUME NEW arm \in Arm, NEW randomised \in BOOLEAN
    PROVE  RecordedArm(arm, randomised) \in Arm
BY AgeShrinks, TrialsAssumption DEF RecordedArm, Arm

LEMMA RecordedType ==
    ASSUME NEW e \in Evidence, NEW trial \in Trial PROVE Recorded(e, trial) \in Evidence
BY AgedArmType, RecordedArmType DEF Recorded, Evidence, Trial

-----------------------------------------------------------------------------
(* Types.                                                                  *)

LEMMA DecidedType ==
    ASSUME NEW e \in Evidence, NEW applied \in BOOLEAN,
           NEW randomised \in (IF Exhausted(e) THEN {FALSE} ELSE BOOLEAN)
    PROVE  Decided(e, applied, randomised) \in Evidence
<1>1. e.suggested + 1 \in Nat /\ e.taken + 1 \in Nat
  BY DEF Evidence
<1>2. randomised => e.spent + 1 \in 0..Budget
  <2>1. CASE Exhausted(e)
    BY <2>1
  <2>2. CASE ~Exhausted(e)
    BY <2>2, TrialsAssumption DEF Exhausted, Evidence
  <2>3. QED
    BY <2>1, <2>2
<1>3. QED
  BY <1>1, <1>2 DEF Decided, Evidence

LEMMA UnknownType == Unknown \in Evidence /\ [Unknown EXCEPT !.known = TRUE] \in Evidence
<1>1. 0 \in 0..Budget
  BY TrialsAssumption
<1>2. QED
  BY <1>1 DEF Unknown, NoTrials, Evidence, Arm

LEMMA SettleType ==
    ASSUME TypeOK, NEW k \in Key PROVE Settle(k) \in [Procedure -> Evidence]
<1>1. CASE pending[k] # NoTrial /\ evidence[pending[k].procedure].known
  <2>1. pending[k] \in Trial
    BY <1>1 DEF TypeOK
  <2>2. PICK p \in Procedure : p = pending[k].procedure
    BY <2>1 DEF Trial
  <2>3. Recorded(evidence[p], pending[k]) \in Evidence
    BY <2>1, <2>2, RecordedType DEF TypeOK
  <2>4. QED
    BY <1>1, <2>2, <2>3 DEF Settle, TypeOK
<1>2. CASE ~(pending[k] # NoTrial /\ evidence[pending[k].procedure].known)
  BY <1>2 DEF Settle, TypeOK
<1>3. QED
  BY <1>1, <1>2

LEMMA ProposedType ==
    ASSUME NEW e \in [Procedure -> Evidence], NEW new \in SUBSET Procedure
    PROVE  Proposed(e, new) \in [Procedure -> Evidence]
BY UnknownType DEF Proposed

LEMMA TypesOfStep == TypeOK /\ [Next]_vars => TypeOK'
<1>. SUFFICES ASSUME TypeOK, [Next]_vars PROVE TypeOK'
  OBVIOUS
<1>1. ASSUME NEW s \in Session, NEW op \in Operation, NEW ws \in Workspace,
             NEW p \in Procedure, Advise(s, op, ws, p)
      PROVE  TypeOK'
  <2>. DEFINE k == <<s, op>>
  <2>1. PICK applied \in BOOLEAN,
             randomised \in (IF Exhausted(evidence[p]) THEN {FALSE} ELSE BOOLEAN) :
           LET trial == [procedure |-> p, applied |-> applied, randomised |-> randomised]
               asked == [pending EXCEPT ![k] = trial]
           IN /\ evidence' = [evidence EXCEPT ![p] = Decided(@, applied, randomised)]
              /\ \E aged \in Aged(asked, k) :
                    /\ pending' = Pruned(asked, aged)
                    /\ stale' = stale \ (aged \cup {k})
    BY <1>1 DEF Advise
  <2>. DEFINE trial == [procedure |-> p, applied |-> applied, randomised |-> randomised]
              asked == [pending EXCEPT ![k] = trial]
  <2>2. randomised \in BOOLEAN
    <3>1. CASE Exhausted(evidence[p])
      BY <2>1, <3>1
    <3>2. CASE ~Exhausted(evidence[p])
      BY <2>1, <3>2
    <3>3. QED
      BY <3>1, <3>2
  <2>3. evidence' \in [Procedure -> Evidence]
    BY <2>1, DecidedType DEF TypeOK
  <2>4. asked \in [Key -> Trial \cup {NoTrial}]
    BY <2>2 DEF TypeOK, Key, Trial
  <2>5. PICK aged \in Aged(asked, k) :
           pending' = Pruned(asked, aged) /\ stale' = stale \ (aged \cup {k})
    BY <2>1
  <2>6. pending' \in [Key -> Trial \cup {NoTrial}]
    BY <2>4, <2>5 DEF Pruned
  <2>7. stale' \subseteq Waiting(pending')
    BY <2>4, <2>5 DEF TypeOK, Waiting, Pruned
  <2>8. QED
    BY <1>1, <2>3, <2>6, <2>7 DEF TypeOK, Advise
<1>2. ASSUME NEW s \in Session, NEW op \in Operation, NEW ws \in Workspace,
             AgentObserve(s, op, ws)
      PROVE  TypeOK'
  <2>. DEFINE k == <<s, op>>
  <2>0. k \in Key
    BY DEF Key
  <2>1. PICK new \in SUBSET Proposable(op, ws) : evidence' = Proposed(Settle(k), new)
    BY <1>2 DEF AgentObserve
  <2>2. evidence' \in [Procedure -> Evidence]
    BY <2>0, <2>1, SettleType, ProposedType DEF Proposable
  <2>3. stored' \in [Procedure -> Evidence] /\ failed' \in Nat
    BY <1>2, <2>2 DEF AgentObserve, Write, TypeOK
  <2>4. pending' \in [Key -> Trial \cup {NoTrial}] /\ stale' \subseteq Waiting(pending')
    BY <1>2, <2>0 DEF AgentObserve, Answered, TypeOK, Waiting
  <2>5. tainted' \subseteq Procedure
    <3>1. k \in stale => pending[k].procedure \in Procedure
      BY <2>0 DEF TypeOK, Waiting, Trial
    <3>2. QED
      BY <1>2, <3>1 DEF AgentObserve, TypeOK
  <2>6. QED
    BY <2>2, <2>3, <2>4, <2>5 DEF TypeOK
<1>3. CASE Persist
  BY <1>3 DEF Persist, TypeOK, Waiting
<1>4. CASE Forget
  <2>1. evidence' \in [Procedure -> Evidence]
    BY <1>4, UnknownType DEF Forget
  <2>2. stored' \in [Procedure -> Evidence] /\ failed' \in Nat
    BY <1>4, <2>1 DEF Forget, Write, TypeOK
  <2>3. tainted' \subseteq Procedure
    BY <1>4 DEF Forget, TypeOK
  <2>4. QED
    BY <1>4, <2>1, <2>2, <2>3 DEF Forget, Waiting, TypeOK
<1>5. CASE Restart \/ ForgetStopsShort
  BY <1>5, UnknownType DEF Restart, ForgetStopsShort, TypeOK, Waiting
<1>6. CASE UNCHANGED vars
  BY <1>6 DEF vars, TypeOK, Waiting
<1>7. QED
  BY <1>1, <1>2, <1>3, <1>4, <1>5, <1>6 DEF Next

LEMMA TypesOfInit == Init => TypeOK
<1>1. 0 \in 0..Budget
  BY TrialsAssumption
<1>2. QED
  BY <1>1 DEF Init, TypeOK, Unknown, NoTrials, Evidence, Arm, Waiting

\* Every variable keeps its type, and the coin is never paid for beyond the
\* budget.
THEOREM Typing == Spec => []TypeOK
BY TypesOfInit, TypesOfStep, PTL DEF Spec

-----------------------------------------------------------------------------
(* What settles a comparison.                                              *)

\* Weight comes from the trials the coin decided, and only ever fades.
Weighed(e) ==
    /\ e.treatment.weight <= Unit * e.treatment.randomised
    /\ e.control.weight <= Unit * e.control.randomised

AllWeighed ==
    /\ \A p \in Procedure : Weighed(evidence[p])
    /\ \A p \in Procedure : Weighed(stored[p])

LEMMA RecordedArmWeighed ==
    ASSUME NEW arm \in Arm, NEW randomised \in BOOLEAN,
           arm.weight <= Unit * arm.randomised
    PROVE  LET r == RecordedArm(arm, randomised) IN r.weight <= Unit * r.randomised
<1>1. arm.weight \in Nat /\ arm.randomised \in Nat /\ Unit \in Nat
  BY TrialsAssumption DEF Arm
<1>2. Age(arm.weight) \in Nat /\ Age(arm.weight) <= arm.weight
  BY <1>1, AgeShrinks
<1>3. Unit * (arm.randomised + 1) = Unit * arm.randomised + Unit
  BY <1>1
<1>4. Unit * arm.randomised \in Nat /\ Unit * (arm.randomised + 0) = Unit * arm.randomised
  BY <1>1
<1>5. CASE randomised
  <2>1. Age(arm.weight) + Unit <= Unit * (arm.randomised + 1)
    BY <1>1, <1>2, <1>3, <1>4
  <2>2. QED
    BY <1>5, <2>1 DEF RecordedArm
<1>6. CASE ~randomised
  <2>1. Age(arm.weight) + 0 <= Unit * (arm.randomised + 0)
    BY <1>1, <1>2, <1>4
  <2>2. QED
    BY <1>6, <2>1 DEF RecordedArm
<1>7. QED
  BY <1>5, <1>6

LEMMA AgedArmWeighed ==
    ASSUME NEW arm \in Arm, arm.weight <= Unit * arm.randomised
    PROVE  AgedArm(arm).weight <= Unit * AgedArm(arm).randomised
<1>1. arm.weight \in Nat /\ Unit * arm.randomised \in Nat
  BY TrialsAssumption DEF Arm
<1>2. Age(arm.weight) \in Nat /\ Age(arm.weight) <= Unit * arm.randomised
  BY <1>1, AgeShrinks
<1>3. QED
  BY <1>2 DEF AgedArm, Arm

LEMMA RecordedWeighed ==
    ASSUME NEW e \in Evidence, NEW trial \in Trial, Weighed(e)
    PROVE  Weighed(Recorded(e, trial))
<1>1. e.treatment \in Arm /\ e.control \in Arm /\ trial.randomised \in BOOLEAN
  BY DEF Evidence, Trial
<1>2. CASE trial.applied
  <2>1. /\ Recorded(e, trial).treatment = RecordedArm(e.treatment, trial.randomised)
        /\ Recorded(e, trial).control = AgedArm(e.control)
    BY <1>2 DEF Recorded, Evidence
  <2>2. QED
    BY <1>1, <2>1, RecordedArmWeighed, AgedArmWeighed DEF Weighed
<1>3. CASE ~trial.applied
  <2>1. /\ Recorded(e, trial).control = RecordedArm(e.control, trial.randomised)
        /\ Recorded(e, trial).treatment = AgedArm(e.treatment)
    BY <1>3 DEF Recorded, Evidence
  <2>2. QED
    BY <1>1, <2>1, RecordedArmWeighed, AgedArmWeighed DEF Weighed
<1>4. QED
  BY <1>2, <1>3

LEMMA UnknownWeighed == Weighed(Unknown) /\ Weighed([Unknown EXCEPT !.known = TRUE])
BY TrialsAssumption DEF Unknown, NoTrials, Weighed

LEMMA SettleWeighed ==
    ASSUME TypeOK, NEW k \in Key, \A p \in Procedure : Weighed(evidence[p])
    PROVE  \A p \in Procedure : Weighed(Settle(k)[p])
<1>1. CASE pending[k] # NoTrial /\ evidence[pending[k].procedure].known
  <2>1. pending[k] \in Trial
    BY <1>1 DEF TypeOK
  <2>2. PICK q \in Procedure : q = pending[k].procedure
    BY <2>1 DEF Trial
  <2>3. Weighed(Recorded(evidence[q], pending[k]))
    BY <2>1, <2>2, RecordedWeighed DEF TypeOK
  <2>4. Settle(k) = [evidence EXCEPT ![q] = Recorded(evidence[q], pending[k])]
    BY <1>1, <2>2 DEF Settle
  <2>5. QED
    BY <2>3, <2>4 DEF TypeOK
<1>2. CASE ~(pending[k] # NoTrial /\ evidence[pending[k].procedure].known)
  BY <1>2 DEF Settle
<1>3. QED
  BY <1>1, <1>2

LEMMA WeighedOfStep == TypeOK /\ AllWeighed /\ [Next]_vars => AllWeighed'
<1>. SUFFICES ASSUME TypeOK, AllWeighed, [Next]_vars PROVE AllWeighed'
  OBVIOUS
<1>1. ASSUME NEW s \in Session, NEW op \in Operation, NEW ws \in Workspace,
             NEW p \in Procedure, Advise(s, op, ws, p)
      PROVE  AllWeighed'
  <2>1. PICK applied, randomised :
           evidence' = [evidence EXCEPT ![p] = Decided(@, applied, randomised)]
    BY <1>1 DEF Advise
  <2>2. evidence[p] \in Evidence
    BY DEF TypeOK
  <2>3. /\ Decided(evidence[p], applied, randomised).treatment = evidence[p].treatment
        /\ Decided(evidence[p], applied, randomised).control = evidence[p].control
    BY <2>2 DEF Decided, Evidence
  <2>4. Weighed(Decided(evidence[p], applied, randomised))
    BY <2>3 DEF Weighed, AllWeighed
  <2>5. \A q \in Procedure : Weighed(evidence[q])'
    BY <2>1, <2>4 DEF AllWeighed, TypeOK, Weighed
  <2>6. QED
    BY <1>1, <2>5 DEF Advise, AllWeighed, Weighed
<1>2. ASSUME NEW s \in Session, NEW op \in Operation, NEW ws \in Workspace,
             AgentObserve(s, op, ws)
      PROVE  AllWeighed'
  <2>. DEFINE k == <<s, op>>
  <2>1. k \in Key
    BY DEF Key
  <2>2. PICK new \in SUBSET Proposable(op, ws) : evidence' = Proposed(Settle(k), new)
    BY <1>2 DEF AgentObserve
  <2>3. \A p \in Procedure : Weighed(Settle(k)[p])
    BY <2>1, SettleWeighed DEF AllWeighed
  <2>4. \A p \in Procedure : Weighed(evidence'[p])
    BY <2>2, <2>3, UnknownWeighed DEF Proposed
  <2>5. \A p \in Procedure : Weighed(stored'[p])
    BY <1>2, <2>4 DEF AgentObserve, Write, AllWeighed
  <2>6. QED
    BY <2>4, <2>5 DEF AllWeighed, Weighed
<1>3. CASE Persist
  BY <1>3 DEF Persist, AllWeighed, Weighed
<1>4. CASE Forget
  <2>1. \A p \in Procedure : Weighed(evidence'[p])
    BY <1>4, UnknownWeighed DEF Forget
  <2>2. \A p \in Procedure : Weighed(stored'[p])
    BY <1>4, <2>1 DEF Forget, Write, AllWeighed
  <2>3. QED
    BY <2>1, <2>2 DEF AllWeighed, Weighed
<1>5. CASE Restart
  BY <1>5 DEF Restart, AllWeighed, Weighed
<1>6. CASE ForgetStopsShort
  BY <1>6, UnknownWeighed DEF ForgetStopsShort, AllWeighed, Weighed
<1>7. CASE UNCHANGED vars
  BY <1>7 DEF vars, AllWeighed, Weighed
<1>8. QED
  BY <1>1, <1>2, <1>3, <1>4, <1>5, <1>6, <1>7 DEF Next

\* Trials that weigh as much as MinTrials were at least MinTrials.
LEMMA WeightCounts ==
    ASSUME NEW n \in Nat, NEW w \in Nat, w <= Unit * n, w >= MinTrials * Unit
    PROVE  n >= MinTrials
<1>1. Unit \in Nat /\ Unit > 0 /\ MinTrials \in Nat
  BY TrialsAssumption
<1>2. SUFFICES ASSUME n + 1 <= MinTrials PROVE FALSE
  BY <1>1
<1>3. (n + 1) * Unit <= MinTrials * Unit
  BY <1>1, <1>2
<1>4. (n + 1) * Unit = Unit * n + Unit /\ Unit * n \in Nat /\ MinTrials * Unit \in Nat
  BY <1>1
<1>5. QED
  BY <1>1, <1>3, <1>4

\* However long advice is taken and however its evidence fades, a comparison is
\* settled only on enough trials that the coin decided, in both arms.
THEOREM CausalClaims == Spec => []CausalClaimsAreRandomised
<1>1. Init => AllWeighed
  BY UnknownWeighed DEF Init, AllWeighed
<1>2. TypeOK /\ AllWeighed => CausalClaimsAreRandomised
  <2>1. SUFFICES ASSUME TypeOK, AllWeighed, NEW p \in Procedure, Settled(evidence[p])
                 PROVE  /\ evidence[p].treatment.randomised >= MinTrials
                        /\ evidence[p].control.randomised >= MinTrials
    BY DEF CausalClaimsAreRandomised
  <2>2. evidence[p].treatment \in Arm /\ evidence[p].control \in Arm
    BY <2>1 DEF TypeOK, Evidence
  <2>3. Weighed(evidence[p])
    BY <2>1 DEF AllWeighed
  <2>4. QED
    BY <2>1, <2>2, <2>3, WeightCounts DEF Settled, Weighed, Arm
<1>3. QED
  BY <1>1, <1>2, WeighedOfStep, Typing, PTL DEF Spec

-----------------------------------------------------------------------------
(* What the evidence counts.                                               *)

Counted(e, treated, controls, paid) ==
    /\ e.treatment.trials + treated <= e.taken
    /\ e.control.trials + controls + e.taken <= e.suggested
    /\ e.treatment.randomised + e.control.randomised + paid <= e.spent

\* What is counted and what still waits was handed out; what a restart would
\* bring back was; and a trial that waits since the last forgetting is one of a
\* procedure that is still there, so that no procedure is new to a trial.
Accounted ==
    /\ \A p \in Procedure \ tainted :
          Counted(evidence[p], Cardinality(WaitingFor(p, TRUE)),
                  Cardinality(WaitingFor(p, FALSE)), Cardinality(PaidFor(p)))
    /\ \A p \in Procedure \ tainted : Counted(stored[p], 0, 0, 0)
    /\ \A k \in Waiting(pending) \ stale : evidence[pending[k].procedure].known

LEMMA Sizes ==
    ASSUME NEW S \in SUBSET Key, NEW T \in SUBSET Key, NEW k \in Key
    PROVE  /\ Cardinality(S) \in Nat
           /\ S \subseteq T => Cardinality(S) <= Cardinality(T)
           /\ S \subseteq T \cup {k} => Cardinality(S) <= Cardinality(T) + 1
           /\ S = T \ {k} /\ k \in T => Cardinality(S) = Cardinality(T) - 1
<1>1. IsFiniteSet(Key)
  BY TrialsAssumption
<1>2. IsFiniteSet(S) /\ IsFiniteSet(T)
  BY <1>1, FS_Subset
<1>3. Cardinality(S) \in Nat /\ Cardinality(T) \in Nat
  BY <1>2, FS_CardinalityType
<1>4. S \subseteq T => Cardinality(S) <= Cardinality(T)
  BY <1>2, FS_Subset
<1>5. S \subseteq T \cup {k} => Cardinality(S) <= Cardinality(T) + 1
  <2>1. /\ IsFiniteSet(T \cup {k})
        /\ Cardinality(T \cup {k}) = IF k \in T THEN Cardinality(T) ELSE Cardinality(T) + 1
    BY <1>2, FS_AddElement
  <2>2. Cardinality(T \cup {k}) <= Cardinality(T) + 1
    BY <1>3, <2>1
  <2>3. Cardinality(T \cup {k}) \in Nat
    BY <2>1, FS_CardinalityType
  <2>4. S \subseteq T \cup {k} => Cardinality(S) <= Cardinality(T \cup {k})
    BY <2>1, FS_Subset
  <2>5. QED
    BY <1>3, <2>2, <2>3, <2>4
<1>6. S = T \ {k} /\ k \in T => Cardinality(S) = Cardinality(T) - 1
  BY <1>2, FS_RemoveElement
<1>7. QED
  BY <1>3, <1>4, <1>5, <1>6

LEMMA WaitingAreKeys ==
    \A p \in Procedure : /\ WaitingFor(p, TRUE) \in SUBSET Key
                         /\ WaitingFor(p, FALSE) \in SUBSET Key
                         /\ PaidFor(p) \in SUBSET Key
BY DEF WaitingFor, PaidFor

LEMMA RecordedCounts ==
    ASSUME NEW e \in Evidence, NEW trial \in Trial
    PROVE  LET r == Recorded(e, trial) IN
           /\ r.taken = e.taken /\ r.suggested = e.suggested /\ r.spent = e.spent
           /\ r.treatment.trials = e.treatment.trials + (IF trial.applied THEN 1 ELSE 0)
           /\ r.control.trials = e.control.trials + (IF trial.applied THEN 0 ELSE 1)
           /\ r.treatment.randomised + r.control.randomised =
                e.treatment.randomised + e.control.randomised
                  + (IF trial.randomised THEN 1 ELSE 0)
BY DEF Recorded, RecordedArm, AgedArm, Evidence, Arm, Trial

LEMMA UnknownCounts ==
    /\ Counted(Unknown, 0, 0, 0)
    /\ Counted([Unknown EXCEPT !.known = TRUE], 0, 0, 0)
BY DEF Counted, Unknown, NoTrials

\* Fewer trials that wait are still accounted for.
LEMMA FewerCounted ==
    ASSUME NEW e \in Evidence, NEW t \in Nat, NEW c \in Nat, NEW r \in Nat,
           NEW t2 \in Nat, NEW c2 \in Nat, NEW r2 \in Nat,
           t2 <= t, c2 <= c, r2 <= r, Counted(e, t, c, r)
    PROVE  Counted(e, t2, c2, r2)
BY DEF Counted, Evidence, Arm

\* A piece of advice accounts for one trial more in its arm.
LEMMA DecidedCounts ==
    ASSUME NEW e \in Evidence, NEW applied \in BOOLEAN, NEW randomised \in BOOLEAN,
           NEW t \in Nat, NEW c \in Nat, NEW r \in Nat,
           NEW t2 \in Nat, NEW c2 \in Nat, NEW r2 \in Nat,
           t2 <= t \/ (applied /\ t2 <= t + 1),
           c2 <= c \/ (~applied /\ c2 <= c + 1),
           r2 <= r \/ (randomised /\ r2 <= r + 1),
           Counted(e, t, c, r)
    PROVE  Counted(Decided(e, applied, randomised), t2, c2, r2)
<1>. DEFINE d == Decided(e, applied, randomised)
<1>1. /\ d.treatment = e.treatment /\ d.control = e.control
      /\ d.suggested = e.suggested + 1
      /\ d.taken = e.taken + (IF applied THEN 1 ELSE 0)
      /\ d.spent = e.spent + (IF randomised THEN 1 ELSE 0)
  BY DEF Decided, Evidence
<1>2. /\ e.treatment.trials \in Nat /\ e.control.trials \in Nat
      /\ e.treatment.randomised \in Nat /\ e.control.randomised \in Nat
      /\ e.suggested \in Nat /\ e.taken \in Nat /\ e.spent \in Nat
  BY DEF Evidence, Arm
<1>. HIDE DEF d
<1>3. d.treatment.trials + t2 <= d.taken
  BY <1>1, <1>2 DEF Counted
<1>4. d.control.trials + c2 + d.taken <= d.suggested
  BY <1>1, <1>2 DEF Counted
<1>5. d.treatment.randomised + d.control.randomised + r2 <= d.spent
  BY <1>1, <1>2 DEF Counted
<1>6. Counted(d, t2, c2, r2)
  BY <1>3, <1>4, <1>5 DEF Counted
<1>7. QED
  BY <1>6 DEF d

\* Advice adds one trial that waits to its arm, and drops others.
LEMMA AccountedAfterAdvise ==
    ASSUME TypeOK, Accounted, NEW s \in Session, NEW op \in Operation,
           NEW ws \in Workspace, NEW p \in Procedure, Advise(s, op, ws, p)
    PROVE  Accounted'
<1>. DEFINE k == <<s, op>>
<1>0. k \in Key
  BY DEF Key
<1>1. PICK applied \in BOOLEAN,
           randomised \in (IF Exhausted(evidence[p]) THEN {FALSE} ELSE BOOLEAN) :
         LET trial == [procedure |-> p, applied |-> applied, randomised |-> randomised]
             asked == [pending EXCEPT ![k] = trial]
         IN /\ evidence' = [evidence EXCEPT ![p] = Decided(@, applied, randomised)]
            /\ \E aged \in Aged(asked, k) :
                  /\ pending' = Pruned(asked, aged)
                  /\ stale' = stale \ (aged \cup {k})
  BY DEF Advise
<1>. DEFINE trial == [procedure |-> p, applied |-> applied, randomised |-> randomised]
            asked == [pending EXCEPT ![k] = trial]
<1>2. randomised \in BOOLEAN
  <2>1. CASE Exhausted(evidence[p])
    BY <1>1, <2>1
  <2>2. CASE ~Exhausted(evidence[p])
    BY <1>1, <2>2
  <2>3. QED
    BY <2>1, <2>2
<1>3. PICK aged \in Aged(asked, k) :
         pending' = Pruned(asked, aged) /\ stale' = stale \ (aged \cup {k})
  BY <1>1
<1>4. trial \in Trial /\ trial # NoTrial
  BY <1>2, NoTrialAssumption DEF Trial
<1>5. aged \subseteq Key /\ k \notin aged
  BY <1>3 DEF Aged, Waiting
<1>6. pending'[k] = trial
  BY <1>0, <1>3, <1>5 DEF Pruned, TypeOK
<1>7. \A j \in Key \ {k} : pending'[j] = IF j \in aged THEN NoTrial ELSE pending[j]
  BY <1>3 DEF Pruned, TypeOK
<1>8. \A j \in Key \ {k} :
         j \notin stale' /\ pending'[j] # NoTrial => j \notin stale /\ pending'[j] = pending[j]
  BY <1>3, <1>7
<1>9. ASSUME NEW q \in Procedure
      PROVE  /\ WaitingFor(q, TRUE)' \subseteq
                  WaitingFor(q, TRUE) \cup (IF q = p /\ applied THEN {k} ELSE {})
             /\ WaitingFor(q, FALSE)' \subseteq
                  WaitingFor(q, FALSE) \cup (IF q = p /\ ~applied THEN {k} ELSE {})
             /\ PaidFor(q)' \subseteq
                  PaidFor(q) \cup (IF q = p /\ randomised THEN {k} ELSE {})
  <2>1. trial.procedure = p /\ trial.applied = applied /\ trial.randomised = randomised
    OBVIOUS
  <2>2. ASSUME NEW j \in Key, j \in WaitingFor(q, TRUE)'
        PROVE  j \in WaitingFor(q, TRUE) \cup (IF q = p /\ applied THEN {k} ELSE {})
    BY <1>6, <1>8, <2>1, <2>2 DEF WaitingFor
  <2>3. ASSUME NEW j \in Key, j \in WaitingFor(q, FALSE)'
        PROVE  j \in WaitingFor(q, FALSE) \cup (IF q = p /\ ~applied THEN {k} ELSE {})
    BY <1>6, <1>8, <2>1, <2>3 DEF WaitingFor
  <2>4. ASSUME NEW j \in Key, j \in PaidFor(q)'
        PROVE  j \in PaidFor(q) \cup (IF q = p /\ randomised THEN {k} ELSE {})
    BY <1>6, <1>8, <2>1, <2>4 DEF PaidFor
  <2>5. QED
    BY <2>2, <2>3, <2>4 DEF WaitingFor, PaidFor
<1>10. ASSUME NEW q \in Procedure \ tainted'
       PROVE  Counted(evidence[q], Cardinality(WaitingFor(q, TRUE)),
                      Cardinality(WaitingFor(q, FALSE)), Cardinality(PaidFor(q)))'
  <2>1. tainted' = tainted
    BY DEF Advise
  <2>2. PICK t \in SUBSET Key : t = WaitingFor(q, TRUE)'
    BY DEF WaitingFor
  <2>3. PICK c \in SUBSET Key : c = WaitingFor(q, FALSE)'
    BY DEF WaitingFor
  <2>4. PICK r \in SUBSET Key : r = PaidFor(q)'
    BY DEF PaidFor
  <2>. DEFINE ot == WaitingFor(q, TRUE)
              oc == WaitingFor(q, FALSE)
              opaid == PaidFor(q)
  <2>5. ot \in SUBSET Key /\ oc \in SUBSET Key /\ opaid \in SUBSET Key
    BY WaitingAreKeys
  <2>6. Counted(evidence[q], Cardinality(ot), Cardinality(oc), Cardinality(opaid))
    BY <2>1 DEF Accounted
  <2>7. evidence[q] \in Evidence /\ evidence[p] \in Evidence
    BY DEF TypeOK
  <2>8. /\ Cardinality(ot) \in Nat /\ Cardinality(oc) \in Nat /\ Cardinality(opaid) \in Nat
        /\ Cardinality(t) \in Nat /\ Cardinality(c) \in Nat /\ Cardinality(r) \in Nat
    BY <1>0, <2>5, Sizes
  <2>9. /\ \/ Cardinality(t) <= Cardinality(ot)
           \/ q = p /\ applied /\ Cardinality(t) <= Cardinality(ot) + 1
        /\ \/ Cardinality(c) <= Cardinality(oc)
           \/ q = p /\ ~applied /\ Cardinality(c) <= Cardinality(oc) + 1
        /\ \/ Cardinality(r) <= Cardinality(opaid)
           \/ q = p /\ randomised /\ Cardinality(r) <= Cardinality(opaid) + 1
    <3>1. \/ Cardinality(t) <= Cardinality(ot)
          \/ q = p /\ applied /\ Cardinality(t) <= Cardinality(ot) + 1
      <4>1. t \subseteq ot \cup (IF q = p /\ applied THEN {k} ELSE {})
        BY <1>9, <2>2
      <4>2. CASE q = p /\ applied
        <5>1. t \subseteq ot \cup {k}
          BY <4>1, <4>2
        <5>2. Cardinality(t) <= Cardinality(ot) + 1
          BY <1>0, <2>5, <5>1, Sizes
        <5>3. QED
          BY <4>2, <5>2
      <4>3. CASE ~(q = p /\ applied)
        <5>1. t \subseteq ot
          BY <4>1, <4>3
        <5>2. QED
          BY <5>1, <1>0, <2>5, Sizes
      <4>4. QED
        BY <4>2, <4>3
    <3>2. \/ Cardinality(c) <= Cardinality(oc)
          \/ q = p /\ ~applied /\ Cardinality(c) <= Cardinality(oc) + 1
      <4>1. c \subseteq oc \cup (IF q = p /\ ~applied THEN {k} ELSE {})
        BY <1>9, <2>3
      <4>2. CASE q = p /\ ~applied
        <5>1. c \subseteq oc \cup {k}
          BY <4>1, <4>2
        <5>2. Cardinality(c) <= Cardinality(oc) + 1
          BY <1>0, <2>5, <5>1, Sizes
        <5>3. QED
          BY <4>2, <5>2
      <4>3. CASE ~(q = p /\ ~applied)
        <5>1. c \subseteq oc
          BY <4>1, <4>3
        <5>2. QED
          BY <5>1, <1>0, <2>5, Sizes
      <4>4. QED
        BY <4>2, <4>3
    <3>3. \/ Cardinality(r) <= Cardinality(opaid)
          \/ q = p /\ randomised /\ Cardinality(r) <= Cardinality(opaid) + 1
      <4>1. r \subseteq opaid \cup (IF q = p /\ randomised THEN {k} ELSE {})
        BY <1>9, <2>4
      <4>2. CASE q = p /\ randomised
        <5>1. r \subseteq opaid \cup {k}
          BY <4>1, <4>2
        <5>2. Cardinality(r) <= Cardinality(opaid) + 1
          BY <1>0, <2>5, <5>1, Sizes
        <5>3. QED
          BY <4>2, <5>2
      <4>3. CASE ~(q = p /\ randomised)
        <5>1. r \subseteq opaid
          BY <4>1, <4>3
        <5>2. QED
          BY <5>1, <1>0, <2>5, Sizes
      <4>4. QED
        BY <4>2, <4>3
    <3>4. QED
      BY <3>1, <3>2, <3>3
  <2>10. Counted(evidence'[q], Cardinality(t), Cardinality(c), Cardinality(r))
    <3>1. CASE q # p
      <4>1. evidence'[q] = evidence[q]
        BY <1>1, <3>1 DEF TypeOK
      <4>2. QED
        <5>1. /\ Cardinality(t) <= Cardinality(ot) /\ Cardinality(c) <= Cardinality(oc)
              /\ Cardinality(r) <= Cardinality(opaid)
          BY <2>8, <2>9, <3>1
        <5>2. QED
          BY <2>6, <2>7, <2>8, <4>1, <5>1, FewerCounted
    <3>2. CASE q = p
      <4>1. evidence'[q] = Decided(evidence[q], applied, randomised)
        BY <1>1, <3>2 DEF TypeOK
      <4>2. /\ \/ Cardinality(t) <= Cardinality(ot)
               \/ (applied /\ Cardinality(t) <= Cardinality(ot) + 1)
            /\ \/ Cardinality(c) <= Cardinality(oc)
               \/ (~applied /\ Cardinality(c) <= Cardinality(oc) + 1)
            /\ \/ Cardinality(r) <= Cardinality(opaid)
               \/ (randomised /\ Cardinality(r) <= Cardinality(opaid) + 1)
        BY <2>9
      <4>3. PICK e \in Evidence : e = evidence[q]
        BY <2>7
      <4>4. Counted(e, Cardinality(ot), Cardinality(oc), Cardinality(opaid))
        BY <2>6, <4>3
      <4>. HIDE DEF ot, oc, opaid
      <4>5. Counted(Decided(e, applied, randomised),
                    Cardinality(t), Cardinality(c), Cardinality(r))
        BY ONLY <1>1, <1>2, <2>8, <4>2, <4>3, <4>4, DecidedCounts, Zenon
      <4>6. QED
        BY <4>1, <4>3, <4>5
    <3>3. QED
      BY <3>1, <3>2
  <2>11. QED
    BY <2>2, <2>3, <2>4, <2>10 DEF Counted
<1>11. \A q \in Procedure \ tainted' : Counted(stored[q], 0, 0, 0)'
  BY DEF Advise, Accounted, Counted
<1>12. \A j \in Waiting(pending') \ stale' : evidence'[pending'[j].procedure].known
  <2>1. \A q \in Procedure : evidence[q].known => evidence'[q].known
    BY <1>1 DEF TypeOK, Decided, Evidence
  <2>2. evidence'[p].known
    BY <2>1 DEF Advise, IsChosen, Fits
  <2>3. ASSUME NEW j \in Waiting(pending') \ stale', j # k
        PROVE  evidence'[pending'[j].procedure].known
    <3>1. j \in Waiting(pending) \ stale /\ pending'[j] = pending[j]
      BY <1>8, <2>3 DEF Waiting
    <3>2. pending[j].procedure \in Procedure
      BY <3>1 DEF Waiting, TypeOK, Trial
    <3>3. QED
      BY <2>1, <3>1, <3>2 DEF Accounted
  <2>4. QED
    BY <1>6, <2>2, <2>3
<1>13. QED
  BY <1>10, <1>11, <1>12 DEF Accounted, Waiting

\* A trial that is counted no longer waits.
LEMMA SettledCounts ==
    ASSUME NEW e \in Evidence, NEW trial \in Trial,
           NEW t \in Nat, NEW c \in Nat, NEW r \in Nat,
           NEW t2 \in Nat, NEW c2 \in Nat, NEW r2 \in Nat,
           t2 <= t, c2 <= c, r2 <= r,
           trial.applied => t2 = t - 1,
           ~trial.applied => c2 = c - 1,
           trial.randomised => r2 = r - 1,
           Counted(e, t, c, r)
    PROVE  Counted(Recorded(e, trial), t2, c2, r2)
<1>. DEFINE d == Recorded(e, trial)
<1>1. /\ d.taken = e.taken /\ d.suggested = e.suggested /\ d.spent = e.spent
      /\ d.treatment.trials = e.treatment.trials + (IF trial.applied THEN 1 ELSE 0)
      /\ d.control.trials = e.control.trials + (IF trial.applied THEN 0 ELSE 1)
      /\ d.treatment.randomised + d.control.randomised =
           e.treatment.randomised + e.control.randomised
             + (IF trial.randomised THEN 1 ELSE 0)
  BY RecordedCounts
<1>2. /\ e.treatment.trials \in Nat /\ e.control.trials \in Nat
      /\ e.treatment.randomised \in Nat /\ e.control.randomised \in Nat
      /\ e.suggested \in Nat /\ e.taken \in Nat /\ e.spent \in Nat
  BY DEF Evidence, Arm
<1>. HIDE DEF d
<1>3. d.treatment.trials + t2 <= d.taken
  BY <1>1, <1>2 DEF Counted
<1>4. d.control.trials + c2 + d.taken <= d.suggested
  BY <1>1, <1>2 DEF Counted
<1>5. d.treatment.randomised + d.control.randomised + r2 <= d.spent
  BY <1>1, <1>2 DEF Counted
<1>6. Counted(d, t2, c2, r2)
  BY <1>3, <1>4, <1>5 DEF Counted
<1>7. QED
  BY <1>6 DEF d

\* A report takes the trial that waits for it, if any, from those that wait.
LEMMA AccountedAfterReport ==
    ASSUME TypeOK, Accounted, NEW s \in Session, NEW op \in Operation,
           NEW ws \in Workspace, AgentObserve(s, op, ws)
    PROVE  Accounted'
<1>. DEFINE k == <<s, op>>
<1>0. k \in Key
  BY DEF Key
<1>1. PICK new \in SUBSET Proposable(op, ws) : evidence' = Proposed(Settle(k), new)
  BY DEF AgentObserve
<1>2. pending' = [pending EXCEPT ![k] = NoTrial] /\ stale' = stale \ {k}
  BY DEF AgentObserve, Answered
<1>3. \A j \in Key : pending'[j] = IF j = k THEN NoTrial ELSE pending[j]
  BY <1>0, <1>2 DEF TypeOK
<1>4. \A p \in Procedure :
         /\ WaitingFor(p, TRUE)' = WaitingFor(p, TRUE) \ {k}
         /\ WaitingFor(p, FALSE)' = WaitingFor(p, FALSE) \ {k}
         /\ PaidFor(p)' = PaidFor(p) \ {k}
  BY <1>2, <1>3 DEF WaitingFor, PaidFor
<1>5. tainted \subseteq tainted'
  BY DEF AgentObserve
<1>6. \A q \in Procedure : evidence[q].known => evidence'[q] = Settle(k)[q]
  BY <1>1 DEF Proposed, Proposable
<1>7. ASSUME NEW q \in Procedure, evidence[q].known
      PROVE  evidence'[q].known
  <2>1. CASE pending[k] # NoTrial /\ evidence[pending[k].procedure].known
             /\ pending[k].procedure = q
    <3>1. evidence[q] \in Evidence
      BY DEF TypeOK
    <3>2. Settle(k)[q] = Recorded(evidence[q], pending[k])
      BY <2>1 DEF Settle, TypeOK
    <3>3. QED
      BY <1>6, <1>7, <3>1, <3>2 DEF Recorded, Evidence
  <2>2. CASE ~(pending[k] # NoTrial /\ evidence[pending[k].procedure].known
               /\ pending[k].procedure = q)
    <3>1. Settle(k)[q] = evidence[q]
      BY <2>2 DEF Settle, TypeOK
    <3>2. QED
      BY <1>6, <1>7, <3>1
  <2>3. QED
    BY <2>1, <2>2
<1>8. \A j \in Waiting(pending') \ stale' : evidence'[pending'[j].procedure].known
  <2>1. SUFFICES ASSUME NEW j \in Waiting(pending') \ stale'
                 PROVE  evidence'[pending'[j].procedure].known
    OBVIOUS
  <2>2. j \in Waiting(pending) \ stale /\ pending'[j] = pending[j]
    BY <1>2, <1>3 DEF Waiting
  <2>3. pending[j].procedure \in Procedure
    BY <2>2 DEF Waiting, TypeOK, Trial
  <2>4. QED
    BY <1>7, <2>2, <2>3 DEF Accounted
<1>9. ASSUME NEW q \in Procedure \ tainted'
      PROVE  Counted(evidence[q], Cardinality(WaitingFor(q, TRUE)),
                     Cardinality(WaitingFor(q, FALSE)), Cardinality(PaidFor(q)))'
  <2>1. PICK t \in SUBSET Key : t = WaitingFor(q, TRUE)'
    BY DEF WaitingFor
  <2>2. PICK c \in SUBSET Key : c = WaitingFor(q, FALSE)'
    BY DEF WaitingFor
  <2>3. PICK r \in SUBSET Key : r = PaidFor(q)'
    BY DEF PaidFor
  <2>4. PICK ot \in SUBSET Key, oc \in SUBSET Key, opaid \in SUBSET Key :
           ot = WaitingFor(q, TRUE) /\ oc = WaitingFor(q, FALSE) /\ opaid = PaidFor(q)
    BY WaitingAreKeys
  <2>5. t = ot \ {k} /\ c = oc \ {k} /\ r = opaid \ {k}
    BY <1>4, <2>1, <2>2, <2>3, <2>4
  <2>6. q \notin tainted
    BY <1>5
  <2>7. PICK e \in Evidence : e = evidence[q]
    BY DEF TypeOK
  <2>8. Counted(e, Cardinality(ot), Cardinality(oc), Cardinality(opaid))
    BY <2>4, <2>6, <2>7 DEF Accounted
  <2>9. /\ Cardinality(ot) \in Nat /\ Cardinality(oc) \in Nat /\ Cardinality(opaid) \in Nat
        /\ Cardinality(t) \in Nat /\ Cardinality(c) \in Nat /\ Cardinality(r) \in Nat
        /\ Cardinality(t) <= Cardinality(ot) /\ Cardinality(c) <= Cardinality(oc)
        /\ Cardinality(r) <= Cardinality(opaid)
    <3>1. t \subseteq ot /\ c \subseteq oc /\ r \subseteq opaid
      BY <2>5
    <3>2. QED
      BY <1>0, <3>1, Sizes
  <2>10. Counted(evidence'[q], Cardinality(t), Cardinality(c), Cardinality(r))
    <3>1. CASE ~evidence[q].known
      <4>1. ot = {} /\ oc = {} /\ opaid = {}
        <5>1. \A j \in Waiting(pending) \ stale : pending[j].procedure # q
          BY <3>1 DEF Accounted
        <5>2. QED
          BY <2>4, <5>1 DEF WaitingFor, PaidFor, Waiting
      <4>2. t = {} /\ c = {} /\ r = {}
        BY <2>5, <4>1
      <4>3. Cardinality(t) = 0 /\ Cardinality(c) = 0 /\ Cardinality(r) = 0
        BY <4>2, FS_EmptySet
      <4>4. Settle(k)[q] = evidence[q]
        BY <3>1 DEF Settle, TypeOK
      <4>5. evidence'[q] = e \/ evidence'[q] = [Unknown EXCEPT !.known = TRUE]
        BY <1>1, <2>7, <4>4 DEF Proposed
      <4>6. Counted(e, 0, 0, 0)
        BY <2>8, <2>9, FewerCounted
      <4>7. QED
        BY <4>3, <4>5, <4>6, UnknownCounts
    <3>2. CASE evidence[q].known /\ ~(pending[k] # NoTrial /\ pending[k].procedure = q)
      <4>1. Settle(k)[q] = evidence[q]
        BY <3>2 DEF Settle, TypeOK
      <4>2. evidence'[q] = e
        BY <1>6, <2>7, <3>2, <4>1
      <4>3. QED
        BY <2>8, <2>9, <4>2, FewerCounted
    <3>3. CASE evidence[q].known /\ pending[k] # NoTrial /\ pending[k].procedure = q
      <4>1. k \notin stale
        BY <3>3 DEF AgentObserve
      <4>2. PICK trial \in Trial : trial = pending[k]
        BY <1>0, <3>3 DEF TypeOK
      <4>3. Settle(k)[q] = Recorded(e, trial)
        BY <2>7, <3>3, <4>2 DEF Settle, TypeOK
      <4>4. evidence'[q] = Recorded(e, trial)
        BY <1>6, <3>3, <4>3
      <4>5. /\ trial.applied => k \in ot
            /\ ~trial.applied => k \in oc
            /\ trial.randomised => k \in opaid
        <5>1. trial.applied \in BOOLEAN
          BY DEF Trial
        <5>2. CASE trial.applied
          BY <1>0, <2>4, <3>3, <4>1, <4>2, <5>1, <5>2 DEF WaitingFor, PaidFor
        <5>3. CASE ~trial.applied
          BY <1>0, <2>4, <3>3, <4>1, <4>2, <5>1, <5>3 DEF WaitingFor, PaidFor
        <5>4. QED
          BY <5>2, <5>3
      <4>6. /\ trial.applied => Cardinality(t) = Cardinality(ot) - 1
            /\ ~trial.applied => Cardinality(c) = Cardinality(oc) - 1
            /\ trial.randomised => Cardinality(r) = Cardinality(opaid) - 1
        BY <1>0, <2>5, <4>5, Sizes
      <4>7. Counted(Recorded(e, trial), Cardinality(t), Cardinality(c), Cardinality(r))
        BY <2>8, <2>9, <4>6, SettledCounts
      <4>8. QED
        BY <4>4, <4>7
    <3>4. QED
      BY <3>1, <3>2, <3>3
  <2>11. QED
    BY <2>1, <2>2, <2>3, <2>10 DEF Counted
<1>10. \A q \in Procedure \ tainted' : Counted(stored[q], 0, 0, 0)'
  <2>1. SUFFICES ASSUME NEW q \in Procedure \ tainted' PROVE Counted(stored'[q], 0, 0, 0)
    BY DEF Counted
  <2>2. CASE stored' = stored
    BY <1>5, <2>2 DEF Accounted
  <2>3. CASE stored' = evidence'
    <3>1. TypeOK'
      BY TypesOfStep DEF Next
    <3>2. PICK e \in Evidence : e = evidence'[q]
      BY <3>1 DEF TypeOK
    <3>3. PICK t \in SUBSET Key, c \in SUBSET Key, r \in SUBSET Key :
             t = WaitingFor(q, TRUE)' /\ c = WaitingFor(q, FALSE)' /\ r = PaidFor(q)'
      BY DEF WaitingFor, PaidFor
    <3>4. Counted(e, Cardinality(t), Cardinality(c), Cardinality(r))
      BY <1>9, <3>2, <3>3 DEF Counted
    <3>5. Cardinality(t) \in Nat /\ Cardinality(c) \in Nat /\ Cardinality(r) \in Nat
      BY <1>0, Sizes
    <3>6. 0 <= Cardinality(t) /\ 0 <= Cardinality(c) /\ 0 <= Cardinality(r)
      BY <3>5
    <3>7. Counted(e, 0, 0, 0)
      BY <3>4, <3>5, <3>6, FewerCounted
    <3>8. QED
      BY <2>3, <3>2, <3>7
  <2>4. QED
    BY <2>2, <2>3 DEF AgentObserve, Write
<1>11. QED
  BY <1>8, <1>9, <1>10 DEF Accounted, Waiting

\* Where no trial that counts is waiting, what was handed out is accounted for.
LEMMA NothingWaits ==
    ASSUME NEW p \in Procedure,
           \A k \in Key \ stale : pending[k] = NoTrial
    PROVE  /\ Cardinality(WaitingFor(p, TRUE)) = 0
           /\ Cardinality(WaitingFor(p, FALSE)) = 0
           /\ Cardinality(PaidFor(p)) = 0
<1>1. WaitingFor(p, TRUE) = {} /\ WaitingFor(p, FALSE) = {} /\ PaidFor(p) = {}
  BY DEF WaitingFor, PaidFor
<1>2. QED
  BY <1>1, FS_EmptySet

LEMMA AccountedAfterPersist == TypeOK /\ Accounted /\ Persist => Accounted'
<1>. SUFFICES ASSUME TypeOK, Accounted, Persist PROVE Accounted'
  OBVIOUS
<1>1. ASSUME NEW q \in Procedure \ tainted PROVE Counted(evidence[q], 0, 0, 0)
  <2>1. PICK e \in Evidence : e = evidence[q]
    BY DEF TypeOK
  <2>2. PICK t \in SUBSET Key, c \in SUBSET Key, r \in SUBSET Key :
           t = WaitingFor(q, TRUE) /\ c = WaitingFor(q, FALSE) /\ r = PaidFor(q)
    BY WaitingAreKeys
  <2>3. Counted(e, Cardinality(t), Cardinality(c), Cardinality(r))
    BY <2>1, <2>2 DEF Accounted
  <2>4. IsFiniteSet(t) /\ IsFiniteSet(c) /\ IsFiniteSet(r)
    BY TrialsAssumption, FS_Subset
  <2>5. Cardinality(t) \in Nat /\ Cardinality(c) \in Nat /\ Cardinality(r) \in Nat
    BY <2>4, FS_CardinalityType
  <2>6. 0 <= Cardinality(t) /\ 0 <= Cardinality(c) /\ 0 <= Cardinality(r)
    BY <2>5
  <2>7. QED
    BY <2>1, <2>3, <2>5, <2>6, FewerCounted
<1>2. QED
  BY <1>1 DEF Persist, Accounted, Counted, WaitingFor, PaidFor, Waiting

LEMMA AccountedAfterForget == TypeOK /\ Accounted /\ Forget => Accounted'
<1>. SUFFICES ASSUME TypeOK, Accounted, Forget PROVE Accounted'
  OBVIOUS
<1>1. \A k \in Key \ stale' : pending'[k] = NoTrial
  BY DEF Forget, Waiting
<1>2. \A q \in Procedure : evidence'[q] = Unknown
  BY DEF Forget
<1>3. ASSUME NEW q \in Procedure
      PROVE  Counted(evidence[q], Cardinality(WaitingFor(q, TRUE)),
                     Cardinality(WaitingFor(q, FALSE)), Cardinality(PaidFor(q)))'
  <2>1. WaitingFor(q, TRUE)' = {} /\ WaitingFor(q, FALSE)' = {} /\ PaidFor(q)' = {}
    BY <1>1 DEF WaitingFor, PaidFor
  <2>2. Cardinality({}) = 0
    BY FS_EmptySet
  <2>3. QED
    BY <1>2, <2>1, <2>2, UnknownCounts DEF Counted
<1>4. ASSUME NEW q \in Procedure \ tainted' PROVE Counted(stored'[q], 0, 0, 0)
  <2>1. CASE stored' = evidence'
    BY <1>2, <2>1, UnknownCounts
  <2>2. CASE stored' = stored /\ stored' # evidence'
    BY <2>2 DEF Forget, Accounted
  <2>3. QED
    BY <2>1, <2>2 DEF Forget, Write
<1>5. \A k \in Waiting(pending') \ stale' : evidence'[pending'[k].procedure].known
  BY <1>1 DEF Waiting
<1>6. QED
  BY <1>3, <1>4, <1>5 DEF Accounted, Counted, Waiting

LEMMA AccountedAfterRestart == TypeOK /\ Accounted /\ Restart => Accounted'
<1>. SUFFICES ASSUME TypeOK, Accounted, Restart PROVE Accounted'
  OBVIOUS
<1>1. \A k \in Key : pending'[k] = NoTrial
  BY DEF Restart
<1>2. ASSUME NEW q \in Procedure \ tainted'
      PROVE  Counted(evidence[q], Cardinality(WaitingFor(q, TRUE)),
                     Cardinality(WaitingFor(q, FALSE)), Cardinality(PaidFor(q)))'
  <2>1. WaitingFor(q, TRUE)' = {} /\ WaitingFor(q, FALSE)' = {} /\ PaidFor(q)' = {}
    BY <1>1 DEF WaitingFor, PaidFor
  <2>2. Cardinality({}) = 0
    BY FS_EmptySet
  <2>3. Counted(stored[q], 0, 0, 0) /\ evidence' = stored
    BY DEF Restart, Accounted
  <2>4. QED
    BY <2>1, <2>2, <2>3 DEF Counted
<1>3. QED
  BY <1>1, <1>2 DEF Restart, Accounted, Counted, Waiting

LEMMA AccountedAfterForgetStopsShort == Accounted /\ ForgetStopsShort => Accounted'
<1>. SUFFICES ASSUME Accounted, ForgetStopsShort PROVE Accounted'
  OBVIOUS
<1>1. \A q \in Procedure : stored'[q] = Unknown
  BY DEF ForgetStopsShort
<1>2. \A q \in Procedure \ tainted' : Counted(stored'[q], 0, 0, 0)
  BY <1>1, UnknownCounts
<1>3. UNCHANGED <<evidence, pending, stale, tainted>>
  BY DEF ForgetStopsShort
<1>4. \A q \in Procedure \ tainted' :
         Counted(evidence[q], Cardinality(WaitingFor(q, TRUE)),
                 Cardinality(WaitingFor(q, FALSE)), Cardinality(PaidFor(q)))'
  BY <1>3 DEF Accounted, Counted, WaitingFor, PaidFor
<1>5. QED
  BY <1>2, <1>3, <1>4 DEF Accounted, Counted, Waiting

LEMMA AccountedOfStep == TypeOK /\ Accounted /\ [Next]_vars => Accounted'
<1>. SUFFICES ASSUME TypeOK, Accounted, [Next]_vars PROVE Accounted'
  OBVIOUS
<1>1. CASE UNCHANGED vars
  BY <1>1 DEF vars, Accounted, Counted, WaitingFor, PaidFor, Waiting
<1>2. ASSUME NEW s \in Session, NEW op \in Operation, NEW ws \in Workspace,
             NEW p \in Procedure, Advise(s, op, ws, p)
      PROVE  Accounted'
  BY <1>2, AccountedAfterAdvise
<1>3. ASSUME NEW s \in Session, NEW op \in Operation, NEW ws \in Workspace,
             AgentObserve(s, op, ws)
      PROVE  Accounted'
  BY <1>3, AccountedAfterReport
<1>4. CASE Persist
  BY <1>4, AccountedAfterPersist
<1>5. CASE Forget
  BY <1>5, AccountedAfterForget
<1>6. CASE ForgetStopsShort
  BY <1>6, AccountedAfterForgetStopsShort
<1>7. CASE Restart
  BY <1>7, AccountedAfterRestart
<1>8. QED
  BY <1>1, <1>2, <1>3, <1>4, <1>5, <1>6, <1>7 DEF Next

LEMMA AccountedOfInit == Init => Accounted
<1>. SUFFICES ASSUME Init PROVE Accounted
  OBVIOUS
<1>1. \A k \in Key : pending[k] = NoTrial
  BY DEF Init
<1>2. \A p \in Procedure : evidence[p] = Unknown /\ stored[p] = Unknown
  BY DEF Init
<1>3. QED
  BY <1>1, <1>2, NothingWaits, UnknownCounts DEF Accounted, Waiting

\* No comparison ever counts a trial that was not handed out in that arm, or one
\* twice, whatever agents ask and report and whatever a restart loses.
THEOREM EvidenceBacked == Spec => []EvidenceIsBacked
<1>1. Accounted => EvidenceIsBacked
  BY DEF Accounted, EvidenceIsBacked, Counted
<1>2. QED
  BY <1>1, AccountedOfInit, AccountedOfStep, Typing, PTL DEF Spec

\* No comparison rests on more randomised trials than its budget has paid, and
\* so on no more than Budget of them.
THEOREM RandomisationPaid == Spec => []RandomisationIsPaid
<1>1. Accounted => RandomisationIsPaid
  BY DEF Accounted, RandomisationIsPaid, Counted
<1>2. QED
  BY <1>1, AccountedOfInit, AccountedOfStep, Typing, PTL DEF Spec

=============================================================================
