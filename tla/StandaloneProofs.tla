--------------------------- MODULE StandaloneProofs ---------------------------
(***************************************************************************)
(* Parts that run by themselves, each for all its constants: that a view   *)
(* of Plane.tla is one snapshot and what Layout.tla lets a reader rely on; *)
(* what a preference of Concepts.tla rests on; how Outcome.tla counts      *)
(* failures; what a line of Lineage.tla owes before it improves; whose the *)
(* trials of Theory.tla are; that the chances of Atlas.tla add up; what a  *)
(* report of Bench.tla compares; and what a prediction of Forecast.tla was *)
(* made from and graded by.                                                *)
(***************************************************************************)
EXTENDS Plane, Layout, Bench, Concepts, Outcome, Lineage, Theory, Atlas, Forecast,
        SumTheorems, FiniteSetTheorems, SequenceTheorems, TLAPS

-----------------------------------------------------------------------------
(* The plane: the types of the protocol.                                   *)

\* A read that has sampled the counter had an attempt left to spend.
TriesCounted == \A r \in Reader : phase[r] = "copy" => tries[r] # 0

TypeInv == TypeOK /\ TriesCounted

\* The writer's steps leave the readers alone, and the other way round.
LEMMA ReadersUntouched ==
    TypeInv /\ UNCHANGED <<readerVars, view>> => ReaderTypeOK' /\ TriesCounted'
  BY DEF TypeInv, TypeOK, ReaderTypeOK, TriesCounted, readerVars

LEMMA WriterUntouched ==
    TypeOK /\ UNCHANGED <<region, writerVars>> => WriterTypeOK'
  BY DEF TypeOK, WriterTypeOK, region, writerVars

LEMMA TypesOfInit == Init => TypeInv
<1>. SUFFICES ASSUME Init PROVE TypeInv
  OBVIOUS
<1>1. WriterTypeOK
  BY DEF Init, WriterTypeOK, Word
<1>2. ReaderTypeOK
  BY PlaneAssumption DEF Init, ReaderTypeOK, Empty, Word
<1>3. TriesCounted
  BY DEF Init, TriesCounted
<1>4. QED
  BY <1>1, <1>2, <1>3 DEF TypeInv, TypeOK

LEMMA TypesOfStep == TypeInv /\ [Next]_vars => TypeInv'
<1>. SUFFICES ASSUME TypeInv, [Next]_vars PROVE TypeInv'
  OBVIOUS
<1>. USE DEF TypeInv
<1>1. CASE BeginWrite
  <2>1. WriterTypeOK'
    BY <1>1 DEF BeginWrite, TypeOK, WriterTypeOK
  <2>2. QED
    BY <1>1, <2>1, ReadersUntouched DEF BeginWrite, TypeOK
<1>2. ASSUME NEW w \in Word, Store(w) PROVE TypeInv'
  <2>1. CASE w \in Buffered
    BY <1>2, <2>1, ReadersUntouched DEF Store, TypeOK, WriterTypeOK, Inactive
  <2>2. CASE w \notin Buffered
    BY <1>2, <2>2, ReadersUntouched DEF Store, TypeOK, WriterTypeOK, Word
  <2>3. QED
    BY <2>1, <2>2
<1>3. CASE Flip
  BY <1>3, ReadersUntouched DEF Flip, TypeOK, WriterTypeOK, Inactive
<1>4. CASE EndWrite
  BY <1>4, ReadersUntouched DEF EndWrite, TypeOK, WriterTypeOK
<1>5. CASE WriterDies
  BY <1>5, ReadersUntouched DEF WriterDies, TypeOK, WriterTypeOK, region
<1>6. ASSUME NEW r \in Reader, StartRead(r) PROVE TypeInv'
  <2>1. MaxRetries \in 0..MaxRetries
    BY PlaneAssumption
  <2>2. QED
    BY <1>6, <2>1, WriterUntouched DEF StartRead, TypeOK, ReaderTypeOK, TriesCounted
<1>7. ASSUME NEW r \in Reader, GiveUp(r) PROVE TypeInv'
  BY <1>7, WriterUntouched DEF GiveUp, TypeOK, ReaderTypeOK, TriesCounted
<1>8. ASSUME NEW r \in Reader, LoadOdd(r) PROVE TypeInv'
  <2>1. tries[r] \in 0..MaxRetries /\ tries[r] > 0 /\ MaxRetries \in Nat
    BY <1>8, PlaneAssumption DEF LoadOdd, TypeOK, ReaderTypeOK
  <2>2. tries[r] - 1 \in 0..MaxRetries
    BY <2>1
  <2>3. QED
    BY <1>8, <2>2, WriterUntouched DEF LoadOdd, Retry, TypeOK, ReaderTypeOK, TriesCounted
<1>9. ASSUME NEW r \in Reader, LoadFirst(r) PROVE TypeInv'
  <2>1. seq \in Nat
    BY DEF TypeOK, WriterTypeOK
  <2>2. QED
    BY <1>9, <2>1, WriterUntouched DEF LoadFirst, TypeOK, ReaderTypeOK, TriesCounted
<1>10. ASSUME NEW r \in Reader, CopyActive(r) PROVE TypeInv'
  <2>1. active \in 0..1
    BY DEF TypeOK, WriterTypeOK
  <2>2. QED
    BY <1>10, <2>1, WriterUntouched DEF CopyActive, TypeOK, ReaderTypeOK, TriesCounted
<1>11. ASSUME NEW r \in Reader, NEW w \in Word, CopyWord(r, w) PROVE TypeInv'
  <2>. DEFINE value == IF w \in Buffered THEN buffer[from[r]][w] ELSE single[w]
  <2>1. value \in Nat
    BY DEF TypeOK, WriterTypeOK, ReaderTypeOK, Word
  <2>2. copy' = [copy EXCEPT ![r] = [copy[r] EXCEPT ![w] = value]]
    BY <1>11 DEF CopyWord
  <2>. HIDE DEF value
  <2>3. copy' \in [Reader -> [Word -> Nat]]
    BY <2>1, <2>2 DEF TypeOK, ReaderTypeOK
  <2>4. QED
    BY <1>11, <2>3, WriterUntouched DEF CopyWord, TypeOK, ReaderTypeOK, TriesCounted
<1>12. ASSUME NEW r \in Reader, LoadSecond(r) PROVE TypeInv'
  <2>1. seq \in Nat
    BY DEF TypeOK, WriterTypeOK
  <2>2. QED
    BY <1>12, <2>1, WriterUntouched DEF LoadSecond, TypeOK, ReaderTypeOK, TriesCounted
<1>13. ASSUME NEW r \in Reader, Decide(r) PROVE TypeInv'
  <2>1. copy' \in [Reader -> [Word -> Nat]]
    BY <1>13 DEF Decide, TypeOK, ReaderTypeOK, Empty
  <2>2. /\ MaxRetries \in Nat
        /\ tries[r] \in 0..MaxRetries /\ tries[r] # 0
    BY <1>13, PlaneAssumption DEF Decide, TypeOK, ReaderTypeOK, TriesCounted
  <2>3. 0 \in 0..MaxRetries /\ tries[r] - 1 \in 0..MaxRetries
    BY <2>2
  <2>4. tries' \in [Reader -> 0..MaxRetries]
    BY <1>13, <2>3 DEF Decide, Retry, TypeOK, ReaderTypeOK
  <2>5. /\ phase' \in [Reader -> {"idle", "load", "copy"}]
        /\ view' \in [Reader -> [Word -> Nat] \cup {NoView}]
        /\ TriesCounted'
    BY <1>13 DEF Decide, Retry, TypeOK, ReaderTypeOK, TriesCounted
  <2>6. QED
    BY <1>13, <2>1, <2>4, <2>5, WriterUntouched DEF Decide, TypeOK, ReaderTypeOK
<1>14. CASE UNCHANGED vars
  BY <1>14, WriterUntouched, ReadersUntouched DEF vars, TypeOK
<1>15. QED
  BY <1>1, <1>2, <1>3, <1>4, <1>5, <1>6, <1>7, <1>8, <1>9, <1>10, <1>11, <1>12,
     <1>13, <1>14 DEF Next, WriterStep, ReaderStep

\* Every variable keeps its type and a read never spends an attempt it does
\* not have, in one epoch (writer.rs publish, reader.rs read_state).
THEOREM PlaneTyping == Spec => []TypeOK
<1>1. TypeInv => TypeOK
  BY DEF TypeInv
<1>2. QED
  BY <1>1, TypesOfInit, TypesOfStep, PTL DEF Spec

-----------------------------------------------------------------------------
(* Why a view is whole.  Only the writer changes words, and only while the *)
(* counter is odd; so while the counter still is what a reader sampled,    *)
(* every word the reader has copied is of the snapshot current then.       *)

\* Word w as a reader of buffer b finds it.
At(b, w) == IF w \in Buffered THEN buffer[b][w] ELSE single[w]

WriterInv ==
    /\ writer # "erasing"
    /\ seq = IF writer = "idle" THEN 2 * newest ELSE 2 * newest - 1
    /\ writer \in {"idle", "flipped"} => \A w \in Word : At(active, w) = newest
    /\ writer = "writing" => \A w \in Word \ unwritten : At(Inactive, w) = newest

\* What r sampled was even, and the counter has not gone back since.
Sampled(r) == \E n \in 0..newest : first[r] = 2 * n /\ first[r] <= seq

\* Everything r has copied is of the snapshot it sampled.
CopiedIsCurrent(r) ==
    /\ Active \notin unread[r] => from[r] = active
    /\ \A w \in Word \ unread[r] : 2 * copy[r][w] = first[r]

CopyInv(r) ==
    phase[r] = "copy" =>
      /\ Sampled(r)
      /\ Active \in unread[r] => Word \subseteq unread[r]
      /\ first[r] = seq => CopiedIsCurrent(r)

\* A second sample that equals the first vouches for the whole copy.
SecondInv(r) ==
    second[r] # Unsampled =>
      /\ phase[r] = "copy" /\ unread[r] = {}
      /\ second[r] = first[r] => \A w \in Word : 2 * copy[r][w] = first[r]

PlaneInv ==
    /\ TypeInv /\ WriterInv
    /\ \A r \in Reader : CopyInv(r) /\ SecondInv(r)
    /\ ViewIsWhole

\* The facts of the writer's invariant a step of a reader keeps.
LEMMA WriterInvUntouched ==
    WriterInv /\ UNCHANGED <<region, writerVars>> => WriterInv'
  BY DEF WriterInv, At, Inactive, region, writerVars

\* A step of the writer leaves the counter different from any a copy in
\* progress was sampled at, which is all the readers need.
LEMMA WriterMovesOn ==
    /\ PlaneInv /\ TypeInv' /\ UNCHANGED <<readerVars, view>>
    /\ seq <= seq' /\ newest <= newest'
    /\ \A r \in Reader : phase[r] = "copy" => first[r] # seq'
    => (\A r \in Reader : CopyInv(r)' /\ SecondInv(r)') /\ ViewIsWhole'
<1>. SUFFICES ASSUME PlaneInv, TypeInv', UNCHANGED <<readerVars, view>>,
                     seq <= seq', newest <= newest',
                     \A r \in Reader : phase[r] = "copy" => first[r] # seq'
              PROVE  (\A r \in Reader : CopyInv(r)' /\ SecondInv(r)') /\ ViewIsWhole'
  OBVIOUS
<1>1. /\ seq \in Nat /\ seq' \in Nat /\ newest \in Nat /\ newest' \in Nat
      /\ 0..newest \subseteq 0..newest'
  BY DEF PlaneInv, TypeInv, TypeOK, WriterTypeOK
<1>2. ASSUME NEW r \in Reader PROVE CopyInv(r)' /\ SecondInv(r)'
  <2>1. first[r] \in Nat
    BY DEF PlaneInv, TypeInv, TypeOK, ReaderTypeOK
  <2>2. Sampled(r) => Sampled(r)'
    BY <1>1, <2>1 DEF Sampled, readerVars
  <2>3. CopyInv(r)'
    BY <2>2 DEF PlaneInv, CopyInv, readerVars
  <2>4. SecondInv(r)'
    BY DEF PlaneInv, SecondInv, readerVars
  <2>5. QED
    BY <2>3, <2>4
<1>3. ViewIsWhole'
  BY <1>1 DEF PlaneInv, ViewIsWhole, Whole
<1>4. QED
  BY <1>2, <1>3

\* What a reader has not touched keeps its invariant when the region does not
\* change.
LEMMA OthersUntouched ==
    ASSUME NEW q \in Reader, CopyInv(q), SecondInv(q), UNCHANGED <<region, writerVars>>,
           phase'[q] = phase[q], first'[q] = first[q], from'[q] = from[q],
           copy'[q] = copy[q], unread'[q] = unread[q], second'[q] = second[q]
    PROVE  CopyInv(q)' /\ SecondInv(q)'
  BY DEF CopyInv, SecondInv, Sampled, CopiedIsCurrent, region, writerVars

LEMMA ViewsUntouched ==
    ViewIsWhole /\ UNCHANGED <<view, newest>> => ViewIsWhole'
  BY DEF ViewIsWhole, Whole

LEMMA PlaneInvOfInit == Init => PlaneInv
<1>. SUFFICES ASSUME Init PROVE PlaneInv
  OBVIOUS
<1>1. WriterInv
  BY DEF Init, WriterInv, At, Word
<1>2. ASSUME NEW r \in Reader PROVE CopyInv(r) /\ SecondInv(r)
  BY <1>2 DEF Init, CopyInv, SecondInv
<1>3. ViewIsWhole
  BY DEF Init, ViewIsWhole
<1>4. QED
  BY <1>1, <1>2, <1>3, TypesOfInit DEF PlaneInv

\* The writer: one step per action.
LEMMA WriterKeepsPlaneInv ==
    PlaneInv /\ TypeInv' /\ (WriterStep \/ WriterDies) => PlaneInv'
<1>. SUFFICES ASSUME PlaneInv, TypeInv', WriterStep \/ WriterDies PROVE PlaneInv'
  OBVIOUS
<1>1. /\ seq \in Nat /\ newest \in Nat /\ seq' \in Nat /\ newest' \in Nat
      /\ WriterInv
  BY DEF PlaneInv, TypeInv, TypeOK, WriterTypeOK
\* Every counter sampled is even and no later than the counter.
<1>2. ASSUME NEW r \in Reader, phase[r] = "copy"
      PROVE  \E n \in Nat : first[r] = 2 * n /\ first[r] <= seq
  BY <1>1, <1>2 DEF PlaneInv, CopyInv, Sampled
<1>3. CASE BeginWrite
  <2>1. seq = 2 * newest /\ seq' = seq + 1 /\ newest' = newest + 1
    BY <1>1, <1>3 DEF BeginWrite, WriterInv
  <2>2. WriterInv'
    BY <1>1, <1>3, <2>1 DEF BeginWrite, WriterInv, At, Inactive
  <2>3. \A r \in Reader : phase[r] = "copy" => first[r] # seq'
    BY <1>1, <1>2, <2>1
  <2>4. QED
    BY <1>1, <1>3, <2>1, <2>2, <2>3, WriterMovesOn DEF BeginWrite, PlaneInv
\* While a write is in progress the counter is odd.
<1>4. ASSUME writer \in {"writing", "flipped"}, UNCHANGED <<seq, readerVars, view, newest>>,
             WriterInv'
      PROVE  PlaneInv'
  <2>1. seq = 2 * newest - 1
    BY <1>1, <1>4 DEF WriterInv
  <2>2. \A r \in Reader : phase[r] = "copy" => first[r] # seq'
    BY <1>1, <1>2, <1>4, <2>1
  <2>3. QED
    BY <1>1, <1>4, <2>2, WriterMovesOn DEF PlaneInv
<1>5. ASSUME NEW w \in Word, Store(w) PROVE PlaneInv'
  <2>1. /\ active \in 0..1 /\ 1 - active \in 0..1
        /\ buffer \in [0..1 -> [Buffered -> Nat]] /\ single \in [Single -> Nat]
    BY DEF PlaneInv, TypeInv, TypeOK, WriterTypeOK
  <2>2. ASSUME NEW v \in Word \ unwritten' PROVE At(Inactive, v)' = newest'
    <3>1. CASE w \in Buffered
      BY <1>1, <1>5, <2>1, <2>2, <3>1 DEF Store, WriterInv, At, Inactive, Word
    <3>2. CASE w \notin Buffered
      BY <1>1, <1>5, <2>1, <2>2, <3>2 DEF Store, WriterInv, At, Inactive, Word
    <3>3. QED
      BY <3>1, <3>2
  <2>3. WriterInv'
    BY <1>1, <1>5, <2>2 DEF Store, WriterInv
  <2>4. QED
    BY <1>4, <1>5, <2>3 DEF Store
<1>6. CASE Flip
  <2>1. WriterInv'
    BY <1>1, <1>6 DEF Flip, WriterInv, At, Inactive
  <2>2. QED
    BY <1>4, <1>6, <2>1 DEF Flip
<1>7. CASE EndWrite
  <2>1. seq = 2 * newest - 1 /\ seq' = seq + 1
    BY <1>1, <1>7 DEF EndWrite, WriterInv
  <2>2. WriterInv'
    BY <1>1, <1>7, <2>1 DEF EndWrite, WriterInv, At, Inactive
  <2>3. \A r \in Reader : phase[r] = "copy" => first[r] # seq'
    BY <1>1, <1>2, <2>1
  <2>4. QED
    BY <1>1, <1>7, <2>1, <2>2, <2>3, WriterMovesOn DEF EndWrite, PlaneInv
<1>8. CASE WriterDies
  <2>1. WriterInv'
    BY <1>1, <1>8 DEF WriterDies, WriterInv, region
  <2>2. QED
    BY <1>4, <1>8, <2>1 DEF WriterDies, region
<1>9. QED
  BY <1>3, <1>5, <1>6, <1>7, <1>8 DEF WriterStep

\* The readers: one step per action.  Only LoadSecond needs loads in order.
LEMMA ReaderKeepsPlaneInv ==
    ASSUME LoadsInOrder, PlaneInv, TypeInv',
           NEW r \in Reader, StartRead(r) \/ ReaderStep(r)
    PROVE  PlaneInv'
<1>1. /\ seq \in Nat /\ newest \in Nat /\ WriterInv /\ ViewIsWhole
      /\ CopyInv(r) /\ SecondInv(r)
      /\ \A q \in Reader : CopyInv(q) /\ SecondInv(q)
  BY DEF PlaneInv, TypeInv, TypeOK, WriterTypeOK
<1>2. ReaderTypeOK /\ ReaderTypeOK'
  BY DEF PlaneInv, TypeInv, TypeOK
\* A reader writes nothing but what is its own.
<1>3. UNCHANGED <<region, writerVars>>
  BY DEF StartRead, ReaderStep, GiveUp, LoadOdd, LoadFirst, CopyActive, CopyWord,
         LoadSecond, Decide
<1>4. ASSUME NEW q \in Reader, q # r PROVE CopyInv(q)' /\ SecondInv(q)'
  <2>1. /\ phase'[q] = phase[q] /\ first'[q] = first[q] /\ from'[q] = from[q]
        /\ copy'[q] = copy[q] /\ unread'[q] = unread[q] /\ second'[q] = second[q]
    BY <1>2, <1>4 DEF ReaderTypeOK, StartRead, ReaderStep, GiveUp, LoadOdd, LoadFirst,
       CopyActive, CopyWord, LoadSecond, Decide, Retry
  <2>2. QED
    BY <1>1, <1>3, <2>1, OthersUntouched
<1>5. ASSUME CopyInv(r)', SecondInv(r)', ViewIsWhole' PROVE PlaneInv'
  <2>1. \A q \in Reader : CopyInv(q)' /\ SecondInv(q)'
    BY <1>4, <1>5
  <2>2. QED
    BY <1>1, <1>3, <1>5, <2>1, WriterInvUntouched DEF PlaneInv
<1>6. ASSUME UNCHANGED view PROVE ViewIsWhole'
  BY <1>1, <1>3, <1>6, ViewsUntouched DEF writerVars
<1>7. CASE StartRead(r) \/ GiveUp(r) \/ LoadOdd(r)
  <2>1. phase'[r] # "copy" /\ phase[r] # "copy" /\ UNCHANGED <<second, view>>
    BY <1>2, <1>7 DEF ReaderTypeOK, StartRead, GiveUp, LoadOdd, Retry
  <2>2. CopyInv(r)' /\ SecondInv(r)'
    BY <1>1, <2>1 DEF CopyInv, SecondInv
  <2>3. QED
    BY <1>5, <1>6, <2>1, <2>2
<1>8. CASE LoadFirst(r)
  <2>1. /\ phase[r] = "load" /\ seq % 2 = 0
        /\ phase'[r] = "copy" /\ first'[r] = seq /\ unread'[r] = Word \cup {Active}
        /\ UNCHANGED <<second, view, seq, newest>>
    BY <1>2, <1>3, <1>8 DEF ReaderTypeOK, LoadFirst, region, writerVars
  <2>2. seq = 2 * newest
    BY <1>1, <2>1 DEF WriterInv
  <2>3. CopyInv(r)'
    BY <1>1, <2>1, <2>2 DEF CopyInv, Sampled, CopiedIsCurrent
  <2>4. SecondInv(r)'
    BY <1>1, <2>1 DEF SecondInv
  <2>5. QED
    BY <1>5, <1>6, <2>1, <2>3, <2>4
<1>9. CASE CopyActive(r)
  <2>1. /\ phase[r] = "copy" /\ Active \in unread[r] /\ UNCHANGED <<phase, first, copy, second, view, seq, newest, active>>
        /\ from'[r] = active /\ unread'[r] = unread[r] \ {Active}
    BY <1>2, <1>3, <1>9 DEF ReaderTypeOK, CopyActive, region, writerVars
  <2>2. CopyInv(r)'
    BY <1>1, <2>1, PlaneAssumption DEF CopyInv, Sampled, CopiedIsCurrent, Word
  <2>3. SecondInv(r)'
    BY <1>1, <2>1 DEF SecondInv
  <2>4. QED
    BY <1>5, <1>6, <2>1, <2>2, <2>3
<1>10. ASSUME NEW w \in Word, CopyWord(r, w) PROVE PlaneInv'
  <2>1. /\ phase[r] = "copy" /\ w \in unread[r] /\ Active \notin unread[r]
        /\ UNCHANGED <<phase, first, from, second, view, seq, newest, active>>
        /\ unread'[r] = unread[r] \ {w}
    BY <1>2, <1>3, <1>10 DEF ReaderTypeOK, CopyWord, region, writerVars
  <2>2. copy'[r] = [copy[r] EXCEPT ![w] = At(from[r], w)]
    BY <1>2, <1>10 DEF ReaderTypeOK, CopyWord, At
  <2>3. ASSUME first[r] = seq PROVE 2 * copy'[r][w] = first[r]
    <3>1. \E n \in 0..newest : first[r] = 2 * n
      BY <1>1, <2>1 DEF CopyInv, Sampled
    <3>2. writer = "idle" /\ seq = 2 * newest
      BY <1>1, <2>3, <3>1 DEF WriterInv
    <3>3. At(from[r], w) = newest
      BY <1>1, <2>1, <2>3, <3>2 DEF WriterInv, CopyInv, CopiedIsCurrent
    <3>4. QED
      BY <1>2, <2>2, <2>3, <3>2, <3>3 DEF ReaderTypeOK
  <2>4. ASSUME first[r] = seq, NEW v \in Word \ unread[r] PROVE 2 * copy'[r][v] = first[r]
    BY <1>1, <1>2, <2>1, <2>2, <2>4 DEF ReaderTypeOK, CopyInv, CopiedIsCurrent
  <2>5. CopyInv(r)'
    BY <1>1, <2>1, <2>3, <2>4 DEF CopyInv, Sampled, CopiedIsCurrent
  <2>6. SecondInv(r)'
    BY <1>1, <2>1 DEF SecondInv
  <2>7. QED
    BY <1>5, <1>6, <2>1, <2>5, <2>6
<1>11. CASE LoadSecond(r)
  <2>1. /\ phase[r] = "copy" /\ unread[r] = {} /\ second'[r] = seq
        /\ UNCHANGED <<phase, first, from, copy, unread, view, seq, newest, active>>
    BY <1>2, <1>3, <1>11 DEF ReaderTypeOK, LoadSecond, region, writerVars
  <2>2. CopyInv(r)'
    BY <1>1, <2>1 DEF CopyInv, Sampled, CopiedIsCurrent
  <2>3. SecondInv(r)'
    BY <1>1, <2>1 DEF SecondInv, CopyInv, CopiedIsCurrent
  <2>4. QED
    BY <1>5, <1>6, <2>1, <2>2, <2>3
<1>12. CASE Decide(r)
  <2>1. phase'[r] # "copy" /\ second'[r] = Unsampled
    BY <1>2, <1>12 DEF ReaderTypeOK, Decide, Retry
  <2>2. CopyInv(r)' /\ SecondInv(r)'
    BY <2>1 DEF CopyInv, SecondInv
  <2>3. CASE second[r] # first[r]
    BY <1>5, <1>6, <1>12, <2>2, <2>3 DEF Decide, Retry
  <2>4. CASE second[r] = first[r]
    <3>1. PICK n \in 0..newest : first[r] = 2 * n
      BY <1>1, <1>12 DEF Decide, CopyInv, Sampled
    <3>2. \A w \in Word : 2 * copy[r][w] = 2 * n
      BY <1>1, <1>12, <2>4, <3>1 DEF Decide, SecondInv
    <3>3. \A w \in Word : copy[r][w] \in Nat
      BY <1>2 DEF ReaderTypeOK
    <3>4. \A w \in Word : copy[r][w] = n
      BY <1>1, <3>2, <3>3
    <3>5. view' = [view EXCEPT ![r] = copy[r]] /\ newest' = newest
      BY <1>3, <1>12, <2>4 DEF Decide, writerVars
    <3>6. ViewIsWhole'
      BY <1>1, <1>2, <3>4, <3>5 DEF ViewIsWhole, Whole, ReaderTypeOK
    <3>7. QED
      BY <1>5, <2>2, <3>6
  <2>5. QED
    BY <2>3, <2>4
<1>13. QED
  BY <1>7, <1>8, <1>9, <1>10, <1>11, <1>12 DEF ReaderStep

LEMMA PlaneInvOfStep == LoadsInOrder /\ PlaneInv /\ [Next]_vars => PlaneInv'
<1>. SUFFICES ASSUME LoadsInOrder, PlaneInv, [Next]_vars PROVE PlaneInv'
  OBVIOUS
<1>1. TypeInv'
  BY TypesOfStep DEF PlaneInv
<1>2. CASE WriterStep \/ WriterDies
  BY <1>1, <1>2, WriterKeepsPlaneInv
<1>3. ASSUME NEW r \in Reader, StartRead(r) \/ ReaderStep(r) PROVE PlaneInv'
  BY <1>1, <1>3, ReaderKeepsPlaneInv
<1>4. CASE UNCHANGED vars
  <2>1. UNCHANGED <<region, writerVars, view, newest>> /\ UNCHANGED readerVars
    BY <1>4 DEF vars, writerVars
  <2>2. \A r \in Reader : CopyInv(r)' /\ SecondInv(r)'
    BY <2>1, OthersUntouched DEF PlaneInv, readerVars
  <2>3. QED
    BY <1>1, <2>1, <2>2, WriterInvUntouched, ViewsUntouched DEF PlaneInv
<1>5. QED
  BY <1>2, <1>3, <1>4 DEF Next

\* Where loads stay in order, a view is one snapshot and never words of two,
\* for any number of readers, words, attempts and publications, and wherever
\* the writer dies (writer.rs: "A reader sees a consistent snapshot").
THEOREM ViewsAreWhole == ASSUME LoadsInOrder PROVE Spec => []ViewIsWhole
<1>1. PlaneInv => ViewIsWhole
  BY DEF PlaneInv
<1>2. QED
  BY <1>1, PlaneInvOfInit, PlaneInvOfStep, PTL DEF Spec

-----------------------------------------------------------------------------
(* The plane is an atomic register: EndWrite publishes, LoadFirst samples, *)
(* a Decide that accepts its copy returns, and every other step stutters.  *)

LEMMA NumberOfWhole ==
    ASSUME NEW v, v # NoView, NEW n \in 0..newest, \A w \in Word : v[w] = n
    PROVE  NumberOf(v) = n
<1>1. \E w \in Word : TRUE
  BY PlaneAssumption DEF Word
<1>2. (CHOOSE w \in Word : TRUE) \in Word
  BY <1>1
<1>3. QED
  BY <1>2 DEF NumberOf, Whole

LEMMA AbstractInit == Init => Snapshot!Init
  BY DEF Init, Snapshot!Init, NumberOf

\* The number of a view does not change when only newer snapshots appear.
LEMMA NumbersStay ==
    PlaneInv /\ PlaneInv' /\ UNCHANGED view
    => \A r \in Reader : NumberOf(view[r])' = NumberOf(view[r])
  BY DEF PlaneInv, ViewIsWhole, NumberOf, Whole

LEMMA StepRefines == PlaneInv /\ PlaneInv' /\ [Next]_vars => [Snapshot!Next]_(Snapshot!snapshotVars)
<1>. SUFFICES ASSUME PlaneInv, PlaneInv', [Next]_vars
              PROVE  Snapshot!Next \/ UNCHANGED Snapshot!snapshotVars
  OBVIOUS
<1>1. /\ seq \in Nat /\ newest \in Nat /\ WriterInv /\ ViewIsWhole
      /\ \A r \in Reader : CopyInv(r) /\ SecondInv(r)
      /\ ReaderTypeOK /\ ReaderTypeOK'
  BY DEF PlaneInv, TypeInv, TypeOK, WriterTypeOK
\* A step that keeps the views, the samples and half the counter stutters.
<1>2. ASSUME seq' \div 2 = seq \div 2, UNCHANGED <<first, view>>
      PROVE  UNCHANGED Snapshot!snapshotVars
  BY <1>2, NumbersStay DEF Snapshot!snapshotVars
<1>3. CASE BeginWrite
  <2>1. seq = 2 * newest /\ seq' = seq + 1
    BY <1>1, <1>3 DEF BeginWrite, WriterInv
  <2>2. QED
    BY <1>1, <1>2, <1>3, <2>1 DEF BeginWrite, readerVars
<1>4. CASE (\E w \in Word : Store(w)) \/ Flip \/ WriterDies
  BY <1>2, <1>4 DEF Store, Flip, WriterDies, region, readerVars
<1>5. CASE EndWrite
  <2>1. seq = 2 * newest - 1 /\ seq' = seq + 1
    BY <1>1, <1>5 DEF EndWrite, WriterInv
  <2>2. seq' \div 2 = (seq \div 2) + 1
    BY <1>1, <2>1
  <2>3. UNCHANGED <<first, view>>
    BY <1>5 DEF EndWrite, readerVars
  <2>4. Snapshot!Publish
    BY <2>2, <2>3, NumbersStay DEF Snapshot!Publish
  <2>5. QED
    BY <2>4 DEF Snapshot!Next
<1>6. ASSUME NEW r \in Reader,
             \/ StartRead(r) \/ GiveUp(r) \/ LoadOdd(r) \/ CopyActive(r)
             \/ LoadSecond(r) \/ \E w \in Word : CopyWord(r, w)
      PROVE  UNCHANGED Snapshot!snapshotVars
  <2>1. UNCHANGED <<seq, first, view>>
    BY <1>6 DEF StartRead, GiveUp, LoadOdd, Retry, CopyActive, LoadSecond, CopyWord, region
  <2>2. QED
    BY <1>2, <2>1
<1>7. ASSUME NEW r \in Reader, LoadFirst(r) PROVE Snapshot!Next
  <2>1. UNCHANGED <<seq, view>> /\ first' = [first EXCEPT ![r] = seq]
    BY <1>7 DEF LoadFirst, region
  <2>2. [q \in Reader |-> first[q] \div 2]'
          = [[q \in Reader |-> first[q] \div 2] EXCEPT ![r] = seq \div 2]
    BY <1>1, <2>1 DEF ReaderTypeOK
  <2>3. Snapshot!Sample(r)
    BY <2>1, <2>2, NumbersStay DEF Snapshot!Sample
  <2>4. QED
    BY <2>3 DEF Snapshot!Next
<1>8. ASSUME NEW r \in Reader, Decide(r)
      PROVE  Snapshot!Next \/ UNCHANGED Snapshot!snapshotVars
  <2>1. UNCHANGED <<seq, first, newest>>
    BY <1>8 DEF Decide, region, writerVars
  <2>2. CASE second[r] # first[r]
    BY <1>2, <1>8, <2>1, <2>2 DEF Decide, Retry
  <2>3. CASE second[r] = first[r]
    <3>1. PICK n \in 0..newest : first[r] = 2 * n
      BY <1>1, <1>8 DEF Decide, CopyInv, Sampled
    <3>2. first[r] \div 2 = n
      BY <1>1, <3>1
    <3>3. \A w \in Word : 2 * copy[r][w] = 2 * n
      BY <1>1, <1>8, <2>3, <3>1 DEF Decide, SecondInv
    <3>4. copy[r] \in [Word -> Nat]
      BY <1>1 DEF ReaderTypeOK
    <3>5. \A w \in Word : copy[r][w] = n
      BY <1>1, <3>3, <3>4
    <3>6. copy[r] # NoView
      BY <3>4, PlaneAssumption DEF Word
    <3>7. NumberOf(copy[r]) = n
      BY <3>5, <3>6, NumberOfWhole
    <3>8. view' = [view EXCEPT ![r] = copy[r]] /\ view \in [Reader -> [Word -> Nat] \cup {NoView}]
      BY <1>1, <1>8, <2>3 DEF Decide, ReaderTypeOK
    <3>9. ASSUME NEW q \in Reader
          PROVE  NumberOf(view[q])' = IF q = r THEN n ELSE NumberOf(view[q])
      <4>1. CASE q = r
        BY <2>1, <3>7, <3>8, <4>1 DEF NumberOf, Whole
      <4>2. CASE q # r
        BY <2>1, <3>8, <4>2 DEF NumberOf, Whole
      <4>3. QED
        BY <4>1, <4>2
    <3>10. Snapshot!Return(r)
      BY <2>1, <3>2, <3>9 DEF Snapshot!Return
    <3>11. QED
      BY <3>10 DEF Snapshot!Next
  <2>4. QED
    BY <2>2, <2>3
<1>9. CASE UNCHANGED vars
  BY <1>2, <1>9 DEF vars, region, readerVars
<1>10. QED
  BY <1>3, <1>4, <1>5, <1>6, <1>7, <1>8, <1>9 DEF Next, WriterStep, ReaderStep

\* The sequence-counter protocol implements an atomic register: a read returns
\* the snapshot that was current when it sampled the counter (layout.rs:
\* "A seqlock, plus double buffering for the matrix").
THEOREM PlaneImplementsSnapshot == ASSUME LoadsInOrder PROVE Spec => ImplementsSnapshot
<1>1. QED
  BY AbstractInit, StepRefines, PlaneInvOfInit, PlaneInvOfStep, PTL
     DEF Spec, ImplementsSnapshot, Snapshot!Spec


-----------------------------------------------------------------------------
(* Arms.                                                                   *)

\* An arm that has not had the trials it takes weighs no more than those it had.
Weighed(arm) == arm.randomised = Needed \/ arm.weight <= Unit * arm.randomised

Sound(e) == e \in Estimate /\ Weighed(e.treatment) /\ Weighed(e.control)

\* A further trial leaves at most the weight there was.
LEMMA AgeShrinks ==
    ASSUME NEW w \in Nat
    PROVE  (w * Kept) \div Unit \in Nat /\ (w * Kept) \div Unit <= w
<1>. DEFINE q == (w * Kept) \div Unit
<1>1. Unit \in Nat /\ Unit > 0 /\ Kept \in Nat /\ Kept <= Unit
  BY ConceptsAssumption
<1>2. w * Kept \in Nat /\ w * Unit \in Nat /\ w * Kept <= w * Unit
  BY <1>1
<1>3. q \in Nat /\ q * Unit \in Nat /\ q * Unit <= w * Kept
  BY <1>1, <1>2
<1>4. q <= w
  <2>1. SUFFICES ASSUME q >= w + 1 PROVE FALSE
    BY <1>3
  <2>2. q * Unit >= (w + 1) * Unit
    BY <2>1, <1>1, <1>3
  <2>3. (w + 1) * Unit = w * Unit + Unit
    BY <1>1
  <2>4. QED
    BY <2>2, <2>3, <1>1, <1>2, <1>3
<1>5. QED
  BY <1>3, <1>4

LEMMA AgedIsWeighed ==
    ASSUME NEW arm \in Arm, Weighed(arm)
    PROVE  /\ Aged(arm) \in Arm /\ Weighed(Aged(arm))
           /\ Aged(arm).randomised = arm.randomised
<1>1. arm.weight \in Nat /\ arm.randomised \in Nat /\ Unit \in Nat
  BY ConceptsAssumption DEF Arm
<1>2. /\ Aged(arm) \in Arm /\ Aged(arm).randomised = arm.randomised
      /\ Aged(arm).weight <= arm.weight /\ Aged(arm).weight \in Nat
  BY <1>1, AgeShrinks DEF Aged, Arm
<1>3. Unit * arm.randomised \in Nat
  BY <1>1
<1>4. QED
  BY <1>1, <1>2, <1>3 DEF Weighed

LEMMA CountedIsWeighed ==
    ASSUME NEW arm \in Arm, Weighed(arm)
    PROVE  /\ Counted(arm) \in Arm /\ Weighed(Counted(arm))
           /\ arm.randomised = Needed => Counted(arm).randomised = Needed
<1>1. /\ arm.weight \in Nat /\ arm.randomised \in 0..Needed
      /\ Unit \in Nat /\ Needed \in Nat
  BY ConceptsAssumption DEF Arm
<1>2. Aged(arm).weight \in Nat /\ Aged(arm).weight <= arm.weight
  BY <1>1, AgeShrinks DEF Aged, Arm
<1>3. /\ Counted(arm).weight = Aged(arm).weight + Unit
      /\ Counted(arm).randomised = IF arm.randomised = Needed THEN Needed
                                   ELSE arm.randomised + 1
      /\ Counted(arm) = [randomised |-> Counted(arm).randomised,
                         weight |-> Counted(arm).weight]
  BY DEF Counted
<1>4. Counted(arm) \in Arm
  BY <1>1, <1>2, <1>3 DEF Arm
<1>5. ASSUME arm.randomised # Needed
      PROVE  Counted(arm).weight <= Unit * Counted(arm).randomised
  <2>1. Unit * (arm.randomised + 1) = Unit * arm.randomised + Unit
    BY <1>1
  <2>2. arm.weight <= Unit * arm.randomised
    BY <1>5 DEF Weighed
  <2>3. Unit * arm.randomised \in Nat
    BY <1>1
  <2>4. QED
    BY <1>1, <1>2, <1>3, <1>5, <2>1, <2>2, <2>3
<1>6. QED
  BY <1>3, <1>4, <1>5 DEF Weighed

\* Recording a trial takes no randomised trial away.
LEMMA RecordedIsSound ==
    ASSUME NEW e, Sound(e), NEW took \in BOOLEAN, NEW randomised \in BOOLEAN,
           NEW finite \in BOOLEAN
    PROVE  LET r == Recorded(e, took, randomised, finite)
           IN  /\ Sound(r)
               /\ e.treatment.randomised = Needed => r.treatment.randomised = Needed
               /\ e.control.randomised = Needed => r.control.randomised = Needed
<1>. DEFINE r == Recorded(e, took, randomised, finite)
<1>1. /\ e.treatment \in Arm /\ e.control \in Arm
      /\ Weighed(e.treatment) /\ Weighed(e.control)
  BY DEF Sound, Estimate
<1>2. /\ r = [treatment |-> r.treatment, control |-> r.control]
      /\ r.treatment \in {e.treatment, Aged(e.treatment), Counted(e.treatment)}
      /\ r.control \in {e.control, Aged(e.control), Counted(e.control)}
  BY DEF Recorded
<1>3. \A arm \in {e.treatment, e.control} :
        \A x \in {arm, Aged(arm), Counted(arm)} :
            x \in Arm /\ Weighed(x) /\ (arm.randomised = Needed => x.randomised = Needed)
  BY <1>1, AgedIsWeighed, CountedIsWeighed
<1>4. /\ r.treatment \in Arm /\ Weighed(r.treatment)
      /\ e.treatment.randomised = Needed => r.treatment.randomised = Needed
  BY <1>2, <1>3
<1>5. /\ r.control \in Arm /\ Weighed(r.control)
      /\ e.control.randomised = Needed => r.control.randomised = Needed
  BY <1>2, <1>3
<1>6. r \in Estimate
  BY <1>2, <1>4, <1>5 DEF Estimate
<1>7. QED
  BY <1>4, <1>5, <1>6 DEF Sound

LEMMA NoEstimateIsSound == Sound(NoEstimate)
BY ConceptsAssumption DEF Sound, NoEstimate, NoTrials, Estimate, Arm, Weighed

\* A comparison that is settled has had its trials in both arms.
LEMMA SettledHadTrials ==
    ASSUME NEW e, Sound(e), IsSettled(e)
    PROVE  e.treatment.randomised = Needed /\ e.control.randomised = Needed
<1>1. SUFFICES ASSUME NEW arm \in Arm, Weighed(arm), arm.weight >= Needed * Unit
               PROVE  arm.randomised = Needed
  BY DEF Sound, Estimate, IsSettled
<1>2. /\ arm.randomised \in 0..Needed /\ arm.weight \in Nat
      /\ Needed \in Nat /\ Unit \in Nat /\ Unit > 0
  BY ConceptsAssumption DEF Arm
<1>3. SUFFICES ASSUME arm.randomised + 1 <= Needed, arm.weight <= Unit * arm.randomised
               PROVE  FALSE
  BY <1>1, <1>2 DEF Weighed
<1>4. Unit * (arm.randomised + 1) <= Unit * Needed
  BY <1>2, <1>3
<1>5. Unit * (arm.randomised + 1) = Unit * arm.randomised + Unit
  BY <1>2
<1>6. Unit * Needed = Needed * Unit /\ Unit * arm.randomised \in Nat /\ Needed * Unit \in Nat
  BY <1>2
<1>7. QED
  BY <1>1, <1>2, <1>3, <1>4, <1>5, <1>6

-----------------------------------------------------------------------------
(* The loop.                                                               *)

EstimatesSound ==
    /\ preference \in [Latent -> Family \cup {NoFamily}]
    /\ estimate \in [Latent -> [Family -> Estimate]]
    /\ \A s \in Latent, f \in Family : Sound(estimate[s][f])

CausalInv == EstimatesSound /\ PreferencesAreCausal

LEMMA CausalInit == ConceptsInit => CausalInv
BY NoEstimateIsSound DEF ConceptsInit, CausalInv, EstimatesSound, PreferencesAreCausal, Sound

\* An occurrence adds a trial to one comparison.
LEMMA OccurKeeps ==
    ASSUME CausalInv, NEW s \in Latent, Occur(s) PROVE CausalInv'
<1>1. PICK f \in Treatments(s), d \in Decisions(s), finite \in BOOLEAN :
          estimate' = [estimate EXCEPT ![s][f] = Recorded(@, d[2], d[1], finite)]
  BY DEF Occur
<1>2. f \in Family
  BY ConceptsAssumption DEF Treatments, CausalInv, EstimatesSound
<1>3. d[1] \in BOOLEAN /\ d[2] \in BOOLEAN
  <2>1. d = <<FALSE, preference[s] # NoFamily>> \/ d \in {TRUE} \X BOOLEAN
    BY DEF Decisions
  <2>2. CASE d = <<FALSE, preference[s] # NoFamily>>
    BY <2>2
  <2>3. CASE d \in {TRUE} \X BOOLEAN
    BY <2>3
  <2>4. QED
    BY <2>1, <2>2, <2>3
<1>. DEFINE e == estimate[s][f]
            r == Recorded(e, d[2], d[1], finite)
<1>4. Sound(e)
  BY <1>2 DEF CausalInv, EstimatesSound
<1>5. /\ Sound(r)
      /\ e.treatment.randomised = Needed => r.treatment.randomised = Needed
      /\ e.control.randomised = Needed => r.control.randomised = Needed
  BY <1>3, <1>4, RecordedIsSound
<1>6. r \in Estimate
  BY <1>5 DEF Sound
<1>7. /\ estimate' \in [Latent -> [Family -> Estimate]]
      /\ \A t \in Latent, g \in Family :
            estimate'[t][g] = IF t = s /\ g = f THEN r ELSE estimate[t][g]
  BY <1>1, <1>2, <1>6 DEF CausalInv, EstimatesSound
<1>8. preference' = preference
  BY DEF Occur
<1>9. EstimatesSound'
  BY <1>5, <1>7, <1>8 DEF CausalInv, EstimatesSound
<1>10. PreferencesAreCausal'
  <2>1. SUFFICES ASSUME NEW t \in Latent, preference[t] # NoFamily
                 PROVE  /\ estimate'[t][preference[t]].treatment.randomised = Needed
                        /\ estimate'[t][preference[t]].control.randomised = Needed
    BY <1>8 DEF PreferencesAreCausal
  <2>2. preference[t] \in Family
    BY <2>1 DEF CausalInv, EstimatesSound
  <2>3. /\ estimate[t][preference[t]].treatment.randomised = Needed
        /\ estimate[t][preference[t]].control.randomised = Needed
    BY <2>1 DEF CausalInv, PreferencesAreCausal
  <2>4. QED
    BY <1>5, <1>7, <2>2, <2>3
<1>11. QED
  BY <1>9, <1>10 DEF CausalInv

\* A review installs what is established, and takes it away with its concept.
LEMMA EndReviewKeeps ==
    ASSUME CausalInv, EndReview PROVE CausalInv'
<1>1. PICK gone \in SUBSET Latent, p \in [Latent -> Family \cup {NoFamily}] :
          Consolidated(p) /\ Forget(p, gone)
  BY DEF EndReview, Live
<1>2. /\ estimate' = [s \in Latent |-> IF s \in gone THEN [f \in Family |-> NoEstimate]
                                       ELSE estimate[s]]
      /\ preference' = [s \in Latent |-> IF s \in gone THEN NoFamily ELSE p[s]]
  BY <1>1 DEF Forget
<1>3. EstimatesSound'
  <2>1. NoEstimate \in Estimate
    BY NoEstimateIsSound DEF Sound
  <2>2. /\ estimate' \in [Latent -> [Family -> Estimate]]
        /\ preference' \in [Latent -> Family \cup {NoFamily}]
    BY <1>1, <1>2, <2>1 DEF CausalInv, EstimatesSound
  <2>3. \A s \in Latent, f \in Family : Sound(estimate'[s][f])
    BY <1>2, NoEstimateIsSound DEF CausalInv, EstimatesSound
  <2>4. QED
    BY <2>2, <2>3 DEF EstimatesSound
<1>4. PreferencesAreCausal'
  <2>1. SUFFICES ASSUME NEW s \in Latent, preference'[s] # NoFamily
                 PROVE  /\ estimate'[s][preference'[s]].treatment.randomised = Needed
                        /\ estimate'[s][preference'[s]].control.randomised = Needed
    BY DEF PreferencesAreCausal
  <2>2. s \notin gone /\ preference'[s] = p[s] /\ estimate'[s] = estimate[s]
    BY <1>2, <2>1
  <2>3. p[s] \in Family /\ IsSettled(estimate[s][p[s]])
    BY <1>1, <2>1, <2>2 DEF Consolidated, Established
  <2>4. Sound(estimate[s][p[s]])
    BY <2>3 DEF CausalInv, EstimatesSound
  <2>5. QED
    BY <2>2, <2>3, <2>4, SettledHadTrials
<1>5. QED
  BY <1>3, <1>4 DEF CausalInv

\* However long the loop runs, and however its concepts come and go, a
\* preference rests on the randomised trials it takes in both arms
\* (conditioned.rs, consolidate and forget).
THEOREM PreferencesRestOnTrials == ConceptsSpec => []PreferencesAreCausal
<1>1. CausalInv /\ [ConceptsNext]_conceptVars => CausalInv'
  <2>1. SUFFICES ASSUME CausalInv, [ConceptsNext]_conceptVars PROVE CausalInv'
    OBVIOUS
  <2>2. ASSUME UNCHANGED <<estimate, preference>> PROVE CausalInv'
    BY <2>1, <2>2 DEF CausalInv, EstimatesSound, PreferencesAreCausal
  <2>3. ASSUME NEW s \in Latent, Occur(s) PROVE CausalInv'
    BY <2>1, <2>3, OccurKeeps
  <2>4. ASSUME NEW s \in Latent, RecordClaim(s) \/ Measure(s) PROVE CausalInv'
    BY <2>2, <2>4 DEF RecordClaim, Measure
  <2>5. CASE Pass \/ StartReview
    BY <2>2, <2>5 DEF Pass, StartReview
  <2>6. CASE EndReview
    BY <2>1, <2>6, EndReviewKeeps
  <2>7. CASE UNCHANGED conceptVars
    BY <2>2, <2>7 DEF conceptVars
  <2>8. QED
    BY <2>1, <2>3, <2>4, <2>5, <2>6, <2>7 DEF ConceptsNext
<1>2. QED
  BY <1>1, CausalInit, PTL DEF ConceptsSpec, CausalInv

-----------------------------------------------------------------------------
(* Outcomes: on each of the roads, what is told is what is counted.        *)

OutcomeTypes ==
    /\ mode \in [attempts : Nat, failures : Nat, silent : Nat, unverified : Nat]
    /\ session \in [actions : Nat, failures : Nat]
    /\ trial \in {NoTrial, "applied", "withheld"}
    /\ arms \in [BOOLEAN -> [trials : Nat, failures : Nat]]
    /\ truth \in [broke : Nat, told : Nat, refuted : Nat,
                  armTold : [BOOLEAN -> Nat], armSaid : [BOOLEAN -> Nat]]

\* What each road promises of the report it makes.
Faithful(raw, broke, told) ==
    /\ broke \in BOOLEAN /\ told \in BOOLEAN
    /\ told <=> VisiblyFailed(raw)
    /\ told => broke
    /\ SilentFailure(raw) <=> raw.reported = "success" /\ raw.verified = "contradicted"
    /\ SilentFailure(raw) => told

LEMMA HookIsFaithful ==
    ASSUME NEW response \in Response, NEW broke \in BOOLEAN, HonestResponse(response, broke)
    PROVE  Faithful(HookRaw(response), broke, TellsFailure(response))
BY DEF Response, HonestResponse, Faithful, HookRaw, HookOutcome, TellsFailure, VisiblyFailed,
       SilentFailure, Succeeded, Reported, NoCode, Ending

LEMMA AgentIsFaithful ==
    ASSUME NEW raw \in Raw, NEW broke \in BOOLEAN, HonestRaw(raw, broke)
    PROVE  Faithful(raw, broke, TellsFailureOwn(raw))
BY DEF Raw, HonestRaw, Faithful, TellsFailureOwn, VisiblyFailed, SilentFailure, Succeeded,
       Reported, NoCode, Ending

LEMMA WrapperIsFaithful ==
    ASSUME NEW code \in Ending PROVE Faithful(RunRaw(code), code # 0, code # 0)
BY DEF Ending, RunRaw, Faithful, VisiblyFailed, SilentFailure, Succeeded, Reported, NoCode

OutcomeInv == OutcomeTypes /\ NeverMadeBetter

LEMMA ReportIsCounted ==
    ASSUME OutcomeInv, NEW raw, NEW broke, NEW told, Faithful(raw, broke, told),
           AgentObserve(raw, broke, told)
    PROVE  OutcomeInv'
<1>. DEFINE f == Once(VisiblyFailed(raw))
            s == Once(SilentFailure(raw))
            u == Once(Unverified(raw))
            refuted == Once(raw.reported = "success" /\ raw.verified = "contradicted")
            a == trial = "applied"
            said == Reported(raw) # "silent"
<1>1. /\ f \in {0, 1} /\ s \in {0, 1} /\ u \in {0, 1} /\ Once(broke) \in {0, 1}
      /\ refuted = s /\ Once(told) = f /\ s <= f /\ f <= Once(broke)
  BY DEF Faithful, Once
<1>2. /\ mode' = [attempts |-> mode.attempts + 1, failures |-> mode.failures + f,
                  silent |-> mode.silent + s, unverified |-> mode.unverified + u]
      /\ session' = [actions |-> session.actions + 1, failures |-> session.failures + f]
      /\ trial' = NoTrial
      /\ arms' = IF trial = NoTrial THEN arms
                 ELSE [arms EXCEPT ![a] = [trials |-> @.trials + 1, failures |-> @.failures + f]]
      /\ truth' = [broke |-> truth.broke + Once(broke), told |-> truth.told + Once(told),
                   refuted |-> truth.refuted + refuted,
                   armTold |-> IF trial = NoTrial \/ ~told THEN truth.armTold
                               ELSE [truth.armTold EXCEPT ![a] = @ + 1],
                   armSaid |-> IF trial = NoTrial \/ ~said THEN truth.armSaid
                               ELSE [truth.armSaid EXCEPT ![a] = @ + 1]]
  BY DEF AgentObserve, ModeAfter, ArmsAfter, TruthAfter
<1>3. a \in BOOLEAN /\ told \in BOOLEAN /\ (told <=> f = 1)
  BY <1>1 DEF Faithful, Once
<1>. HIDE DEF f, s, u, refuted, a, said
<1>4. /\ mode' \in [attempts : Nat, failures : Nat, silent : Nat, unverified : Nat]
      /\ session' \in [actions : Nat, failures : Nat]
      /\ mode'.failures = session'.failures /\ mode'.failures = mode.failures + f
      /\ mode'.silent = mode.silent + s /\ mode'.silent <= mode'.failures
  BY <1>1, <1>2 DEF OutcomeInv, OutcomeTypes, NeverMadeBetter
<1>5. /\ arms' \in [BOOLEAN -> [trials : Nat, failures : Nat]]
      /\ \A b \in BOOLEAN : arms'[b].failures =
            IF trial # NoTrial /\ b = a THEN arms[b].failures + f ELSE arms[b].failures
  <2>1. arms \in [BOOLEAN -> [trials : Nat, failures : Nat]] /\ f \in Nat
    BY <1>1 DEF OutcomeInv, OutcomeTypes
  <2>2. CASE trial = NoTrial
    BY <1>2, <2>1, <2>2
  <2>3. CASE trial # NoTrial
    <3>0. arms' = [arms EXCEPT ![a] = [trials |-> @.trials + 1, failures |-> @.failures + f]]
      BY <1>2, <2>3
    <3>1. /\ arms[a] \in [trials : Nat, failures : Nat]
          /\ arms' = [arms EXCEPT ![a] = [trials |-> arms[a].trials + 1,
                                         failures |-> arms[a].failures + f]]
      BY <1>3, <2>1, <3>0
    <3>2. [trials |-> arms[a].trials + 1, failures |-> arms[a].failures + f]
              \in [trials : Nat, failures : Nat]
      BY <2>1, <3>1
    <3>3. QED
      BY <1>3, <2>1, <2>3, <3>1, <3>2
  <2>4. QED
    BY <2>2, <2>3
<1>6. truth \in [broke : Nat, told : Nat, refuted : Nat,
                 armTold : [BOOLEAN -> Nat], armSaid : [BOOLEAN -> Nat]]
  BY DEF OutcomeInv, OutcomeTypes
<1>7. /\ truth'.armTold \in [BOOLEAN -> Nat] /\ truth'.armSaid \in [BOOLEAN -> Nat]
      /\ truth'.broke = truth.broke + Once(broke) /\ truth'.told = truth.told + f
      /\ truth'.refuted = truth.refuted + s
      /\ truth' \in [broke : Nat, told : Nat, refuted : Nat,
                     armTold : [BOOLEAN -> Nat], armSaid : [BOOLEAN -> Nat]]
  BY <1>1, <1>2, <1>3, <1>6
<1>8. \A b \in BOOLEAN : truth'.armTold[b] =
            IF trial # NoTrial /\ b = a THEN truth.armTold[b] + f ELSE truth.armTold[b]
  BY <1>1, <1>2, <1>3, <1>6
<1>9. OutcomeTypes'
  BY <1>2, <1>4, <1>5, <1>7 DEF OutcomeTypes
<1>10. NeverMadeBetter'
  BY <1>1, <1>4, <1>5, <1>6, <1>7, <1>8 DEF OutcomeInv, OutcomeTypes, NeverMadeBetter
<1>11. QED
  BY <1>9, <1>10 DEF OutcomeInv

\* Whatever is reported by whom, in which order, with trials handed out in
\* between, every failure told is counted once in each place, and none is
\* invented (action.rs, succeeded; failure.rs, observe).
THEOREM FailuresAreCounted == OutcomeSpec => []NeverMadeBetter
<1>1. OutcomeInit => OutcomeInv
  BY DEF OutcomeInit, OutcomeInv, OutcomeTypes, NeverMadeBetter, NoTruth
<1>2. OutcomeInv /\ [OutcomeNext]_outcomeVars => OutcomeInv'
  <2>. SUFFICES ASSUME OutcomeInv, [OutcomeNext]_outcomeVars PROVE OutcomeInv'
    OBVIOUS
  <2>1. ASSUME UNCHANGED <<mode, session, arms, truth>>,
               trial' = trial \/ Asked
        PROVE  OutcomeInv'
    BY <2>1 DEF OutcomeInv, OutcomeTypes, NeverMadeBetter, Asked
  <2>2. CASE HookReports
    BY <2>2, HookIsFaithful, ReportIsCounted DEF HookReports
  <2>3. CASE AgentReports
    BY <2>3, AgentIsFaithful, ReportIsCounted DEF AgentReports
  <2>4. CASE RunEnds
    BY <2>1, <2>4, WrapperIsFaithful, ReportIsCounted DEF RunEnds
  <2>5. CASE Advise \/ RunStarts \/ RunCannotStart
    BY <2>1, <2>5 DEF Advise, RunStarts, RunCannotStart
  <2>6. CASE UNCHANGED outcomeVars
    BY <2>1, <2>6 DEF outcomeVars
  <2>7. QED
    BY <2>2, <2>3, <2>4, <2>5, <2>6 DEF OutcomeNext
<1>3. QED
  BY <1>1, <1>2, PTL DEF OutcomeSpec, OutcomeInv

-----------------------------------------------------------------------------
(* Lineage: what a generation owes.                                        *)

\* A generation, of which what it owes is the sum of something: what FoldLeft
\* makes of a sequence is left to TLC.
Ledgers ==
    [own : Nat, inherited : {SumOf(costs) : costs \in Seq(Nat)},
     work : [Pool -> [verified : Nat, failed : Nat, spent : Nat]]]

\* What the generations before one have spent searching.
SpentBefore(g) == SumOf(SubSeq(explored, 1, g - 1))

LineageInv ==
    /\ generations \in Seq(Ledgers) /\ explored \in Seq(Nat)
    /\ Len(explored) = Len(generations)
    /\ \A g \in DOMAIN generations :
        generations[g].own = explored[g] /\ generations[g].inherited = SpentBefore(g)

\* What comes before the last entries does not depend on them.
LEMMA SameStart ==
    ASSUME NEW s \in Seq(Nat), NEW t \in Seq(Nat), NEW n \in Nat,
           n <= Len(s), n <= Len(t), \A i \in 1 .. n : s[i] = t[i]
    PROVE  SubSeq(s, 1, n) = SubSeq(t, 1, n)
<1>1. \A i \in 1 .. n : s[i] \in Nat /\ t[i] \in Nat
  OBVIOUS
<1>2. /\ SubSeq(s, 1, n) \in Seq(Nat) /\ Len(SubSeq(s, 1, n)) = n
      /\ \A i \in 1 .. n : SubSeq(s, 1, n)[i] = s[i]
  BY <1>1, SubSeqProperties
<1>3. /\ SubSeq(t, 1, n) \in Seq(Nat) /\ Len(SubSeq(t, 1, n)) = n
      /\ \A i \in 1 .. n : SubSeq(t, 1, n)[i] = t[i]
  BY <1>1, SubSeqProperties
<1>. DEFINE a == SubSeq(s, 1, n)
            b == SubSeq(t, 1, n)
<1>. HIDE DEF a, b
<1>4. /\ a \in Seq(Nat) /\ b \in Seq(Nat) /\ Len(a) = Len(b)
      /\ \A i \in 1 .. Len(a) : a[i] = b[i]
  BY <1>2, <1>3 DEF a, b
<1>5. a = b
  BY <1>4, SeqEqual
<1>6. QED
  BY <1>5 DEF a, b

\* A new generation owes what all before it have spent.
LEMMA BeginOwes ==
    ASSUME LineageInv, BeginGeneration
    PROVE  LineageInv'
<1>. DEFINE n == Len(generations)
            new == Generation(Owed(generations))
<1>1. /\ n \in Nat /\ Len(explored) = n /\ DOMAIN generations = 1 .. n
      /\ DOMAIN explored = 1 .. n
  BY DEF LineageInv
<1>2. generations' = Append(generations, new) /\ explored' = Append(explored, 0)
  BY DEF BeginGeneration
<1>3. [g \in DOMAIN generations |-> generations[g].own] = explored
  BY <1>1 DEF LineageInv
<1>4. Owed(generations) = SumOf(explored)
  BY <1>3 DEF Owed
<1>5. new \in Ledgers /\ new.own = 0 /\ new.inherited = SumOf(explored)
  BY <1>4 DEF Generation, Ledgers, LineageInv, NoWork
<1>. HIDE DEF new
<1>6. /\ generations' \in Seq(Ledgers) /\ explored' \in Seq(Nat)
      /\ Len(generations') = n + 1 /\ Len(explored') = n + 1
      /\ \A g \in 1 .. n : generations'[g] = generations[g] /\ explored'[g] = explored[g]
      /\ generations'[n + 1] = new /\ explored'[n + 1] = 0
  BY <1>1, <1>2, <1>5 DEF LineageInv
<1>7. ASSUME NEW g \in 1 .. n + 1
      PROVE  SubSeq(explored', 1, g - 1) = SubSeq(explored, 1, g - 1)
  BY <1>1, <1>6, SameStart DEF LineageInv
<1>8. SubSeq(explored, 1, n) = explored
  BY <1>1, SubSeqFull DEF LineageInv
<1>9. ASSUME NEW g \in 1 .. n + 1
      PROVE  generations'[g].own = explored'[g] /\ generations'[g].inherited = SpentBefore(g)'
  <2>1. CASE g \in 1 .. n
    BY <1>1, <1>6, <1>7, <2>1 DEF LineageInv, SpentBefore
  <2>2. CASE g = n + 1
    <3>0. g - 1 = n /\ g \in 1 .. n + 1
      BY <1>1, <2>2
    <3>1. SpentBefore(g)' = SumOf(explored)
      <4>1. SubSeq(explored', 1, g - 1) = SubSeq(explored, 1, g - 1)
        BY <1>7, <3>0
      <4>2. SubSeq(explored', 1, g - 1) = explored
        BY <1>8, <3>0, <4>1
      <4>3. QED
        BY <4>2 DEF SpentBefore
    <3>2. QED
      BY <1>5, <1>6, <2>2, <3>1
  <2>3. QED
    BY <1>1, <2>1, <2>2
<1>10. QED
  BY <1>1, <1>6, <1>9 DEF LineageInv

\* An entry is made in the last ledger, and what it spends is owed by none yet.
LEMMA EntryKeepsLineage ==
    ASSUME LineageInv, generations # <<>>, NEW last \in Ledgers, NEW units \in Nat,
           last.own = units, last.inherited = generations[Current].inherited,
           generations' = [generations EXCEPT ![Current] = last],
           explored' = [explored EXCEPT ![Current] = units]
    PROVE  LineageInv'
<1>. DEFINE n == Len(generations)
<1>1. /\ n \in Nat /\ n > 0 /\ Len(explored) = n /\ DOMAIN generations = 1 .. n
      /\ DOMAIN explored = 1 .. n /\ Current = n
      /\ generations \in Seq(Ledgers) /\ explored \in Seq(Nat)
      /\ Len(generations) = n
  BY DEF LineageInv, Current
<1>. HIDE DEF n
<1>2. /\ generations' \in Seq(Ledgers) /\ explored' \in Seq(Nat)
      /\ Len(generations') = n /\ Len(explored') = n
      /\ \A g \in 1 .. n - 1 : generations'[g] = generations[g] /\ explored'[g] = explored[g]
      /\ generations'[n] = last /\ explored'[n] = units
  <2>1. /\ generations' \in Seq(Ledgers) /\ Len(generations') = n
        /\ \A g \in 1 .. n - 1 : generations'[g] = generations[g]
        /\ generations'[n] = last
    BY <1>1, ExceptSeq
  <2>2. /\ explored' \in Seq(Nat) /\ Len(explored') = n
        /\ \A g \in 1 .. n - 1 : explored'[g] = explored[g]
        /\ explored'[n] = units
    BY <1>1, ExceptSeq
  <2>3. QED
    BY <2>1, <2>2
<1>3. ASSUME NEW g \in 1 .. n PROVE SpentBefore(g)' = SpentBefore(g)
  <2>1. /\ g - 1 \in Nat /\ g - 1 <= Len(explored) /\ g - 1 <= Len(explored')
        /\ \A i \in 1 .. g - 1 : explored'[i] = explored[i]
    BY <1>1, <1>2
  <2>2. SubSeq(explored', 1, g - 1) = SubSeq(explored, 1, g - 1)
    BY <1>2, <2>1, SameStart DEF LineageInv
  <2>3. QED
    BY <2>2 DEF SpentBefore
<1>4. ASSUME NEW g \in 1 .. n
      PROVE  generations'[g].own = explored'[g] /\ generations'[g].inherited = SpentBefore(g)'
  BY <1>1, <1>2, <1>3 DEF LineageInv
<1>5. QED
  BY <1>1, <1>2, <1>4 DEF LineageInv

LEMMA RecordOwesNothing ==
    ASSUME LineageInv, RecordUnit
    PROVE  LineageInv'
<1>1. PICK pool \in Pool, verified \in BOOLEAN, cost \in Cost :
        generations' = [generations EXCEPT ![Current].work[pool] =
            [verified |-> @.verified + (IF verified THEN 1 ELSE 0),
             failed |-> @.failed + (IF verified THEN 0 ELSE 1),
             spent |-> @.spent + cost]]
  BY DEF RecordUnit
<1>. DEFINE was == generations[Current]
            unit == [verified |-> was.work[pool].verified + (IF verified THEN 1 ELSE 0),
                     failed |-> was.work[pool].failed + (IF verified THEN 0 ELSE 1),
                     spent |-> was.work[pool].spent + cost]
            last == [was EXCEPT !.work = [@ EXCEPT ![pool] = unit]]
<1>2. generations # <<>> /\ explored' = explored
  BY DEF RecordUnit
<1>3. Current \in DOMAIN generations /\ was \in Ledgers /\ was.own = explored[Current]
  BY <1>2 DEF LineageInv, Current
<1>4. unit \in [verified : Nat, failed : Nat, spent : Nat]
  BY <1>3, LineageAssumption DEF Ledgers
<1>5. generations' = [generations EXCEPT ![Current] = last]
  BY <1>1
<1>. HIDE DEF unit
<1>6. last \in Ledgers /\ last.own = was.own /\ last.inherited = was.inherited
  BY <1>3, <1>4 DEF Ledgers
<1>7. explored' = [explored EXCEPT ![Current] = was.own] /\ was.own \in Nat
  BY <1>2, <1>3 DEF LineageInv, Ledgers
<1>. HIDE DEF last, was
<1>8. QED
  BY <1>2, <1>5, <1>6, <1>7, EntryKeepsLineage DEF was

LEMMA SearchIsOwedLater ==
    ASSUME LineageInv, SpendSearching
    PROVE  LineageInv'
<1>1. PICK cost \in Cost :
        /\ generations' = [generations EXCEPT ![Current].own = @ + cost]
        /\ explored' = [explored EXCEPT ![Current] = @ + cost]
  BY DEF SpendSearching
<1>. DEFINE was == generations[Current]
            last == [was EXCEPT !.own = @ + cost]
<1>2. generations # <<>>
  BY DEF SpendSearching
<1>3. Current \in DOMAIN generations /\ was \in Ledgers /\ was.own = explored[Current]
  BY <1>2 DEF LineageInv, Current
<1>4. generations' = [generations EXCEPT ![Current] = last]
  BY <1>1
<1>5. /\ last \in Ledgers /\ last.own = was.own + cost /\ last.inherited = was.inherited
      /\ was.own + cost \in Nat
  <2>1. was.own \in Nat /\ cost \in Nat
    BY <1>3, LineageAssumption DEF Ledgers
  <2>2. was.own + cost \in Nat
    BY <2>1
  <2>3. QED
    BY <1>3, <2>2 DEF Ledgers
<1>6. explored' = [explored EXCEPT ![Current] = was.own + cost]
  BY <1>1, <1>3
<1>. HIDE DEF last, was
<1>7. QED
  BY <1>2, <1>4, <1>5, <1>6, EntryKeepsLineage DEF was

\* A line that is said to improve has done so after what it owes.
LEMMA VerdictIsPaidFor ==
    ASSUME LineageInv
    PROVE  ImprovementIsPaidFor
<1>. DEFINE n == Len(generations)
<1>1. \A g \in DOMAIN generations : generations[g].inherited = SpentBefore(g)
  BY DEF LineageInv
<1>2. ASSUME LineVerdict(generations) = "improving"
      PROVE  /\ ~(\E g \in DOMAIN generations, pool \in Pool :
                      generations[g].work[pool].failed > 0)
             /\ n >= 2
             /\ Exceeds(Net(Last(generations), "heldOut"), Net(Head(generations), "heldOut"))
  BY <1>2 DEF LineVerdict, LineageInv
<1>3. ASSUME LineVerdict(generations) = "improving"
      PROVE  \A g \in DOMAIN generations, pool \in Pool :
                generations[g].work[pool].failed = 0
  <2>1. \A g \in DOMAIN generations, pool \in Pool :
            generations[g].work[pool].failed \in Nat
    <3>. TAKE g \in DOMAIN generations, pool \in Pool
    <3>1. generations[g] \in Ledgers
      BY DEF LineageInv
    <3>2. QED
      BY <3>1 DEF Ledgers
  <2>2. QED
    BY <1>2, <1>3, <2>1
<1>4. ASSUME LineVerdict(generations) = "improving"
      PROVE  20 * generations[n].work["heldOut"].verified
                * (generations[1].work["heldOut"].spent + SpentBefore(1))
             > 21 * generations[1].work["heldOut"].verified
                * (generations[n].work["heldOut"].spent + SpentBefore(n))
  <2>1. /\ Head(generations) = generations[1] /\ Last(generations) = generations[n]
        /\ 1 \in DOMAIN generations /\ n \in DOMAIN generations
    BY <1>2, <1>4 DEF LineageInv, Last
  <2>2. Exceeds(Net(generations[n], "heldOut"), Net(generations[1], "heldOut"))
    BY <1>2, <1>4, <2>1
  <2>3. QED
    BY <1>1, <2>1, <2>2 DEF Exceeds, Net
<1>5. QED
  BY <1>1, <1>3, <1>4 DEF ImprovementIsPaidFor, SpentBefore

\* Whenever a generation begins and however often its ancestors went on
\* searching before that, it owes all they spent and nothing twice, and no line
\* is said to improve that did not after paying it (lineage.rs, begin_generation
\* and verdict).
THEOREM SearchIsPaidFor == LineageSpec => []ImprovementIsPaidFor
<1>1. LineageInit => LineageInv
  BY DEF LineageInit, LineageInv
<1>2. LineageInv /\ [LineageNext]_lineageVars => LineageInv'
  <2>. SUFFICES ASSUME LineageInv, [LineageNext]_lineageVars PROVE LineageInv'
    OBVIOUS
  <2>1. CASE UNCHANGED lineageVars
    BY <2>1 DEF LineageInv, SpentBefore, lineageVars
  <2>2. QED
    BY <2>1, BeginOwes, RecordOwesNothing, SearchIsOwedLater DEF LineageNext
<1>3. LineageInv => ImprovementIsPaidFor
  BY VerdictIsPaidFor
<1>4. QED
  BY <1>1, <1>2, <1>3, PTL DEF LineageSpec

-----------------------------------------------------------------------------
(* Forecast: what a cell of the model was learned from.                    *)

\* The reflections s up to now, from one to another, show the cell on machine m.
Shows(s, m, c, start, last) ==
    \A k \in start .. last : c \in s[k].has /\ s[k].epoch = m

\* The last value is of the reflection just shown, the change leads to it, the
\* fit is of neighbours, and a grade is of the reflection after its prediction.
FromNeighbours(s, m, c, fit) ==
    \A pair \in fit : \E k \in 3 .. Len(s) :
        pair = <<Between(k - 2, k - 1), Between(k - 1, k)>> /\ Shows(s, m, c, k - 2, k)

GradedNext(s, m, c, samples) ==
    /\ \A e \in samples :
        /\ e.of.after \in 1 .. Len(s) - 1 /\ e.about = e.of.after + 1
        /\ Shows(s, m, c, e.of.after, e.about)
        /\ \A pair \in e.of.fit : pair[2][2] <= e.of.after
    /\ \A e1, e2 \in samples : e1.about = e2.about => e1 = e2

Learnt(s, m, c, cell) ==
    /\ cell = [last |-> cell.last, delta |-> cell.delta, fit |-> cell.fit,
               samples |-> cell.samples]
    /\ cell.last \in {None, Len(s)}
    /\ cell.last # None => Shows(s, m, c, Len(s), Len(s))
    /\ cell.delta # NoChange =>
        /\ Len(s) >= 2 /\ cell.last = Len(s)
        /\ cell.delta = Between(Len(s) - 1, Len(s))
        /\ Shows(s, m, c, Len(s) - 1, Len(s))
    /\ FromNeighbours(s, m, c, cell.fit)
    /\ GradedNext(s, m, c, cell.samples)

ForecastInv ==
    /\ shown \in Seq(Reflection)
    /\ \A c \in DOMAIN cells : Learnt(shown, modelEpoch, c, cells[c])

\* What was measured on a machine stays so, and another reflection of it
\* measures one more.
LEMMA SeenStays ==
    ASSUME NEW s \in Seq(Reflection), NEW r \in Reflection, NEW m, NEW c,
           NEW start \in Nat \ {0}, NEW last \in Nat, last <= Len(s),
           Shows(s, m, c, start, last)
    PROVE  /\ Shows(Append(s, r), m, c, start, last)
           /\ c \in r.has /\ r.epoch = m /\ last = Len(s)
                => Shows(Append(s, r), m, c, start, last + 1)
<1>. DEFINE t == Append(s, r)
<1>1. \A k \in start .. last : k \in 1 .. Len(s) /\ t[k] = s[k]
  OBVIOUS
<1>2. t[Len(s) + 1] = r
  OBVIOUS
<1>. HIDE DEF t
<1>3. Shows(t, m, c, start, last)
  BY <1>1 DEF Shows
<1>4. ASSUME c \in r.has, r.epoch = m, last = Len(s) PROVE Shows(t, m, c, start, last + 1)
  BY <1>2, <1>3, <1>4 DEF Shows
<1>5. QED
  BY <1>3, <1>4 DEF t

LEMMA FitStays ==
    ASSUME NEW s \in Seq(Reflection), NEW r \in Reflection, NEW m, NEW c, NEW fit,
           FromNeighbours(s, m, c, fit)
    PROVE  FromNeighbours(Append(s, r), m, c, fit)
<1>. DEFINE t == Append(s, r)
<1>1. ASSUME NEW pair \in fit
      PROVE  \E k \in 3 .. Len(t) :
                pair = <<Between(k - 2, k - 1), Between(k - 1, k)>>
                /\ Shows(t, m, c, k - 2, k)
  <2>1. PICK k \in 3 .. Len(s) :
            pair = <<Between(k - 2, k - 1), Between(k - 1, k)>> /\ Shows(s, m, c, k - 2, k)
    BY DEF FromNeighbours
  <2>2. Shows(t, m, c, k - 2, k)
    BY <2>1, SeenStays
  <2>3. k \in 3 .. Len(t)
    OBVIOUS
  <2>4. QED
    BY <2>1, <2>2, <2>3
<1>2. QED
  BY <1>1 DEF FromNeighbours

LEMMA GradesStay ==
    ASSUME NEW s \in Seq(Reflection), NEW r \in Reflection, NEW m, NEW c, NEW samples,
           GradedNext(s, m, c, samples)
    PROVE  GradedNext(Append(s, r), m, c, samples)
<1>. DEFINE t == Append(s, r)
<1>1. ASSUME NEW e \in samples
      PROVE  /\ e.of.after \in 1 .. Len(t) - 1 /\ e.about = e.of.after + 1
             /\ Shows(t, m, c, e.of.after, e.about)
             /\ \A pair \in e.of.fit : pair[2][2] <= e.of.after
  <2>1. /\ e.of.after \in 1 .. Len(s) - 1 /\ e.about = e.of.after + 1
        /\ Shows(s, m, c, e.of.after, e.about)
        /\ \A pair \in e.of.fit : pair[2][2] <= e.of.after
    BY DEF GradedNext
  <2>2. e.of.after \in Nat \ {0} /\ e.about \in Nat /\ e.about <= Len(s)
    BY <2>1
  <2>3. Shows(t, m, c, e.of.after, e.about)
    BY <2>1, <2>2, SeenStays
  <2>4. QED
    BY <2>1, <2>3
<1>2. QED
  BY <1>1 DEF GradedNext

\* The grade of what was predicted from the reflection before this one.
LEMMA GradeIsNext ==
    ASSUME NEW s \in Seq(Reflection), NEW r \in Reflection, NEW c, NEW samples, NEW e,
           GradedNext(s, r.epoch, c, samples), c \in r.has, e.about = Len(s) + 1,
           e.of.after = Len(s), Shows(s, r.epoch, c, Len(s), Len(s)), Len(s) # 0,
           FromNeighbours(s, r.epoch, c, e.of.fit)
    PROVE  GradedNext(Append(s, r), r.epoch, c, samples \cup {e})
<1>. DEFINE t == Append(s, r)
<1>1. GradedNext(t, r.epoch, c, samples)
  BY GradesStay
<1>2. /\ e.of.after \in 1 .. Len(t) - 1 /\ e.about = e.of.after + 1
      /\ Shows(t, r.epoch, c, e.of.after, e.about)
  BY SeenStays
<1>3. \A pair \in e.of.fit : pair[2][2] <= e.of.after
  BY DEF FromNeighbours, Between
<1>4. \A d \in samples : d.about # e.about
  BY DEF GradedNext
<1>5. QED
  BY <1>1, <1>2, <1>3, <1>4 DEF GradedNext

\* What a reflection of the same machine teaches a cell that it shows: the
\* change to it, and the pair of changes that ends with it.
LEMMA ShownIsLearnt ==
    ASSUME NEW s \in Seq(Reflection), NEW r \in Reflection, NEW c, NEW cell, NEW graded,
           Learnt(s, r.epoch, c, cell), c \in r.has,
           GradedNext(Append(s, r), r.epoch, c, graded)
    PROVE  Learnt(Append(s, r), r.epoch, c,
                  Folded([cell EXCEPT !.samples = graded], Len(s) + 1))
<1>. DEFINE n == Len(s)
            t == Append(s, r)
            m == r.epoch
            next == Folded([cell EXCEPT !.samples = graded], n + 1)
<1>1. n \in Nat /\ Len(t) = n + 1 /\ t[n + 1] = r
  OBVIOUS
<1>2. FromNeighbours(t, m, c, cell.fit)
  BY FitStays DEF Learnt
<1>3. GradedNext(t, m, c, graded)
  OBVIOUS
<1>4. CASE cell.last = None
  <2>1. next = [last |-> n + 1, delta |-> NoChange, fit |-> cell.fit, samples |-> graded]
    <3>1. cell.delta = NoChange
      BY <1>1, <1>4 DEF Learnt, None
    <3>2. QED
      BY <1>4, <3>1 DEF Folded, Learnt
  <2>2. Shows(t, m, c, n + 1, n + 1)
    BY <1>1 DEF Shows
  <2>. HIDE DEF n, t, m, next
  <2>3. QED
    BY <1>1, <1>2, <1>3, <2>1, <2>2 DEF Learnt, n, t, m, next
<1>5. CASE cell.last # None
  <2>1. cell.last = n /\ n >= 1 /\ Shows(s, m, c, n, n)
    BY <1>1, <1>5 DEF Learnt, None
  <2>2. Shows(t, m, c, n, n + 1)
    BY <1>1, <2>1, SeenStays
  <2>3. Shows(t, m, c, n + 1, n + 1)
    BY <1>1 DEF Shows
  <2>4. n + 1 - 1 = n /\ n + 1 >= 2
    BY <1>1, <2>1
  <2>5. CASE cell.delta = NoChange
    <3>1. next = [last |-> n + 1, delta |-> Between(n, n + 1), fit |-> cell.fit,
                  samples |-> graded]
      BY <1>5, <2>1, <2>5 DEF Folded, Learnt, Between
    <3>. HIDE DEF n, t, m, next
    <3>2. QED
      BY <1>1, <1>2, <1>3, <2>2, <2>3, <2>4, <3>1 DEF Learnt, n, t, m, next
  <2>6. CASE cell.delta # NoChange
    <3>0. n >= 2 /\ cell.delta = Between(n - 1, n) /\ Shows(s, m, c, n - 1, n)
      BY <1>1, <2>6 DEF Learnt
    <3>1. next = [last |-> n + 1, delta |-> Between(n, n + 1),
                  fit |-> cell.fit \cup {<<Between(n - 1, n), Between(n, n + 1)>>},
                  samples |-> graded]
      BY <1>5, <2>1, <2>6, <3>0 DEF Folded, Learnt, Between
    <3>2. n + 1 \in 3 .. n + 1 /\ Shows(t, m, c, n - 1, n + 1)
      BY <1>1, <3>0, SeenStays
    <3>3. FromNeighbours(t, m, c, next.fit)
      <4>. HIDE DEF t, m
      <4>1. n + 1 - 2 = n - 1
        BY <1>1
      <4>2. ASSUME NEW pair \in next.fit
            PROVE  \E k \in 3 .. Len(t) :
                      pair = <<Between(k - 2, k - 1), Between(k - 1, k)>>
                      /\ Shows(t, m, c, k - 2, k)
        <5>1. CASE pair \in cell.fit
          BY <1>2, <5>1 DEF FromNeighbours
        <5>2. CASE pair = <<Between(n - 1, n), Between(n, n + 1)>>
          BY <1>1, <2>4, <3>2, <4>1, <5>2
        <5>3. QED
          BY <3>1, <5>1, <5>2
      <4>3. QED
        BY <4>2 DEF FromNeighbours
    <3>. HIDE DEF n, t, m, next
    <3>4. QED
      BY <1>1, <1>3, <2>2, <2>3, <2>4, <3>1, <3>3 DEF Learnt, n, t, m, next
  <2>7. QED
    BY <2>5, <2>6
<1>6. QED
  BY <1>4, <1>5

\* A hole is told by what it leaves of a cell.
LEMMA GapIs ==
    ASSUME NEW cell,
           cell = [last |-> cell.last, delta |-> cell.delta, fit |-> cell.fit,
                   samples |-> cell.samples]
    PROVE  Gap(cell) = [last |-> None, delta |-> NoChange, fit |-> cell.fit,
                        samples |-> cell.samples]
<1>. DEFINE blind == [cell EXCEPT !.last = None]
<1>1. blind = [last |-> None, delta |-> cell.delta, fit |-> cell.fit,
               samples |-> cell.samples]
  OBVIOUS
<1>2. Gap(cell) = [blind EXCEPT !.delta = NoChange]
  BY DEF Gap
<1>. HIDE DEF blind
<1>3. QED
  BY <1>1, <1>2

\* A hole is learned from by forgetting what it was measured against.
LEMMA HoleIsLearnt ==
    ASSUME NEW s \in Seq(Reflection), NEW r \in Reflection, NEW c, NEW cell,
           Learnt(s, r.epoch, c, cell)
    PROVE  Learnt(Append(s, r), r.epoch, c, Gap(cell))
<1>1. /\ FromNeighbours(Append(s, r), r.epoch, c, cell.fit)
      /\ GradedNext(Append(s, r), r.epoch, c, cell.samples)
  BY FitStays, GradesStay DEF Learnt
<1>2. Gap(cell) = [last |-> None, delta |-> NoChange, fit |-> cell.fit,
                   samples |-> cell.samples]
  BY GapIs DEF Learnt
<1>3. QED
  BY <1>1, <1>2 DEF Learnt

\* A cell of a machine that was not seen before.
LEMMA NewIsLearnt ==
    ASSUME NEW s \in Seq(Reflection), NEW r \in Reflection, NEW c
    PROVE  /\ c \in r.has => Learnt(Append(s, r), r.epoch, c, Folded(NewCell, Len(s) + 1))
           /\ Learnt(Append(s, r), r.epoch, c, Gap(NewCell))
<1>. DEFINE n == Len(s)
            t == Append(s, r)
<1>1. n \in Nat /\ Len(t) = n + 1 /\ t[n + 1] = r
  OBVIOUS
<1>2. FromNeighbours(t, r.epoch, c, {}) /\ GradedNext(t, r.epoch, c, {})
  BY DEF FromNeighbours, GradedNext
<1>3. Folded(NewCell, n + 1) =
        [last |-> n + 1, delta |-> NoChange, fit |-> {}, samples |-> {}]
  BY DEF Folded, NewCell
<1>4. c \in r.has => Shows(t, r.epoch, c, n + 1, n + 1)
  BY <1>1 DEF Shows
<1>5. Gap(NewCell) = [last |-> None, delta |-> NoChange, fit |-> {}, samples |-> {}]
  BY GapIs DEF NewCell
<1>. DEFINE next == Folded(NewCell, n + 1)
<1>. HIDE DEF n, t, next
<1>6. c \in r.has => Learnt(t, r.epoch, c, next)
  <2>1. next = [last |-> n + 1, delta |-> NoChange, fit |-> {}, samples |-> {}]
    BY <1>3 DEF next
  <2>2. QED
    BY <1>1, <1>2, <1>4, <2>1 DEF Learnt
<1>7. Learnt(t, r.epoch, c, Gap(NewCell))
  BY <1>2, <1>5 DEF Learnt
<1>8. QED
  BY <1>6, <1>7 DEF n, t, next

\* Every cell after a reflection is one of these three, graded or not.
LEMMA ReflectionIsLearnt ==
    ASSUME ForecastInv, NEW r \in Reflection, ObserveReflection(Predictions, r)
    PROVE  ForecastInv'
<1>. DEFINE n == Len(shown)
            kept == Continued(r)
            waiting == StillWaiting(Predictions, r)
            scored == Scored(kept, waiting, r, n + 1)
<1>1. shown \in Seq(Reflection) /\ n \in Nat
  BY DEF ForecastInv
<1>2. /\ cells' = Learned(scored, r, n + 1) /\ modelEpoch' = r.epoch
      /\ shown' = Append(shown, r)
  BY DEF ObserveReflection
<1>3. shown' \in Seq(Reflection)
  BY <1>1, <1>2
<1>4. /\ DOMAIN cells' = DOMAIN kept /\ DOMAIN scored = DOMAIN kept
      /\ \A c \in DOMAIN kept :
            cells'[c] = IF c \in r.has THEN Folded(scored[c], n + 1) ELSE Gap(scored[c])
  BY <1>2 DEF Learned, Scored
<1>5. \A c \in DOMAIN kept :
        scored[c] = IF c \in DOMAIN waiting \cap r.has
                    THEN [kept[c] EXCEPT !.samples = @ \cup {Error(waiting[c], n + 1)}]
                    ELSE kept[c]
  BY DEF Scored
<1>. HIDE DEF n, kept, waiting, scored
<1>6. ASSUME NEW c \in DOMAIN kept
      PROVE  Learnt(Append(shown, r), r.epoch, c, cells'[c])
  <2>1. CASE modelEpoch # r.epoch
    <3>1. waiting = Nothing /\ kept[c] = NewCell
      BY <2>1 DEF waiting, kept, StillWaiting, Continued
    <3>2. scored[c] = NewCell
      BY <1>5, <3>1 DEF Nothing
    <3>3. QED
      BY <1>1, <1>4, <3>2, NewIsLearnt DEF n
  <2>2. CASE modelEpoch = r.epoch
    <3>1. waiting = Predictions /\ kept = cells
      BY <2>2 DEF waiting, kept, StillWaiting, Continued
    <3>2. Learnt(shown, r.epoch, c, cells[c])
      BY <2>2, <3>1 DEF ForecastInv
    <3>3. CASE c \notin r.has
      BY <1>1, <1>4, <1>5, <3>1, <3>2, <3>3, HoleIsLearnt
    <3>4. CASE c \in r.has
      <4>. DEFINE e == Error(waiting[c], n + 1)
                  graded == IF c \in DOMAIN waiting THEN cells[c].samples \cup {e}
                            ELSE cells[c].samples
      <4>1. scored[c] = [cells[c] EXCEPT !.samples = graded]
        <5>1. cells[c] = [last |-> cells[c].last, delta |-> cells[c].delta,
                          fit |-> cells[c].fit, samples |-> cells[c].samples]
          BY <3>2 DEF Learnt
        <5>2. QED
          BY <1>5, <3>1, <3>4, <5>1
      <4>2. GradedNext(Append(shown, r), r.epoch, c, graded)
        <5>1. GradedNext(shown, r.epoch, c, cells[c].samples)
          BY <3>2 DEF Learnt
        <5>2. CASE c \notin DOMAIN waiting
          BY <1>1, <5>1, <5>2, GradesStay
        <5>3. CASE c \in DOMAIN waiting
          <6>1. /\ cells[c].last # None
                /\ waiting[c] = [after |-> cells[c].last, change |-> cells[c].delta,
                                 fit |-> cells[c].fit]
            BY <3>1, <5>3 DEF Predictions
          <6>2. /\ cells[c].last = n /\ n # 0 /\ Shows(shown, r.epoch, c, n, n)
                /\ FromNeighbours(shown, r.epoch, c, cells[c].fit)
            BY <3>2, <6>1 DEF Learnt, None, n
          <6>3. e.about = n + 1 /\ e.of.after = n /\ e.of.fit = cells[c].fit
            BY <6>1, <6>2 DEF Error
          <6>. HIDE DEF e
          <6>4. GradedNext(Append(shown, r), r.epoch, c, cells[c].samples \cup {e})
            BY <1>1, <3>4, <5>1, <6>2, <6>3, GradeIsNext DEF n
          <6>5. QED
            BY <5>3, <6>4
        <5>4. QED
          BY <5>2, <5>3
      <4>. HIDE DEF graded
      <4>3. cells'[c] = Folded([cells[c] EXCEPT !.samples = graded], n + 1)
        BY <1>4, <3>1, <3>4, <4>1
      <4>4. QED
        BY <1>1, <3>2, <3>4, <4>2, <4>3, ShownIsLearnt DEF n
    <3>5. QED
      BY <3>3, <3>4
  <2>3. QED
    BY <2>1, <2>2
<1>7. QED
  BY <1>2, <1>3, <1>4, <1>6 DEF ForecastInv

\* Whatever is shown and lost, whichever machine it is shown of: no coefficient
\* spans a hole or two machines, and no prediction is graded twice, late or by
\* what it was made from (predictor.rs, observe; loop_.rs, tick).
THEOREM ForecastsAreHonest == ForecastSpec => []ForecastIsHonest
<1>1. ForecastInit => ForecastInv
  BY DEF ForecastInit, ForecastInv, Nothing
<1>2. ForecastInv /\ [ForecastNext]_forecastVars => ForecastInv'
  <2>. SUFFICES ASSUME ForecastInv, [ForecastNext]_forecastVars PROVE ForecastInv'
    OBVIOUS
  <2>1. CASE UNCHANGED <<cells, modelEpoch, shown>>
    BY <2>1 DEF ForecastInv
  <2>2. ASSUME NEW r \in Reflection, TickForecast(r) PROVE ForecastInv'
    BY <2>2, ReflectionIsLearnt DEF TickForecast
  <2>3. QED
    BY <2>1, <2>2 DEF ForecastNext, TickPanics, forecastVars
<1>3. ForecastInv => ForecastIsHonest
  <2>. SUFFICES ASSUME ForecastInv, NEW c \in DOMAIN cells
       PROVE  /\ \A pair \in cells[c].fit : \E k \in 3 .. Len(shown) :
                    pair = <<Between(k - 2, k - 1), Between(k - 1, k)>>
                    /\ Measured(c, k - 2, k)
              /\ \A e \in cells[c].samples :
                    /\ e.about = e.of.after + 1 /\ Measured(c, e.of.after, e.about)
                    /\ \A pair \in e.of.fit : pair[2][2] <= e.of.after
              /\ \A e1, e2 \in cells[c].samples : e1.about = e2.about => e1 = e2
    BY DEF ForecastIsHonest
  <2>1. /\ FromNeighbours(shown, modelEpoch, c, cells[c].fit)
        /\ GradedNext(shown, modelEpoch, c, cells[c].samples)
    BY DEF ForecastInv, Learnt
  <2>2. \A start, last : Shows(shown, modelEpoch, c, start, last) <=> Measured(c, start, last)
    BY DEF Shows, Measured
  <2>3. QED
    BY <2>1, <2>2 DEF FromNeighbours, GradedNext
<1>4. QED
  BY <1>1, <1>2, <1>3, PTL DEF ForecastSpec

-----------------------------------------------------------------------------
(* Theory: where every trial went.                                         *)

Hypotheses(h) == DOMAIN h \subseteq Claim /\ \A c \in DOMAIN h : h[c] \in Hypothesis

TrialsOf(h) == SumFunction([c \in DOMAIN h |-> Trials(h[c])])

TheoryInv ==
    /\ Hypotheses(hypotheses) /\ graveyard \in [Claim -> Seq(Nat)]
    /\ trimmed \in Nat /\ tested \in Nat
    /\ TrialsAccountedFor

LEMMA HypothesesHaveTrials ==
    ASSUME NEW h, Hypotheses(h)
    PROVE  /\ IsFiniteSet(DOMAIN h)
           /\ \A c \in DOMAIN h : Trials(h[c]) \in Nat
           /\ TrialsOf(h) = SumFunctionOnSet([c \in DOMAIN h |-> Trials(h[c])], DOMAIN h)
           /\ TrialsOf(h) \in Nat
<1>1. IsFiniteSet(DOMAIN h)
  BY TheoryAssumption, FS_Subset DEF Hypotheses
<1>2. \A c \in DOMAIN h : Trials(h[c]) \in Nat
  BY DEF Hypotheses, Hypothesis, Trials
<1>. DEFINE f == [c \in DOMAIN h |-> Trials(h[c])]
<1>3. TrialsOf(h) = SumFunctionOnSet(f, DOMAIN h)
  BY DEF TrialsOf, SumFunction
<1>4. \A c \in DOMAIN h : f[c] \in Nat
  BY <1>2
<1>5. SumFunctionOnSet(f, DOMAIN h) \in Nat
  <2>. HIDE DEF f
  <2>1. QED
    BY <1>1, <1>4, SumIsANumber
<1>6. QED
  BY <1>1, <1>2, <1>3, <1>5

\* What is taken out takes its trials with it.
LEMMA TrialsOfTheRest ==
    ASSUME NEW h, Hypotheses(h), NEW D \in SUBSET DOMAIN h
    PROVE  /\ Hypotheses(Without(h, D))
           /\ SumFunction([c \in D |-> Trials(h[c])]) \in Nat
           /\ TrialsOf(h) = TrialsOf(Without(h, D)) + SumFunction([c \in D |-> Trials(h[c])])
<1>. DEFINE f == [c \in DOMAIN h |-> Trials(h[c])]
            rest == DOMAIN h \ D
            less == Without(h, D)
            fRest == [c \in rest |-> Trials(less[c])]
            fD == [c \in D |-> Trials(h[c])]
<1>1. /\ IsFiniteSet(rest) /\ IsFiniteSet(D) /\ rest \cap D = {} /\ rest \cup D = DOMAIN h
      /\ TrialsOf(h) = SumFunctionOnSet(f, DOMAIN h)
      /\ \A c \in DOMAIN h : f[c] \in Nat
  BY HypothesesHaveTrials, FS_Subset
<1>2. DOMAIN less = rest /\ \A c \in rest : less[c] = h[c]
  BY DEF Without
<1>3. Hypotheses(less)
  BY <1>2 DEF Hypotheses
<1>4. /\ TrialsOf(less) = SumFunctionOnSet(fRest, rest) /\ TrialsOf(less) \in Nat
  BY <1>2, <1>3, HypothesesHaveTrials
<1>5. (\A c \in rest : fRest[c] = f[c]) /\ (\A c \in D : fD[c] = f[c]) /\ DOMAIN fD = D
  BY <1>2
<1>6. SumFunction(fD) = SumFunctionOnSet(fD, D)
  BY <1>5 DEF SumFunction
<1>7. (\A c \in D : fD[c] \in Nat) /\ \A c \in rest \cup D : f[c] \in Nat
  BY <1>1, <1>5
<1>. HIDE DEF f, rest, less, fRest, fD
<1>8. SumFunctionOnSet(f, rest \cup D) = SumFunctionOnSet(f, rest) + SumFunctionOnSet(f, D)
  BY <1>1, <1>7, SumOfUnion
<1>9. /\ SumFunctionOnSet(f, rest) = SumFunctionOnSet(fRest, rest)
      /\ SumFunctionOnSet(f, D) = SumFunctionOnSet(fD, D)
      /\ SumFunctionOnSet(fD, D) \in Nat
  BY <1>1, <1>5, <1>7, SumsAgree, SumIsANumber
<1>10. /\ SumFunction(fD) \in Nat /\ TrialsOf(h) = TrialsOf(less) + SumFunction(fD)
  BY <1>1, <1>4, <1>6, <1>8, <1>9
<1>11. QED
  BY <1>3, <1>10 DEF less, fD

LEMMA GraveyardCounts ==
    ASSUME NEW g \in [Claim -> Seq(Nat)]
    PROVE  /\ \A c \in Claim : SumFunction(g[c]) \in Nat
           /\ SumFunction([c \in Claim |-> SumFunction(g[c])])
                = SumFunctionOnSet([c \in Claim |-> SumFunction(g[c])], Claim)
           /\ SumFunction([c \in Claim |-> SumFunction(g[c])]) \in Nat
<1>. DEFINE f == [c \in Claim |-> SumFunction(g[c])]
<1>1. \A c \in Claim : SumFunction(g[c]) \in Nat
  BY SumOfAppended
<1>2. (\A c \in Claim : f[c] \in Nat) /\ DOMAIN f = Claim
  BY <1>1
<1>. HIDE DEF f
<1>3. SumFunction(f) = SumFunctionOnSet(f, Claim)
  BY <1>2 DEF SumFunction
<1>4. SumFunctionOnSet(f, Claim) \in Nat
  BY <1>2, TheoryAssumption, SumIsANumber
<1>5. QED
  BY <1>1, <1>3, <1>4 DEF f

\* What is buried has its trials in the graveyard.
LEMMA BuryingKeepsTrials ==
    ASSUME graveyard \in [Claim -> Seq(Nat)], NEW h, Hypotheses(h), Bury(h)
    PROVE  /\ Hypotheses(hypotheses') /\ graveyard' \in [Claim -> Seq(Nat)]
           /\ TrialsOf(hypotheses)' + BuriedTrials' = TrialsOf(h) + BuriedTrials
<1>. DEFINE dead == {c \in DOMAIN h : GivenUp(h[c])}
            was == [c \in Claim |-> SumFunction(graveyard[c])]
            is == [c \in Claim |-> SumFunction(graveyard'[c])]
            more == [c \in Claim |-> IF c \in dead THEN Trials(h[c]) ELSE 0]
            killed == [c \in dead |-> Trials(h[c])]
<1>1. /\ dead \in SUBSET DOMAIN h /\ hypotheses' = Without(h, dead)
      /\ graveyard' = [c \in Claim |->
             IF c \in dead THEN Append(graveyard[c], Trials(h[c])) ELSE graveyard[c]]
  BY DEF Bury
<1>2. \A c \in DOMAIN h : c \in Claim /\ Trials(h[c]) \in Nat
  BY HypothesesHaveTrials DEF Hypotheses
<1>3. IsFiniteSet(Claim) /\ dead \in SUBSET Claim /\ IsFiniteSet(dead)
  BY <1>1, <1>2, TheoryAssumption, FS_Subset
<1>. HIDE DEF dead
<1>4. graveyard' \in [Claim -> Seq(Nat)]
  BY <1>1, <1>2
<1>5. \A c \in Claim : was[c] \in Nat /\ more[c] \in Nat /\ is[c] = was[c] + more[c]
  <2>1. SUFFICES ASSUME NEW c \in Claim
                 PROVE  was[c] \in Nat /\ more[c] \in Nat /\ is[c] = was[c] + more[c]
    OBVIOUS
  <2>2. was[c] \in Nat /\ was[c] = SumFunction(graveyard[c])
    BY GraveyardCounts
  <2>3. CASE c \in dead
    <3>1. /\ Trials(h[c]) \in Nat /\ more[c] = Trials(h[c]) /\ graveyard[c] \in Seq(Nat)
          /\ is[c] = SumFunction(Append(graveyard[c], Trials(h[c])))
      BY <1>1, <1>2, <2>3
    <3>2. QED
      BY <2>2, <3>1, SumOfAppended
  <2>4. CASE c \notin dead
    BY <1>1, <2>2, <2>4
  <2>5. QED
    BY <2>3, <2>4
<1>6. /\ DOMAIN killed = dead
      /\ \A c \in dead : more[c] = killed[c] /\ more[c] \in Nat
      /\ \A c \in Claim \ dead : more[c] = 0
  BY <1>2, <1>3, <1>1
<1>7. /\ BuriedTrials = SumFunctionOnSet(was, Claim) /\ BuriedTrials \in Nat
      /\ BuriedTrials' = SumFunctionOnSet(is, Claim) /\ BuriedTrials' \in Nat
  BY <1>4, GraveyardCounts DEF BuriedTrials
<1>8. SumFunction(killed) = SumFunctionOnSet(killed, dead)
  BY <1>6 DEF SumFunction
<1>. HIDE DEF was, is, more, killed
<1>9. SumFunctionOnSet(is, Claim) = SumFunctionOnSet(was, Claim) + SumFunctionOnSet(more, Claim)
  BY <1>3, <1>5, SumOfSums
<1>10. SumFunctionOnSet(more, Claim) = SumFunctionOnSet(killed, dead)
  <2>1. /\ Claim = dead \cup (Claim \ dead) /\ dead \cap (Claim \ dead) = {}
        /\ IsFiniteSet(Claim \ dead) /\ \A c \in dead \cup (Claim \ dead) : more[c] \in Nat
    BY <1>3, <1>5, FS_Subset
  <2>2. SumFunctionOnSet(more, dead \cup (Claim \ dead))
          = SumFunctionOnSet(more, dead) + SumFunctionOnSet(more, Claim \ dead)
    BY <1>3, <2>1, SumOfUnion
  <2>3. SumFunctionOnSet(more, Claim \ dead) = 0
    BY <1>6, <2>1, SumOfZeros
  <2>4. /\ SumFunctionOnSet(more, dead) = SumFunctionOnSet(killed, dead)
        /\ SumFunctionOnSet(more, dead) \in Nat
    BY <1>3, <1>6, SumsAgree, SumIsANumber
  <2>5. SumFunctionOnSet(more, dead \cup (Claim \ dead)) = SumFunctionOnSet(killed, dead)
    BY <2>2, <2>3, <2>4
  <2>6. dead \cup (Claim \ dead) = Claim
    BY <2>1
  <2>7. QED
    BY <2>5, <2>6, Zenon
<1>11. /\ Hypotheses(hypotheses') /\ SumFunction(killed) \in Nat
       /\ TrialsOf(h) = TrialsOf(hypotheses') + SumFunction(killed)
  BY <1>1, TrialsOfTheRest DEF killed
<1>12. TrialsOf(hypotheses') \in Nat
  BY <1>11, HypothesesHaveTrials
<1>13. TrialsOf(hypotheses)' = TrialsOf(hypotheses')
  BY DEF TrialsOf
<1>14. QED
  BY <1>4, <1>7, <1>8, <1>9, <1>10, <1>11, <1>12, <1>13

LEMMA ConjecturesAreUntried ==
    ASSUME TheoryInv, Conjecture
    PROVE  TheoryInv'
<1>1. PICK new \in SUBSET (Claim \ DOMAIN hypotheses) :
        /\ LET standing == [c \in DOMAIN hypotheses \cup new |->
                               IF c \in new THEN Untried ELSE hypotheses[c]]
           IN  \E D \in Trims(standing) :
                  /\ hypotheses' = Without(standing, D)
                  /\ trimmed' = trimmed + SumFunction([c \in D |-> Trials(standing[c])])
        /\ graveyard' = graveyard /\ tested' = tested
  BY DEF Conjecture
<1>. DEFINE h == [c \in DOMAIN hypotheses \cup new |->
                     IF c \in new THEN Untried ELSE hypotheses[c]]
<1>2. PICK D \in Trims(h) :
        /\ hypotheses' = Without(h, D)
        /\ trimmed' = trimmed + SumFunction([c \in D |-> Trials(h[c])])
  BY <1>1
<1>3. /\ DOMAIN h = DOMAIN hypotheses \cup new /\ DOMAIN hypotheses \cap new = {}
      /\ \A c \in new : h[c] = Untried
      /\ \A c \in DOMAIN hypotheses : h[c] = hypotheses[c]
  BY <1>1
<1>4. Untried \in Hypothesis /\ Trials(Untried) = 0
  BY DEF Untried, Hypothesis, Trials
<1>5. Hypotheses(hypotheses) /\ Hypotheses(h)
  BY <1>1, <1>3, <1>4 DEF TheoryInv, Hypotheses
<1>. HIDE DEF h
<1>6. D \in SUBSET DOMAIN h
  BY DEF Trims
<1>7. TrialsOf(h) = TrialsOf(hypotheses)
  <2>. DEFINE old == DOMAIN hypotheses
              f == [c \in old |-> Trials(hypotheses[c])]
              g == [c \in DOMAIN h |-> Trials(h[c])]
  <2>1. /\ IsFiniteSet(old) /\ IsFiniteSet(DOMAIN h) /\ IsFiniteSet(new)
        /\ TrialsOf(hypotheses) = SumFunctionOnSet(f, old)
        /\ TrialsOf(h) = SumFunctionOnSet(g, DOMAIN h) /\ TrialsOf(h) \in Nat
        /\ \A c \in DOMAIN h : g[c] \in Nat
    BY <1>3, <1>5, HypothesesHaveTrials, FS_Subset
  <2>2. /\ old \cap new = {} /\ old \cup new = DOMAIN h
        /\ (\A c \in old : g[c] = f[c]) /\ \A c \in new : g[c] = 0
    BY <1>3, <1>4
  <2>. HIDE DEF old, f, g
  <2>3. SumFunctionOnSet(g, old \cup new) = SumFunctionOnSet(g, old) + SumFunctionOnSet(g, new)
    BY <2>1, <2>2, SumOfUnion
  <2>4. SumFunctionOnSet(g, old) = SumFunctionOnSet(f, old)
    BY <2>1, <2>2, SumsAgree
  <2>5. SumFunctionOnSet(g, new) = 0
    BY <2>1, <2>2, SumOfZeros
  <2>6. SumFunctionOnSet(f, old) \in Nat
    BY <1>5, <2>1, HypothesesHaveTrials
  <2>7. QED
    BY <2>1, <2>2, <2>3, <2>4, <2>5, <2>6
<1>8. /\ Hypotheses(hypotheses')
      /\ SumFunction([c \in D |-> Trials(h[c])]) \in Nat
      /\ TrialsOf(h) = TrialsOf(hypotheses') + SumFunction([c \in D |-> Trials(h[c])])
  BY <1>2, <1>5, <1>6, TrialsOfTheRest
<1>9. TrialsOf(hypotheses') \in Nat /\ BuriedTrials \in Nat
  BY <1>8, HypothesesHaveTrials, GraveyardCounts DEF BuriedTrials, TheoryInv
<1>10. /\ tested = trimmed + BuriedTrials + TrialsOf(hypotheses)
       /\ trimmed \in Nat /\ tested \in Nat /\ graveyard \in [Claim -> Seq(Nat)]
  BY DEF TheoryInv, TrialsAccountedFor, TrialsOf
<1>11. /\ trimmed' \in Nat /\ BuriedTrials' = BuriedTrials
       /\ tested' = trimmed' + BuriedTrials' + TrialsOf(hypotheses')
  <2>1. BuriedTrials' = BuriedTrials
    BY <1>1 DEF BuriedTrials
  <2>. DEFINE d == SumFunction([c \in D |-> Trials(h[c])])
              b == TrialsOf(hypotheses')
              a == BuriedTrials
  <2>2. tested' = trimmed + a + (b + d) /\ trimmed' = trimmed + d
    BY <1>1, <1>2, <1>7, <1>8, <1>10
  <2>3. a \in Nat /\ b \in Nat /\ d \in Nat /\ trimmed \in Nat
    BY <1>8, <1>9, <1>10
  <2>. HIDE DEF a, b, d
  <2>4. trimmed' \in Nat /\ tested' = trimmed' + a + b
    BY <2>2, <2>3
  <2>5. QED
    BY <2>1, <2>4 DEF a, b
<1>12. TrialsAccountedFor'
  BY <1>11 DEF TrialsAccountedFor, TrialsOf
<1>13. QED
  BY <1>1, <1>8, <1>10, <1>11, <1>12 DEF TheoryInv

\* Trials of what stands, each of one thing, and then the burial.
LEMMA TrialsAreOfOneThing ==
    ASSUME TheoryInv, NEW seen \in SUBSET DOMAIN hypotheses,
           NEW h, Hypotheses(h), DOMAIN h = DOMAIN hypotheses, Bury(h),
           \A c \in DOMAIN h :
               Trials(h[c]) = IF c \in seen THEN Trials(hypotheses[c]) + 1 ELSE Trials(hypotheses[c]),
           tested' = tested + Cardinality(seen), trimmed' = trimmed
    PROVE  TheoryInv'
<1>. DEFINE f == [c \in DOMAIN hypotheses |-> Trials(hypotheses[c])]
            g == [c \in DOMAIN h |-> Trials(h[c])]
<1>1. /\ tested = trimmed + BuriedTrials + TrialsOf(hypotheses)
      /\ trimmed \in Nat /\ tested \in Nat /\ graveyard \in [Claim -> Seq(Nat)]
      /\ Hypotheses(hypotheses)
  BY DEF TheoryInv, TrialsAccountedFor, TrialsOf
<1>2. /\ IsFiniteSet(DOMAIN hypotheses)
      /\ TrialsOf(hypotheses) = SumFunctionOnSet(f, DOMAIN hypotheses)
      /\ TrialsOf(h) = SumFunctionOnSet(g, DOMAIN hypotheses)
      /\ TrialsOf(hypotheses) \in Nat
      /\ \A c \in DOMAIN hypotheses : f[c] \in Nat /\ g[c] = IF c \in seen THEN f[c] + 1 ELSE f[c]
  BY <1>1, HypothesesHaveTrials
<1>. HIDE DEF f, g
<1>3. TrialsOf(h) = TrialsOf(hypotheses) + Cardinality(seen)
  BY <1>2, SumOfOneMore
<1>4. /\ Hypotheses(hypotheses') /\ graveyard' \in [Claim -> Seq(Nat)]
      /\ TrialsOf(hypotheses)' + BuriedTrials' = TrialsOf(h) + BuriedTrials
  BY <1>1, BuryingKeepsTrials
<1>5. Cardinality(seen) \in Nat
  BY <1>2, FS_Subset, FS_CardinalityType
<1>6. BuriedTrials \in Nat /\ BuriedTrials' \in Nat /\ TrialsOf(hypotheses') \in Nat
  BY <1>1, <1>4, HypothesesHaveTrials, GraveyardCounts DEF BuriedTrials
<1>7. TrialsOf(hypotheses)' = TrialsOf(hypotheses')
  BY DEF TrialsOf
<1>8. tested' = trimmed' + BuriedTrials' + TrialsOf(hypotheses)'
  <2>. DEFINE a == BuriedTrials
              b == TrialsOf(hypotheses)
              d == Cardinality(seen)
              x == BuriedTrials'
              y == TrialsOf(hypotheses')
  <2>1. /\ tested' = trimmed + a + b + d /\ y + x = b + d + a
        /\ a \in Nat /\ b \in Nat /\ d \in Nat /\ x \in Nat /\ y \in Nat /\ trimmed \in Nat
    BY <1>1, <1>2, <1>3, <1>4, <1>5, <1>6, <1>7
  <2>. HIDE DEF a, b, d, x, y
  <2>2. tested' = trimmed + x + y
    BY <2>1
  <2>3. QED
    BY <1>7, <2>2 DEF x, y
<1>9. TrialsAccountedFor'
  BY <1>8 DEF TrialsAccountedFor, TrialsOf
<1>10. QED
  BY <1>1, <1>4, <1>5, <1>9 DEF TheoryInv

LEMMA TestedOnce ==
    ASSUME NEW h \in Hypothesis, NEW agrees \in BOOLEAN
    PROVE  Tested(h, agrees) \in Hypothesis /\ Trials(Tested(h, agrees)) = Trials(h) + 1
BY DEF Hypothesis, Tested, Trials

LEMMA ConfrontingKeepsTrials ==
    ASSUME TheoryInv, NEW s \in State, Confront(s)
    PROVE  TheoryInv'
<1>1. PICK seen \in SUBSET Applicable(s) : \E agreeing \in SUBSET seen :
        /\ tested' = tested + Cardinality(seen) /\ trimmed' = trimmed
        /\ Bury([c \in DOMAIN hypotheses |->
                    IF c \in seen THEN Tested(hypotheses[c], c \in agreeing)
                                  ELSE hypotheses[c]])
  BY DEF Confront
<1>0. PICK agreeing \in SUBSET seen :
        /\ tested' = tested + Cardinality(seen) /\ trimmed' = trimmed
        /\ Bury([c \in DOMAIN hypotheses |->
                    IF c \in seen THEN Tested(hypotheses[c], c \in agreeing)
                                  ELSE hypotheses[c]])
  BY <1>1
<1>. DEFINE h == [c \in DOMAIN hypotheses |->
                    IF c \in seen THEN Tested(hypotheses[c], c \in agreeing)
                                  ELSE hypotheses[c]]
<1>2. DOMAIN h = DOMAIN hypotheses /\ seen \in SUBSET DOMAIN hypotheses
  BY DEF Applicable
<1>3. ASSUME NEW c \in DOMAIN hypotheses
      PROVE  /\ h[c] \in Hypothesis
             /\ Trials(h[c]) = IF c \in seen THEN Trials(hypotheses[c]) + 1 ELSE Trials(hypotheses[c])
  <2>1. hypotheses[c] \in Hypothesis
    BY DEF TheoryInv, Hypotheses
  <2>2. CASE c \in seen
    <3>1. h[c] = Tested(hypotheses[c], c \in agreeing) /\ (c \in agreeing) \in BOOLEAN
      BY <2>2
    <3>2. QED
      BY <2>1, <2>2, <3>1, TestedOnce
  <2>3. CASE c \notin seen
    BY <2>1, <2>3
  <2>4. QED
    BY <2>2, <2>3
<1>4. Hypotheses(h)
  BY <1>2, <1>3 DEF TheoryInv, Hypotheses
<1>5. Bury(h)
  BY <1>0
<1>. HIDE DEF h
<1>6. QED
  BY <1>0, <1>2, <1>3, <1>4, <1>5, TrialsAreOfOneThing

LEMMA ReportingKeepsTrials ==
    ASSUME TheoryInv, NEW c \in Claim, Report(c)
    PROVE  TheoryInv'
<1>1. PICK agrees \in BOOLEAN : Bury([hypotheses EXCEPT ![c] = Tested(@, agrees)])
  BY DEF Report
<1>2. c \in DOMAIN hypotheses /\ tested' = tested + 1 /\ trimmed' = trimmed
  BY DEF Report
<1>. DEFINE h == [hypotheses EXCEPT ![c] = Tested(@, agrees)]
<1>3. ASSUME NEW d \in DOMAIN hypotheses
      PROVE  /\ h[d] \in Hypothesis
             /\ Trials(h[d]) = IF d \in {c} THEN Trials(hypotheses[d]) + 1 ELSE Trials(hypotheses[d])
  <2>1. hypotheses[d] \in Hypothesis
    BY DEF TheoryInv, Hypotheses
  <2>2. CASE d = c
    <3>1. h[d] = Tested(hypotheses[d], agrees)
      BY <1>2, <2>2
    <3>2. QED
      BY <2>1, <2>2, <3>1, TestedOnce
  <2>3. CASE d # c
    BY <2>1, <2>3
  <2>4. QED
    BY <2>2, <2>3
<1>4. DOMAIN h = DOMAIN hypotheses /\ Bury(h)
  BY <1>1
<1>5. Hypotheses(h)
  BY <1>3, <1>4 DEF TheoryInv, Hypotheses
<1>6. Cardinality({c}) = 1 /\ {c} \in SUBSET DOMAIN hypotheses
  BY <1>2, FS_Singleton
<1>. HIDE DEF h
<1>7. tested' = tested + Cardinality({c})
  BY <1>2, <1>6
<1>8. QED
  BY <1>2, <1>3, <1>4, <1>5, <1>6, <1>7, TrialsAreOfOneThing

LEMMA ForgettingKeepsTrials ==
    ASSUME TheoryInv, NEW s \in State, ForgetState(s)
    PROVE  TheoryInv'
<1>1. /\ DOMAIN hypotheses' = DOMAIN hypotheses
      /\ \A c \in DOMAIN hypotheses :
            hypotheses'[c] = IF Mentions(c, s) THEN [hypotheses[c] EXCEPT !.retired = "gone"]
                                               ELSE hypotheses[c]
      /\ UNCHANGED <<graveyard, tested, trimmed>>
  BY DEF ForgetState
<1>2. ASSUME NEW c \in DOMAIN hypotheses
      PROVE  hypotheses'[c] \in Hypothesis /\ Trials(hypotheses'[c]) = Trials(hypotheses[c])
  <2>1. hypotheses[c] \in Hypothesis
    BY DEF TheoryInv, Hypotheses
  <2>2. QED
    BY <1>1, <2>1 DEF Hypothesis, Trials
<1>3. Hypotheses(hypotheses')
  BY <1>1, <1>2 DEF TheoryInv, Hypotheses
<1>4. TrialsOf(hypotheses') = TrialsOf(hypotheses)
  <2>1. [c \in DOMAIN hypotheses' |-> Trials(hypotheses'[c])]
          = [c \in DOMAIN hypotheses |-> Trials(hypotheses[c])]
    BY <1>1, <1>2
  <2>2. QED
    BY <2>1 DEF TrialsOf
<1>5. BuriedTrials' = BuriedTrials
  BY <1>1 DEF BuriedTrials
<1>6. TrialsAccountedFor'
  BY <1>1, <1>4, <1>5 DEF TheoryInv, TrialsAccountedFor, TrialsOf
<1>7. QED
  BY <1>1, <1>3, <1>6 DEF TheoryInv

\* Whatever is stated, tried, dropped for want of room, killed, stated again and
\* forgotten with its state: every trial ever made is evidence on exactly one
\* thing (theory.rs, confront, bury and trim).
THEOREM EvidenceIsOnOneThing == TheorySpec => []TrialsAccountedFor
<1>1. TheoryInit => TheoryInv
  <2>. SUFFICES ASSUME TheoryInit PROVE TheoryInv
    OBVIOUS
  <2>1. /\ hypotheses = << >> /\ graveyard = [c \in Claim |-> << >>]
        /\ tested = 0 /\ trimmed = 0
    BY DEF TheoryInit
  <2>2. DOMAIN hypotheses = {} /\ graveyard \in [Claim -> Seq(Nat)]
    BY <2>1
  <2>3. TrialsOf(hypotheses) = 0
    <3>1. DOMAIN [c \in DOMAIN hypotheses |-> Trials(hypotheses[c])] = {}
      BY <2>2
    <3>2. QED
      BY <3>1, SumOfEmpty DEF TrialsOf, SumFunction
  <2>4. BuriedTrials = 0
    <3>. DEFINE f == [c \in Claim |-> SumFunction(graveyard[c])]
    <3>1. ASSUME NEW c \in Claim PROVE f[c] = 0
      <4>1. f[c] = SumFunction(<< >>) /\ DOMAIN << >> = {}
        BY <2>1
      <4>2. QED
        BY <4>1, SumOfEmpty DEF SumFunction
    <3>2. DOMAIN f = Claim
      OBVIOUS
    <3>3. BuriedTrials = SumFunctionOnSet(f, Claim)
      BY <3>2 DEF BuriedTrials, SumFunction
    <3>. HIDE DEF f
    <3>4. QED
      BY <3>1, <3>3, TheoryAssumption, SumOfZeros
  <2>5. TrialsAccountedFor
    BY <2>1, <2>3, <2>4 DEF TrialsAccountedFor, TrialsOf
  <2>6. QED
    BY <2>1, <2>2, <2>5 DEF TheoryInv, Hypotheses
<1>2. TheoryInv /\ [TheoryNext]_theoryVars => TheoryInv'
  <2>. SUFFICES ASSUME TheoryInv, [TheoryNext]_theoryVars PROVE TheoryInv'
    OBVIOUS
  <2>1. CASE UNCHANGED theoryVars
    BY <2>1 DEF theoryVars, TheoryInv, Hypotheses, TrialsAccountedFor, BuriedTrials
  <2>2. QED
    BY <2>1, ConjecturesAreUntried, ConfrontingKeepsTrials, ForgettingKeepsTrials,
       ReportingKeepsTrials DEF TheoryNext
<1>3. TheoryInv => TrialsAccountedFor
  BY DEF TheoryInv
<1>4. QED
  BY <1>1, <1>2, <1>3, PTL DEF TheorySpec

-----------------------------------------------------------------------------
(* Atlas: the chances of an action add up.                                 *)

EdgesOf(a, place, act) == {k \in DOMAIN a : k[1] = place /\ k[2] = act}

ArrivalsOf(a, place, act) == SumFunction([e \in EdgesOf(a, place, act) |-> a[e].arrivals])

IsAtlas(a) == DOMAIN a \subseteq Key /\ \A k \in DOMAIN a : a[k] \in Affordance

AddUp(a) == \A k \in DOMAIN a : a[k].observations = ArrivalsOf(a, k[1], k[2])

AtlasInv == IsAtlas(affordances) /\ AddUp(affordances)

LEMMA EdgesAreFew ==
    ASSUME NEW a, IsAtlas(a), NEW place \in Place, NEW act \in Act
    PROVE  /\ IsFiniteSet(EdgesOf(a, place, act))
           /\ \A k \in EdgesOf(a, place, act) : a[k].arrivals \in Nat /\ a[k].observations \in Nat
           /\ ArrivalsOf(a, place, act) =
                 SumFunctionOnSet([e \in EdgesOf(a, place, act) |-> a[e].arrivals],
                                  EdgesOf(a, place, act))
           /\ ArrivalsOf(a, place, act) \in Nat
<1>. DEFINE all == {<<place, act, to>> : to \in Place}
            E == EdgesOf(a, place, act)
            f == [e \in E |-> a[e].arrivals]
            into == [to \in Place |-> <<place, act, to>>]
<1>1. IsFiniteSet(all)
  <2>1. into \in Surjection(Place, all)
    BY DEF Surjection
  <2>2. QED
    BY <2>1, AtlasAssumption, FS_Surjection
<1>2. E \subseteq all
  BY DEF EdgesOf, IsAtlas, Key
<1>3. IsFiniteSet(E)
  BY <1>1, <1>2, FS_Subset
<1>4. \A k \in E : a[k].arrivals \in Nat /\ a[k].observations \in Nat
  BY DEF EdgesOf, IsAtlas, Affordance
<1>5. /\ DOMAIN f = E /\ \A k \in E : f[k] \in Nat
      /\ ArrivalsOf(a, place, act) = SumFunction(f)
  BY <1>4 DEF ArrivalsOf
<1>. HIDE DEF f
<1>6. SumFunction(f) = SumFunctionOnSet(f, E) /\ SumFunctionOnSet(f, E) \in Nat
  <2>. HIDE DEF E
  <2>1. QED
    BY <1>3, <1>5, SumIsANumber DEF SumFunction
<1>7. QED
  BY <1>3, <1>4, <1>5, <1>6 DEF f

\* A new edge is credited with as many attempts as arrived anywhere.
LEMMA PriorIsAllThatArrived ==
    ASSUME AtlasInv, NEW place \in Place, NEW act \in Act
    PROVE  /\ Prior(place, act) = ArrivalsOf(affordances, place, act)
           /\ \A k \in EdgesOf(affordances, place, act) :
                 affordances[k].observations = Prior(place, act)
<1>. DEFINE E == EdgesOf(affordances, place, act)
            n == ArrivalsOf(affordances, place, act)
            counts == {0} \cup {affordances[k].observations : k \in Edges(place, act)}
<1>1. Edges(place, act) = E
  BY DEF Edges, EdgesOf
<1>2. n \in Nat
  BY EdgesAreFew DEF AtlasInv
<1>3. \A k \in E : affordances[k].observations = n
  BY DEF AtlasInv, AddUp, EdgesOf
<1>4. Prior(place, act) = Max(counts)
  BY DEF Prior
<1>5. CASE E = {}
  <2>1. counts = {0}
    BY <1>1, <1>5
  <2>2. Prior(place, act) = 0
    BY <1>4, <2>1 DEF Max
  <2>3. n = 0
    <3>1. DOMAIN [e \in E |-> affordances[e].arrivals] = {}
      BY <1>5
    <3>2. QED
      BY <3>1, SumOfEmpty DEF ArrivalsOf, SumFunction
  <2>4. QED
    BY <1>5, <2>2, <2>3
<1>6. CASE E # {}
  <2>1. counts = {0, n}
    BY <1>1, <1>3, <1>6
  <2>. HIDE DEF counts, n
  <2>2. \E x \in {0, n} : \A y \in {0, n} : x >= y
    BY <1>2
  <2>3. Max({0, n}) \in {0, n} /\ \A y \in {0, n} : Max({0, n}) >= y
    BY <2>2 DEF Max
  <2>4. Max({0, n}) = n
    BY <1>2, <2>3
  <2>5. QED
    BY <1>3, <1>4, <2>1, <2>4 DEF n
<1>7. QED
  BY <1>5, <1>6

LEMMA ObservingAddsUp ==
    ASSUME AtlasInv, NEW place \in Place, NEW act \in Act, NEW arrived \in Place,
           NEW randomised \in BOOLEAN, NEW finite \in BOOLEAN,
           Observe(place, act, arrived, randomised, finite)
    PROVE  AtlasInv'
<1>. DEFINE key == <<place, act, arrived>>
            old == affordances
            known == DOMAIN old \cup {key}
            before == [k \in known |-> IF k \in DOMAIN old THEN old[k] ELSE Fresh(place, act)]
            after == [k \in known |->
               IF finite /\ k[1] = place /\ k[2] = act
               THEN Seen(before[k], k = key, randomised) ELSE before[k]]
            n == ArrivalsOf(old, place, act)
<1>1. affordances' = after
  BY DEF Observe
<1>2. /\ key \in Key /\ key[1] = place /\ key[2] = act
      /\ IsAtlas(old) /\ AddUp(old) /\ n \in Nat
      /\ Prior(place, act) = n
      /\ \A k \in EdgesOf(old, place, act) : old[k].observations = n
  BY PriorIsAllThatArrived, EdgesAreFew DEF AtlasInv, Key
<1>. HIDE DEF key, n
<1>3. Fresh(place, act) \in Affordance /\ Fresh(place, act).observations = n /\ Fresh(place, act).arrivals = 0
  BY <1>2 DEF Fresh, Affordance
<1>4. DOMAIN before = known /\ IsAtlas(before)
  BY <1>2, <1>3 DEF IsAtlas
<1>5. ASSUME NEW a \in Affordance, NEW here \in BOOLEAN
      PROVE  /\ Seen(a, here, randomised) \in Affordance
             /\ Seen(a, here, randomised).observations = a.observations + 1
             /\ Seen(a, here, randomised).arrivals = IF here THEN a.arrivals + 1 ELSE a.arrivals
  <2>1. Seen(a, here, randomised) =
          [observations |-> a.observations + 1, arrivals |-> a.arrivals + One(here),
           randomised |-> a.randomised + One(randomised),
           caused |-> a.caused + One(randomised /\ here)]
    BY DEF Seen
  <2>2. /\ One(here) = (IF here THEN 1 ELSE 0) /\ One(randomised) \in {0, 1}
        /\ One(randomised /\ here) \in {0, 1}
    BY DEF One
  <2>3. QED
    BY <2>1, <2>2 DEF Affordance
<1>6. ASSUME NEW k \in known
      PROVE  /\ after[k] \in Affordance
             /\ ~(finite /\ k[1] = place /\ k[2] = act) => after[k] = before[k]
             /\ finite /\ k[1] = place /\ k[2] = act =>
                  /\ after[k].observations = before[k].observations + 1
                  /\ after[k].arrivals = IF k \in {key} THEN before[k].arrivals + 1
                                                        ELSE before[k].arrivals
  <2>1. before[k] \in Affordance /\ (k = key) \in BOOLEAN
    BY <1>4 DEF IsAtlas
  <2>2. after[k] = IF finite /\ k[1] = place /\ k[2] = act
                   THEN Seen(before[k], k = key, randomised) ELSE before[k]
    OBVIOUS
  <2>. HIDE DEF before, after
  <2>3. QED
    BY <1>5, <2>1, <2>2
<1>7. DOMAIN after = known /\ IsAtlas(after)
  BY <1>4, <1>6 DEF IsAtlas
<1>8. \A k \in DOMAIN old : before[k] = old[k]
  OBVIOUS
<1>9. key \notin DOMAIN old => before[key].observations = n /\ before[key].arrivals = 0
  BY <1>3
<1>. HIDE DEF before, after
<1>. DEFINE E == EdgesOf(old, place, act)
            E1 == EdgesOf(after, place, act)
            f == [e \in E |-> old[e].arrivals]
            g == [e \in E1 |-> before[e].arrivals]
            h == [e \in E1 |-> after[e].arrivals]
<1>10. /\ E1 = E \cup {key} /\ E = {k \in DOMAIN old : k[1] = place /\ k[2] = act}
       /\ E1 = EdgesOf(before, place, act)
  BY <1>2, <1>4, <1>7 DEF EdgesOf
<1>11. /\ IsFiniteSet(E) /\ IsFiniteSet(E1)
       /\ (\A e \in E : f[e] \in Nat) /\ (\A e \in E1 : g[e] \in Nat)
       /\ n = SumFunctionOnSet(f, E)
       /\ ArrivalsOf(after, place, act) = SumFunctionOnSet(h, E1)
  BY <1>2, <1>4, <1>7, <1>10, EdgesAreFew DEF n
<1>12. (\A e \in E : g[e] = f[e]) /\ (key \notin E => g[key] = 0)
  <2>1. E \subseteq DOMAIN old /\ E \subseteq E1 /\ key \in E1 /\ (key \notin E => key \notin DOMAIN old)
    BY <1>2, <1>10
  <2>2. QED
    BY <1>8, <1>9, <2>1
<1>13. finite => \A e \in E1 : h[e] = IF e \in {key} THEN g[e] + 1 ELSE g[e]
  BY <1>6, <1>7 DEF EdgesOf
<1>14. ~finite => \A e \in E1 : h[e] = g[e]
  BY <1>6, <1>7 DEF EdgesOf
<1>15. \A k \in E1 : before[k].observations = n
  BY <1>2, <1>8, <1>9, <1>10
<1>16. \A k \in E1 : after[k].observations = IF finite THEN n + 1 ELSE n
  BY <1>6, <1>7, <1>15 DEF EdgesOf
<1>. HIDE DEF E, E1, f, g, h
<1>17. SumFunctionOnSet(g, E1) = n
  <2>1. SumFunctionOnSet(g, E) = SumFunctionOnSet(f, E)
    BY <1>11, <1>12, SumsAgree
  <2>2. CASE key \in E
    <3>1. E1 = E
      BY <1>10, <2>2
    <3>2. QED
      BY <1>11, <2>1, <3>1
  <2>3. CASE key \notin E
    <3>1. E1 \ {key} = E /\ key \in E1
      BY <1>10, <2>3
    <3>2. SumFunctionOnSet(g, E1) = g[key] + SumFunctionOnSet(g, E)
      BY <1>11, <3>1, SumSplits
    <3>3. QED
      BY <1>2, <1>11, <1>12, <2>1, <2>3, <3>2
  <2>4. QED
    BY <2>2, <2>3
<1>18. ArrivalsOf(after, place, act) = IF finite THEN n + 1 ELSE n
  <2>1. CASE finite
    <3>1. {key} \in SUBSET E1 /\ Cardinality({key}) = 1
      BY <1>10, FS_Singleton
    <3>2. SumFunctionOnSet(h, E1) = SumFunctionOnSet(g, E1) + 1
      BY <1>11, <1>13, <2>1, <3>1, SumOfOneMore
    <3>3. QED
      BY <1>11, <1>17, <2>1, <3>2
  <2>2. CASE ~finite
    <3>1. SumFunctionOnSet(h, E1) = SumFunctionOnSet(g, E1)
      BY <1>11, <1>14, <2>2, SumsAgree
    <3>2. QED
      BY <1>11, <1>17, <2>2, <3>1
  <2>3. QED
    BY <2>1, <2>2
<1>19. AddUp(after)
  <2>1. SUFFICES ASSUME NEW k \in known
                 PROVE  after[k].observations = ArrivalsOf(after, k[1], k[2])
    BY <1>7 DEF AddUp
  <2>2. CASE k[1] = place /\ k[2] = act
    BY <1>7, <1>16, <1>18, <2>1, <2>2 DEF E1, EdgesOf
  <2>3. CASE ~(k[1] = place /\ k[2] = act)
    <3>1. k \in DOMAIN old /\ k \in Key /\ k # key
      BY <1>2, <2>1, <2>3 DEF IsAtlas
    <3>2. after[k] = old[k]
      BY <1>6, <1>8, <2>3, <3>1
    <3>3. EdgesOf(after, k[1], k[2]) = EdgesOf(old, k[1], k[2])
      BY <1>2, <1>7, <2>3 DEF EdgesOf
    <3>4. \A e \in EdgesOf(old, k[1], k[2]) : after[e] = old[e]
      BY <1>6, <1>8, <2>3 DEF EdgesOf
    <3>5. ArrivalsOf(after, k[1], k[2]) = ArrivalsOf(old, k[1], k[2])
      <4>1. [e \in EdgesOf(after, k[1], k[2]) |-> after[e].arrivals]
              = [e \in EdgesOf(old, k[1], k[2]) |-> old[e].arrivals]
        BY <3>3, <3>4
      <4>2. QED
        BY <4>1 DEF ArrivalsOf
    <3>6. QED
      BY <1>2, <3>1, <3>2, <3>5 DEF AddUp
  <2>4. QED
    BY <2>2, <2>3
<1>20. QED
  BY <1>1, <1>7, <1>19 DEF AtlasInv

\* In whatever order the outcomes of an action are discovered, each edge out of
\* a place by an action has counted the attempts that arrived anywhere: the
\* chances it gives them add up to one (atlas.rs, observe; affordance.rs, backfill).
THEOREM ChancesAreWhole == AtlasSpec => []ChancesAddUp
<1>1. AtlasInit => AtlasInv
  <2>. SUFFICES ASSUME AtlasInit PROVE AtlasInv
    OBVIOUS
  <2>1. DOMAIN affordances = {}
    BY DEF AtlasInit
  <2>2. QED
    BY <2>1 DEF AtlasInv, IsAtlas, AddUp
<1>2. AtlasInv /\ [AtlasNext]_atlasVars => AtlasInv'
  <2>. SUFFICES ASSUME AtlasInv, [AtlasNext]_atlasVars PROVE AtlasInv'
    OBVIOUS
  <2>1. CASE UNCHANGED affordances
    BY <2>1 DEF AtlasInv, IsAtlas, AddUp
  <2>2. \/ UNCHANGED affordances
        \/ \E place \in Place, arrived \in Place, act \in Act,
              randomised \in BOOLEAN, finite \in BOOLEAN :
              Observe(place, act, arrived, randomised, finite)
    BY DEF AtlasNext, Promote, Attempt, Review, atlasVars
  <2>3. QED
    BY <2>1, <2>2, ObservingAddsUp
<1>3. AtlasInv => ChancesAddUp
  BY DEF AtlasInv, ChancesAddUp, AddUp, ArrivalsOf, EdgesOf, Edges
<1>4. QED
  BY <1>1, <1>2, <1>3, PTL DEF AtlasSpec

-----------------------------------------------------------------------------
(* Layout: a header that was taken says where things are.                  *)

LEMMA Aligned ==
    ASSUME NEW n \in Nat
    PROVE  /\ Align(n) \in Nat /\ Align(n) >= n
           /\ \E a \in Nat : Align(n) = 64 * a
           /\ \A b \in Nat : n <= 64 * b => Align(n) <= 64 * b
<1>1. (n + 63) \div 64 \in Nat
  OBVIOUS
<1>2. QED
  BY <1>1 DEF Align

\* A word counts a multiple of 64.
LEMMA WordIsAligned == \E b \in Nat : WordRange = 64 * b
<1>1. WordRange \div 64 \in Nat /\ WordRange = 64 * (WordRange \div 64)
  BY WordAssumption
<1>2. QED
  BY <1>1

\* What is smaller than a word loses nothing to it.
LEMMA FitsAWord ==
    ASSUME NEW n \in Nat, n < WordRange PROVE n % WordRange = n
<1>. DEFINE q == n \div WordRange
            r == n % WordRange
<1>1. q \in Int /\ r \in Int /\ n = WordRange * q + r /\ 0 <= r /\ r < WordRange
  BY WordAssumption
<1>. HIDE DEF q, r
<1>2. q < 1
  <2>1. SUFFICES ASSUME q >= 1 PROVE FALSE
    BY <1>1
  <2>2. WordRange * q >= WordRange
    BY <1>1, <2>1, WordAssumption
  <2>3. QED
    BY <1>1, <2>2, WordAssumption
<1>3. q > -1
  <2>1. SUFFICES ASSUME q <= -1 PROVE FALSE
    BY <1>1
  <2>2. WordRange * q <= -WordRange
    BY <1>1, <2>1, WordAssumption
  <2>3. QED
    BY <1>1, <2>2, WordAssumption
<1>4. q = 0
  BY <1>1, <1>2, <1>3
<1>5. QED
  BY <1>1, <1>4, WordAssumption DEF r

\* What is left of a multiple of 64 leaves room for another 64.
LEMMA AlignedIsCut ==
    ASSUME NEW a \in Nat PROVE (64 * a) % WordRange \in 0 .. WordRange - 64
<1>. DEFINE q == (64 * a) \div WordRange
            r == (64 * a) % WordRange
<1>1. q \in Int /\ r \in Int /\ 64 * a = WordRange * q + r /\ 0 <= r /\ r < WordRange
  BY WordAssumption
<1>2. PICK b \in Nat : WordRange = 64 * b
  BY WordIsAligned
<1>. HIDE DEF q, r
<1>. DEFINE m == a - b * q
<1>3. b * q \in Int /\ WordRange * q = 64 * (b * q)
  BY <1>1, <1>2
<1>4. m \in Int /\ r = 64 * m
  BY <1>1, <1>3
<1>. HIDE DEF m
<1>5. m <= b - 1
  BY <1>1, <1>2, <1>4
<1>6. r \in 0 .. WordRange - 64
  BY <1>1, <1>2, <1>4, <1>5
<1>7. QED
  BY <1>6 DEF r

LEMMA SizesAreNumbers ==
    ASSUME NEW s \in ShapeOf
    PROVE  /\ s.entities * s.channels \in Nat
           /\ Sizes(s)[1] = 32 * s.entities /\ Sizes(s)[2] = 32 * s.channels
           /\ Sizes(s)[3] = 48 * s.relations /\ Sizes(s)[4] = s.strings
           /\ Sizes(s)[5] = 64 * s.sensors
           /\ \A k \in {6, 7} : Sizes(s)[k] = 8 * (s.entities * s.channels)
           /\ \A k \in {8, 9} : Sizes(s)[k] = s.entities * s.channels
           /\ \A k \in 1 .. 9 : Sizes(s)[k] \in Nat
<1>1. /\ s.entities \in Nat /\ s.channels \in Nat /\ s.relations \in Nat /\ s.strings \in Nat
      /\ s.sensors \in Nat
  BY ShapeAssumption, WordAssumption
<1>. DEFINE needed == s.entities * s.channels
<1>2. needed \in Nat
  BY <1>1
<1>3. Sizes(s) = <<32 * s.entities, 32 * s.channels, 48 * s.relations, s.strings, 64 * s.sensors,
                   8 * needed, 8 * needed, needed, needed>>
  BY DEF Sizes
<1>. HIDE DEF needed
<1>4. QED
  BY <1>1, <1>2, <1>3 DEF needed

LEMMA StartsAre ==
    ASSUME NEW s \in ShapeOf
    PROVE  Starts(s) = [k \in 1 .. 10 |->
               IF k = 1 THEN HeaderBytes ELSE Align(Starts(s)[k - 1] + Sizes(s)[k - 1])]
<1>. DEFINE z == Sizes(s)
            t1 == HeaderBytes
            t2 == Align(t1 + z[1])
            t3 == Align(t2 + z[2])
            t4 == Align(t3 + z[3])
            t5 == Align(t4 + z[4])
            t6 == Align(t5 + z[5])
            t7 == Align(t6 + z[6])
            t8 == Align(t7 + z[7])
            t9 == Align(t8 + z[8])
            t10 == Align(t9 + z[9])
            f == <<t1, t2, t3, t4, t5, t6, t7, t8, t9, t10>>
<1>1. f = [k \in 1 .. 10 |-> f[k]]
  OBVIOUS
<1>2. /\ f[1] = HeaderBytes
      /\ \A k \in 2 .. 10 : f[k] = Align(f[k - 1] + z[k - 1])
  <2>1. /\ f[1] = t1 /\ f[2] = t2 /\ f[3] = t3 /\ f[4] = t4 /\ f[5] = t5 /\ f[6] = t6
        /\ f[7] = t7 /\ f[8] = t8 /\ f[9] = t9 /\ f[10] = t10
    OBVIOUS
  <2>. HIDE DEF f, t10
  <2>2. f[10] = Align(f[9] + z[9])
    BY <2>1 DEF t10
  <2>. HIDE DEF t9
  <2>3. f[9] = Align(f[8] + z[8])
    BY <2>1 DEF t9
  <2>. HIDE DEF t8
  <2>4. f[8] = Align(f[7] + z[7])
    BY <2>1 DEF t8
  <2>. HIDE DEF t7
  <2>5. f[7] = Align(f[6] + z[6])
    BY <2>1 DEF t7
  <2>. HIDE DEF t6
  <2>6. f[6] = Align(f[5] + z[5])
    BY <2>1 DEF t6
  <2>. HIDE DEF t5
  <2>7. f[5] = Align(f[4] + z[4])
    BY <2>1 DEF t5
  <2>. HIDE DEF t4
  <2>8. f[4] = Align(f[3] + z[3])
    BY <2>1 DEF t4
  <2>. HIDE DEF t3
  <2>9. f[3] = Align(f[2] + z[2])
    BY <2>1 DEF t3
  <2>. HIDE DEF t2
  <2>10. f[2] = Align(f[1] + z[1])
    BY <2>1 DEF t2
  <2>. HIDE DEF z, t1
  <2>11. ASSUME NEW k \in 2 .. 10 PROVE f[k] = Align(f[k - 1] + z[k - 1])
    <3>1. k \in {2, 3, 4, 5, 6, 7, 8, 9, 10}
      BY <2>11
    <3>2. QED
      BY <3>1, <2>2, <2>3, <2>4, <2>5, <2>6, <2>7, <2>8, <2>9, <2>10
  <2>12. QED
    BY <2>1, <2>11 DEF t1
<1>. HIDE DEF f
<1>3. f = [k \in 1 .. 10 |-> IF k = 1 THEN HeaderBytes ELSE Align(f[k - 1] + Sizes(s)[k - 1])]
  <2>1. \A k \in 1 .. 10 : k # 1 => k \in 2 .. 10
    OBVIOUS
  <2>. HIDE DEF z
  <2>2. f = [k \in 1 .. 10 |-> IF k = 1 THEN HeaderBytes ELSE Align(f[k - 1] + z[k - 1])]
    BY <1>1, <1>2, <2>1
  <2>3. QED
    BY <2>2 DEF z
<1>4. Starts(s) = CHOOSE g :
        g = [k \in 1 .. 10 |-> IF k = 1 THEN HeaderBytes ELSE Align(g[k - 1] + Sizes(s)[k - 1])]
  BY DEF Starts
<1>5. QED
  BY <1>3, <1>4

LEMMA StartsAreAligned ==
    ASSUME NEW s \in ShapeOf, NEW k \in 1 .. 9
    PROVE  /\ Starts(s)[k] \in Nat /\ \E a \in Nat : Starts(s)[k] = 64 * a
           /\ Starts(s)[k + 1] = Align(Starts(s)[k] + Sizes(s)[k])
<1>1. Starts(s)[1] = 256
  BY StartsAre DEF HeaderBytes
<1>2. \A j \in 1 .. 9 : Starts(s)[j + 1] = Align(Starts(s)[j] + Sizes(s)[j])
  <2>1. SUFFICES ASSUME NEW j \in 1 .. 9 
                 PROVE  Starts(s)[j + 1] = Align(Starts(s)[j] + Sizes(s)[j])
    OBVIOUS
  <2>2. j + 1 \in 1 .. 10 /\ j + 1 # 1 /\ (j + 1) - 1 = j
    OBVIOUS
  <2>3. QED
    BY <2>2, StartsAre
<1>. DEFINE P(j) == Starts(s)[j] \in Nat /\ \E a \in Nat : Starts(s)[j] = 64 * a
<1>3. P(1)
  BY <1>1
<1>4. ASSUME NEW j \in 1 .. 9, P(j) PROVE P(j + 1)
  <2>1. Starts(s)[j] + Sizes(s)[j] \in Nat
    BY <1>4, SizesAreNumbers
  <2>2. QED
    BY <2>1, <1>2, Aligned
<1>. HIDE DEF P
<1>5. P(2)
  BY <1>3, <1>4
<1>6. P(3)
  BY <1>5, <1>4
<1>7. P(4)
  BY <1>6, <1>4
<1>8. P(5)
  BY <1>7, <1>4
<1>9. P(6)
  BY <1>8, <1>4
<1>10. P(7)
  BY <1>9, <1>4
<1>11. P(8)
  BY <1>10, <1>4
<1>12. P(9)
  BY <1>11, <1>4
<1>13. P(k)
  <2>1. k \in {1, 2, 3, 4, 5, 6, 7, 8, 9}
    OBVIOUS
  <2>2. QED
    BY <2>1, <1>3, <1>5, <1>6, <1>7, <1>8, <1>9, <1>10, <1>11, <1>12
<1>14. QED
  BY <1>2, <1>13 DEF P

LEMMA FileLeavesRoom ==
    ASSUME NEW s \in ShapeOf PROVE Total(s) % WordRange \in 0 .. WordRange - 64
<1>1. Starts(s)[9] + Sizes(s)[9] \in Nat /\ Starts(s)[10] = Align(Starts(s)[9] + Sizes(s)[9])
  <2>1. 9 \in 1 .. 9 /\ 9 + 1 = 10
    OBVIOUS
  <2>2. QED
    BY <2>1, StartsAreAligned, SizesAreNumbers
<1>2. PICK a \in Nat : Total(s) = 64 * a
  BY <1>1, Aligned DEF Total
<1>3. QED
  BY <1>2, AlignedIsCut

\* The sections lie behind the header, one after the other.
InOrder(h) ==
    \A k \in 1 .. 8 : Ranges(h)[k].start >= HeaderBytes /\ Ranges(h)[k].end <= Ranges(h)[k + 1].start

StartOf(h, k) == (h.tables \o h.state \o h.avail)[k]

LEMMA HeaderStarts ==
    ASSUME NEW s \in ShapeOf, NEW k \in 1 .. 9
    PROVE  StartOf(HeaderOf(s), k) = Starts(s)[k] % WordRange
<1>. DEFINE at(j) == Starts(s)[j] % WordRange
            tables == [j \in 1 .. 5 |-> at(j)]
            state == [j \in 1 .. 2 |-> at(j + 5)]
            avail == [j \in 1 .. 2 |-> at(j + 7)]
<1>1. HeaderOf(s).tables = tables
  <2>1. \A j \in 1 .. 5 : 1 + j - 1 = j
    OBVIOUS
  <2>2. HeaderOf(s).tables = [j \in 1 .. 5 - 1 + 1 |-> at(1 + j - 1)]
    BY DEF HeaderOf
  <2>. HIDE DEF at
  <2>3. QED
    BY <2>1, <2>2
<1>2. HeaderOf(s).state = state
  <2>1. \A j \in 1 .. 2 : 6 + j - 1 = j + 5
    OBVIOUS
  <2>2. HeaderOf(s).state = [j \in 1 .. 7 - 6 + 1 |-> at(6 + j - 1)]
    BY DEF HeaderOf
  <2>. HIDE DEF at
  <2>3. QED
    BY <2>1, <2>2
<1>3. HeaderOf(s).avail = avail
  <2>1. \A j \in 1 .. 2 : 8 + j - 1 = j + 7
    OBVIOUS
  <2>2. HeaderOf(s).avail = [j \in 1 .. 9 - 8 + 1 |-> at(8 + j - 1)]
    BY DEF HeaderOf
  <2>. HIDE DEF at
  <2>3. QED
    BY <2>1, <2>2
<1>4. \A j \in 1 .. 9 : at(j) \in Nat
  <2>1. \A j \in 1 .. 9 : Starts(s)[j] \in Nat
    BY StartsAreAligned
  <2>2. QED
    BY <2>1, WordAssumption
<1>. HIDE DEF at
<1>5. /\ tables \in Seq(Nat) /\ Len(tables) = 5
      /\ state \in Seq(Nat) /\ Len(state) = 2
      /\ avail \in Seq(Nat) /\ Len(avail) = 2
  BY <1>4
<1>6. /\ \A j \in 1 .. 5 : tables[j] = at(j)
      /\ \A j \in 1 .. 2 : state[j] = at(j + 5)
      /\ \A j \in 1 .. 2 : avail[j] = at(j + 7)
  OBVIOUS
<1>. HIDE DEF tables, state, avail
<1>. DEFINE two == tables \o state
            all == two \o avail
<1>7. /\ two \in Seq(Nat) /\ Len(two) = 7
      /\ \A j \in 1 .. 7 : two[j] = IF j <= 5 THEN tables[j] ELSE state[j - 5]
  <2>1. /\ two \in Seq(Nat) /\ Len(two) = Len(tables) + Len(state)
        /\ \A i \in 1 .. Len(tables) + Len(state) :
              two[i] = IF i <= Len(tables) THEN tables[i] ELSE state[i - Len(tables)]
    BY <1>5, ConcatProperties, Zenon
  <2>. HIDE DEF two
  <2>2. QED
    BY <2>1, <1>5
<1>. HIDE DEF two
<1>8. \A j \in 1 .. 9 : all[j] = IF j <= 7 THEN two[j] ELSE avail[j - 7]
  <2>1. \A i \in 1 .. Len(two) + Len(avail) :
              all[i] = IF i <= Len(two) THEN two[i] ELSE avail[i - Len(two)]
    BY <1>5, <1>7, ConcatProperties, Zenon
  <2>. HIDE DEF all
  <2>2. QED
    BY <2>1, <1>5, <1>7
<1>. HIDE DEF all
<1>9. all[k] = at(k)
  <2>1. CASE k \in 1 .. 5
    <3>1. all[k] = two[k] /\ two[k] = tables[k]
      BY <2>1, <1>7, <1>8
    <3>2. QED
      BY <2>1, <3>1, <1>6
  <2>2. CASE k \in 6 .. 7
    <3>1. k - 5 \in 1 .. 2 /\ (k - 5) + 5 = k /\ k \in 1 .. 7
      BY <2>2
    <3>2. all[k] = two[k] /\ two[k] = state[k - 5]
      BY <2>2, <1>7, <1>8
    <3>3. QED
      BY <3>1, <3>2, <1>6
  <2>3. CASE k \in 8 .. 9
    <3>1. k - 7 \in 1 .. 2 /\ (k - 7) + 7 = k
      BY <2>3
    <3>2. all[k] = avail[k - 7]
      BY <2>3, <1>8
    <3>3. QED
      BY <3>1, <3>2, <1>6
  <2>4. k \in 1 .. 5 \/ k \in 6 .. 7 \/ k \in 8 .. 9
    OBVIOUS
  <2>5. QED
    BY <2>1, <2>2, <2>3, <2>4
<1>10. QED
  BY <1>1, <1>2, <1>3, <1>9 DEF StartOf, at, two, all

LengthsOf(h) ==
    LET state == IF h.entities * h.stride < WordRange THEN h.entities * h.stride ELSE WordRange - 1
    IN  <<32 * h.entities, 32 * h.channels, 48 * h.relations, h.strings,
          64 * h.sensors, state, state, h.availBytes, h.availBytes>>

LEMMA RangesAre ==
    ASSUME NEW h, NEW k \in 1 .. 9
    PROVE  Ranges(h)[k].start = StartOf(h, k) /\ Ranges(h)[k].end = StartOf(h, k) + LengthsOf(h)[k]
  BY DEF Ranges, StartOf, LengthsOf

\* A header that was taken has lost nothing of any section's length.
LEMMA TakenLengths ==
    ASSUME NEW s \in ShapeOf, NEW len \in 0 .. WordRange - 64, Accepts(HeaderOf(s), len)
    PROVE  \A k \in 1 .. 9 : LengthsOf(HeaderOf(s))[k] = Sizes(s)[k]
<1>. DEFINE h == HeaderOf(s)
            needed == s.entities * s.channels
<1>1. /\ s.entities \in Nat /\ s.entities < WordRange /\ s.channels \in Nat /\ s.channels < WordRange
      /\ s.relations \in Nat /\ s.relations < WordRange /\ s.strings \in Nat /\ s.strings < WordRange
      /\ s.sensors \in Nat /\ s.sensors < WordRange
  BY ShapeAssumption, WordAssumption
<1>2. /\ h.entities = s.entities /\ h.channels = s.channels /\ h.relations = s.relations
      /\ h.strings = s.strings /\ h.sensors = s.sensors
  BY <1>1, FitsAWord DEF HeaderOf
<1>3. needed \in Nat
  BY <1>1
<1>4. h.stride = 8 * s.channels /\ h.availBytes = needed
  BY <1>2 DEF Accepts
<1>5. h.entities * h.stride = 8 * needed
  BY <1>1, <1>2, <1>4
<1>6. 8 * needed < WordRange
  <2>. SUFFICES ASSUME ~(8 * needed < WordRange) PROVE FALSE
    OBVIOUS
  <2>1. LengthsOf(h)[6] = WordRange - 1
    BY <1>5 DEF LengthsOf
  <2>2. StartOf(h, 6) \in Nat
    <3>1. 6 \in 1 .. 9
      OBVIOUS
    <3>2. Starts(s)[6] \in Nat
      BY <3>1, StartsAreAligned
    <3>3. StartOf(h, 6) = Starts(s)[6] % WordRange
      BY <3>1, HeaderStarts
    <3>4. QED
      BY <3>2, <3>3, WordAssumption
  <2>3. Ranges(h)[6].end = StartOf(h, 6) + LengthsOf(h)[6] /\ Ranges(h)[6].end <= len
    BY RangesAre DEF Accepts
  <2>. HIDE DEF h
  <2>4. QED
    BY <2>1, <2>2, <2>3, WordAssumption
<1>7. LengthsOf(h) = <<32 * s.entities, 32 * s.channels, 48 * s.relations, s.strings,
                       64 * s.sensors, 8 * needed, 8 * needed, needed, needed>>
  BY <1>2, <1>4, <1>5, <1>6 DEF LengthsOf
<1>8. QED
  BY <1>7 DEF Sizes

\* Where a section starts is what was computed, if so far nothing wrapped; and
\* then neither does the next, for the file ends 64 before the word does.
LEMMA NextStartFits ==
    ASSUME NEW s \in ShapeOf, NEW len \in 0 .. WordRange - 64, Accepts(HeaderOf(s), len),
           NEW k \in 1 .. 9, Starts(s)[k] <= WordRange - 64
    PROVE  /\ StartOf(HeaderOf(s), k) = Starts(s)[k]
           /\ Ranges(HeaderOf(s))[k].end = Starts(s)[k] + Sizes(s)[k]
           /\ Starts(s)[k] + Sizes(s)[k] <= Starts(s)[k + 1]
           /\ Starts(s)[k] <= Starts(s)[k + 1]
           /\ Starts(s)[k + 1] <= WordRange - 64
<1>. DEFINE h == HeaderOf(s)
            start == Starts(s)[k]
            size == Sizes(s)[k]
<1>1. start \in Nat /\ size \in Nat /\ Starts(s)[k + 1] = Align(start + size)
  BY StartsAreAligned, SizesAreNumbers
<1>2. StartOf(h, k) = start
  <2>1. start < WordRange
    BY <1>1, WordAssumption
  <2>2. QED
    BY <1>1, <2>1, HeaderStarts, FitsAWord
<1>3. Ranges(h)[k].end = start + size /\ Ranges(h)[k].end <= len
  BY <1>2, RangesAre, TakenLengths DEF Accepts
<1>. HIDE DEF h, start, size
<1>4. PICK b \in Nat : WordRange = 64 * b
  BY WordIsAligned
<1>5. b - 1 \in Nat /\ start + size <= 64 * (b - 1)
  BY <1>1, <1>3, <1>4, WordAssumption
<1>6. start + size \in Nat
  BY <1>1
<1>7. Align(start + size) >= start + size /\ Align(start + size) <= 64 * (b - 1)
      /\ Align(start + size) \in Nat
  BY <1>5, <1>6, Aligned
<1>8. QED
  BY <1>1, <1>2, <1>3, <1>4, <1>7 DEF h, start, size

LEMMA TakenIsInOrder ==
    ASSUME NEW s \in ShapeOf, NEW len \in 0 .. WordRange - 64, Accepts(HeaderOf(s), len)
    PROVE  InOrder(HeaderOf(s))
<1>. DEFINE P(k) == Starts(s)[k] \in Nat /\ Starts(s)[k] >= HeaderBytes /\ Starts(s)[k] <= WordRange - 64
<1>1. P(1)
  <2>1. Starts(s)[1] = 256
    BY StartsAre DEF HeaderBytes
  <2>2. PICK b \in Nat : WordRange = 64 * b
    BY WordIsAligned
  <2>3. QED
    BY <2>1, <2>2, WordAssumption DEF HeaderBytes
<1>2. ASSUME NEW k \in 1 .. 8, P(k) PROVE P(k + 1)
  <2>1. k \in 1 .. 9 /\ k + 1 \in 1 .. 9
    OBVIOUS
  <2>2. Starts(s)[k + 1] \in Nat
    BY <2>1, StartsAreAligned
  <2>3. Starts(s)[k] <= Starts(s)[k + 1] /\ Starts(s)[k + 1] <= WordRange - 64
    BY <1>2, <2>1, NextStartFits
  <2>4. QED
    BY <1>2, <2>2, <2>3 DEF HeaderBytes
<1>. HIDE DEF P
<1>3. P(2)
  BY <1>1, <1>2
<1>4. P(3)
  BY <1>3, <1>2
<1>5. P(4)
  BY <1>4, <1>2
<1>6. P(5)
  BY <1>5, <1>2
<1>7. P(6)
  BY <1>6, <1>2
<1>8. P(7)
  BY <1>7, <1>2
<1>9. P(8)
  BY <1>8, <1>2
<1>10. P(9)
  BY <1>9, <1>2
<1>11. \A k \in 1 .. 9 : P(k)
  <2>1. \A k \in 1 .. 9 : k \in {1, 2, 3, 4, 5, 6, 7, 8, 9}
    OBVIOUS
  <2>2. QED
    BY <2>1, <1>1, <1>3, <1>4, <1>5, <1>6, <1>7, <1>8, <1>9, <1>10
<1>12. \A k \in 1 .. 9 : /\ StartOf(HeaderOf(s), k) = Starts(s)[k]
                         /\ Ranges(HeaderOf(s))[k].end <= Starts(s)[k + 1]
  BY <1>11, NextStartFits DEF P
<1>13. ASSUME NEW k \in 1 .. 8
       PROVE  /\ Ranges(HeaderOf(s))[k].start >= HeaderBytes
              /\ Ranges(HeaderOf(s))[k].end <= Ranges(HeaderOf(s))[k + 1].start
  <2>1. k \in 1 .. 9 /\ k + 1 \in 1 .. 9
    OBVIOUS
  <2>2. /\ Ranges(HeaderOf(s))[k].start = Starts(s)[k]
        /\ Ranges(HeaderOf(s))[k + 1].start = Starts(s)[k + 1]
    BY <2>1, <1>12, RangesAre
  <2>3. QED
    BY <2>1, <2>2, <1>11, <1>12 DEF P
<1>14. QED
  BY <1>13 DEF InOrder

\* While a reader is between its two looks at the header, and none but the writer
\* it began with has been there, the header is as that writer makes it or is
\* still without its last field, without which none is taken.
Reading ==
    /\ opened.len \in 0 .. WordRange - 64 /\ opened.laid \in 0 .. laid
    /\ opened.whole /\ opened.laid = laid =>
          /\ opened.header = HeaderOf(making.shape)
          /\ bytes.header = HeaderOf(making.shape) \/ bytes.header.availBytes = 0

Taken ==
    /\ opened.laid \in 0 .. laid
    /\ \A k \in 1 .. 9 : Ranges(opened.header)[k].end <= opened.len
    /\ opened.whole /\ opened.laid = laid => InOrder(opened.header)

WriterSound ==
    /\ making = [shape |-> making.shape, next |-> making.next]
    /\ making.shape \in ShapeOf /\ making.next \in 0 .. Tabled /\ laid \in Nat
    /\ bytes = [len |-> bytes.len, header |-> bytes.header, tables |-> bytes.tables]
    /\ bytes.len \in 0 .. WordRange - 64
    /\ bytes.header = [f \in DOMAIN Zeros |-> bytes.header[f]]
    /\ making.next >= 2 =>
          \A i \in 1 .. 11 : i < making.next - 1 =>
              bytes.header[Fields[i]] = HeaderOf(making.shape)[Fields[i]]

ReaderSound ==
    /\ opened.stage \in {"none", "reading", "accepted", "attached"}
    /\ opened.stage # "none" =>
         opened = [stage |-> opened.stage, len |-> opened.len, header |-> opened.header,
                   whole |-> opened.whole, laid |-> opened.laid, tables |-> opened.tables]
    /\ opened.stage = "reading" => Reading
    /\ opened.stage \in {"accepted", "attached"} => Taken

LayoutInv == WriterSound /\ ReaderSound

LEMMA TheFields ==
    /\ DOMAIN Zeros = {"magic", "entities", "channels", "relations", "sensors", "tables",
                       "strings", "state", "stride", "avail", "availBytes"}
    /\ Zeros = [f \in DOMAIN Zeros |-> Zeros[f]] /\ Zeros.availBytes = 0
    /\ \A s : HeaderOf(s) = [f \in DOMAIN Zeros |-> HeaderOf(s)[f]]
    /\ \A i \in 1 .. 11 : Fields[i] \in DOMAIN Zeros /\ (Fields[i] = "availBytes" => i = 11)
    /\ \A f \in DOMAIN Zeros : \E i \in 1 .. 11 : Fields[i] = f
    /\ AllFields = 13 /\ Tabled = 14
<1>1. Len(Fields) = 11
  BY DEF Fields
<1>2. AllFields = 13 /\ Tabled = 14
  BY <1>1 DEF AllFields, Tabled
<1>3. DOMAIN Zeros = {"magic", "entities", "channels", "relations", "sensors", "tables",
                      "strings", "state", "stride", "avail", "availBytes"}
  BY DEF Zeros
<1>4. Zeros = [f \in DOMAIN Zeros |-> Zeros[f]] /\ Zeros.availBytes = 0
  BY DEF Zeros
<1>5. ASSUME NEW s PROVE HeaderOf(s) = [f \in DOMAIN Zeros |-> HeaderOf(s)[f]]
  BY <1>3 DEF HeaderOf
<1>6. /\ Fields[1] = "magic" /\ Fields[2] = "entities" /\ Fields[3] = "channels"
      /\ Fields[4] = "relations" /\ Fields[5] = "sensors" /\ Fields[6] = "tables"
      /\ Fields[7] = "strings" /\ Fields[8] = "state" /\ Fields[9] = "stride"
      /\ Fields[10] = "avail" /\ Fields[11] = "availBytes"
  BY DEF Fields
<1>7. ASSUME NEW i \in 1 .. 11
      PROVE  Fields[i] \in DOMAIN Zeros /\ (Fields[i] = "availBytes" => i = 11)
  <2>1. i \in {1, 2, 3, 4, 5, 6, 7, 8, 9, 10, 11}
    OBVIOUS
  <2>2. QED
    BY <1>3, <1>6, <2>1
<1>8. ASSUME NEW f \in DOMAIN Zeros PROVE \E i \in 1 .. 11 : Fields[i] = f
  <2>1. {1, 2, 3, 4, 5, 6, 7, 8, 9, 10, 11} \subseteq 1 .. 11
    OBVIOUS
  <2>2. QED
    BY <1>3, <1>6, <2>1
<1>9. QED
  BY <1>2, <1>3, <1>4, <1>5, <1>7, <1>8

\* A header of which every field is written is the whole header.
LEMMA WholeHeader ==
    ASSUME NEW s, NEW h, h = [f \in DOMAIN Zeros |-> h[f]],
           \A i \in 1 .. 11 : h[Fields[i]] = HeaderOf(s)[Fields[i]]
    PROVE  h = HeaderOf(s)
<1>1. \A f \in DOMAIN Zeros : h[f] = HeaderOf(s)[f]
  BY TheFields
<1>2. HeaderOf(s) = [f \in DOMAIN Zeros |-> HeaderOf(s)[f]]
  BY TheFields
<1>3. QED
  BY <1>1, <1>2

LEMMA LayoutBegins == LayoutInit => LayoutInv
<1>. SUFFICES ASSUME LayoutInit PROVE LayoutInv
  OBVIOUS
<1>1. making.shape \in ShapeOf
  BY ShapeAssumption DEF LayoutInit
<1>2. PICK b \in Nat : WordRange = 64 * b
  BY WordIsAligned
<1>3. bytes.len \in 0 .. WordRange - 64
  BY <1>2, WordAssumption DEF LayoutInit
<1>4. WriterSound
  BY <1>1, <1>3, TheFields DEF LayoutInit, WriterSound
<1>5. ReaderSound
  BY DEF LayoutInit, ReaderSound
<1>6. QED
  BY <1>4, <1>5 DEF LayoutInv

LEMMA SizeFileKeeps == LayoutInv /\ SizeFile => LayoutInv'
<1>. SUFFICES ASSUME LayoutInv, SizeFile PROVE LayoutInv'
  OBVIOUS
<1>1. PICK s \in ShapeOf : /\ making' = [shape |-> s, next |-> 1]
                           /\ bytes' = [bytes EXCEPT !.len = Total(s) % WordRange]
  BY DEF SizeFile
<1>2. laid' = laid + 1 /\ laid \in Nat /\ opened' = opened
  BY DEF SizeFile, LayoutInv, WriterSound
<1>3. Total(s) % WordRange \in 0 .. WordRange - 64
  BY FileLeavesRoom
<1>4. WriterSound'
  BY <1>1, <1>2, <1>3, TheFields DEF LayoutInv, WriterSound
<1>5. opened.stage # "none" => opened.laid \in 0 .. laid
  BY DEF LayoutInv, ReaderSound, Reading, Taken
<1>6. Reading /\ opened.stage = "reading" => Reading'
  BY <1>2, <1>5 DEF Reading
<1>7. Taken /\ opened.stage \in {"accepted", "attached"} => Taken'
  BY <1>2, <1>5 DEF Taken
<1>8. ReaderSound'
  BY <1>2, <1>6, <1>7 DEF LayoutInv, ReaderSound
<1>9. QED
  BY <1>4, <1>8 DEF LayoutInv

\* The writer's other steps: what they do to the header is all that matters.
LEMMA WriterKeepsReader ==
    ASSUME LayoutInv, opened' = opened, laid' = laid, making'.shape = making.shape,
           \/ bytes'.header = bytes.header
           \/ bytes'.header = HeaderOf(making.shape)
           \/ bytes'.header.availBytes = 0
    PROVE  ReaderSound'
<1>1. opened.stage = "reading" => Reading'
  BY DEF LayoutInv, ReaderSound, Reading
<1>2. opened.stage \in {"accepted", "attached"} => Taken'
  BY DEF LayoutInv, ReaderSound, Taken
<1>3. QED
  BY <1>1, <1>2 DEF LayoutInv, ReaderSound

LEMMA ClearFileKeeps == LayoutInv /\ ClearFile => LayoutInv'
<1>. SUFFICES ASSUME LayoutInv, ClearFile PROVE LayoutInv'
  OBVIOUS
<1>1. /\ making' = [shape |-> making.shape, next |-> 2]
      /\ bytes' = [len |-> bytes.len, header |-> Zeros, tables |-> {}]
      /\ opened' = opened /\ laid' = laid
  BY DEF ClearFile, LayoutInv, WriterSound
<1>2. WriterSound'
  BY <1>1, TheFields DEF LayoutInv, WriterSound
<1>3. ReaderSound'
  BY <1>1, TheFields, WriterKeepsReader
<1>4. QED
  BY <1>2, <1>3 DEF LayoutInv

LEMMA WriteFieldKeeps == LayoutInv /\ WriteField => LayoutInv'
<1>. SUFFICES ASSUME LayoutInv, WriteField PROVE LayoutInv'
  OBVIOUS
<1>. DEFINE n == making.next - 1
            whole == HeaderOf(making.shape)
            old == bytes.header
            new == [old EXCEPT ![Fields[n]] = whole[Fields[n]]]
<1>1. /\ making.next \in 2 .. 12 /\ n \in 1 .. 11
      /\ making' = [shape |-> making.shape, next |-> making.next + 1]
      /\ bytes' = [len |-> bytes.len, header |-> new, tables |-> bytes.tables]
      /\ opened' = opened /\ laid' = laid
  BY TheFields DEF WriteField, FieldAt, LayoutInv, WriterSound
<1>2. /\ old = [f \in DOMAIN Zeros |-> old[f]]
      /\ \A i \in 1 .. 11 : i < n => old[Fields[i]] = whole[Fields[i]]
  BY <1>1 DEF LayoutInv, WriterSound
<1>3. Fields[n] \in DOMAIN Zeros
  BY <1>1, TheFields
<1>. HIDE DEF n, whole, old
<1>4. /\ new = [f \in DOMAIN Zeros |-> new[f]]
      /\ new[Fields[n]] = whole[Fields[n]]
      /\ \A f \in DOMAIN Zeros : f # Fields[n] => new[f] = old[f]
  BY <1>2, <1>3
<1>. HIDE DEF new
<1>5. \A i \in 1 .. 11 : i < n + 1 => new[Fields[i]] = whole[Fields[i]]
  <2>1. SUFFICES ASSUME NEW i \in 1 .. 11, i < n + 1 PROVE new[Fields[i]] = whole[Fields[i]]
    OBVIOUS
  <2>2. Fields[i] \in DOMAIN Zeros /\ (i = n \/ i < n)
    BY <1>1, <2>1, TheFields
  <2>3. QED
    BY <1>2, <1>4, <2>2
<1>6. making'.next - 1 = n + 1 /\ making'.next \in 3 .. 13 /\ making'.shape = making.shape
  BY <1>1 DEF n
<1>7. WriterSound'
  <2>1. \A i \in 1 .. 11 : i < making'.next - 1 => new[Fields[i]] = whole[Fields[i]]
    BY <1>5, <1>6
  <2>2. /\ making' = [shape |-> making'.shape, next |-> making'.next]
        /\ making'.shape \in ShapeOf /\ making'.next \in 0 .. Tabled /\ laid' \in Nat
    BY <1>1, <1>6, TheFields DEF LayoutInv, WriterSound
  <2>3. /\ bytes' = [len |-> bytes'.len, header |-> bytes'.header, tables |-> bytes'.tables]
        /\ bytes'.len \in 0 .. WordRange - 64 /\ bytes'.header = new
    BY <1>1 DEF LayoutInv, WriterSound
  <2>4. QED
    BY <1>4, <1>6, <2>1, <2>2, <2>3 DEF WriterSound, whole
<1>8. new = whole \/ new = old \/ new.availBytes = 0 \/ old.availBytes # 0
  <2>1. CASE Fields[n] = "availBytes"
    <3>1. n = 11
      BY <1>1, <2>1, TheFields
    <3>2. \A i \in 1 .. 11 : new[Fields[i]] = whole[Fields[i]]
      BY <1>5, <3>1
    <3>3. QED
      BY <1>4, <3>2, WholeHeader DEF whole
  <2>2. CASE Fields[n] # "availBytes"
    BY <1>4, <2>2, TheFields
  <2>3. QED
    BY <2>1, <2>2
<1>9. ReaderSound'
  <2>1. CASE old.availBytes # 0 /\ old = whole
    <3>1. new = whole
      <4>1. \A f \in DOMAIN Zeros : new[f] = whole[f]
        BY <1>4, <2>1
      <4>2. whole = [f \in DOMAIN Zeros |-> whole[f]]
        BY TheFields DEF whole
      <4>3. QED
        BY <1>4, <4>1, <4>2
    <3>2. QED
      BY <1>1, <1>6, <3>1, WriterKeepsReader DEF whole
  <2>2. CASE old.availBytes # 0 /\ old # whole
    <3>1. ~(opened.stage = "reading" /\ opened.whole /\ opened.laid = laid)
      BY <2>2 DEF LayoutInv, ReaderSound, Reading, old, whole
    <3>2. opened.stage = "reading" => Reading'
      BY <1>1, <3>1 DEF LayoutInv, ReaderSound, Reading
    <3>3. opened.stage \in {"accepted", "attached"} => Taken'
      BY <1>1 DEF LayoutInv, ReaderSound, Taken
    <3>4. QED
      BY <1>1, <3>2, <3>3 DEF LayoutInv, ReaderSound
  <2>3. CASE old.availBytes = 0
    BY <1>1, <1>6, <1>8, <2>3, WriterKeepsReader DEF old, whole
  <2>4. QED
    BY <2>1, <2>2, <2>3
<1>10. QED
  BY <1>7, <1>9 DEF LayoutInv

LEMMA WriterGoesOn == LayoutInv /\ (WriteTables \/ WriterEnds) => LayoutInv'
<1>. SUFFICES ASSUME LayoutInv, WriteTables \/ WriterEnds PROVE LayoutInv'
  OBVIOUS
<1>1. /\ making' = [shape |-> making.shape, next |-> making'.next]
      /\ bytes' = [len |-> bytes.len, header |-> bytes.header, tables |-> bytes'.tables]
      /\ opened' = opened /\ laid' = laid
  BY DEF WriteTables, WriterEnds, LayoutInv, WriterSound
<1>2. making'.next = 0 \/ (making.next = 13 /\ making'.next = 14)
  BY TheFields DEF WriteTables, WriterEnds, LayoutInv, WriterSound
<1>3. WriterSound'
  <2>1. making'.next \in 0 .. Tabled
    BY <1>2, TheFields
  <2>2. making'.next >= 2 => \A i \in 1 .. 11 : bytes.header[Fields[i]] = HeaderOf(making.shape)[Fields[i]]
    BY <1>2 DEF LayoutInv, WriterSound
  <2>3. QED
    BY <1>1, <2>1, <2>2 DEF LayoutInv, WriterSound
<1>4. ReaderSound'
  BY <1>1, WriterKeepsReader
<1>5. QED
  BY <1>3, <1>4 DEF LayoutInv

LEMMA MapFileKeeps == LayoutInv /\ MapFile => LayoutInv'
<1>. SUFFICES ASSUME LayoutInv, MapFile PROVE LayoutInv'
  OBVIOUS
<1>1. /\ opened' = [stage |-> "reading", len |-> bytes.len, header |-> bytes.header,
                    whole |-> bytes.header = HeaderOf(making.shape), laid |-> laid,
                    tables |-> {}]
      /\ making' = making /\ bytes' = bytes /\ laid' = laid
  BY DEF MapFile
<1>2. WriterSound'
  BY <1>1 DEF LayoutInv, WriterSound
<1>3. Reading'
  <2>1. opened'.len \in 0 .. WordRange - 64 /\ opened'.laid \in 0 .. laid
    BY <1>1 DEF LayoutInv, WriterSound
  <2>2. opened'.header = bytes.header /\ opened'.whole = (bytes.header = HeaderOf(making.shape))
    BY <1>1, Zenon
  <2>3. QED
    BY <1>1, <2>1, <2>2, Zenon DEF Reading
<1>4. ReaderSound'
  BY <1>1, <1>3 DEF ReaderSound
<1>5. QED
  BY <1>2, <1>4 DEF LayoutInv

LEMMA ReadHeaderKeeps == LayoutInv /\ ReadHeader => LayoutInv'
<1>. SUFFICES ASSUME LayoutInv, ReadHeader PROVE LayoutInv'
  OBVIOUS
<1>. DEFINE h == [f \in DOMAIN Zeros |->
                     IF f \in {"magic", "entities", "channels"} THEN opened.header[f]
                     ELSE bytes.header[f]]
            whole == HeaderOf(making.shape)
<1>1. /\ opened.stage = "reading" /\ Reading /\ making' = making /\ bytes' = bytes /\ laid' = laid
      /\ opened' = IF Accepts(h, opened.len)
                   THEN [opened EXCEPT !.stage = "accepted", !.header = h]
                   ELSE [stage |-> "none"]
  BY DEF ReadHeader, LayoutInv, ReaderSound
<1>2. WriterSound'
  BY <1>1 DEF LayoutInv, WriterSound
<1>. HIDE DEF h, whole
<1>3. CASE ~Accepts(h, opened.len)
  BY <1>1, <1>2, <1>3 DEF LayoutInv, ReaderSound
<1>4. CASE Accepts(h, opened.len)
  <2>1. opened' = [stage |-> "accepted", len |-> opened.len, header |-> h,
                   whole |-> opened.whole, laid |-> opened.laid, tables |-> opened.tables]
    BY <1>1, <1>4 DEF LayoutInv, ReaderSound
  <2>2. \A k \in 1 .. 9 : Ranges(h)[k].end <= opened.len
    BY <1>4 DEF Accepts
  <2>3. ASSUME opened.whole, opened.laid = laid PROVE InOrder(h)
    <3>1. opened.header = whole /\ (bytes.header = whole \/ bytes.header.availBytes = 0)
      BY <1>1, <2>3 DEF Reading, whole
    <3>2. /\ h.entities = whole.entities /\ h.channels = whole.channels
          /\ h.availBytes = bytes.header.availBytes
      BY <3>1, TheFields DEF h
    <3>3. making.shape \in ShapeOf
      BY DEF LayoutInv, WriterSound
    <3>4. whole.entities \in Nat \ {0} /\ whole.channels \in Nat \ {0}
      <4>1. /\ making.shape.entities \in Nat \ {0} /\ making.shape.entities < WordRange
            /\ making.shape.channels \in Nat \ {0} /\ making.shape.channels < WordRange
        BY <3>3, ShapeAssumption, WordAssumption
      <4>2. QED
        BY <4>1, FitsAWord DEF whole, HeaderOf
    <3>5. h.availBytes = whole.entities * whole.channels
      BY <1>4, <3>2 DEF Accepts
    <3>6. h.availBytes # 0
      BY <3>4, <3>5
    <3>7. bytes.header = whole
      BY <3>1, <3>2, <3>6
    <3>8. h = whole
      <4>1. \A f \in DOMAIN Zeros : h[f] = whole[f]
        BY <3>1, <3>7 DEF h
      <4>2. whole = [f \in DOMAIN Zeros |-> whole[f]] /\ h = [f \in DOMAIN Zeros |-> h[f]]
        BY TheFields DEF whole, h
      <4>3. QED
        BY <4>1, <4>2
    <3>9. opened.len \in 0 .. WordRange - 64
      BY <1>1 DEF Reading
    <3>10. QED
      BY <1>4, <3>3, <3>8, <3>9, TakenIsInOrder DEF whole
  <2>4. Taken'
    BY <1>1, <2>1, <2>2, <2>3 DEF Taken, Reading
  <2>5. ReaderSound'
    BY <2>1, <2>4 DEF ReaderSound
  <2>6. QED
    BY <1>2, <2>5 DEF LayoutInv
<1>5. QED
  BY <1>3, <1>4

LEMMA ReaderGoesOn == LayoutInv /\ (ReadTables \/ CloseReader) => LayoutInv'
<1>. SUFFICES ASSUME LayoutInv, ReadTables \/ CloseReader PROVE LayoutInv'
  OBVIOUS
<1>1. making' = making /\ bytes' = bytes /\ laid' = laid
  BY DEF ReadTables, CloseReader
<1>2. WriterSound'
  BY <1>1 DEF LayoutInv, WriterSound
<1>3. CASE CloseReader
  BY <1>1, <1>2, <1>3 DEF CloseReader, LayoutInv, ReaderSound
<1>4. CASE ReadTables
  <2>1. /\ Taken
        /\ opened' = [stage |-> "attached", len |-> opened.len, header |-> opened.header,
                      whole |-> opened.whole, laid |-> opened.laid, tables |-> bytes.tables]
    BY <1>4 DEF ReadTables, LayoutInv, ReaderSound
  <2>2. Taken'
    BY <1>1, <2>1 DEF Taken
  <2>3. ReaderSound'
    BY <2>1, <2>2 DEF ReaderSound
  <2>4. QED
    BY <1>2, <2>3 DEF LayoutInv
<1>5. QED
  BY <1>3, <1>4

\* Whatever the writer was doing, however often the region was laid out and for
\* machines of any size, a reader that took the header reads inside what it
\* mapped; and if the header was whole and is still the same, no section of it
\* has lost anything to the width of a word (Layout::validate, layout.rs).
THEOREM HeadersAreSound == LayoutSpec => []OpenedIsSound
<1>1. LayoutInit => LayoutInv
  BY LayoutBegins
<1>2. LayoutInv /\ [LayoutNext]_layoutVars => LayoutInv'
  <2>. SUFFICES ASSUME LayoutInv, [LayoutNext]_layoutVars PROVE LayoutInv'
    OBVIOUS
  <2>1. CASE UNCHANGED layoutVars
    BY <2>1 DEF layoutVars, LayoutInv, WriterSound, ReaderSound, Reading, Taken
  <2>2. QED
    BY <2>1, SizeFileKeeps, ClearFileKeeps, WriteFieldKeeps, WriterGoesOn, MapFileKeeps,
       ReadHeaderKeeps, ReaderGoesOn DEF LayoutNext
<1>3. LayoutInv => OpenedIsSound
  BY DEF LayoutInv, ReaderSound, Taken, OpenedIsSound, InOrder
<1>4. QED
  BY <1>1, <1>2, <1>3, PTL DEF LayoutSpec

-----------------------------------------------------------------------------
(* Bench: a report rests on as many runs of one policy as of another.      *)

\* When in a round a policy has its turn.
Turn(n, round) == (n - 1 - round) % 6

\* Where the runs of a policy are among those of a command.
RunsOf(runs, n) == {i \in DOMAIN runs : runs[i].policy = n}

\* A command's runs are within bounds and where its policies put them, ...
Bounded(p, w) ==
    /\ w.placements \in [DOMAIN Policies -> SUBSET permitted[p]]
    /\ w.runs \in Seq([policy : DOMAIN Policies, on : SUBSET permitted[p]])
    /\ \A i \in DOMAIN w.runs :
          LET placement == w.placements[w.runs[i].policy]
          IN  placement # {} => w.runs[i].on = placement

\* ... and those of each policy are as many as the rounds that are over, and one
\* more for a policy that had its turn in this one.
TurnsCounted(w) ==
    \A n \in DOMAIN Policies :
        /\ IsFiniteSet(RunsOf(w.runs, n))
        /\ Cardinality(RunsOf(w.runs, n)) =
              w.round + (IF Turn(n, w.round) < w.index THEN 1 ELSE 0)

Comparing(p, w) ==
    /\ w = [does |-> "compare", round |-> w.round, index |-> w.index, runs |-> w.runs,
            placements |-> w.placements]
    /\ w.round \in 0 .. Rounds /\ w.index \in 0 .. 5 /\ (w.round = Rounds => w.index = 0)
    /\ Bounded(p, w) /\ TurnsCounted(w)

ReportSound(p, w) ==
    /\ mask[p] = permitted[p]
    /\ Bounded(p, w)
    /\ \A n \in DOMAIN Policies : Cardinality(RunsOf(w.runs, n)) = Rounds

\* A process is where it may be, and will be put back there.
Within(p) ==
    /\ mask[p] \subseteq permitted[p]
    /\ Does(p, "benchmark") => work[p].original \subseteq permitted[p] /\ work[p].left \subseteq permitted[p]
    /\ Does(p, "compare") => Comparing(p, work[p])
    /\ Does(p, "report") => ReportSound(p, work[p])

BenchInv ==
    /\ permitted \in [Process -> (SUBSET Cpu) \ {{}}]
    /\ mask = [p \in Process |-> mask[p]] /\ DOMAIN work = Process
    /\ \A p \in Process : Within(p)

LEMMA ThePolicies == DOMAIN Policies = 1 .. 6 /\ Len(Policies) = 6
  BY DEF Policies

LEMMA MinIsOne ==
    ASSUME NEW S \in SUBSET Nat, S # {} PROVE Min(S) \in S
<1>1. \E x \in S : \A y \in S : ~(<<y, x>> \in OpToRel(<, Nat))
  BY NatLessThanWellFounded, WFMin
<1>2. PICK x \in S : \A y \in S : ~(<<y, x>> \in OpToRel(<, Nat))
  BY <1>1
<1>3. ASSUME NEW y \in S PROVE x <= y
  <2>1. ~(y < x)
    BY <1>2 DEF OpToRel
  <2>2. QED
    BY <2>1
<1>4. QED
  BY <1>3 DEF Min

\* A policy's placement is within the CPUs its process was given.
LEMMA PlacementsAreWithin ==
    ASSUME NEW policy, NEW cpus \in SUBSET Cpu, cpus # {}, NEW ranking, NEW random \in cpus
    PROVE  DecidePlacement(policy, cpus, ranking, random) \in SUBSET cpus
<1>1. Min(cpus) \in cpus
  BY BenchAssumption, MinIsOne
<1>2. QED
  BY <1>1 DEF DecidePlacement

LEMMA TheTurn ==
    ASSUME NEW n \in 1 .. 6, NEW round \in Nat, NEW index \in 0 .. 5
    PROVE  /\ Turn(n, round) \in 0 .. 5
           /\ Visited(round, index) \in 1 .. 6
           /\ Visited(round, index) = n <=> Turn(n, round) = index
  BY ThePolicies DEF Turn, Visited

\* Nothing another process does disturbs a process.
LEMMA OthersAreWithin ==
    ASSUME BenchInv, permitted' = permitted, NEW p \in Process,
           mask'[p] = mask[p], work'[p] = work[p]
    PROVE  Within(p)'
<1>1. PICK w : work[p] = w /\ work'[p] = w
  OBVIOUS
<1>2. PICK m : mask[p] = m /\ mask'[p] = m
  OBVIOUS
<1>3. /\ Comparing(p, w) => Comparing(p, w)'
      /\ Bounded(p, w) => Bounded(p, w)'
  BY DEF Comparing, Bounded, TurnsCounted
<1>4. ReportSound(p, w) => ReportSound(p, w)'
  BY <1>2, <1>3 DEF ReportSound
<1>5. Within(p)
  BY DEF BenchInv
<1>6. QED
  BY <1>1, <1>2, <1>3, <1>4, <1>5 DEF Within, Does

LEMMA StepOfOne ==
    ASSUME BenchInv, permitted' = permitted, NEW p \in Process, NEW m, NEW w,
           mask' = [mask EXCEPT ![p] = m], work' = [work EXCEPT ![p] = w],
           m \subseteq permitted[p],
           w.does = "benchmark" => w.original \subseteq permitted[p] /\ w.left \subseteq permitted[p],
           w.does = "compare" => Comparing(p, w),
           w.does = "report" => m = permitted[p] /\ Bounded(p, w)
                                /\ \A n \in DOMAIN Policies : Cardinality(RunsOf(w.runs, n)) = Rounds
    PROVE  BenchInv'
<1>1. mask' = [q \in Process |-> mask'[q]] /\ DOMAIN work' = Process
  BY DEF BenchInv
<1>2. mask'[p] = m /\ work'[p] = w
  BY DEF BenchInv
<1>3. Comparing(p, w) => Comparing(p, w)'
  BY DEF Comparing, Bounded, TurnsCounted
<1>4. Within(p)'
  BY <1>2, <1>3 DEF Within, Does, Comparing, ReportSound, Bounded
<1>5. \A q \in Process \ {p} : Within(q)'
  BY OthersAreWithin DEF BenchInv
<1>6. QED
  BY <1>1, <1>4, <1>5 DEF BenchInv

LEMMA BenchBegins == BenchInit => BenchInv
  BY DEF BenchInit, BenchInv, Within, Does, Idle_

\* The benchmark, and what it does with the profile.
LEMMA BenchmarkKeeps ==
    ASSUME BenchInv, NEW p \in Process,
           \/ StartBenchmark(p) \/ VisitCore(p) \/ EndBenchmark(p) \/ BenchmarkFails(p)
    PROVE  BenchInv'
<1>1. mask[p] \subseteq permitted[p] /\ Within(p)
  BY DEF BenchInv, Within
<1>2. CASE StartBenchmark(p)
  <2>. DEFINE w == [does |-> "benchmark", original |-> mask[p], round |-> 1, left |-> permitted[p]]
  <2>1. /\ permitted' = permitted /\ work' = [work EXCEPT ![p] = w]
        /\ mask' = [mask EXCEPT ![p] = mask[p]]
    BY <1>2 DEF StartBenchmark, Become, BenchInv
  <2>2. w.does = "benchmark" /\ w.original \subseteq permitted[p] /\ w.left \subseteq permitted[p]
    BY <1>1
  <2>. HIDE DEF w
  <2>3. QED
    BY <1>1, <2>1, <2>2, StepOfOne
<1>3. CASE VisitCore(p)
  <2>1. PICK cpu \in work[p].left :
            LET left == work[p].left \ {cpu}
                next == left = {} /\ work[p].round < Rounds
            IN  /\ Pin(p, {cpu})
                /\ Become(p, [work[p] EXCEPT !.left = IF next THEN permitted[p] ELSE left,
                                             !.round = IF next THEN @ + 1 ELSE @])
    BY <1>3 DEF VisitCore
  <2>. DEFINE left == work[p].left \ {cpu}
              next == left = {} /\ work[p].round < Rounds
              more == IF next THEN permitted[p] ELSE left
              over == IF next THEN work[p].round + 1 ELSE work[p].round
              half == [work[p] EXCEPT !.left = more]
              w == [half EXCEPT !.round = over]
  <2>2. /\ permitted' = permitted /\ work' = [work EXCEPT ![p] = w]
        /\ mask' = [mask EXCEPT ![p] = {cpu}]
    BY <1>3, <2>1 DEF VisitCore, Become, Pin
  <2>3. work[p].does = "benchmark" /\ work[p].left \subseteq permitted[p]
        /\ work[p].original \subseteq permitted[p]
    BY <1>1, <1>3 DEF VisitCore, Does, Within
  <2>4. w.does = work[p].does /\ w.original = work[p].original
    OBVIOUS
  <2>5. more \subseteq permitted[p] /\ {cpu} \subseteq permitted[p]
    BY <2>3
  <2>. HIDE DEF more, over
  <2>6. w.left = half.left
    OBVIOUS
  <2>7. half.left \in {more, work[p].left}
    OBVIOUS
  <2>. HIDE DEF half, w
  <2>8. w.left \subseteq permitted[p]
    BY <2>3, <2>5, <2>6, <2>7
  <2>9. QED
    BY <2>2, <2>3, <2>4, <2>5, <2>8, StepOfOne
<1>4. CASE EndBenchmark(p)
  <2>1. PICK best \in permitted[p] : Become(p, [does |-> "analysis", best |-> best])
    BY <1>4 DEF EndBenchmark
  <2>. DEFINE w == [does |-> "analysis", best |-> best]
  <2>2. /\ permitted' = permitted /\ work' = [work EXCEPT ![p] = w]
        /\ mask' = [mask EXCEPT ![p] = work[p].original]
    BY <1>4, <2>1 DEF EndBenchmark, Become, Pin
  <2>3. work[p].original \subseteq permitted[p]
    BY <1>1, <1>4 DEF EndBenchmark, Does, Within
  <2>4. w.does = "analysis"
    OBVIOUS
  <2>. HIDE DEF w
  <2>5. QED
    BY <2>2, <2>3, <2>4, StepOfOne
<1>5. CASE BenchmarkFails(p)
  <2>1. /\ permitted' = permitted /\ work' = [work EXCEPT ![p] = Idle_]
        /\ mask' = [mask EXCEPT ![p] = work[p].original]
    BY <1>5 DEF BenchmarkFails, Become, Pin
  <2>2. work[p].original \subseteq permitted[p]
    BY <1>1, <1>5 DEF BenchmarkFails, Does, Within
  <2>3. QED
    BY <2>1, <2>2, StepOfOne DEF Idle_
<1>6. QED
  BY <1>2, <1>3, <1>4, <1>5

LEMMA ProfileKeeps ==
    ASSUME BenchInv, NEW p \in Process,
           OpenTemporary(p) \/ FillTemporary(p) \/ RenameTemporary(p) \/ PrintReport(p)
    PROVE  BenchInv'
<1>1. PICK w : /\ permitted' = permitted /\ work' = [work EXCEPT ![p] = w] /\ mask' = mask
               /\ w.does \in {"nothing", "writing", "renaming"}
  <2>1. CASE OpenTemporary(p)
    <3>1. PICK at : work' = [work EXCEPT ![p] = [does |-> "writing", best |-> work[p].best, at |-> at]]
      BY <2>1 DEF OpenTemporary, Become
    <3>. DEFINE w == [does |-> "writing", best |-> work[p].best, at |-> at]
    <3>2. work' = [work EXCEPT ![p] = w] /\ w.does = "writing"
      BY <3>1
    <3>. HIDE DEF w
    <3>3. QED
      BY <2>1, <3>2 DEF OpenTemporary
  <2>2. CASE FillTemporary(p)
    <3>. DEFINE w == [does |-> "renaming"]
    <3>1. work' = [work EXCEPT ![p] = w] /\ w.does = "renaming"
      BY <2>2 DEF FillTemporary, Become
    <3>. HIDE DEF w
    <3>2. QED
      BY <2>2, <3>1 DEF FillTemporary
  <2>3. CASE RenameTemporary(p) \/ PrintReport(p)
    <3>1. work' = [work EXCEPT ![p] = Idle_] /\ Idle_.does = "nothing"
      BY <2>3 DEF RenameTemporary, PrintReport, Become, Idle_
    <3>2. QED
      BY <2>3, <3>1 DEF RenameTemporary, PrintReport
  <2>4. QED
    BY <2>1, <2>2, <2>3
<1>2. mask' = [mask EXCEPT ![p] = mask[p]] /\ mask[p] \subseteq permitted[p]
  BY <1>1 DEF BenchInv, Within
<1>3. QED
  BY <1>1, <1>2, StepOfOne

\* The comparison begins: placements within bounds, and no runs yet.
LEMMA StartComparisonKeeps ==
    ASSUME BenchInv, NEW p \in Process, StartComparison(p) PROVE BenchInv'
<1>1. PICK random \in permitted[p] :
        Become(p, [does |-> "compare", round |-> 0, index |-> 0, runs |-> <<>>,
                   placements |-> [n \in DOMAIN Policies |->
                        DecidePlacement(Policies[n], permitted[p], Ranking, random)]])
  BY DEF StartComparison
<1>. DEFINE decided == [n \in DOMAIN Policies |->
                           DecidePlacement(Policies[n], permitted[p], Ranking, random)]
            w == [does |-> "compare", round |-> 0, index |-> 0, runs |-> <<>>,
                  placements |-> decided]
<1>2. /\ permitted' = permitted /\ work' = [work EXCEPT ![p] = w]
      /\ mask' = [mask EXCEPT ![p] = mask[p]] /\ mask[p] \subseteq permitted[p]
  BY <1>1 DEF StartComparison, Become, BenchInv, Within
<1>3. permitted[p] \in SUBSET Cpu /\ permitted[p] # {}
  BY DEF BenchInv
<1>4. decided \in [DOMAIN Policies -> SUBSET permitted[p]]
  BY <1>3, PlacementsAreWithin
<1>. HIDE DEF decided
<1>5. Bounded(p, w)
  BY <1>4 DEF Bounded
<1>6. \A n \in DOMAIN Policies : RunsOf(w.runs, n) = {}
  BY DEF RunsOf
<1>7. TurnsCounted(w)
  <2>1. \A n \in DOMAIN Policies : ~(Turn(n, 0) < 0)
    BY ThePolicies DEF Turn
  <2>2. w.round = 0 /\ w.index = 0
    OBVIOUS
  <2>. HIDE DEF w
  <2>3. QED
    BY <1>6, <2>1, <2>2, FS_EmptySet DEF TurnsCounted
<1>8. Comparing(p, w)
  BY <1>5, <1>7, BenchAssumption DEF Comparing
<1>9. w.does = "compare"
  OBVIOUS
<1>. HIDE DEF w
<1>10. QED
  BY <1>2, <1>8, <1>9, StepOfOne

\* One more run: that of the policy whose turn it is.
LEMMA OneMoreRun ==
    ASSUME NEW S, NEW runs \in Seq(S), NEW r \in S, NEW n
    PROVE  /\ r.policy # n => RunsOf(Append(runs, r), n) = RunsOf(runs, n)
           /\ r.policy = n => RunsOf(Append(runs, r), n) = RunsOf(runs, n) \cup {Len(runs) + 1}
           /\ Len(runs) + 1 \notin RunsOf(runs, n)
<1>. DEFINE more == Append(runs, r)
            new == Len(runs) + 1
<1>1. /\ DOMAIN runs = 1 .. Len(runs) /\ Len(runs) \in Nat
      /\ DOMAIN more = DOMAIN runs \cup {new} /\ new \notin DOMAIN runs
      /\ more[new] = r /\ \A i \in DOMAIN runs : more[i] = runs[i]
  OBVIOUS
<1>. HIDE DEF more, new
<1>2. QED
  BY <1>1 DEF RunsOf, more, new

LEMMA MeasureCounts ==
    ASSUME NEW p \in Process, NEW w, Comparing(p, w), w.round < Rounds, NEW v,
           NEW on \in SUBSET permitted[p],
           v.runs = Append(w.runs, [policy |-> Visited(w.round, w.index), on |-> on]),
           IF w.index + 1 = 6 THEN v.index = 0 /\ v.round = w.round + 1
                              ELSE v.index = w.index + 1 /\ v.round = w.round
    PROVE  TurnsCounted(v)
<1>. DEFINE n == Visited(w.round, w.index)
            r == [policy |-> n, on |-> on]
<1>1. w.round \in Nat /\ w.index \in 0 .. 5
  BY BenchAssumption DEF Comparing
<1>2. n \in 1 .. 6 /\ r \in [policy : DOMAIN Policies, on : SUBSET permitted[p]] /\ r.policy = n
  BY <1>1, TheTurn, ThePolicies
<1>3. w.runs \in Seq([policy : DOMAIN Policies, on : SUBSET permitted[p]])
  BY DEF Comparing, Bounded
<1>4. v.runs = Append(w.runs, r)
  OBVIOUS
<1>5. SUFFICES ASSUME NEW m \in 1 .. 6
               PROVE  /\ IsFiniteSet(RunsOf(v.runs, m))
                      /\ Cardinality(RunsOf(v.runs, m)) =
                            v.round + (IF Turn(m, v.round) < v.index THEN 1 ELSE 0)
  BY ThePolicies DEF TurnsCounted
<1>6. /\ IsFiniteSet(RunsOf(w.runs, m))
      /\ Cardinality(RunsOf(w.runs, m)) = w.round + (IF Turn(m, w.round) < w.index THEN 1 ELSE 0)
  BY ThePolicies DEF Comparing, TurnsCounted
<1>7. /\ Turn(m, w.round) \in 0 .. 5 /\ Turn(m, w.round + 1) \in 0 .. 5
      /\ n = m <=> Turn(m, w.round) = w.index
  BY <1>1, TheTurn
<1>. HIDE DEF n, r
<1>10. /\ r.policy # m => RunsOf(Append(w.runs, r), m) = RunsOf(w.runs, m)
       /\ r.policy = m => RunsOf(Append(w.runs, r), m) = RunsOf(w.runs, m) \cup {Len(w.runs) + 1}
       /\ Len(w.runs) + 1 \notin RunsOf(w.runs, m)
  BY <1>2, <1>3, OneMoreRun, Zenon
<1>8. IsFiniteSet(RunsOf(v.runs, m))
      /\ Cardinality(RunsOf(v.runs, m)) = w.round + (IF Turn(m, w.round) < w.index + 1 THEN 1 ELSE 0)
  <2>1. CASE n = m
    <3>1. RunsOf(v.runs, m) = RunsOf(w.runs, m) \cup {Len(w.runs) + 1}
          /\ Len(w.runs) + 1 \notin RunsOf(w.runs, m)
      BY <1>2, <1>4, <1>10, <2>1
    <3>2. /\ IsFiniteSet(RunsOf(v.runs, m))
          /\ Cardinality(RunsOf(v.runs, m)) = Cardinality(RunsOf(w.runs, m)) + 1
      BY <1>6, <3>1, FS_AddElement
    <3>3. QED
      BY <1>1, <1>6, <1>7, <2>1, <3>2
  <2>2. CASE n # m
    <3>1. RunsOf(v.runs, m) = RunsOf(w.runs, m)
      BY <1>2, <1>4, <1>10, <2>2
    <3>2. QED
      BY <1>1, <1>6, <1>7, <2>2, <3>1
  <2>3. QED
    BY <2>1, <2>2
<1>9. QED
  BY <1>1, <1>7, <1>8

LEMMA WorkGoesOn ==
    ASSUME NEW p, NEW w, Comparing(p, w), NEW runs, NEW index, NEW round
    PROVE  [[[w EXCEPT !.runs = runs] EXCEPT !.index = index] EXCEPT !.round = round]
             = [does |-> "compare", round |-> round, index |-> index, runs |-> runs,
                placements |-> w.placements]
<1>. DEFINE a == w.round
            b == w.index
            c == w.runs
            d == w.placements
            v1 == [w EXCEPT !.runs = runs]
            v2 == [v1 EXCEPT !.index = index]
            v3 == [v2 EXCEPT !.round = round]
<1>0. w = [does |-> "compare", round |-> a, index |-> b, runs |-> c, placements |-> d]
  BY DEF Comparing
<1>. HIDE DEF a, b, c, d
<1>1. v1 = [does |-> "compare", round |-> a, index |-> b, runs |-> runs, placements |-> d]
  BY <1>0
<1>. HIDE DEF v1
<1>2. v2 = [does |-> "compare", round |-> a, index |-> index, runs |-> runs, placements |-> d]
  BY <1>1
<1>. HIDE DEF v2
<1>3. v3 = [does |-> "compare", round |-> round, index |-> index, runs |-> runs,
            placements |-> d]
  BY <1>2
<1>4. QED
  BY <1>3, Zenon DEF v1, v2, d

LEMMA OneOfThem ==
    ASSUME NEW S, NEW runs \in Seq(S), NEW i \in DOMAIN runs PROVE runs[i] \in S
  OBVIOUS

LEMMA MeasurePolicyKeeps ==
    ASSUME BenchInv, NEW p \in Process, MeasurePolicy(p) PROVE BenchInv'
<1>. DEFINE w == work[p]
            n == Visited(w.round, w.index)
            on == IF w.placements[n] = {} THEN mask[p] ELSE w.placements[n]
            run == [policy |-> n, on |-> on]
            last == w.index + 1 = 6
            runs == Append(w.runs, run)
            index == IF last THEN 0 ELSE w.index + 1
            round == IF last THEN w.round + 1 ELSE w.round
            v == [does |-> "compare", round |-> round, index |-> index, runs |-> runs,
                  placements |-> w.placements]
<1>1. /\ Comparing(p, w) /\ w.round < Rounds /\ permitted' = permitted
      /\ mask' = [mask EXCEPT ![p] = on] /\ mask[p] \subseteq permitted[p]
  BY ThePolicies DEF MeasurePolicy, Does, BenchInv, Within, Pin
<1>2. w = [does |-> "compare", round |-> w.round, index |-> w.index, runs |-> w.runs,
           placements |-> w.placements]
  BY <1>1 DEF Comparing
<1>3. work' = [work EXCEPT ![p] = [w EXCEPT !.runs = Append(@, run),
                                            !.index = IF last THEN 0 ELSE @ + 1,
                                            !.round = IF last THEN @ + 1 ELSE @]]
  BY ThePolicies DEF MeasurePolicy, Become
<1>4. work' = [work EXCEPT ![p] = v]
  <2>1. [w EXCEPT !.runs = Append(@, run),
                  !.index = IF last THEN 0 ELSE @ + 1,
                  !.round = IF last THEN @ + 1 ELSE @]
          = [[[w EXCEPT !.runs = runs] EXCEPT !.index = index] EXCEPT !.round = round]
    OBVIOUS
  <2>. HIDE DEF w, run, last, runs, index, round
  <2>2. [[[w EXCEPT !.runs = runs] EXCEPT !.index = index] EXCEPT !.round = round] = v
    BY <1>1, WorkGoesOn, Zenon
  <2>. HIDE DEF v
  <2>3. QED
    BY <1>3, <2>1, <2>2, Zenon
<1>5. w.round \in Nat /\ w.index \in 0 .. 5 /\ n \in 1 .. 6
  BY <1>1, BenchAssumption, TheTurn DEF Comparing
<1>6. /\ w.placements \in [1 .. 6 -> SUBSET permitted[p]]
      /\ w.runs \in Seq([policy : 1 .. 6, on : SUBSET permitted[p]])
      /\ \A i \in DOMAIN w.runs : w.placements[w.runs[i].policy] # {} =>
            w.runs[i].on = w.placements[w.runs[i].policy]
  BY <1>1, ThePolicies DEF Comparing, Bounded
<1>7. on \in SUBSET permitted[p] /\ (w.placements[n] # {} => on = w.placements[n])
  BY <1>1, <1>5, <1>6
<1>8. run \in [policy : 1 .. 6, on : SUBSET permitted[p]] /\ run.policy = n /\ run.on = on
  BY <1>5, <1>7
<1>9. /\ v = [does |-> "compare", round |-> v.round, index |-> v.index, runs |-> v.runs,
              placements |-> v.placements]
      /\ v.does = "compare" /\ v.placements = w.placements /\ v.runs = Append(w.runs, run)
      /\ v.index = IF last THEN 0 ELSE w.index + 1
      /\ v.round = IF last THEN w.round + 1 ELSE w.round
  OBVIOUS
<1>10. TurnsCounted(v)
  BY <1>1, <1>7, <1>9, MeasureCounts
<1>. HIDE DEF v, w, n, on, run
<1>11. Bounded(p, v)
  <2>1. v.runs \in Seq([policy : 1 .. 6, on : SUBSET permitted[p]])
    BY <1>6, <1>8, <1>9
  <2>2. ASSUME NEW i \in DOMAIN v.runs, v.placements[v.runs[i].policy] # {}
        PROVE  v.runs[i].on = v.placements[v.runs[i].policy]
    <3>1. CASE i = Len(w.runs) + 1
      <4>1. v.runs[i] = run
        BY <1>6, <1>8, <1>9, <3>1
      <4>2. QED
        BY <1>7, <1>8, <1>9, <2>2, <4>1
    <3>2. CASE i # Len(w.runs) + 1
      <4>1. i \in DOMAIN w.runs /\ v.runs[i] = w.runs[i]
        BY <1>6, <1>8, <1>9, <3>2
      <4>2. QED
        BY <1>6, <1>9, <2>2, <4>1
    <3>3. QED
      BY <3>1, <3>2
  <2>3. QED
    BY <1>6, <1>9, <2>1, <2>2, ThePolicies DEF Bounded
<1>12. v.round \in 0 .. Rounds /\ v.index \in 0 .. 5 /\ (v.round = Rounds => v.index = 0)
  BY <1>1, <1>5, <1>9, BenchAssumption
<1>13. Comparing(p, v)
  BY <1>9, <1>10, <1>11, <1>12 DEF Comparing
<1>14. QED
  BY <1>1, <1>4, <1>7, <1>9, <1>13, StepOfOne

LEMMA EndComparisonKeeps ==
    ASSUME BenchInv, NEW p \in Process, EndComparison(p) \/ ComparisonFails(p) PROVE BenchInv'
<1>1. permitted' = permitted /\ mask' = [mask EXCEPT ![p] = permitted[p]]
  BY DEF EndComparison, ComparisonFails, Pin
<1>2. CASE ComparisonFails(p)
  BY <1>1, <1>2, StepOfOne DEF ComparisonFails, Become, Idle_
<1>3. CASE EndComparison(p)
  <2>. DEFINE w == [does |-> "report", runs |-> work[p].runs, placements |-> work[p].placements]
  <2>1. work' = [work EXCEPT ![p] = w] /\ Comparing(p, work[p]) /\ work[p].round = Rounds
    BY <1>3 DEF EndComparison, Become, Does, BenchInv, Within
  <2>2. w.does = "report" /\ w.runs = work[p].runs /\ w.placements = work[p].placements
    OBVIOUS
  <2>. HIDE DEF w
  <2>3. Bounded(p, w)
    BY <2>1, <2>2 DEF Comparing, Bounded
  <2>4. ASSUME NEW n \in DOMAIN Policies PROVE Cardinality(RunsOf(w.runs, n)) = Rounds
    <3>1. Turn(n, Rounds) \in 0 .. 5 /\ work[p].index = 0
      BY <2>1, ThePolicies, TheTurn, BenchAssumption DEF Comparing
    <3>2. Cardinality(RunsOf(w.runs, n)) = Rounds + (IF Turn(n, Rounds) < 0 THEN 1 ELSE 0)
      BY <2>1, <2>2, <3>1 DEF Comparing, TurnsCounted
    <3>3. QED
      BY <3>1, <3>2, BenchAssumption
  <2>5. QED
    BY <1>1, <2>1, <2>2, <2>3, <2>4, StepOfOne
<1>4. QED
  BY <1>2, <1>3

\* For any CPUs, processes and number of rounds, and whoever else measures or
\* saves a profile meanwhile: a report rests on one run of each policy for each
\* round, placed where the policy said and within the CPUs of its own process
\* (Harness::run_scenario, baselines::decide).
THEOREM ReportsCompareLikeWithLike == BenchSpec => []ReportsAreComparable
<1>1. BenchInit => BenchInv
  BY BenchBegins
<1>2. BenchInv /\ [BenchNext]_benchVars => BenchInv'
  <2>. SUFFICES ASSUME BenchInv, [BenchNext]_benchVars PROVE BenchInv'
    OBVIOUS
  <2>1. CASE UNCHANGED benchVars
    BY <2>1, OthersAreWithin DEF benchVars, BenchInv
  <2>2. CASE BenchNext
    BY <2>2, BenchmarkKeeps, ProfileKeeps, StartComparisonKeeps, MeasurePolicyKeeps,
       EndComparisonKeeps DEF BenchNext
  <2>3. QED
    BY <2>1, <2>2
<1>3. BenchInv => ReportsAreComparable
  <2>. SUFFICES ASSUME BenchInv, NEW p \in Process, Does(p, "report")
                PROVE  /\ mask[p] = permitted[p]
                       /\ \A n \in DOMAIN Policies :
                            /\ Cardinality(RunsOf(work[p].runs, n)) = Rounds
                            /\ \A i \in RunsOf(work[p].runs, n) :
                                 /\ work[p].runs[i].on \subseteq permitted[p]
                                 /\ work[p].placements[n] # {} =>
                                       work[p].runs[i].on = work[p].placements[n]
    BY Zenon DEF ReportsAreComparable, RunsOf
  <2>1. ReportSound(p, work[p])
    BY DEF BenchInv, Within
  <2>2. ASSUME NEW n \in DOMAIN Policies, NEW i \in RunsOf(work[p].runs, n)
        PROVE  /\ work[p].runs[i].on \subseteq permitted[p]
               /\ work[p].placements[n] # {} => work[p].runs[i].on = work[p].placements[n]
    <3>1. i \in DOMAIN work[p].runs /\ work[p].runs[i].policy = n
      BY DEF RunsOf
    <3>2. PICK runs : work[p].runs = runs
      OBVIOUS
    <3>3. runs \in Seq([policy : DOMAIN Policies, on : SUBSET permitted[p]])
      BY <2>1, <3>2, Zenon DEF ReportSound, Bounded
    <3>4. runs[i] \in [policy : DOMAIN Policies, on : SUBSET permitted[p]]
      BY <3>1, <3>2, <3>3, OneOfThem, Zenon
    <3>5. work[p].runs[i].on \subseteq permitted[p]
      BY <3>2, <3>4
    <3>6. QED
      BY <2>1, <3>1, <3>5 DEF ReportSound, Bounded
  <2>3. QED
    BY <2>1, <2>2 DEF ReportSound
<1>4. QED
  BY <1>1, <1>2, <1>3, PTL DEF BenchSpec
=============================================================================
