------------------------------- MODULE Plane -------------------------------
(***************************************************************************)
(* The self-state plane: a region of shared memory that one writer fills   *)
(* (mirror/src/plane/writer.rs) and any number of readers in other         *)
(* processes copy (reader.rs), guarded by a sequence counter.              *)
(*                                                                         *)
(* The region is its counter, the index of the active buffer, two buffers  *)
(* of cells (values and the reasons a value is absent) and the words that  *)
(* exist once (the header's sequence and times, the sensor records).  A    *)
(* word holds the number of the snapshot it was written for, zero for an   *)
(* erased word: that is all consistency can tell apart.  Only the counter  *)
(* is accessed atomically, so the accesses between two of its accesses may *)
(* happen in any order; each is a step of its own.                         *)
(***************************************************************************)
EXTENDS Naturals

CONSTANTS
    Reader,
    Buffered,      \* the words of each buffer
    Single,        \* the words that exist once
    NoView,        \* a reader that has no view yet
    Unsampled,     \* a counter not sampled yet
    Torn,          \* what a view of no one snapshot reads as
    MaxRetries,    \* reader.rs MAX_RETRIES
    LoadsInOrder,  \* whether the copy is complete before the second load of
                   \* the counter: true where the machine and the compiler
                   \* keep loads in order
    MaxPublished   \* bound: snapshots published

\* Stands for the index of the active buffer among the words to copy.
Active == "active"

ASSUME PlaneAssumption ==
    /\ Buffered \cap Single = {} /\ Single # {}
    /\ Active \notin Buffered \cup Single
    /\ MaxRetries \in Nat \ {0} /\ MaxPublished \in Nat /\ LoadsInOrder \in BOOLEAN
    /\ NoView \notin [Buffered \cup Single -> Nat] /\ Unsampled \notin Nat

Word == Buffered \cup Single

VARIABLES
    seq,       \* the counter: odd while a write is in progress
    active,    \* OFF_ACTIVE_BUFFER
    buffer,    \* buffer[b][cell], b \in 0..1
    single,    \* single[word]
    newest,    \* the number of the snapshot the writer was given last
    writer,    \* "idle", "writing", "flipped", or what a rebuild is doing
    unwritten, \* words the writer has still to store
    phase,     \* phase[r]: "idle", "load" or "copy"
    tries,     \* tries[r]: samples of the counter left
    first,     \* first[r]: the counter sampled before the copy
    from,      \* from[r]: the buffer the copy is taken from
    copy,      \* copy[r][word]
    unread,    \* words r has still to copy; "active" stands for the index
    second,    \* second[r]: the counter sampled after the copy
    view       \* view[r]: what read_state last returned

region      == <<seq, active, buffer, single>>
writerVars  == <<newest, writer, unwritten>>
readerVars  == <<phase, tries, first, from, copy, unread, second>>
vars == <<region, writerVars, readerVars, view>>

Empty == [w \in Word |-> 0]

\* A fresh region after write_static: even counter, everything else zero.
Init ==
    /\ seq = 0 /\ active = 0
    /\ buffer = [b \in 0..1 |-> [c \in Buffered |-> 0]]
    /\ single = [w \in Single |-> 0]
    /\ newest = 0 /\ writer = "idle" /\ unwritten = {}
    /\ phase = [r \in Reader |-> "idle"]
    /\ tries = [r \in Reader |-> 0]
    /\ first = [r \in Reader |-> 0]
    /\ from = [r \in Reader |-> 0]
    /\ copy = [r \in Reader |-> Empty]
    /\ unread = [r \in Reader |-> {}]
    /\ second = [r \in Reader |-> Unsampled]
    /\ view = [r \in Reader |-> NoView]

-----------------------------------------------------------------------------
(* PlaneWriter::publish.                                                   *)

Inactive == 1 - active

\* seq | 1
BeginWrite ==
    /\ writer = "idle" /\ newest < MaxPublished
    /\ seq' = IF seq % 2 = 0 THEN seq + 1 ELSE seq
    /\ writer' = "writing" /\ unwritten' = Word
    /\ newest' = newest + 1
    /\ UNCHANGED <<active, buffer, single, readerVars, view>>

Store(w) ==
    /\ writer = "writing" /\ w \in unwritten
    /\ IF w \in Buffered
         THEN /\ buffer' = [buffer EXCEPT ![Inactive][w] = newest]
              /\ UNCHANGED single
         ELSE /\ single' = [single EXCEPT ![w] = newest]
              /\ UNCHANGED buffer
    /\ unwritten' = unwritten \ {w}
    /\ UNCHANGED <<seq, active, newest, writer, readerVars, view>>

FlipMutant == \* the index is left alone
    /\ writer = "writing" /\ unwritten = {}
    /\ writer' = "flipped"
    /\ UNCHANGED <<region, newest, unwritten, readerVars, view>>

Flip ==
    /\ writer = "writing" /\ unwritten = {}
    /\ active' = Inactive
    /\ writer' = "flipped"
    /\ UNCHANGED <<seq, buffer, single, newest, unwritten, readerVars, view>>

EndWrite ==
    /\ writer = "flipped"
    /\ seq' = seq + 1
    /\ writer' = "idle"
    /\ UNCHANGED <<active, buffer, single, newest, unwritten, readerVars, view>>

\* The mirror dies in the middle of a write; the region stays as it is.
WriterDies ==
    /\ writer \in {"writing", "flipped"}
    /\ writer' = "dead"
    /\ UNCHANGED <<region, newest, unwritten, readerVars, view>>

-----------------------------------------------------------------------------
(* PlaneReader::read_state.                                                *)

StartRead(r) ==
    /\ phase[r] = "idle"
    /\ phase' = [phase EXCEPT ![r] = "load"]
    /\ tries' = [tries EXCEPT ![r] = MaxRetries]
    /\ UNCHANGED <<region, writerVars, first, from, copy, unread, second, view>>

RetryMutant(r) == \* the attempt is not counted
    /\ tries' = tries
    /\ phase' = [phase EXCEPT ![r] = "load"]
    /\ UNCHANGED view

\* What is left of a read when one sample of the counter has been used up.
Retry(r) ==
    /\ tries' = [tries EXCEPT ![r] = @ - 1]
    /\ phase' = [phase EXCEPT ![r] = "load"]
    /\ UNCHANGED view

GiveUp(r) ==
    /\ phase[r] = "load" /\ tries[r] = 0
    /\ phase' = [phase EXCEPT ![r] = "idle"]
    /\ UNCHANGED <<region, writerVars, tries, first, from, copy, unread, second, view>>

LoadOdd(r) ==
    /\ phase[r] = "load" /\ tries[r] > 0 /\ seq % 2 # 0
    /\ Retry(r)
    /\ UNCHANGED <<region, writerVars, first, from, copy, unread, second>>

LoadFirst(r) ==
    /\ phase[r] = "load" /\ tries[r] > 0 /\ seq % 2 = 0
    /\ first' = [first EXCEPT ![r] = seq]
    /\ phase' = [phase EXCEPT ![r] = "copy"]
    /\ unread' = [unread EXCEPT ![r] = Word \cup {Active}]
    /\ UNCHANGED <<region, writerVars, tries, from, copy, second, view>>

\* The index comes first: it says where the cells are.
CopyActive(r) ==
    /\ phase[r] = "copy" /\ Active \in unread[r]
    /\ from' = [from EXCEPT ![r] = active]
    /\ unread' = [unread EXCEPT ![r] = @ \ {Active}]
    /\ UNCHANGED <<region, writerVars, phase, tries, first, copy, second, view>>

CopyWord(r, w) ==
    /\ phase[r] = "copy" /\ w \in unread[r] /\ Active \notin unread[r]
    /\ copy' = [copy EXCEPT ![r][w] =
                  IF w \in Buffered THEN buffer[from[r]][w] ELSE single[w]]
    /\ unread' = [unread EXCEPT ![r] = @ \ {w}]
    /\ UNCHANGED <<region, writerVars, phase, tries, first, from, second, view>>

LoadSecond(r) ==
    /\ phase[r] = "copy" /\ second[r] = Unsampled
    /\ LoadsInOrder => unread[r] = {}
    /\ second' = [second EXCEPT ![r] = seq]
    /\ UNCHANGED <<region, writerVars, phase, tries, first, from, copy, unread, view>>

DecideMutant(r) == \* any even counter will do
    /\ phase[r] = "copy" /\ unread[r] = {} /\ second[r] # Unsampled
    /\ IF second[r] % 2 = 0
         THEN /\ view' = [view EXCEPT ![r] = copy[r]]
              /\ phase' = [phase EXCEPT ![r] = "idle"]
              /\ tries' = [tries EXCEPT ![r] = 0]
         ELSE Retry(r)
    /\ second' = [second EXCEPT ![r] = Unsampled]
    /\ copy' = [copy EXCEPT ![r] = Empty]
    /\ from' = [from EXCEPT ![r] = 0]
    /\ UNCHANGED <<region, writerVars, first, unread>>

Decide(r) ==
    /\ phase[r] = "copy" /\ unread[r] = {} /\ second[r] # Unsampled
    /\ IF second[r] = first[r]
         THEN /\ view' = [view EXCEPT ![r] = copy[r]]
              /\ phase' = [phase EXCEPT ![r] = "idle"]
              /\ tries' = [tries EXCEPT ![r] = 0]
         ELSE Retry(r)
    /\ second' = [second EXCEPT ![r] = Unsampled]
    /\ copy' = [copy EXCEPT ![r] = Empty]
    /\ from' = [from EXCEPT ![r] = 0]
    /\ UNCHANGED <<region, writerVars, first, unread>>

-----------------------------------------------------------------------------
WriterStep == BeginWrite \/ (\E w \in Word : Store(w)) \/ Flip \/ EndWrite

ReaderStep(r) ==
    \/ GiveUp(r) \/ LoadOdd(r) \/ LoadFirst(r)
    \/ CopyActive(r) \/ (\E w \in Word : CopyWord(r, w))
    \/ LoadSecond(r) \/ Decide(r)

Next ==
    \/ WriterStep \/ WriterDies
    \/ \E r \in Reader : StartRead(r) \/ ReaderStep(r)

\* One epoch: the region is laid out once.
Spec == Init /\ [][Next]_vars

\* A consumer's thread keeps running while it is in read_state.
FairSpec == Spec /\ \A r \in Reader : WF_vars(ReaderStep(r))

-----------------------------------------------------------------------------
(* A change of epoch, or a mirror started again: PlaneWriter::new maps the *)
(* same file and write_static lays it out afresh under the readers that    *)
(* have it mapped, first erasing it from the header on.                    *)

Rebuild ==
    /\ writer \in {"idle", "dead"}
    /\ seq' = 0 /\ active' = 0
    /\ writer' = "erasing" /\ unwritten' = Word
    /\ UNCHANGED <<buffer, single, newest, readerVars, view>>

Erase(w) ==
    /\ writer = "erasing" /\ w \in unwritten
    /\ IF w \in Buffered
         THEN /\ buffer' = [b \in 0..1 |-> [buffer[b] EXCEPT ![w] = 0]]
              /\ UNCHANGED single
         ELSE /\ single' = [single EXCEPT ![w] = 0]
              /\ UNCHANGED buffer
    /\ unwritten' = unwritten \ {w}
    /\ UNCHANGED <<seq, active, newest, writer, readerVars, view>>

EndRebuild ==
    /\ writer = "erasing" /\ unwritten = {}
    /\ seq' = 0 /\ writer' = "idle"
    /\ UNCHANGED <<active, buffer, single, newest, unwritten, readerVars, view>>

NextWithRebuild == Next \/ Rebuild \/ (\E w \in Word : Erase(w)) \/ EndRebuild

SpecWithRebuild == Init /\ [][NextWithRebuild]_vars

-----------------------------------------------------------------------------
(* Properties.                                                             *)

WriterTypeOK ==
    /\ seq \in Nat /\ active \in 0..1
    /\ buffer \in [0..1 -> [Buffered -> Nat]] /\ single \in [Single -> Nat]
    /\ newest \in Nat /\ unwritten \subseteq Word
    /\ writer \in {"idle", "writing", "flipped", "dead", "erasing"}

ReaderTypeOK ==
    /\ phase \in [Reader -> {"idle", "load", "copy"}]
    /\ tries \in [Reader -> 0..MaxRetries]
    /\ first \in [Reader -> Nat] /\ from \in [Reader -> 0..1]
    /\ copy \in [Reader -> [Word -> Nat]]
    /\ unread \in [Reader -> SUBSET (Word \cup {Active})]
    /\ second \in [Reader -> Nat \cup {Unsampled}]
    /\ view \in [Reader -> [Word -> Nat] \cup {NoView}]

\* Every variable keeps its type; the retries left never go below zero.
TypeOK == WriterTypeOK /\ ReaderTypeOK

\* What read_state returns is one snapshot, never words of two
\* (memory.rs: "any read that overlapped a write is detected by the sequence
\* check and discarded").
Whole(v) == \E n \in 0..newest : \A w \in Word : v[w] = n

ViewIsWhole == \A r \in Reader : view[r] # NoView => Whole(view[r])

\* The plane is an atomic register: within one epoch a read returns the
\* snapshot that was current when the read last sampled an even counter.
NumberOf(v) ==
    IF v = NoView THEN NoView
    ELSE IF Whole(v) THEN v[CHOOSE w \in Word : TRUE]
    ELSE Torn

Snapshot == INSTANCE AtomicSnapshot WITH
    current <- seq \div 2,
    sampled <- [r \in Reader |-> first[r] \div 2],
    view    <- [r \in Reader |-> NumberOf(view[r])]

ImplementsSnapshot == Snapshot!Spec

\* A read ends, with a view or a refusal, however the writer publishes and
\* even if it died in the middle of a write (reader.rs: "Retries are bounded").
ReadEnds == \A r \in Reader : phase[r] # "idle" ~> phase[r] = "idle"

=============================================================================
