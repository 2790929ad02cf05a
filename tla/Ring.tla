-------------------------------- MODULE Ring --------------------------------
(***************************************************************************)
(* The telemetry ring of storage/src/ring.rs: a file of Capacity slots and *)
(* a cursor, the number of samples ever written, of which the process      *)
(* keeps its own copy.                                                     *)
(*                                                                         *)
(* A push writes the sample, then advances the copy, then writes the       *)
(* cursor.  Either write may fail, which ends the push, and the process    *)
(* may die between the two or within the first, which leaves a slot that   *)
(* is neither the old sample nor the new.  A sample is the number of its   *)
(* push since the file was created, which is all that telling them apart   *)
(* takes; its encoding in 64 bytes, and the smallest capacity the code     *)
(* accepts, are left out.                                                  *)
(***************************************************************************)
EXTENDS Naturals, Sequences

CONSTANT Capacity

ASSUME CapacityAssumption == Capacity \in Nat \ {0}

VARIABLES
    slots,     \* the file: what each slot holds
    cursor,    \* the file: the cursor in the header
    written,   \* Ring::written, the copy of the process
    pushes,    \* ghost: samples pushed, the number of the last one
    intended,  \* ghost: intended[i + 1] is the sample pushed as number i
    behind,    \* ghost: the most the cursor was ever behind, while it matters
    uncleared  \* ghost: the samples were cleared but the cursor not written

ringVars == <<slots, cursor, written, pushes, intended, behind, uncleared>>

Slot == 0 .. Capacity - 1
Torn == 0          \* no sample: the slot was being written
Sample == Nat \ {Torn}

RingInit ==
    /\ slots = [k \in Slot |-> Torn]
    /\ cursor = 0 /\ written = 0
    /\ pushes = 0 /\ intended = <<>> /\ behind = 0 /\ uncleared = FALSE

Larger(a, b) == IF a >= b THEN a ELSE b
Smaller(a, b) == IF a <= b THEN a ELSE b

RingLen == Smaller(written, Capacity)

\* The samples `recent' returns, as positions: the newest RingLen of them.
Readable == (written - RingLen) .. (written - 1)

ReadAt(i) == slots[i % Capacity]

WriteSample ==
    /\ slots' = [slots EXCEPT ![written % Capacity] = pushes + 1]
    /\ pushes' = pushes + 1
    /\ intended' = Append(SubSeq(intended, 1, written), pushes + 1)
    /\ written' = written + 1
    /\ UNCHANGED <<cursor, behind, uncleared>>

\* The write of the sample fails, perhaps after part of it was written.
SampleFails ==
    /\ \/ slots' = [slots EXCEPT ![written % Capacity] = Torn]
       \/ slots' = slots
    /\ UNCHANGED <<cursor, written, pushes, intended, behind, uncleared>>

WriteCursorMutant == \* the old count, as if the cursor were written first
    /\ cursor' = (IF written > 1 THEN written - 2 ELSE 0) /\ uncleared' = FALSE
    /\ UNCHANGED <<slots, written, pushes, intended, behind>>

WriteCursor ==
    /\ cursor' = written /\ uncleared' = FALSE
    /\ UNCHANGED <<slots, written, pushes, intended, behind>>

CursorFails ==
    /\ behind' = Larger(behind, IF written > cursor THEN written - cursor ELSE 0)
    /\ UNCHANGED <<slots, cursor, written, pushes, intended, uncleared>>

\* Ring::clear.  Nothing is erased: the cursor goes back to the start.
ClearRing ==
    /\ written' = 0 /\ cursor' = 0
    /\ intended' = <<>> /\ behind' = 0 /\ uncleared' = FALSE
    /\ UNCHANGED <<slots, pushes>>

ClearRingFails ==
    /\ written' = 0 /\ intended' = <<>>
    /\ uncleared' = TRUE
    /\ UNCHANGED <<slots, cursor, pushes, behind>>

\* Ring::open, after the process has died; `writing' when it died in a push
\* that had not written its sample.
ReopenRing(writing) ==
    /\ \/ writing /\ slots' = [slots EXCEPT ![written % Capacity] = Torn]
       \/ slots' = slots
    /\ written' = cursor
    /\ intended' = IF uncleared  \* the cleared samples are back
                   THEN [i \in 1 .. cursor |-> slots'[(i - 1) % Capacity]]
                   ELSE SubSeq(intended, 1, Smaller(cursor, Len(intended)))
    /\ uncleared' = FALSE
    /\ UNCHANGED <<cursor, pushes, behind>>

\* What can be read is what was pushed, in order.  A process that dies loses
\* the sample it was writing, and once the ring has wrapped the oldest with it,
\* because that is the slot being written; each further push whose cursor was
\* not written in time costs one more of the oldest.  Nothing newer suffers
\* (ring.rs, push and "What a torn write looks like").  The code says less is
\* lost: InterruptedLosesOnlyItself.
RingLosesOnlyTheOldest ==
    uncleared \/ \A i \in Readable :
        \/ ReadAt(i) = intended[i + 1]
        \/ i + Capacity <= written + behind

\* ring.rs:228-229: "an interrupted append loses only itself", and 20-22: a
\* crash "never corrupts an older one" -- so while every cursor was written
\* what can be read is what was pushed, the oldest included.
InterruptedLosesOnlyItself ==
    ~uncleared /\ behind = 0 => \A i \in Readable : ReadAt(i) = intended[i + 1]
=============================================================================
