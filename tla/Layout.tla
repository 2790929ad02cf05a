-------------------------------- MODULE Layout --------------------------------
(***************************************************************************)
(* Where things are in the self-state plane (mirror/src/plane/layout.rs):  *)
(* the writer computes it, makes the file that long and writes the header  *)
(* and the tables (writer.rs, memory.rs); a reader maps the file whenever  *)
(* it likes, checks the header and reads the tables (reader.rs).           *)
(*                                                                         *)
(* Offsets are words of four bytes in the header and truncated to them.    *)
(* Here a word counts to WordRange, small enough for a plane too large for *)
(* it.  Only the offsets may be: what is counted fits a word of its own.   *)
(***************************************************************************)
EXTENDS Integers, SequencesExt

CONSTANTS
    WordRange,         \* 2^32 in the code
    ShapeOf,           \* counts a machine may have
    MaxLayouts         \* bound: times the region is laid out

ASSUME WordAssumption == WordRange \in Nat /\ WordRange % 64 = 0 /\ WordRange > 256

\* A machine has an entity, itself, and a channel as soon as one sensor could be
\* bound (Reflector::build_at_epoch).  Of one without channels a header that is
\* being cleared may pass for whole: nothing it says of the matrix can be wrong.
ASSUME ShapeAssumption ==
    /\ ShapeOf # {}
    /\ \A s \in ShapeOf : /\ s.entities \in 1 .. WordRange - 1 /\ s.channels \in 1 .. WordRange - 1
                          /\ {s.relations, s.strings, s.sensors} \subseteq 0 .. WordRange - 1

VARIABLES
    making,            \* the shape being laid out, and how far it has got
    bytes,             \* the file: its length, its header, whose tables it has
    opened,            \* a reader: its stage, and what it copied of the header
    laid               \* times the region has been laid out

layoutVars == <<making, bytes, opened, laid>>

HeaderBytes == 256

Align(n) == ((n + 63) \div 64) * 64

\* The nine sections in their order: entities, channels, relations, strings,
\* sensors, two buffers of the matrix, two of the reasons.
Sizes(s) ==
    LET cells == s.entities * s.channels
    IN  <<32 * s.entities, 32 * s.channels, 48 * s.relations, s.strings, 64 * s.sensors,
          8 * cells, 8 * cells, cells, cells>>

\* Layout::compute: where each starts, and where the last one ends.
Starts(s) ==
    LET start[k \in 1 .. 10] ==
            IF k = 1 THEN HeaderBytes ELSE Align(start[k - 1] + Sizes(s)[k - 1])
    IN  start

Total(s) == Starts(s)[10]

\* The fields of the header that matter here, in the order write_header has.
Fields == <<"magic", "entities", "channels", "relations", "sensors", "tables",
            "strings", "state", "stride", "avail", "availBytes">>

Zeros ==
    [magic |-> FALSE, entities |-> 0, channels |-> 0, relations |-> 0, sensors |-> 0,
     tables |-> <<0, 0, 0, 0, 0>>, strings |-> 0, state |-> <<0, 0>>, stride |-> 0,
     avail |-> <<0, 0>>, availBytes |-> 0]

\* What a shape puts in them: everything is cut to a word.
HeaderOf(s) ==
    LET cut(n) == n % WordRange
        at(from, to) == [k \in 1 .. to - from + 1 |-> cut(Starts(s)[from + k - 1])]
    IN  [magic |-> TRUE, entities |-> cut(s.entities), channels |-> cut(s.channels),
         relations |-> cut(s.relations), sensors |-> cut(s.sensors),
         tables |-> at(1, 5), strings |-> cut(s.strings), state |-> at(6, 7),
         stride |-> cut(8 * s.channels), avail |-> at(8, 9),
         availBytes |-> cut(s.entities * s.channels)]

LayoutInit ==
    /\ making = [shape |-> CHOOSE s \in ShapeOf : TRUE, next |-> 0]
    /\ bytes = [len |-> 0, header |-> Zeros, tables |-> {}]
    /\ opened = [stage |-> "none"] /\ laid = 0

-----------------------------------------------------------------------------
(* What a reader makes of a header.                                        *)

\* The ranges it will read: where they start and how long they are.  The length
\* of the matrix is the one product that is computed in words, and saturates.
Ranges(h) ==
    LET state == IF h.entities * h.stride < WordRange THEN h.entities * h.stride ELSE WordRange - 1
        lengths == <<32 * h.entities, 32 * h.channels, 48 * h.relations, h.strings,
                     64 * h.sensors, state, state, h.availBytes, h.availBytes>>
        starts == h.tables \o h.state \o h.avail
    IN  [k \in 1 .. 9 |-> [start |-> starts[k], end |-> starts[k] + lengths[k]]]

AcceptsMutant(h, available) == \* the end of a section is computed in words
    /\ h.magic
    /\ \A k \in 1 .. 9 : Ranges(h)[k].end % WordRange <= available
    /\ h.stride = 8 * h.channels
    /\ h.availBytes = h.entities * h.channels

\* from_header and validate.
Accepts(h, available) ==
    /\ h.magic
    /\ \A k \in 1 .. 9 : Ranges(h)[k].end <= available
    /\ h.stride = 8 * h.channels
    /\ h.availBytes = h.entities * h.channels

-----------------------------------------------------------------------------
(* The writer.  `next` is 0 when there is none, 1 once the file has its     *)
(* length, 2 once it has been filled with zeros, then the fields in turn.   *)

FieldAt == making.next - 1
AllFields == Len(Fields) + 2
Tabled == AllFields + 1

\* PlaneMemory::create: the file is cut or made longer, as long as the plane is
\* said to be.  What it held, it goes on holding.
SizeFile ==
    /\ making.next \in {0, Tabled} /\ laid < MaxLayouts /\ laid' = laid + 1
    /\ \E s \in ShapeOf :
        /\ making' = [shape |-> s, next |-> 1]
        /\ bytes' = [bytes EXCEPT !.len = Total(s) % WordRange]
    /\ UNCHANGED opened

\* write_static: a file too short for a header ends the process.
ClearFile ==
    /\ making.next = 1 /\ bytes.len >= HeaderBytes
    /\ making' = [making EXCEPT !.next = 2]
    /\ bytes' = [bytes EXCEPT !.header = Zeros, !.tables = {}]
    /\ UNCHANGED <<opened, laid>>

WriteField ==
    /\ making.next \in 2 .. AllFields - 1
    /\ LET field == Fields[FieldAt]
       IN  bytes' = [bytes EXCEPT !.header[field] = HeaderOf(making.shape)[field]]
    /\ making' = [making EXCEPT !.next = @ + 1]
    /\ UNCHANGED <<opened, laid>>

\* The tables, each within the file or else the process ends.
WriteTables ==
    /\ making.next = AllFields
    /\ \A k \in 1 .. 5 : HeaderOf(making.shape).tables[k] + Sizes(making.shape)[k] <= bytes.len
    /\ making' = [making EXCEPT !.next = Tabled]
    /\ bytes' = [bytes EXCEPT !.tables = {making.shape}]
    /\ UNCHANGED <<opened, laid>>

\* Killed, or out of bounds.
WriterEnds ==
    /\ making.next # 0 /\ making' = [making EXCEPT !.next = 0]
    /\ UNCHANGED <<bytes, opened, laid>>

-----------------------------------------------------------------------------
(* A reader.                                                               *)

\* PlaneMemory::open_read_only, and the first fields of from_header.
MapFile ==
    /\ opened.stage = "none" /\ bytes.len >= HeaderBytes /\ bytes.header.magic
    /\ opened' = [stage |-> "reading", len |-> bytes.len, header |-> bytes.header,
                  whole |-> bytes.header = HeaderOf(making.shape), laid |-> laid,
                  tables |-> {}]
    /\ UNCHANGED <<making, bytes, laid>>

\* The rest of them, with a writer perhaps further by now.
ReadHeader ==
    /\ opened.stage = "reading"
    /\ LET h == [f \in DOMAIN Zeros |->
                    IF f \in {"magic", "entities", "channels"} THEN opened.header[f]
                    ELSE bytes.header[f]]
       IN  opened' = IF Accepts(h, opened.len)
                     THEN [opened EXCEPT !.stage = "accepted", !.header = h]
                     ELSE [stage |-> "none"]
    /\ UNCHANGED <<making, bytes, laid>>

\* decode_static: once, and kept.
ReadTables ==
    /\ opened.stage = "accepted"
    /\ opened' = [opened EXCEPT !.stage = "attached", !.tables = bytes.tables]
    /\ UNCHANGED <<making, bytes, laid>>

CloseReader ==
    /\ opened.stage \in {"accepted", "attached"} /\ opened' = [stage |-> "none"]
    /\ UNCHANGED <<making, bytes, laid>>

LayoutNext ==
    \/ SizeFile \/ ClearFile \/ WriteField \/ WriteTables \/ WriterEnds
    \/ MapFile \/ ReadHeader \/ ReadTables \/ CloseReader

LayoutSpec == LayoutInit /\ [][LayoutNext]_layoutVars

-----------------------------------------------------------------------------
(* Properties.                                                             *)

LayoutTypeOK ==
    /\ making.next \in 0 .. Tabled /\ bytes.len \in 0 .. WordRange - 1
    /\ opened.stage \in {"none", "reading", "accepted", "attached"}

\* layout.rs:253-255: "Validating the header before trusting its offsets is what
\* stops a corrupt or truncated plane from turning into an out-of-bounds read."
\* Whatever the writer was doing, a reader that took the header reads inside what
\* it mapped; and a header that was all there when it began, and not laid out
\* again, has lost nothing to the width of a word: its sections lie one after
\* the other.
OpenedIsSound ==
    opened.stage \in {"accepted", "attached"} =>
        LET r == Ranges(opened.header)
        IN  /\ \A k \in 1 .. 9 : r[k].end <= opened.len
            /\ opened.whole /\ opened.laid = laid =>
                \A k \in 1 .. 8 : r[k].start >= HeaderBytes /\ r[k].end <= r[k + 1].start

\* layout.rs:32-34: entities, relations and channels "are written once per epoch
\* and can be cached by a consumer for as long as the epoch number holds".  What
\* a reader cached is what is there.
CachedTablesHold == opened.stage = "attached" => opened.tables = bytes.tables

\* memory.rs: a mapping is as long as the file it is of, or reading it is a fault.
MappingHolds == opened.stage # "none" => opened.len <= bytes.len
=============================================================================
