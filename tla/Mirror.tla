------------------------------- MODULE Mirror -------------------------------
(***************************************************************************)
(* From the machine to a memory of it: the daemon that observes, publishes *)
(* and records (apps/corescout/src/bin/mirror_daemon.rs over               *)
(* substrate/src/reflector.rs), the two roads its reflections take         *)
(* (memory/src/source.rs: the live plane, memory/src/recording.rs: a file) *)
(* and the history at the end of both (memory/src/history.rs).             *)
(*                                                                         *)
(* A reflection is its number and the shape of the machine it was built    *)
(* for.  A read of the plane is one step (Plane.tla shows that much), save *)
(* that a plane laid out and not yet published to is there to be read.     *)
(***************************************************************************)
EXTENDS Sorting, SequencesExt, FiniteSetsExt

CONSTANTS
    Shape,             \* the shapes the machine takes as CPUs come and go
    NoShape,
    SensorRows,        \* whether the sensors of the machine declare rows of their own
    HistoryCapacity,              \* History::capacity
    MaxReflections, MaxStarts   \* bounds

ASSUME MirrorAssumption == SensorRows \in BOOLEAN

VARIABLES
    shape,             \* the machine's
    daemon,            \* the process: its reflector, and where in the loop it is
    made,              \* reflections made so far, which numbers them
    plane,             \* what is published
    buffer, recording, \* Recorder::writer, before the file and the file
    recorded, killed,  \* ghost: what was recorded; the sessions cut short
    reader, history    \* a consumer: its PlaneReader, its History

mirrorVars ==
    <<shape, daemon, made, plane, buffer, recording, recorded, killed, reader,
      history>>

Line(n) == [kind |-> "line", id |-> n]
Fragment(n) == [kind |-> "torn", id |-> n]
NewLine == [kind |-> "newline"]

\* Reflector::build gives every reflector the same epoch.
Epoch == 1

\* PlaneWriter::new: the tables of a shape, and zeros for its state.
LaidOut(s) == [shape |-> s, sequence |-> 0, id |-> 0]
NoPlane == LaidOut(NoShape)

NoReader == [shape |-> NoShape, last |-> -1]
NoHistory == [epoch |-> 0, shape |-> NoShape, frames |-> <<>>]

Ended(d) == [d EXCEPT !.stage = "off"]

MirrorInit ==
    /\ shape \in Shape
    /\ daemon = [stage |-> "off", shape |-> NoShape, sequence |-> 0, session |-> 0]
    /\ made = 0 /\ plane = NoPlane
    /\ buffer = <<>> /\ recording = <<>> /\ recorded = <<>> /\ killed = {}
    /\ reader = NoReader /\ history = NoHistory

-----------------------------------------------------------------------------
(* The recorder.  A BufWriter takes a piece if it fits; otherwise it first  *)
(* passes on what it has, and a piece as large as itself it passes on too.  *)

Put(piece) ==
    \/ buffer' = Append(buffer, piece) /\ UNCHANGED recording
    \/ buffer' = <<piece>> /\ recording' = recording \o buffer
    \/ buffer' = <<>> /\ recording' = Append(recording \o buffer, piece)

Flushed == buffer' = <<>> /\ recording' = recording \o buffer

\* A process killed, or a disk that fills, in the middle of passing on a piece.
CutShort(piece) ==
    LET pending == Append(buffer, piece)
    IN  \E n \in 0 .. Len(buffer) :
            \/ recording' = recording \o SubSeq(pending, 1, n)
            \/ /\ pending[n + 1].kind = "line"
               /\ recording' = recording \o Append(SubSeq(pending, 1, n), Fragment(pending[n + 1].id))

-----------------------------------------------------------------------------
(* The daemon.                                                             *)

Start ==
    /\ daemon.stage = "off" /\ daemon.session < MaxStarts
    /\ daemon' = [stage |-> "ready", shape |-> shape, sequence |-> 1,
                  session |-> daemon.session + 1]
    /\ plane' = LaidOut(shape) /\ buffer' = <<>>
    /\ UNCHANGED <<shape, made, recording, recorded, killed, reader, history>>

\* An observation, by the reflector there was: nothing changed, or the machine
\* could not be discovered again, which counts as no change.
TakeReflection ==
    /\ daemon.stage = "ready" /\ made < MaxReflections
    /\ daemon' = [daemon EXCEPT !.stage = "observed", !.sequence = @ + 1]
    /\ made' = made + 1
    /\ UNCHANGED <<shape, plane, buffer, recording, recorded, killed, reader, history>>

\* Reflector::shape_changed, which takes the rows of the sensors for a change
\* (Reflector.tla).
ShapeHasChanged == daemon.shape # shape \/ SensorRows

\* Another reflector, and the region laid out again.
RebuildMirror ==
    /\ daemon.stage = "ready" /\ made < MaxReflections /\ ShapeHasChanged
    /\ daemon' = [daemon EXCEPT !.stage = "observed", !.shape = shape, !.sequence = 1]
    /\ made' = made + 1 /\ plane' = LaidOut(shape)
    /\ UNCHANGED <<shape, buffer, recording, recorded, killed, reader, history>>

\* The machine cannot be discovered after that: the daemon ends, and its recorder
\* writes what it has.
BuildFails ==
    /\ daemon.stage = "ready" /\ ShapeHasChanged
    /\ daemon' = Ended(daemon) /\ Flushed
    /\ UNCHANGED <<shape, made, plane, recorded, killed, reader, history>>

PublishReflection ==
    /\ daemon.stage = "observed"
    /\ daemon' = [daemon EXCEPT !.stage = "published"]
    /\ plane' = [shape |-> daemon.shape, sequence |-> daemon.sequence, id |-> made]
    /\ UNCHANGED <<shape, made, buffer, recording, recorded, killed, reader, history>>

\* Recorder::record hands over a line and then, separately, its end.
RecordLine ==
    /\ daemon.stage = "published"
    /\ daemon' = [daemon EXCEPT !.stage = "written"]
    /\ recorded' = Append(recorded, [id |-> made, session |-> daemon.session,
                                     shape |-> daemon.shape])
    /\ Put(Line(made))
    /\ UNCHANGED <<shape, made, plane, killed, reader, history>>

RecordEnd ==
    /\ daemon.stage = "written"
    /\ daemon' = [daemon EXCEPT !.stage = "ready"]
    /\ Put(NewLine)
    /\ UNCHANGED <<shape, made, plane, recorded, killed, reader, history>>

\* The last tick it was asked for.
Finish ==
    /\ daemon.stage = "ready" /\ made > 0
    /\ daemon' = Ended(daemon) /\ Flushed
    /\ UNCHANGED <<shape, made, plane, recorded, killed, reader, history>>

\* There is no handler: ctrl-c ends it like any other signal, with what is
\* buffered.  An error of a write ends it too.
Killed ==
    /\ daemon.stage # "off" /\ daemon' = Ended(daemon) /\ buffer' = <<>>
    /\ killed' = killed \cup {daemon.session}
    /\ \/ UNCHANGED recording
       \/ daemon.stage = "published" /\ CutShort(Line(made))
       \/ daemon.stage = "written" /\ CutShort(NewLine)
    /\ UNCHANGED <<shape, made, plane, recorded, reader, history>>

ShapeChanges ==
    /\ daemon.stage # "off" /\ shape' \in Shape \ {shape}
    /\ UNCHANGED <<daemon, made, plane, buffer, recording, recorded, killed, reader, history>>

-----------------------------------------------------------------------------
(* The consumer.                                                           *)

\* The pieces that have a line to themselves; read_line takes a last line that has
\* no end.
Whole(chunks) ==
    {p \in DOMAIN chunks :
        /\ chunks[p].kind = "line"
        /\ p = 1 \/ chunks[p - 1] = NewLine
        /\ p = Len(chunks) \/ chunks[p + 1] = NewLine}

IdsAt(chunks, places) ==
    LET order == Sorted(places) IN [n \in DOMAIN order |-> chunks[order[n]].id]

ReadableMutant(chunks) == \* the first line that does not parse ends the replay
    IdsAt(chunks, {p \in Whole(chunks) :
                    \A q \in 1 .. p : chunks[q] = NewLine \/ q \in Whole(chunks)})

\* Recording::next_snapshot: a line that does not parse is skipped.
Readable(chunks) == IdsAt(chunks, Whole(chunks))

\* History::record (and Experience::record, which is the same).
Remember(h, labels, reflection) ==
    LET seen == IF h.epoch # Epoch
                THEN [epoch |-> Epoch, shape |-> labels, frames |-> <<>>] ELSE h
        frames == Append(seen.frames, reflection)
    IN  [seen EXCEPT !.frames = IF Len(frames) > HistoryCapacity THEN Tail(frames) ELSE frames]

\* Source::live.
Attach ==
    /\ reader = NoReader /\ history = NoHistory /\ plane # NoPlane
    /\ reader' = [shape |-> plane.shape, last |-> -1]
    /\ UNCHANGED <<shape, daemon, made, plane, buffer, recording, recorded, killed, history>>

\* Source::next_reflection on the plane: whatever has another sequence number.
Poll ==
    /\ reader # NoReader /\ plane.sequence # reader.last
    /\ reader' = [reader EXCEPT !.last = plane.sequence]
    /\ history' = Remember(history, reader.shape, plane)
    /\ UNCHANGED <<shape, daemon, made, plane, buffer, recording, recorded, killed>>

\* Nothing new for as long as its patience lasts.
StreamEnds ==
    /\ reader # NoReader /\ plane.sequence = reader.last
    /\ reader' = NoReader /\ history' = NoHistory
    /\ UNCHANGED <<shape, daemon, made, plane, buffer, recording, recorded, killed>>

\* Source::replay, of what is in the file by now.
Replay ==
    /\ reader = NoReader /\ history = NoHistory /\ Readable(recording) # <<>>
    /\ history' = FoldLeft(LAMBDA h, n :
                            LET it == recorded[Max({i \in DOMAIN recorded : recorded[i].id = n})]
                            IN  Remember(h, it.shape, it),
                          NoHistory, Readable(recording))
    /\ UNCHANGED <<shape, daemon, made, plane, buffer, recording, recorded, killed, reader>>

ReplayEnds ==
    /\ reader = NoReader /\ history # NoHistory /\ history' = NoHistory
    /\ UNCHANGED <<shape, daemon, made, plane, buffer, recording, recorded, killed, reader>>

MirrorNext ==
    \/ Start \/ TakeReflection \/ RebuildMirror \/ BuildFails \/ PublishReflection
    \/ RecordLine \/ RecordEnd \/ Finish \/ Killed \/ ShapeChanges
    \/ Attach \/ Poll \/ StreamEnds \/ Replay \/ ReplayEnds

MirrorSpec == MirrorInit /\ [][MirrorNext]_mirrorVars

-----------------------------------------------------------------------------
(* Properties.                                                             *)

MirrorTypeOK ==
    /\ daemon.stage \in {"off", "ready", "observed", "published", "written"}
    /\ daemon.stage = "off" => buffer = <<>>
    /\ plane.id <= made /\ Len(recorded) <= made
    /\ Len(history.frames) <= HistoryCapacity

\* recording.rs:149-152: "losing the whole session because its last line is half
\* there would be a poor trade".  A reflection that was recorded is read again,
\* in its order, unless it is at the end of a session that was killed, or the
\* first of one that was started after such an end.
LossesAreAtTheSeams ==
    LET read == Readable(recording \o buffer)
        lost == {i \in DOMAIN recorded : recorded[i].id \notin ToSet(read)}
        isFirst(i) == i = 1 \/ recorded[i - 1].session # recorded[i].session
    IN  /\ \A i, j \in DOMAIN read : i < j => read[i] < read[j]
        /\ \A i \in lost :
            \/ isFirst(i) /\ \E session \in killed : session < recorded[i].session
            \/ /\ recorded[i].session \in killed
               /\ \A j \in i .. Len(recorded) :
                    recorded[j].session = recorded[i].session => j \in lost

\* experience.rs:72-75: "the entity rows it describes are not the entity rows
\* already stored, and stitching them into one series would silently compare one
\* piece of hardware against another".  What a history holds is of the shape
\* whose tables it holds.
HistoryIsOfOneShape ==
    \A i \in DOMAIN history.frames : history.frames[i].shape = history.shape
=============================================================================
