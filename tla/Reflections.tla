---------------------------- MODULE Reflections ----------------------------
(***************************************************************************)
(* The way a reflection takes through the engine (product-api, engine.rs:  *)
(* record_reflection, persist, forget, open): it is scaled, recognised in  *)
(* the catalogue of latent states (Catalogue.tla), written to the          *)
(* telemetry ring (Ring.tla), and what was learned from it is saved when   *)
(* the timer of the service next asks for it.                              *)
(*                                                                         *)
(* The scaling is fitted once, on the first rows, and saved after the      *)
(* catalogue in a transaction of its own.  It is modelled by its number:   *)
(* two fits are two numbers.  Scaled rows are inputs, as in Catalogue.     *)
(* Requests hold the mutex of the engine, so they do not overlap; `doing'  *)
(* is the write the current one is at, at which it may fail or the service *)
(* may die.  Documents that play no part in this are one write, "rest".    *)
(***************************************************************************)
EXTENDS Ring, Catalogue

CONSTANTS
    FitRows,      \* rows the scaling is fitted on
    TrailLength,  \* TRAIL, samples kept for the live view
    EventCeiling, \* EVENT_CEILING, events kept
    MaxPushes, MaxSeen, MaxFits, MaxEvents  \* bounds: samples, reflections a
        \* catalogue counts, fits, events numbered

ASSUME ReflectionsAssumption ==
    /\ FitRows \in Nat \ {0} /\ TrailLength \in Nat \ {0}
    /\ EventCeiling \in Nat \ {0} /\ MaxStates \in Nat \ {0}

VARIABLES
    catalogue, normalizer, \* Engine::latent; Engine::normalizer, 0 for none
    fitting, previous,     \* rows gathered; whether a reflection came before
    trail,                 \* the latent states of the newest samples
    dirty,
    stored,                \* the documents: [latent, normalizer]
    eventLog,              \* the event log: [first, last, next]; first > last
                           \* when it is empty, next as read by Store::open
    doing,
    fits, scaledBy,        \* ghost: fits so far; the fit the states were found under
    intact                 \* ghost: no forgetting has failed since start-up

learnedVars == <<catalogue, normalizer, fitting, previous, dirty>>
reflectionsVars == <<ringVars, learnedVars, trail, stored, eventLog, doing, fits, scaledBy, intact>>

Fresh == [latent |-> NewCatalogue, normalizer |-> 0]

ReflectionsInit ==
    /\ RingInit
    /\ catalogue = NewCatalogue /\ normalizer = 0 /\ fitting = 0 /\ previous = FALSE
    /\ trail = <<>> /\ dirty = FALSE
    /\ stored = Fresh /\ eventLog = [first |-> 1, last |-> 0, next |-> 1]
    /\ doing = "idle"
    /\ fits = 0 /\ scaledBy = 0 /\ intact = TRUE

-----------------------------------------------------------------------------
(* The event log, storage/src/store.rs.                                    *)

IsEmptyLog(l) == l.first > l.last

\* Store::append: the next number after the last, or the one start-up found
\* when there is none; the front is trimmed to the ceiling.
Appended(l) ==
    LET sequence == IF IsEmptyLog(l) THEN l.next ELSE l.last + 1
        first == IF IsEmptyLog(l) THEN sequence ELSE l.first
    IN  [l EXCEPT !.last = sequence,
                  !.first = IF sequence - first + 1 > EventCeiling
                            THEN sequence - EventCeiling + 1 ELSE first]

\* Engine::note, which ignores a failure to append.
Note ==
    \/ eventLog.last < MaxEvents /\ eventLog' = Appended(eventLog)
    \/ UNCHANGED eventLog

-----------------------------------------------------------------------------
(* record_reflection.                                                      *)

\* The trail keeps the state of each sample, none if it was not recognised.
Kept(state) ==
    LET longer == Append(trail, state)
    IN  trail' = IF Len(longer) > TrailLength THEN Tail(longer) ELSE longer

\* Two reflections of one epoch and one shape with time between them make a
\* row; anything else makes none.
MakesNoRow ==
    /\ UNCHANGED <<catalogue, normalizer, fitting, dirty, eventLog, fits, scaledBy>>
    /\ previous' = TRUE
    /\ Kept({})

GathersBaseline ==
    /\ previous /\ normalizer = 0 /\ UNCHANGED <<previous, catalogue, scaledBy>>
    /\ IF fitting + 1 < FitRows
       THEN /\ fitting' = fitting + 1
            /\ UNCHANGED <<normalizer, dirty, eventLog, fits>>
       ELSE /\ fits < MaxFits
            /\ fits' = fits + 1
            /\ normalizer' = fits + 1 /\ fitting' = 0 /\ dirty' = TRUE
            /\ Note
    /\ Kept({})

RecognisesMutant(nearest, close) == \* a state found is not marked to be saved
    /\ previous /\ normalizer # 0 /\ UNCHANGED <<previous, normalizer, fitting, fits>>
    /\ catalogue.observations < MaxSeen
    /\ nearest \in Positions(catalogue) \/ (catalogue.ids = <<>> /\ ~close)
    /\ catalogue' = Observed(catalogue, nearest, close)
    /\ scaledBy' = IF IsNovel(catalogue, close) THEN normalizer ELSE scaledBy
    /\ IF IsNovel(catalogue, close) THEN Note ELSE UNCHANGED eventLog
    /\ UNCHANGED dirty
    /\ Kept(catalogue'.current)

\* The row is recognised as the state at `nearest', or founds one.
Recognises(nearest, close) ==
    /\ previous /\ normalizer # 0 /\ UNCHANGED <<previous, normalizer, fitting, fits>>
    /\ catalogue.observations < MaxSeen
    /\ nearest \in Positions(catalogue) \/ (catalogue.ids = <<>> /\ ~close)
    /\ catalogue' = Observed(catalogue, nearest, close)
    /\ scaledBy' = IF IsNovel(catalogue, close) THEN normalizer ELSE scaledBy
    /\ IF IsNovel(catalogue, close) THEN Note /\ dirty' = TRUE ELSE UNCHANGED <<eventLog, dirty>>
    /\ Kept(catalogue'.current)

\* The trail is kept last, but nothing can look in between.
RecordReflection ==
    /\ doing = "idle" /\ pushes < MaxPushes
    /\ \/ MakesNoRow \/ GathersBaseline
       \/ \E nearest \in 1 .. MaxStates, close \in BOOLEAN : Recognises(nearest, close)
    /\ doing' = "sample"
    /\ UNCHANGED <<ringVars, stored, intact>>

\* The sample goes to the ring; a failure there is ignored.
PushSample ==
    /\ doing = "sample"
    /\ \/ WriteSample /\ doing' = "cursor"
       \/ SampleFails /\ doing' = "idle"
    /\ UNCHANGED <<learnedVars, trail, stored, eventLog, fits, scaledBy, intact>>

PushCursor ==
    /\ doing = "cursor" /\ doing' = "idle"
    /\ WriteCursor \/ CursorFails
    /\ UNCHANGED <<learnedVars, trail, stored, eventLog, fits, scaledBy, intact>>

-----------------------------------------------------------------------------
(* persist, as far as it concerns what is here.                            *)

\* The timer, or a request that ends in persist.
Persist ==
    /\ doing = "idle" /\ dirty /\ doing' = "latent"
    /\ UNCHANGED <<ringVars, learnedVars, trail, stored, eventLog, fits, scaledBy, intact>>

SaveLatent ==
    /\ doing = "latent" /\ doing' = "normalizer"
    /\ stored' = [stored EXCEPT !.latent = catalogue]
    /\ UNCHANGED <<ringVars, learnedVars, trail, eventLog, fits, scaledBy, intact>>

SaveNormalizer ==
    /\ doing = "normalizer" /\ doing' = "rest"
    /\ stored' = IF normalizer = 0 THEN stored
                 ELSE [stored EXCEPT !.normalizer = normalizer]
    /\ UNCHANGED <<ringVars, learnedVars, trail, eventLog, fits, scaledBy, intact>>

SaveRest ==
    /\ doing = "rest" /\ doing' = "idle" /\ dirty' = FALSE
    /\ UNCHANGED <<ringVars, catalogue, normalizer, fitting, previous, trail, stored,
                   eventLog, fits, scaledBy, intact>>

-----------------------------------------------------------------------------
(* forget(true): the documents kind by kind, the settings last but one;    *)
(* then the memory, the ring and the log; then persist.                    *)

ForgetEverything ==
    /\ doing = "idle" /\ doing' = "clear settings"
    /\ UNCHANGED <<ringVars, learnedVars, trail, stored, eventLog, fits, scaledBy, intact>>

ClearSettings ==
    /\ doing = "clear settings" /\ doing' = "reset"
    /\ stored' = Fresh
    /\ UNCHANGED <<ringVars, learnedVars, trail, eventLog, fits, scaledBy, intact>>

\* The trail, the latest reflection and the one before stay.
ForgetMemory ==
    /\ doing = "reset" /\ doing' = "clear events"
    /\ catalogue' = NewCatalogue /\ normalizer' = 0 /\ fitting' = 0
    /\ ClearRing \/ ClearRingFails
    /\ scaledBy' = 0
    /\ UNCHANGED <<previous, dirty, trail, stored, eventLog, fits, intact>>

ClearEvents ==
    /\ doing = "clear events" /\ doing' = "latent"
    /\ eventLog' = [eventLog EXCEPT !.first = eventLog.last + 1]
    /\ dirty' = TRUE
    /\ UNCHANGED <<ringVars, catalogue, normalizer, fitting, previous, trail, stored,
                   fits, scaledBy, intact>>

\* A transaction that does not commit ends the request; `dirty' stays as it is.
WriteFails ==
    /\ doing \notin {"idle", "sample", "cursor"}
    /\ doing' = "idle"
    /\ intact' = (intact /\ doing # "reset")
    /\ UNCHANGED <<ringVars, learnedVars, trail, stored, eventLog, fits, scaledBy>>

-----------------------------------------------------------------------------
\* The service dies, whatever it was at, and Engine::open reads what is there.
Restart ==
    /\ ReopenRing(doing = "sample")
    /\ catalogue' = stored.latent /\ normalizer' = stored.normalizer
    /\ fitting' = 0 /\ previous' = FALSE /\ trail' = <<>> /\ dirty' = FALSE
    /\ eventLog' = [eventLog EXCEPT !.next =
                        IF IsEmptyLog(eventLog) THEN 1 ELSE eventLog.last + 1]
    /\ doing' = "idle" /\ intact' = TRUE
    /\ scaledBy' = IF stored.latent.ids = <<>> THEN 0 ELSE scaledBy
    /\ UNCHANGED <<stored, fits>>

ReflectionsNext ==
    \/ RecordReflection \/ PushSample \/ PushCursor
    \/ Persist \/ SaveLatent \/ SaveNormalizer \/ SaveRest
    \/ ForgetEverything \/ ClearSettings \/ ForgetMemory \/ ClearEvents
    \/ WriteFails \/ Restart

ReflectionsSpec == ReflectionsInit /\ [][ReflectionsNext]_reflectionsVars

-----------------------------------------------------------------------------
(* Properties.                                                             *)

\* In memory and on disk the catalogue fits together and counts each reflection
\* once (latent.rs, observe; see Catalogue.tla); what is kept of them besides
\* keeps to its ceilings.
ReflectionsCounted ==
    /\ Coherent(catalogue) /\ EveryReflectionCounted(catalogue)
    /\ Coherent(stored.latent) /\ EveryReflectionCounted(stored.latent)
    /\ Len(trail) <= TrailLength /\ eventLog.last + 1 - eventLog.first \in 0 .. EventCeiling

\* Between requests, unless a forgetting was cut short, an engine that has
\* nothing to save has saved which states it knows and how it scales: only the
\* counts may lag (engine.rs: `dirty', set by record_reflection, cleared by persist).
SavedWhenClean ==
    doing = "idle" /\ ~dirty /\ intact =>
        /\ stored.normalizer = normalizer
        /\ stored.latent.ids = catalogue.ids
        /\ stored.latent.nextId = catalogue.nextId

\* normalize.rs: a scaling is "fitted on a window and then applied to later
\* reflections unchanged.  Refitting per window would make two windows
\* incomparable" -- so the states known were found under the scaling in use.
ScalesAgree ==
    catalogue.ids # <<>> /\ normalizer # 0 => scaledBy = normalizer

\* engine.rs, forget: "no record of this machine [...] remains".
NoRecordRemains ==
    doing = "latent" /\ catalogue = NewCatalogue /\ normalizer = 0 => trail = <<>>
=============================================================================
