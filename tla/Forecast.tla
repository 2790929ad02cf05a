------------------------------ MODULE Forecast ------------------------------
(***************************************************************************)
(* The model of itself that a loop keeps (selfmodel/src/predictor.rs and   *)
(* uncertainty.rs) and the surprise it takes from it (anomaly.rs), as a    *)
(* tick of the loop calls them (autonomy/src/loop_.rs).                    *)
(*                                                                         *)
(* A number is represented by where it comes from: a value by the          *)
(* reflection that showed it, a change by the two it lies between, a fit by *)
(* the pairs of changes it was computed from, and an error by the          *)
(* reflection that showed it and what the prediction rested on.            *)
(***************************************************************************)
EXTENDS Integers, Sequences, FiniteSets

CONSTANTS
    Cell,              \* cells a state may have: a row and a column
    Epochs,             \* epochs a snapshot may bear
    MaxObserved        \* bound: reflections observed

ASSUME ForecastAssumption == Epochs \subseteq Nat \ {0} /\ MaxObserved \in Nat

VARIABLES
    cells,             \* SelfModel::cells
    modelEpoch,        \* SelfModel::epoch, 0 for none
    typical,           \* AnomalyDetector::typical, as the errors it is made of
    anomalyEpoch,      \* AnomalyDetector::epoch, 0 for none
    panicked,          \* a cell was asked for that the state does not have
    shown              \* ghost: the reflections observed

forecastVars ==
    <<cells, modelEpoch, typical, anomalyEpoch, panicked, shown>>

None == 0              \* no value; reflections count from one
NoChange == <<>>
Nothing == [c \in {} |-> None]

\* A state has cells, and a gap where one of them has no value.  A recording that is
\* replayed may hold sessions of several shapes under one epoch (Mirror).
Reflection ==
    {r \in [epoch : Epochs, has : SUBSET Cell, gaps : SUBSET Cell] : r.has \cap r.gaps = {}}

CellsOf(r) == r.has \cup r.gaps

\* CellModel::new.
NewCell == [last |-> None, delta |-> NoChange, fit |-> {}, samples |-> {}]

ForecastInit ==
    /\ cells = Nothing /\ modelEpoch = 0
    /\ typical = Nothing /\ anomalyEpoch = 0
    /\ panicked = FALSE /\ shown = <<>>

\* MirrorState::get outside the state is an index out of bounds: cells are lost by
\* rows, which are last in the order they are kept in.
Reaches(asked, r) == asked \subseteq CellsOf(r)

-----------------------------------------------------------------------------
(* CellModel and Confidence.                                               *)

GapMutant(cell) == [cell EXCEPT !.last = None]   \* the change before the hole stays

\* CellModel::observe, where the cell has no value.
Gap(cell) == [cell EXCEPT !.last = None, !.delta = NoChange]

\* CellModel::observe and refit, where it has one.
Folded(cell, now) ==
    LET change == <<cell.last, now>>
    IN  IF cell.last = None THEN [cell EXCEPT !.last = now]
        ELSE [cell EXCEPT !.last = now, !.delta = change,
                          !.fit = IF cell.delta = NoChange THEN @
                                  ELSE @ \cup {<<cell.delta, change>>}]

\* CellModel::predict and SelfModel::predict_next: without a last value there
\* is nothing to go on.
Predictions ==
    [c \in {d \in DOMAIN cells : cells[d].last # None} |->
        [after |-> cells[c].last, change |-> cells[c].delta, fit |-> cells[c].fit]]

\* Confidence::interval: the first three errors go by before a prediction is told.
Told ==
    LET enough == {c \in DOMAIN Predictions : Cardinality(cells[c].samples) > 2}
    IN  [c \in enough |-> Predictions[c]]

\* Confidence::observe: what a prediction and the reflection after it make.
Error(prediction, now) == [about |-> now, of |-> prediction]

-----------------------------------------------------------------------------
(* AnomalyDetector and SelfModel.                                          *)

\* AnomalyDetector::assess: every prediction of which the state has the value.
Assessed(predictions, r, now) ==
    LET kept == IF anomalyEpoch = r.epoch THEN typical ELSE Nothing
        judged == DOMAIN predictions \cap r.has
    IN  [c \in DOMAIN kept \cup judged |->
            (IF c \in DOMAIN kept THEN kept[c] ELSE {})
                \cup (IF c \in judged THEN {Error(predictions[c], now)} ELSE {})]

\* SelfModel::observe.  Another epoch is another machine, ...
Continued(r) ==
    IF modelEpoch = r.epoch THEN cells ELSE [c \in CellsOf(r) |-> NewCell]

StillWaiting(predictions, r) == IF modelEpoch = r.epoch THEN predictions ELSE Nothing

\* ... what was predicted is scored, ...
Scored(kept, waiting, r, now) ==
    [c \in DOMAIN kept |->
        IF c \in DOMAIN waiting \cap r.has
        THEN [kept[c] EXCEPT !.samples = @ \cup {Error(waiting[c], now)}] ELSE kept[c]]

\* ... and then the reflection is learned from, in the cells known since the
\* epoch began.
Learned(scored, r, now) ==
    [c \in DOMAIN scored |-> IF c \in r.has THEN Folded(scored[c], now) ELSE Gap(scored[c])]

ObserveReflection(predictions, r) ==
    LET now == Len(shown) + 1
        waiting == StillWaiting(predictions, r)
    IN  /\ Reaches(DOMAIN Continued(r) \cup DOMAIN waiting, r)
        /\ cells' = Learned(Scored(Continued(r), waiting, r, now), r, now)
        /\ modelEpoch' = r.epoch
        /\ shown' = Append(shown, r)

\* ControlLoop::tick: predict, be surprised by what was told, observe.  The
\* predictions that wait to be scored (SelfModel::pending) are made and scored
\* within it.
TickForecast(r) ==
    /\ Reaches(DOMAIN Told, r)
    /\ typical' = Assessed(Told, r, Len(shown) + 1) /\ anomalyEpoch' = r.epoch
    /\ ObserveReflection(Predictions, r)
    /\ UNCHANGED panicked

TickPanics(r) ==
    /\ ~Reaches(DOMAIN Told \cup DOMAIN Continued(r), r)
    /\ panicked' = TRUE
    /\ UNCHANGED <<cells, modelEpoch, typical, anomalyEpoch, shown>>

ForecastNext ==
    /\ ~panicked /\ Len(shown) < MaxObserved
    /\ \E r \in Reflection : TickForecast(r) \/ TickPanics(r)

ForecastSpec == ForecastInit /\ [][ForecastNext]_forecastVars

-----------------------------------------------------------------------------
Between(i, j) == <<i, j>>

ForecastTypeOK ==
    /\ DOMAIN cells \cup DOMAIN typical \subseteq Cell
    /\ \A c \in DOMAIN cells : cells[c].last \in 0 .. Len(shown)
    /\ {modelEpoch, anomalyEpoch} \subseteq Epochs \cup {0}
    /\ panicked \in BOOLEAN
    /\ shown \in Seq(Reflection)

\* The reflections from one to another show the cell, on one machine.
Measured(c, first, last) ==
    \A k \in first .. last : c \in shown[k].has /\ shown[k].epoch = modelEpoch

\* A coefficient is fitted to changes between neighbouring reflections, never
\* across a hole or into another epoch; and a prediction is graded once, by the
\* reflection right after the one it was made from, having learned from none but
\* those before.
ForecastIsHonest ==
    \A c \in DOMAIN cells :
        /\ \A pair \in cells[c].fit : \E k \in 3 .. Len(shown) :
            pair = <<Between(k - 2, k - 1), Between(k - 1, k)>> /\ Measured(c, k - 2, k)
        /\ \A e \in cells[c].samples :
            /\ e.about = e.of.after + 1 /\ Measured(c, e.of.after, e.about)
            /\ \A pair \in e.of.fit : pair[2][2] <= e.of.after
        /\ \A e1, e2 \in cells[c].samples : e1.about = e2.about => e1 = e2

\* predictor.rs, of an epoch: what was learned describes hardware that may no
\* longer be there.  A surprise is about the machine that was predicted.
SurpriseIsOfOneMachine ==
    \A c \in DOMAIN typical : \A e \in typical[c] :
        shown[e.of.after].epoch = shown[e.about].epoch

\* A smaller machine is a change of shape and not the end of the loop.
LoopOutlivesTheShape == ~panicked
=============================================================================
