----------------------------- MODULE Catalogue -----------------------------
(***************************************************************************)
(* The catalogue of latent states of represent/src/latent.rs: states the   *)
(* machine was seen to return to, how often, and from where.               *)
(*                                                                         *)
(* The catalogue is a record of sequences indexed alike, as in the code,   *)
(* where the transition counts are indexed by position and a state is      *)
(* known outside by an id that its position does not give.  Centroids are  *)
(* left out: which state a reflection is nearest to, and whether it is     *)
(* within the novelty threshold of it, is an input.  Confidence, radius    *)
(* and dwell times are numbers nothing here decides by.  Merging and       *)
(* pruning states is left out: only tests do it.  `current', an Option, is *)
(* a set of at most one id.                                                *)
(***************************************************************************)
EXTENDS Naturals, Sequences, FiniteSetsExt, Functions

CONSTANT MaxStates   \* LatentCatalogue::max_states

NewCatalogue ==
    [ids |-> <<>>, entries |-> <<>>, occupancy |-> <<>>, moves |-> <<>>,
     nextId |-> 0, current |-> {}, observations |-> 0, suppressed |-> 0]

Positions(c) == DOMAIN c.ids
Ids(c) == {c.ids[i] : i \in Positions(c)}
Here(c) == CHOOSE i \in Positions(c) : c.current = {c.ids[i]}

\* grow_transitions: a row and a column for the state just added.
Grown(moves, n) ==
    [from \in 1 .. n |-> [to \in 1 .. n |->
        IF from < n /\ to < n THEN moves[from][to] ELSE 0]]

\* A reflection far from every state founds one.
Founded(c) ==
    [c EXCEPT !.ids = Append(@, c.nextId), !.nextId = @ + 1,
              !.entries = Append(@, 0), !.occupancy = Append(@, 0),
              !.moves = Grown(@, Len(c.ids) + 1)]

\* The reflection belongs to the state at i: it is occupied once more, and
\* entered if the machine was elsewhere.
Visited(c, i) ==
    LET id == c.ids[i]
        here == [c EXCEPT !.occupancy[i] = @ + 1]
        moved == IF \E j \in Positions(c) : c.current = {c.ids[j]}
                 THEN [c.moves EXCEPT ![Here(c)][i] = @ + 1] ELSE c.moves
    IN  IF c.current = {id} THEN here
        ELSE [here EXCEPT !.entries[i] = @ + 1, !.current = {id}, !.moves = moved]

Counted(c) == [c EXCEPT !.observations = @ + 1]

ObservedMutant(c, nearest, close) == \* what is too far is dropped once all are found
    IF close THEN Visited(Counted(c), nearest)
    ELSE IF Len(c.ids) < MaxStates
         THEN Visited(Founded(Counted(c)), Len(c.ids) + 1)
         ELSE [Counted(c) EXCEPT !.suppressed = @ + 1]

\* LatentCatalogue::observe, for a reflection nearest to the state at `nearest'
\* and `close' to it or not: the catalogue after it.
Observed(c, nearest, close) ==
    IF close THEN Visited(Counted(c), nearest)
    ELSE IF Len(c.ids) < MaxStates
         THEN Visited(Founded(Counted(c)), Len(c.ids) + 1)
         ELSE Visited([Counted(c) EXCEPT !.suppressed = @ + 1], nearest)

IsNovel(c, close) == ~close /\ Len(c.ids) < MaxStates

\* A catalogue read back: ids are distinct and below the next one; the state
\* the machine is in is one of them, or unknown; the matrix fits the states.
Coherent(c) ==
    /\ \A i, j \in Positions(c) : c.ids[i] = c.ids[j] => i = j
    /\ \A id \in Ids(c) : id < c.nextId
    /\ c.current \subseteq Ids(c) /\ Cardinality(c.current) <= 1
    /\ Len(c.ids) <= MaxStates
    /\ DOMAIN c.moves = Positions(c)
    /\ \A i \in Positions(c) : DOMAIN c.moves[i] = Positions(c)

\* Every reflection is counted for exactly one state; and a state was entered
\* once for each transition into it, and once more if it is where the machine
\* was first seen (latent.rs, observe).  For catalogues that only observe.
EveryReflectionCounted(c) ==
    /\ SumFunction(c.occupancy) = c.observations
    /\ \A i \in Positions(c) :
          c.entries[i] = SumFunction([j \in Positions(c) |-> c.moves[j][i]])
                         + (IF i = 1 THEN 1 ELSE 0)
    /\ \A i \in Positions(c) : c.moves[i][i] = 0
=============================================================================
