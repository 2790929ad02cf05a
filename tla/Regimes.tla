------------------------------ MODULE Regimes ------------------------------
(***************************************************************************)
(* What the observer finds in the experience of a machine: what behaves    *)
(* alike (represent/src/discover.rs, cluster_by_similarity, of variables   *)
(* and of entities) and its regimes (regimes), as observer/src/observer.rs *)
(* asks for them.                                                          *)
(*                                                                         *)
(* Correlations are not computed: which pairs are alike is given.  A frame *)
(* has a number in every dimension, in units fine enough for every mean    *)
(* that can be taken; it has no gaps, since the observer fills them before *)
(* it asks (observer.rs, standardised_frames).                             *)
(***************************************************************************)
EXTENDS Integers, Sequences, FiniteSetsExt, Functions

CONSTANTS
    Items,             \* columns, or rows, are 1 .. Items
    Dimensions,        \* numbers in a frame
    Experiences,       \* what may have been observed: the frames, in order
    Wanted,            \* regimes asked for
    Iterations         \* 25 in the code

Vector == [1 .. Dimensions -> Nat]

ASSUME RegimesAssumption ==
    /\ {Items, Dimensions, Wanted, Iterations} \subseteq Nat \ {0} /\ Items > 1
    /\ Experiences \subseteq Seq(Vector) \ {<<>>}

VARIABLES
    alike,             \* pairs whose similarity reaches the threshold
    parent,            \* cluster_by_similarity: the forest
    compared,          \* and the pairs it has compared
    frame,             \* regimes: what was observed, frame by frame
    centre,            \* the centres
    assignment,        \* the centre of each frame
    iterations,        \* passes made
    phase              \* how far it has got

regimesVars ==
    <<alike, parent, compared, frame, centre, assignment, iterations, phase>>

Frame == DOMAIN frame
Item == 1 .. Items
Pairs == {p \in Item \X Item : p[1] < p[2]}

\* The groups and the regimes are computed from different data, of which the
\* behaviours vary one at a time.
Origin == <<[d \in 1 .. Dimensions |-> 0]>>

RegimesInit ==
    /\ \/ alike \in SUBSET Pairs /\ frame = Origin
       \/ alike = {} /\ frame \in Experiences
    /\ parent = [i \in Item |-> i] /\ compared = {}
    /\ centre = <<frame[1]>> /\ assignment = [f \in Frame |-> 1]
    /\ iterations = 0 /\ phase = "grouping"

-----------------------------------------------------------------------------
(* cluster_by_similarity: single linkage.                                  *)

\* find: the way from an item to its root.
Way(item) ==
    LET up[n \in 0 .. Items] == IF n = 0 THEN item ELSE parent[up[n - 1]]
    IN  Range(up)

Root(item) == CHOOSE root \in Way(item) : parent[root] = root

\* And what is left of the way: all of it leads to the root.
Compressed(forest, way, root) == [i \in Item |-> IF i \in way THEN root ELSE forest[i]]

JoinMutant(forest, a, b, ra, rb) == [forest EXCEPT ![a] = rb]   \* the item, not its root

Join(forest, a, b, ra, rb) == [forest EXCEPT ![ra] = rb]

\* The pairs are compared in the order of the loops.
NextPair ==
    LET left == Pairs \ compared
    IN  CHOOSE p \in left : \A q \in left : p[1] < q[1] \/ (p[1] = q[1] /\ p[2] <= q[2])

Compare ==
    /\ phase = "grouping" /\ compared' = compared \cup {NextPair}
    /\ phase' = IF compared' = Pairs THEN "seeding" ELSE phase
    /\ LET a == NextPair[1]
           b == NextPair[2]
           ra == Root(a)
           rb == Root(b)
           found == Compressed(Compressed(parent, Way(a), ra), Way(b), rb)
       IN  parent' = IF NextPair \notin alike THEN parent
                     ELSE IF ra = rb THEN found ELSE Join(found, a, b, ra, rb)
    /\ UNCHANGED <<alike, frame, centre, assignment, iterations>>

\* cluster_entities and variable_groups: the groups of more than one.
Groups == {g \in {{i \in Item : Root(i) = r} : r \in Item} : Cardinality(g) > 1}

-----------------------------------------------------------------------------
(* regimes: k-means from the farthest points.                              *)

Square(n) == n * n

\* discover::distance, squared.
Apart(a, b) ==
    SumFunctionOnSet([d \in 1 .. Dimensions |-> Square(a[d] - b[d])], 1 .. Dimensions)

Nearest(f) == Min({Apart(frame[f], centre[c]) : c \in DOMAIN centre})

\* The first of the frames farthest from every centre.
Farthest ==
    LET nearest == [f \in Frame |-> Nearest(f)]
    IN  Min({f \in Frame : \A g \in Frame : nearest[g] <= nearest[f]})

Seed ==
    /\ phase = "seeding"
    /\ IF Len(centre) < Min({Wanted, Len(frame)}) /\ Nearest(Farthest) > 0
       THEN centre' = Append(centre, frame[Farthest]) /\ UNCHANGED phase
       ELSE phase' = "iterating" /\ UNCHANGED centre
    /\ UNCHANGED <<alike, parent, compared, frame, assignment, iterations>>

\* The first of the nearest centres.
Best(f) == Min({c \in DOMAIN centre : Apart(frame[f], centre[c]) = Nearest(f)})

Members(assigned, c) == {f \in Frame : assigned[f] = c}

Mean(members) ==
    [d \in 1 .. Dimensions |->
        SumFunctionOnSet([f \in members |-> frame[f][d]], members) \div Cardinality(members)]

\* A centre without members stays where it is.
Moved(assigned) ==
    [c \in DOMAIN centre |->
        LET members == Members(assigned, c)
        IN  IF members = {} THEN centre[c] ELSE Mean(members)]

Iterate ==
    LET assigned == [f \in Frame |-> Best(f)]
    IN  /\ phase = "iterating"
        /\ iterations' = iterations + 1
        /\ assignment' = assigned /\ centre' = Moved(assigned)
        /\ phase' = IF assigned = assignment \/ iterations' = Iterations THEN "done" ELSE phase
        /\ UNCHANGED <<alike, parent, compared, frame>>

RegimesNext == Compare \/ Seed \/ Iterate

RegimesSpec == RegimesInit /\ [][RegimesNext]_regimesVars

-----------------------------------------------------------------------------
RegimesTypeOK ==
    /\ alike \subseteq Pairs /\ compared \subseteq Pairs
    /\ parent \in [Item -> Item]
    /\ frame \in Seq(Vector) \ {<<>>}
    /\ centre \in Seq(Vector) /\ Len(centre) \in 1 .. Wanted
    /\ assignment \in [Frame -> DOMAIN centre]
    /\ iterations \in 0 .. Iterations /\ phase \in {"grouping", "seeding", "iterating", "done"}

(* Three properties of the two answers, in one.                            *)

\* Single linkage: whatever the order of the comparisons and however the forest
\* was compressed, two items end in one group exactly when a chain of alike pairs
\* leads from one to the other.
GroupsAreChains ==
    LET linked(a, b) == {<<a, b>>, <<b, a>>} \cap alike # {}
    IN  phase = "seeding" =>
            /\ \A a, b \in Item : linked(a, b) => Root(a) = Root(b)
            /\ \A group \in Groups, some \in SUBSET Item :
                some \subseteq group /\ some \notin {{}, group} =>
                    \E a \in some, b \in group \ some : linked(a, b)

\* When it ends, every frame is with the centre nearest to it, and a centre is
\* the mean of those it is with, or has none and stays where it was.
RegimesAreSettled ==
    phase = "done" =>
        /\ \A f \in Frame : Apart(frame[f], centre[assignment[f]]) = Nearest(f)
        /\ Moved(assignment) = centre

\* Every regime has a frame that is with it.
EachHasMembers == \A c \in DOMAIN centre : Members(assignment, c) # {}

\* What the observer is told of the machine is what its experience holds: groups
\* are chains of what is alike; regimes are settled, unless there were as many
\* passes as there may be; and none is born empty, whatever repeats itself in the
\* experience (discover.rs:474-483).
StructureIsSound ==
    /\ GroupsAreChains
    /\ iterations < Iterations => RegimesAreSettled
    /\ iterations = 1 => EachHasMembers

\* discover.rs:485, "fewer regimes than asked for ... rather than padding the answer
\* with empty clusters".  It does not hold: a regime may lose all its frames to those
\* around it in a later pass, and is returned with none (README, Divergences).
NoRegimeIsEmpty == phase = "done" => EachHasMembers
=============================================================================
