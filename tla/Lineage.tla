------------------------------- MODULE Lineage --------------------------------
(***************************************************************************)
(* A line of generations, each of which pays for what its ancestors spent  *)
(* searching (lineage/src/lineage.rs), and the ledger every generation     *)
(* keeps (lineage/src/productivity.rs).                                    *)
(*                                                                         *)
(* The three inputs are one number, as Inputs::scalar makes them under the *)
(* default weights; nothing saturates.  A productivity is a fraction, kept *)
(* as numerator and denominator and compared by cross-multiplication.      *)
(***************************************************************************)
EXTENDS Integers, SequencesExt

CONSTANTS
    Cost,              \* what a unit of work or of searching may cost
    MaxGenerations, MaxUnits  \* bounds: generations, and entries in all ledgers

ASSUME LineageAssumption == Cost \subseteq Nat /\ MaxUnits \in Nat

VARIABLES
    generations,       \* Lineage::generations
    explored,          \* ghost: what each generation has spent searching
    entries            \* entries made, for the bound

lineageVars == <<generations, explored, entries>>

Pool == {"trained", "heldOut"}

NoWork == [verified |-> 0, failed |-> 0, spent |-> 0]

\* Ledger, with exploration_inputs as `own` and inherited_exploration as `inherited`.
Generation(owed) ==
    [own |-> 0, inherited |-> owed, work |-> [pool \in Pool |-> NoWork]]

SumOf(costs) == FoldLeft(LAMBDA a, b : a + b, 0, costs)

LineageInit == generations = <<>> /\ explored = <<>> /\ entries = 0

-----------------------------------------------------------------------------

OwedMutant(line) == \* what an ancestor was charged is charged again
    SumOf([g \in DOMAIN line |-> line[g].own + line[g].inherited])

\* Each ancestor's own search, counted once.
Owed(line) == SumOf([g \in DOMAIN line |-> line[g].own])

BeginGeneration ==
    /\ Len(generations) < MaxGenerations
    /\ generations' = Append(generations, Generation(Owed(generations)))
    /\ explored' = Append(explored, 0)
    /\ UNCHANGED entries

\* Lineage::current hands out the last generation, and no other.
Current == Len(generations)

\* Ledger::record: a unit that does not verify is charged all the same.
RecordUnit ==
    /\ generations # <<>> /\ entries < MaxUnits /\ entries' = entries + 1
    /\ \E pool \in Pool, verified \in BOOLEAN, cost \in Cost :
        generations' = [generations EXCEPT ![Current].work[pool] =
            [verified |-> @.verified + (IF verified THEN 1 ELSE 0),
             failed |-> @.failed + (IF verified THEN 0 ELSE 1),
             spent |-> @.spent + cost]]
    /\ UNCHANGED explored

\* Ledger::explore.
SpendSearching ==
    /\ generations # <<>> /\ entries < MaxUnits /\ entries' = entries + 1
    /\ \E cost \in Cost :
        /\ generations' = [generations EXCEPT ![Current].own = @ + cost]
        /\ explored' = [explored EXCEPT ![Current] = @ + cost]

LineageNext == BeginGeneration \/ RecordUnit \/ SpendSearching

LineageSpec == LineageInit /\ [][LineageNext]_lineageVars

-----------------------------------------------------------------------------
(* Lineage::verdict.                                                       *)

\* Ledger::productivity and net_productivity: verified work over cost.
Gross(g, pool) == <<g.work[pool].verified, g.work[pool].spent>>
Net(g, pool) == <<g.work[pool].verified, g.work[pool].spent + g.inherited>>

\* There is a quotient, and it can be divided by.
Known(q) == q[2] > 0
Positive(q) == Known(q) /\ q[1] > 0

\* (to - from) / from against a minimum gain of five per cent.
Exceeds(to, from) == 20 * to[1] * from[2] > 21 * from[1] * to[2]
FallsShort(to, from) == 20 * to[1] * from[2] < 21 * from[1] * to[2]

\* Whether a quotient rose by more than that, where both are known.
Rose(to, from) == Positive(from) /\ Known(to) /\ Exceeds(to, from)

LineVerdict(line) ==
    LET first == Head(line)
        last == Last(line)
        from == Net(first, "heldOut")
        to == Net(last, "heldOut")
    IN  IF Len(line) < 2 THEN "inconclusive"
        ELSE IF \E g \in DOMAIN line, pool \in Pool : line[g].work[pool].failed > 0
        THEN "untrustworthy"
        ELSE IF ~Known(to) \/ ~Positive(from) THEN "inconclusive"
        ELSE IF FallsShort(to, from) /\ Rose(Net(last, "trained"), Net(first, "trained"))
        THEN "learned the benchmark"
        ELSE IF FallsShort(to, from) /\ Rose(Gross(last, "heldOut"), Gross(first, "heldOut"))
        THEN "search cost too high"
        ELSE IF Exceeds(to, from) THEN "improving" ELSE "not improving"

-----------------------------------------------------------------------------
(* Properties.                                                             *)

LineageTypeOK ==
    /\ Len(explored) = Len(generations) /\ entries \in 0 .. MaxUnits
    /\ \A g \in DOMAIN generations : generations[g].own = explored[g]

\* lineage.rs:193: "Each ancestor's own search, counted once", and
\* productivity.rs:25-27: a gain that cost more to find than it returned is not
\* reported as one.  What a generation still owes is what all before it spent
\* searching, whenever they did; and a line said to improve has done only work
\* that verified, and more of it on work it had not seen, by more than five per
\* cent, for all it took including that search.
ImprovementIsPaidFor ==
    LET before(g) == SumOf(SubSeq(explored, 1, g - 1))
        all(g) == generations[g].work["heldOut"].spent + before(g)
        done(g) == generations[g].work["heldOut"].verified
        n == Len(generations)
    IN  /\ \A g \in DOMAIN generations : generations[g].inherited = before(g)
        /\ LineVerdict(generations) = "improving" =>
            /\ \A g \in DOMAIN generations, pool \in Pool :
                generations[g].work[pool].failed = 0
            /\ 20 * done(n) * all(1) > 21 * done(1) * all(n)
=============================================================================
