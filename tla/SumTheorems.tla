----------------------------- MODULE SumTheorems -----------------------------
(***************************************************************************)
(* Sums over finite sets, by SumFunctionOnSet of module Functions: that    *)
(* the order in which it takes the elements does not matter, and what      *)
(* follows for what the models count.  An induction on finite sets is      *)
(* stated as the choice of a smallest counterexample.                      *)
(***************************************************************************)
EXTENDS Integers, Sequences, Functions, FiniteSetTheorems, TLAPS

LEMMA SmallestCounterexample ==
    ASSUME NEW S, IsFiniteSet(S), NEW Bad \in SUBSET SUBSET S, Bad # {}
    PROVE  \E s \in Bad : \A t \in Bad : t \subseteq s => t = s
<1>1. FiniteSubsetsOf(S) = SUBSET S
  BY FS_FiniteSubsetsOfFinite
<1>2. IsWellFoundedOn(StrictSubsetOrdering(S), SUBSET S)
  BY <1>1, FS_StrictSubsetOrderingWellFounded
<1>3. \E s \in Bad : \A t \in Bad : ~(<<t, s>> \in StrictSubsetOrdering(S))
  BY <1>2, WFMin
<1>4. QED
  BY <1>3 DEF StrictSubsetOrdering

-----------------------------------------------------------------------------
(* What the recursion in the definition of a sum computes.                 *)

Chosen(s) == CHOOSE x \in s : TRUE

\* A table of the sums over all subsets.
Adds(g, f, S) ==
    g = [s \in SUBSET S |-> IF s = {} THEN 0 ELSE f[Chosen(s)] + g[s \ {Chosen(s)}]]

LEMMA SumIsOfTable ==
    ASSUME NEW f, NEW S
    PROVE  SumFunctionOnSet(f, S) = (CHOOSE g : Adds(g, f, S))[S]
  BY DEF SumFunctionOnSet, FoldFunctionOnSet, MapThenFoldSet, Adds, Chosen

LEMMA TableEntry ==
    ASSUME NEW f, NEW S, NEW g, Adds(g, f, S), NEW s \in SUBSET S
    PROVE  /\ s = {} => g[s] = 0
           /\ s # {} => Chosen(s) \in s /\ g[s] = f[Chosen(s)] + g[s \ {Chosen(s)}]
<1>1. g = [t \in SUBSET S |-> IF t = {} THEN 0 ELSE f[Chosen(t)] + g[t \ {Chosen(t)}]]
  BY DEF Adds
<1>2. g[s] = IF s = {} THEN 0 ELSE f[Chosen(s)] + g[s \ {Chosen(s)}]
  BY <1>1
<1>3. s # {} => Chosen(s) \in s
  BY DEF Chosen
<1>4. QED
  BY <1>2, <1>3

LEMMA TableIsUnique ==
    ASSUME NEW f, NEW S, IsFiniteSet(S), NEW g, NEW h, Adds(g, f, S), Adds(h, f, S)
    PROVE  \A s \in SUBSET S : g[s] = h[s]
<1>. DEFINE Bad == {s \in SUBSET S : g[s] # h[s]}
<1>1. SUFFICES ASSUME Bad # {} PROVE FALSE
  OBVIOUS
<1>2. PICK s \in Bad : \A t \in Bad : t \subseteq s => t = s
  <2>1. Bad \in SUBSET SUBSET S
    OBVIOUS
  <2>. HIDE DEF Bad
  <2>2. QED
    BY <1>1, <2>1, SmallestCounterexample
<1>3. s \in SUBSET S /\ g[s] # h[s]
  BY <1>2
<1>4. s # {} /\ Chosen(s) \in s
  BY <1>3, TableEntry
<1>5. g[s \ {Chosen(s)}] = h[s \ {Chosen(s)}]
  BY <1>2, <1>3, <1>4
<1>6. QED
  BY <1>3, <1>4, <1>5, TableEntry

LEMMA TableOfPart ==
    ASSUME NEW f, NEW S, NEW g, Adds(g, f, S), NEW T \in SUBSET S
    PROVE  Adds([s \in SUBSET T |-> g[s]], f, T)
<1>. DEFINE h == [s \in SUBSET T |-> g[s]]
<1>1. ASSUME NEW s \in SUBSET T
      PROVE  h[s] = IF s = {} THEN 0 ELSE f[Chosen(s)] + h[s \ {Chosen(s)}]
  <2>1. s \in SUBSET S /\ h[s] = g[s]
    OBVIOUS
  <2>2. CASE s = {}
    BY <2>1, <2>2, TableEntry
  <2>3. CASE s # {}
    <3>1. Chosen(s) \in s /\ g[s] = f[Chosen(s)] + g[s \ {Chosen(s)}]
      BY <2>1, <2>3, TableEntry
    <3>2. h[s \ {Chosen(s)}] = g[s \ {Chosen(s)}]
      OBVIOUS
    <3>3. QED
      BY <2>1, <2>3, <3>1, <3>2
  <2>4. QED
    BY <2>2, <2>3
<1>2. h = [s \in SUBSET T |-> h[s]]
  OBVIOUS
<1>. HIDE DEF h
<1>3. h = [s \in SUBSET T |-> IF s = {} THEN 0 ELSE f[Chosen(s)] + h[s \ {Chosen(s)}]]
  BY <1>1, <1>2
<1>4. Adds(h, f, T)
  BY <1>3 DEF Adds
<1>5. QED
  BY <1>4 DEF h

LEMMA TableExists ==
    ASSUME NEW f, NEW S, IsFiniteSet(S)
    PROVE  \E g : Adds(g, f, S)
<1>. DEFINE Bad == {s \in SUBSET S : ~(\E g : Adds(g, f, s))}
<1>1. SUFFICES ASSUME Bad # {} PROVE FALSE
  OBVIOUS
<1>2. PICK s \in Bad : \A t \in Bad : t \subseteq s => t = s
  <2>1. Bad \in SUBSET SUBSET S
    OBVIOUS
  <2>. HIDE DEF Bad
  <2>2. QED
    BY <1>1, <2>1, SmallestCounterexample
<1>3. s \in SUBSET S /\ ~(\E g : Adds(g, f, s))
  BY <1>2
<1>4. \A t \in SUBSET s : t # s => \E g : Adds(g, f, t)
  BY <1>2
<1>. DEFINE table == [t \in SUBSET s |-> CHOOSE g : Adds(g, f, t)]
            entry == [t \in SUBSET s |-> table[t][t]]
            rest == s \ {Chosen(s)}
            sum == [t \in SUBSET s |->
                       IF t = s THEN IF s = {} THEN 0 ELSE f[Chosen(s)] + entry[rest]
                       ELSE entry[t]]
<1>5. ASSUME NEW t \in SUBSET s, t # s PROVE Adds(table[t], f, t)
  BY <1>4, <1>5
<1>6. \A t \in SUBSET s : entry[t] = table[t][t]
  OBVIOUS
<1>. HIDE DEF table, entry
<1>7. ASSUME NEW t \in SUBSET s, t # s, NEW u \in SUBSET t
      PROVE  table[t][u] = entry[u]
  <2>1. Adds([v \in SUBSET u |-> table[t][v]], f, u)
    BY <1>5, <1>7, TableOfPart
  <2>2. Adds(table[u], f, u)
    BY <1>5, <1>7
  <2>3. IsFiniteSet(u)
    BY <1>3, <1>7, FS_Subset
  <2>4. [v \in SUBSET u |-> table[t][v]][u] = table[u][u]
    BY <2>1, <2>2, <2>3, TableIsUnique
  <2>5. QED
    BY <1>6, <1>7, <2>4
<1>8. ASSUME NEW t \in SUBSET s
      PROVE  sum[t] = IF t = {} THEN 0 ELSE f[Chosen(t)] + sum[t \ {Chosen(t)}]
  <2>1. CASE t = s
    <3>1. CASE s = {}
      BY <2>1, <3>1
    <3>2. CASE s # {}
      <4>1. Chosen(s) \in s
        BY <3>2 DEF Chosen
      <4>2. rest # s /\ rest \in SUBSET s
        BY <4>1
      <4>3. sum[rest] = entry[rest]
        BY <4>2
      <4>4. QED
        BY <2>1, <3>2, <4>3
    <3>3. QED
      BY <3>1, <3>2
  <2>2. CASE t # s
    <3>1. sum[t] = table[t][t]
      BY <1>6, <2>2
    <3>2. CASE t = {}
      <4>1. Adds(table[t], f, t) /\ t \in SUBSET t
        BY <1>5, <2>2
      <4>2. table[t][t] = 0
        BY <3>2, <4>1, TableEntry
      <4>3. QED
        BY <3>1, <3>2, <4>2
    <3>3. CASE t # {}
      <4>1. Chosen(t) \in t
        BY <3>3 DEF Chosen
      <4>. DEFINE less == t \ {Chosen(t)}
      <4>2. less \in SUBSET s /\ less # s /\ less \in SUBSET t
        BY <4>1
      <4>3. table[t][t] = f[Chosen(t)] + table[t][less]
        BY <1>5, <2>2, <3>3, TableEntry
      <4>4. table[t][less] = entry[less]
        BY <1>7, <2>2, <4>2
      <4>5. sum[less] = entry[less]
        BY <4>2
      <4>6. QED
        BY <3>1, <3>3, <4>3, <4>4, <4>5
    <3>4. QED
      BY <3>2, <3>3
  <2>3. QED
    BY <2>1, <2>2
<1>9. sum = [t \in SUBSET s |-> sum[t]]
  OBVIOUS
<1>. HIDE DEF sum
<1>10. sum = [t \in SUBSET s |-> IF t = {} THEN 0 ELSE f[Chosen(t)] + sum[t \ {Chosen(t)}]]
  BY <1>8, <1>9
<1>11. Adds(sum, f, s)
  BY <1>10 DEF Adds
<1>12. QED
  BY <1>3, <1>11

LEMMA SumOfEmpty ==
    ASSUME NEW f
    PROVE  SumFunctionOnSet(f, {}) = 0
<1>1. Adds(CHOOSE g : Adds(g, f, {}), f, {})
  BY TableExists, FS_EmptySet
<1>2. QED
  BY <1>1, SumIsOfTable, TableEntry

LEMMA SumOfChosen ==
    ASSUME NEW f, NEW S, IsFiniteSet(S), S # {}
    PROVE  /\ Chosen(S) \in S
           /\ SumFunctionOnSet(f, S) = f[Chosen(S)] + SumFunctionOnSet(f, S \ {Chosen(S)})
<1>. DEFINE rest == S \ {Chosen(S)}
            g == CHOOSE t : Adds(t, f, S)
            h == CHOOSE t : Adds(t, f, rest)
<1>1. Chosen(S) \in S /\ rest \in SUBSET S /\ IsFiniteSet(rest)
  BY FS_Subset DEF Chosen
<1>2. Adds(g, f, S) /\ Adds(h, f, rest)
  BY <1>1, TableExists
<1>. HIDE DEF g, h, rest
<1>3. Adds([s \in SUBSET rest |-> g[s]], f, rest)
  BY <1>1, <1>2, TableOfPart
<1>4. [s \in SUBSET rest |-> g[s]][rest] = h[rest]
  BY <1>1, <1>2, <1>3, TableIsUnique
<1>5. g[rest] = h[rest]
  BY <1>4
<1>6. g[S] = f[Chosen(S)] + g[rest]
  BY <1>2, TableEntry DEF rest
<1>7. QED
  BY <1>1, <1>5, <1>6, SumIsOfTable DEF g, h, rest

-----------------------------------------------------------------------------
(* What a sum is, whatever order it is taken in.                           *)

LEMMA SumIsANumber ==
    ASSUME NEW f, NEW S, IsFiniteSet(S), \A x \in S : f[x] \in Nat
    PROVE  SumFunctionOnSet(f, S) \in Nat
<1>. DEFINE Bad == {s \in SUBSET S : SumFunctionOnSet(f, s) \notin Nat}
<1>1. SUFFICES ASSUME Bad # {} PROVE FALSE
  OBVIOUS
<1>2. PICK s \in Bad : \A t \in Bad : t \subseteq s => t = s
  <2>1. Bad \in SUBSET SUBSET S
    OBVIOUS
  <2>. HIDE DEF Bad
  <2>2. QED
    BY <1>1, <2>1, SmallestCounterexample
<1>3. s \in SUBSET S /\ SumFunctionOnSet(f, s) \notin Nat
  BY <1>2
<1>4. s # {}
  BY <1>3, SumOfEmpty
<1>5. /\ Chosen(s) \in s
      /\ SumFunctionOnSet(f, s) = f[Chosen(s)] + SumFunctionOnSet(f, s \ {Chosen(s)})
  BY <1>3, <1>4, SumOfChosen, FS_Subset
<1>6. SumFunctionOnSet(f, s \ {Chosen(s)}) \in Nat
  BY <1>2, <1>3, <1>5
<1>7. QED
  BY <1>3, <1>5, <1>6

\* Any element may be taken first.
LEMMA SumSplits ==
    ASSUME NEW f, NEW S, IsFiniteSet(S), \A x \in S : f[x] \in Nat, NEW y \in S
    PROVE  SumFunctionOnSet(f, S) = f[y] + SumFunctionOnSet(f, S \ {y})
<1>. DEFINE Splits(s, z) == SumFunctionOnSet(f, s) = f[z] + SumFunctionOnSet(f, s \ {z})
            Bad == {s \in SUBSET S : \E z \in s : ~Splits(s, z)}
<1>1. SUFFICES ASSUME Bad # {} PROVE FALSE
  OBVIOUS
<1>2. PICK s \in Bad : \A t \in Bad : t \subseteq s => t = s
  <2>1. Bad \in SUBSET SUBSET S
    OBVIOUS
  <2>. HIDE DEF Bad
  <2>2. QED
    BY <1>1, <2>1, SmallestCounterexample
<1>3. PICK z \in s : ~Splits(s, z)
  BY <1>2
<1>. DEFINE x == Chosen(s)
            less == s \ {x, z}
<1>4. s \in SUBSET S /\ IsFiniteSet(s) /\ z \in S
  BY <1>2, <1>3, FS_Subset
<1>5. x \in s /\ SumFunctionOnSet(f, s) = f[x] + SumFunctionOnSet(f, s \ {x})
  BY <1>3, <1>4, SumOfChosen
<1>. HIDE DEF x
<1>6. x # z
  BY <1>3, <1>5
<1>7. SumFunctionOnSet(f, s \ {x}) = f[z] + SumFunctionOnSet(f, less)
  <2>1. s \ {x} \notin Bad /\ z \in s \ {x} /\ (s \ {x}) \ {z} = less
    BY <1>2, <1>5, <1>6
  <2>2. QED
    BY <1>4, <2>1
<1>8. SumFunctionOnSet(f, s \ {z}) = f[x] + SumFunctionOnSet(f, less)
  <2>1. s \ {z} \notin Bad /\ x \in s \ {z} /\ (s \ {z}) \ {x} = less
    BY <1>2, <1>5, <1>6
  <2>2. QED
    BY <1>4, <2>1
<1>9. f[x] \in Nat /\ f[z] \in Nat /\ SumFunctionOnSet(f, less) \in Nat
  <2>1. IsFiniteSet(less) /\ \A w \in less : f[w] \in Nat
    BY <1>4, FS_Subset
  <2>. HIDE DEF less
  <2>2. QED
    BY <1>4, <1>5, <2>1, SumIsANumber
<1>. HIDE DEF less
<1>10. QED
  BY <1>3, <1>5, <1>7, <1>8, <1>9

LEMMA SumsAgree ==
    ASSUME NEW f, NEW g, NEW S, IsFiniteSet(S), \A x \in S : f[x] = g[x]
    PROVE  SumFunctionOnSet(f, S) = SumFunctionOnSet(g, S)
<1>. DEFINE Bad == {s \in SUBSET S : SumFunctionOnSet(f, s) # SumFunctionOnSet(g, s)}
<1>1. SUFFICES ASSUME Bad # {} PROVE FALSE
  OBVIOUS
<1>2. PICK s \in Bad : \A t \in Bad : t \subseteq s => t = s
  <2>1. Bad \in SUBSET SUBSET S
    OBVIOUS
  <2>. HIDE DEF Bad
  <2>2. QED
    BY <1>1, <2>1, SmallestCounterexample
<1>3. s \in SUBSET S /\ SumFunctionOnSet(f, s) # SumFunctionOnSet(g, s)
  BY <1>2
<1>4. s # {}
  BY <1>3, SumOfEmpty
<1>5. /\ Chosen(s) \in s
      /\ SumFunctionOnSet(f, s) = f[Chosen(s)] + SumFunctionOnSet(f, s \ {Chosen(s)})
      /\ SumFunctionOnSet(g, s) = g[Chosen(s)] + SumFunctionOnSet(g, s \ {Chosen(s)})
  BY <1>3, <1>4, SumOfChosen, FS_Subset
<1>6. SumFunctionOnSet(f, s \ {Chosen(s)}) = SumFunctionOnSet(g, s \ {Chosen(s)})
  BY <1>2, <1>3, <1>5
<1>7. QED
  BY <1>3, <1>5, <1>6

LEMMA SumOfUnion ==
    ASSUME NEW f, NEW A, NEW B, IsFiniteSet(A), IsFiniteSet(B), A \cap B = {},
           \A x \in A \cup B : f[x] \in Nat
    PROVE  SumFunctionOnSet(f, A \cup B) = SumFunctionOnSet(f, A) + SumFunctionOnSet(f, B)
<1>. DEFINE Good(s) == SumFunctionOnSet(f, s \cup B) = SumFunctionOnSet(f, s) + SumFunctionOnSet(f, B)
            Bad == {s \in SUBSET A : ~Good(s)}
<1>1. SUFFICES ASSUME Bad # {} PROVE FALSE
  OBVIOUS
<1>2. PICK s \in Bad : \A t \in Bad : t \subseteq s => t = s
  <2>1. Bad \in SUBSET SUBSET A
    OBVIOUS
  <2>. HIDE DEF Bad
  <2>2. QED
    BY <1>1, <2>1, SmallestCounterexample
<1>3. s \in SUBSET A /\ ~Good(s)
  BY <1>2
<1>4. SumFunctionOnSet(f, B) \in Nat
  BY SumIsANumber
<1>5. s # {}
  BY <1>3, <1>4, SumOfEmpty
<1>6. PICK x \in s : TRUE
  BY <1>5
<1>. DEFINE less == s \ {x}
<1>7. /\ less \in SUBSET A /\ IsFiniteSet(less) /\ IsFiniteSet(s) /\ IsFiniteSet(s \cup B)
      /\ (s \cup B) \ {x} = less \cup B /\ x \in s \cup B
      /\ (\A w \in s : f[w] \in Nat) /\ (\A w \in less : f[w] \in Nat)
      /\ \A w \in s \cup B : f[w] \in Nat
  BY <1>3, <1>6, FS_Subset, FS_Union
<1>8. Good(less)
  BY <1>2, <1>3, <1>6
<1>9. SumFunctionOnSet(f, s) = f[x] + SumFunctionOnSet(f, less)
  BY <1>6, <1>7, SumSplits
<1>10. SumFunctionOnSet(f, s \cup B) = f[x] + SumFunctionOnSet(f, less \cup B)
  BY <1>7, SumSplits
<1>11. SumFunctionOnSet(f, less) \in Nat /\ f[x] \in Nat
  BY <1>6, <1>7, SumIsANumber
<1>. HIDE DEF less
<1>12. QED
  BY <1>3, <1>4, <1>8, <1>9, <1>10, <1>11

LEMMA SumOfPart ==
    ASSUME NEW f, NEW S, IsFiniteSet(S), \A x \in S : f[x] \in Nat, NEW T \in SUBSET S
    PROVE  SumFunctionOnSet(f, T) <= SumFunctionOnSet(f, S)
<1>1. /\ T \cup (S \ T) = S /\ T \cap (S \ T) = {}
      /\ IsFiniteSet(T) /\ IsFiniteSet(S \ T)
  BY FS_Subset
<1>2. SumFunctionOnSet(f, S) = SumFunctionOnSet(f, T) + SumFunctionOnSet(f, S \ T)
  BY <1>1, SumOfUnion
<1>3. SumFunctionOnSet(f, T) \in Nat /\ SumFunctionOnSet(f, S \ T) \in Nat
  BY <1>1, SumIsANumber
<1>4. QED
  BY <1>2, <1>3

\* A sum in which each of some elements counts one more.
LEMMA SumOfOneMore ==
    ASSUME NEW f, NEW g, NEW S, IsFiniteSet(S), \A x \in S : f[x] \in Nat, NEW T \in SUBSET S,
           \A x \in S : g[x] = IF x \in T THEN f[x] + 1 ELSE f[x]
    PROVE  SumFunctionOnSet(g, S) = SumFunctionOnSet(f, S) + Cardinality(T)
<1>. DEFINE Good(s) == SumFunctionOnSet(g, s) = SumFunctionOnSet(f, s) + Cardinality(T \cap s)
            Bad == {s \in SUBSET S : ~Good(s)}
<1>1. SUFFICES ASSUME Bad # {} PROVE FALSE
  <2>1. S \notin Bad /\ T \cap S = T
    BY <1>1
  <2>2. QED
    BY <2>1
<1>2. PICK s \in Bad : \A t \in Bad : t \subseteq s => t = s
  <2>1. Bad \in SUBSET SUBSET S
    OBVIOUS
  <2>. HIDE DEF Bad
  <2>2. QED
    BY <1>1, <2>1, SmallestCounterexample
<1>3. s \in SUBSET S /\ ~Good(s)
  BY <1>2
<1>4. s # {}
  <2>1. T \cap {} = {} /\ Cardinality({}) = 0
    BY FS_EmptySet
  <2>2. Good({})
    BY <2>1, SumOfEmpty
  <2>3. QED
    BY <1>3, <2>2
<1>5. PICK x \in s : TRUE
  BY <1>4
<1>. DEFINE less == s \ {x}
            here == T \cap less
<1>6. /\ IsFiniteSet(less) /\ IsFiniteSet(s) /\ less \in SUBSET S /\ x \in S
      /\ IsFiniteSet(here) /\ x \notin here
      /\ \A w \in S : g[w] \in Nat
  BY <1>3, <1>5, FS_Subset
<1>7. Good(less)
  BY <1>2, <1>3, <1>5
<1>8. /\ SumFunctionOnSet(f, s) = f[x] + SumFunctionOnSet(f, less)
      /\ SumFunctionOnSet(g, s) = g[x] + SumFunctionOnSet(g, less)
  BY <1>3, <1>5, <1>6, SumSplits
<1>9. SumFunctionOnSet(f, less) \in Nat
  BY <1>6, SumIsANumber
<1>10. Cardinality(here) \in Nat
  BY <1>6, FS_CardinalityType
<1>11. CASE x \in T
  <2>1. T \cap s = here \cup {x}
    BY <1>5, <1>11
  <2>. HIDE DEF here
  <2>2. Cardinality(T \cap s) = Cardinality(here) + 1
    BY <1>6, <2>1, FS_AddElement
  <2>. HIDE DEF less
  <2>3. g[x] = f[x] + 1 /\ f[x] \in Nat
    BY <1>6, <1>11
  <2>4. SumFunctionOnSet(g, less) = SumFunctionOnSet(f, less) + Cardinality(here)
    BY <1>7 DEF here
  <2>5. QED
    BY <1>3, <1>8, <1>9, <1>10, <2>2, <2>3, <2>4
<1>12. CASE x \notin T
  <2>1. T \cap s = here
    BY <1>12
  <2>2. SumFunctionOnSet(g, less) = SumFunctionOnSet(f, less) + Cardinality(here)
    BY <1>7
  <2>3. g[x] = f[x] /\ f[x] \in Nat
    BY <1>6, <1>12
  <2>. HIDE DEF here, less
  <2>4. QED
    BY <1>3, <1>8, <1>9, <1>10, <2>1, <2>2, <2>3
<1>13. QED
  BY <1>11, <1>12

\* A sum in which one element has become another number.
LEMMA SumChanges ==
    ASSUME NEW f, NEW g, NEW S, IsFiniteSet(S), NEW y \in S,
           \A x \in S : f[x] \in Nat /\ g[x] \in Nat, \A x \in S \ {y} : g[x] = f[x]
    PROVE  /\ SumFunctionOnSet(g, S) + f[y] = SumFunctionOnSet(f, S) + g[y]
           /\ SumFunctionOnSet(g, S) \in Nat /\ SumFunctionOnSet(f, S) \in Nat
<1>. DEFINE rest == S \ {y}
<1>1. IsFiniteSet(rest) /\ \A x \in rest : f[x] \in Nat /\ f[x] = g[x]
  BY FS_Subset
<1>2. /\ SumFunctionOnSet(f, S) = f[y] + SumFunctionOnSet(f, rest)
      /\ SumFunctionOnSet(g, S) = g[y] + SumFunctionOnSet(g, rest)
  BY SumSplits
<1>. HIDE DEF rest
<1>3. SumFunctionOnSet(f, rest) = SumFunctionOnSet(g, rest)
  BY <1>1, SumsAgree
<1>4. SumFunctionOnSet(f, rest) \in Nat
  BY <1>1, SumIsANumber
<1>5. QED
  BY <1>2, <1>3, <1>4

LEMMA SumOfZeros ==
    ASSUME NEW f, NEW S, IsFiniteSet(S), \A x \in S : f[x] = 0
    PROVE  SumFunctionOnSet(f, S) = 0
<1>. DEFINE Bad == {s \in SUBSET S : SumFunctionOnSet(f, s) # 0}
<1>1. SUFFICES ASSUME Bad # {} PROVE FALSE
  OBVIOUS
<1>2. PICK s \in Bad : \A t \in Bad : t \subseteq s => t = s
  <2>1. Bad \in SUBSET SUBSET S
    OBVIOUS
  <2>. HIDE DEF Bad
  <2>2. QED
    BY <1>1, <2>1, SmallestCounterexample
<1>3. s \in SUBSET S /\ SumFunctionOnSet(f, s) # 0
  BY <1>2
<1>4. s # {}
  BY <1>3, SumOfEmpty
<1>5. /\ Chosen(s) \in s
      /\ SumFunctionOnSet(f, s) = f[Chosen(s)] + SumFunctionOnSet(f, s \ {Chosen(s)})
  BY <1>3, <1>4, SumOfChosen, FS_Subset
<1>6. SumFunctionOnSet(f, s \ {Chosen(s)}) = 0
  BY <1>2, <1>3, <1>5
<1>7. QED
  BY <1>3, <1>5, <1>6

LEMMA SumOfSums ==
    ASSUME NEW f, NEW g, NEW h, NEW S, IsFiniteSet(S),
           \A x \in S : f[x] \in Nat /\ g[x] \in Nat /\ h[x] = f[x] + g[x]
    PROVE  SumFunctionOnSet(h, S) = SumFunctionOnSet(f, S) + SumFunctionOnSet(g, S)
<1>. DEFINE Good(s) == SumFunctionOnSet(h, s) = SumFunctionOnSet(f, s) + SumFunctionOnSet(g, s)
            Bad == {s \in SUBSET S : ~Good(s)}
<1>1. SUFFICES ASSUME Bad # {} PROVE FALSE
  OBVIOUS
<1>2. PICK s \in Bad : \A t \in Bad : t \subseteq s => t = s
  <2>1. Bad \in SUBSET SUBSET S
    OBVIOUS
  <2>. HIDE DEF Bad
  <2>2. QED
    BY <1>1, <2>1, SmallestCounterexample
<1>3. s \in SUBSET S /\ ~Good(s)
  BY <1>2
<1>4. s # {}
  BY <1>3, SumOfEmpty
<1>. DEFINE x == Chosen(s)
            less == s \ {x}
<1>5. /\ x \in s
      /\ SumFunctionOnSet(f, s) = f[x] + SumFunctionOnSet(f, less)
      /\ SumFunctionOnSet(g, s) = g[x] + SumFunctionOnSet(g, less)
      /\ SumFunctionOnSet(h, s) = h[x] + SumFunctionOnSet(h, less)
  BY <1>3, <1>4, SumOfChosen, FS_Subset
<1>6. Good(less)
  BY <1>2, <1>3, <1>5
<1>7. IsFiniteSet(less) /\ less \in SUBSET S
  BY <1>3, FS_Subset
<1>. HIDE DEF x, less
<1>8. SumFunctionOnSet(f, less) \in Nat /\ SumFunctionOnSet(g, less) \in Nat
  BY <1>7, SumIsANumber
<1>9. f[x] \in Nat /\ g[x] \in Nat /\ h[x] = f[x] + g[x]
  BY <1>3, <1>5
<1>10. QED
  BY <1>3, <1>5, <1>6, <1>8, <1>9

\* The sum of a sequence, which is a function.
LEMMA SumOfAppended ==
    ASSUME NEW s \in Seq(Nat), NEW n \in Nat
    PROVE  /\ SumFunction(Append(s, n)) = SumFunction(s) + n
           /\ SumFunction(s) \in Nat
<1>. DEFINE t == Append(s, n)
            last == Len(s) + 1
<1>1. /\ Len(s) \in Nat /\ DOMAIN s = 1 .. Len(s) /\ DOMAIN t = 1 .. last
      /\ \A i \in 1 .. Len(s) : t[i] = s[i] /\ s[i] \in Nat
      /\ t[last] = n
  OBVIOUS
<1>. HIDE DEF t
<1>2. IsFiniteSet(1 .. Len(s)) /\ IsFiniteSet(1 .. last)
  BY <1>1, FS_Interval
<1>3. /\ (1 .. last) \ {last} = 1 .. Len(s) /\ last \in 1 .. last
      /\ \A i \in 1 .. last : t[i] \in Nat
  BY <1>1
<1>4. SumFunctionOnSet(t, 1 .. last) = n + SumFunctionOnSet(t, 1 .. Len(s))
  BY <1>1, <1>2, <1>3, SumSplits
<1>5. SumFunctionOnSet(t, 1 .. Len(s)) = SumFunctionOnSet(s, 1 .. Len(s))
  BY <1>1, <1>2, SumsAgree
<1>6. SumFunctionOnSet(s, 1 .. Len(s)) \in Nat
  BY <1>1, <1>2, SumIsANumber
<1>7. QED
  BY <1>1, <1>4, <1>5, <1>6 DEF SumFunction, t
=============================================================================
