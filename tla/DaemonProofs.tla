---------------------------- MODULE DaemonProofs ----------------------------
(***************************************************************************)
(* The processes that run by themselves, each for all its constants: the   *)
(* services and their clients of Service.tla, the reflector of the mirror  *)
(* daemon (Reflector.tla, over Discovery.tla), the daemon with the file it *)
(* records to (Mirror.tla), and the observer that groups what is alike and *)
(* finds the regimes in what was recorded (Regimes.tla).                   *)
(***************************************************************************)
EXTENDS Service, Reflector, Mirror, Regimes, SumTheorems, SequenceTheorems, TLAPS

-----------------------------------------------------------------------------
(* Lists of whatever they hold.                                            *)

Tuple(s) == s \in Seq(ToSet(s))

LEMMA TupleFrom ==
    ASSUME NEW T, NEW s \in Seq(T) PROVE Tuple(s)
<1>1. s \in [1 .. Len(s) -> T] /\ Len(s) \in Nat
  OBVIOUS
<1>2. \A i \in 1 .. Len(s) : s[i] \in ToSet(s)
  BY <1>1 DEF ToSet
<1>3. s \in [1 .. Len(s) -> ToSet(s)]
  BY <1>1, <1>2
<1>4. QED
  BY <1>1, <1>3 DEF Tuple

LEMMA TupleShape ==
    ASSUME NEW s, Tuple(s)
    PROVE  /\ Len(s) \in Nat /\ DOMAIN s = 1 .. Len(s)
           /\ \A i \in DOMAIN s : s[i] \in ToSet(s)
           /\ \A e : e \in ToSet(s) <=> \E i \in DOMAIN s : s[i] = e
  BY DEF Tuple, ToSet

LEMMA TupleMade ==
    ASSUME NEW n \in Nat, NEW f, f = [i \in 1 .. n |-> f[i]]
    PROVE  Tuple(f) /\ Len(f) = n
<1>. DEFINE T == {f[i] : i \in 1 .. n}
<1>1. f \in [1 .. n -> T]
  OBVIOUS
<1>. HIDE DEF T
<1>2. f \in Seq(T) /\ Len(f) = n
  BY <1>1
<1>3. QED
  BY <1>2, TupleFrom

LEMMA TupleAppend ==
    ASSUME NEW s, Tuple(s), NEW e
    PROVE  /\ Tuple(Append(s, e)) /\ Len(Append(s, e)) = Len(s) + 1
           /\ Append(s, e)[Len(s) + 1] = e
           /\ \A i \in DOMAIN s : Append(s, e)[i] = s[i]
<1>. DEFINE T == ToSet(s) \cup {e}
<1>1. s \in Seq(T)
  <2>1. s \in Seq(ToSet(s))
    BY DEF Tuple
  <2>2. ToSet(s) \subseteq T
    OBVIOUS
  <2>3. s \in [1 .. Len(s) -> ToSet(s)] /\ Len(s) \in Nat
    BY <2>1
  <2>. HIDE DEF T
  <2>4. s \in [1 .. Len(s) -> T]
    BY <2>2, <2>3
  <2>5. QED
    BY <2>3, <2>4
<1>2. e \in T
  OBVIOUS
<1>. HIDE DEF T
<1>3. Append(s, e) \in Seq(T)
  BY <1>1, <1>2
<1>4. Tuple(Append(s, e))
  BY <1>3, TupleFrom, Zenon
<1>5. QED
  BY <1>1, <1>2, <1>4

LEMMA TupleConcat ==
    ASSUME NEW s, Tuple(s), NEW t, Tuple(t)
    PROVE  /\ Tuple(s \o t) /\ Len(s \o t) = Len(s) + Len(t)
           /\ \A i \in 1 .. Len(s) + Len(t) :
                (s \o t)[i] = IF i <= Len(s) THEN s[i] ELSE t[i - Len(s)]
<1>. DEFINE T == ToSet(s) \cup ToSet(t)
<1>1. ToSet(s) \subseteq T /\ ToSet(t) \subseteq T
  OBVIOUS
<1>2. /\ s \in [1 .. Len(s) -> ToSet(s)] /\ Len(s) \in Nat
      /\ t \in [1 .. Len(t) -> ToSet(t)] /\ Len(t) \in Nat
  BY DEF Tuple
<1>. HIDE DEF T
<1>3. s \in [1 .. Len(s) -> T] /\ t \in [1 .. Len(t) -> T]
  BY <1>1, <1>2
<1>4. s \in Seq(T) /\ t \in Seq(T)
  BY <1>2, <1>3
<1>5. s \o t \in Seq(T) /\ Len(s \o t) = Len(s) + Len(t)
  BY <1>4
<1>6. \A i \in 1 .. Len(s) + Len(t) :
        (s \o t)[i] = IF i <= Len(s) THEN s[i] ELSE t[i - Len(s)]
  BY <1>4
<1>7. QED
  BY <1>5, <1>6, TupleFrom

LEMMA TupleTail ==
    ASSUME NEW T, NEW s \in Seq(T), s # << >>
    PROVE  /\ Head(s) \in T /\ Tail(s) \in Seq(T)
           /\ \A e \in ToSet(s) : e = Head(s) \/ e \in ToSet(Tail(s))
           /\ Head(s) \in ToSet(s) /\ ToSet(Tail(s)) \subseteq ToSet(s)
<1>1. Head(s) \in T /\ Tail(s) \in Seq(T) /\ Len(Tail(s)) = Len(s) - 1
  OBVIOUS
<1>2. ASSUME NEW i \in DOMAIN s, i # 1 PROVE s[i] \in ToSet(Tail(s))
  <2>0. i \in 2 .. Len(s) /\ Len(s) \in Nat
    BY <1>2
  <2>. DEFINE j == i - 1
  <2>1. j \in 1 .. Len(s) - 1 /\ j + 1 = i
    BY <2>0
  <2>. HIDE DEF j
  <2>3. Tail(s)[j] = s[j + 1] /\ j \in DOMAIN Tail(s)
    BY <2>0, <2>1
  <2>2. QED
    BY <2>1, <2>3 DEF ToSet
<1>3. s[1] = Head(s)
  OBVIOUS
<1>4. ASSUME NEW j \in DOMAIN Tail(s) PROVE Tail(s)[j] \in ToSet(s)
  <2>1. j + 1 \in DOMAIN s /\ Tail(s)[j] = s[j + 1]
    OBVIOUS
  <2>2. QED
    BY <2>1 DEF ToSet
<1>5. 1 \in DOMAIN s
  OBVIOUS
<1>6. QED
  BY <1>1, <1>2, <1>3, <1>4, <1>5 DEF ToSet

-----------------------------------------------------------------------------
(* Numbers in order.                                                       *)

LEMMA SmallestIsLeast ==
    ASSUME NEW S \in SUBSET Nat, S # {}
    PROVE  Min(S) \in S /\ \A n \in S : Min(S) <= n
<1>1. PICK x \in S : \A y \in S : ~(<<y, x>> \in OpToRel(<, Nat))
  BY NatLessThanWellFounded, WFMin
<1>2. ASSUME NEW y \in S PROVE x <= y
  <2>1. ~(y < x)
    BY <1>1 DEF OpToRel
  <2>2. QED
    BY <2>1
<1>3. QED
  BY <1>2 DEF Min

LEMMA LargestNumber ==
    ASSUME NEW S, IsFiniteSet(S)
    PROVE  S \subseteq Nat /\ S # {} => \E m \in S : \A n \in S : n <= m
<1>. DEFINE Bad == {T \in SUBSET S : T \subseteq Nat /\ T # {} /\ ~\E m \in T : \A n \in T : n <= m}
<1>1. SUFFICES ASSUME Bad # {} PROVE FALSE
  OBVIOUS
<1>2. PICK T \in Bad : \A U \in Bad : U \subseteq T => U = T
  <2>1. Bad \in SUBSET SUBSET S
    OBVIOUS
  <2>. HIDE DEF Bad
  <2>2. QED
    BY <1>1, <2>1, SmallestCounterexample
<1>3. PICK x \in T : TRUE
  OBVIOUS
<1>4. CASE T = {x}
  BY <1>3, <1>4
<1>5. CASE T # {x}
  <2>1. T \ {x} \in SUBSET S /\ T \ {x} # {} /\ T \ {x} # T
    BY <1>3, <1>5
  <2>2. PICK m \in T \ {x} : \A n \in T \ {x} : n <= m
    BY <1>2, <2>1
  <2>3. \A n \in T : n <= m \/ n = x
    BY <2>2
  <2>4. m <= x \/ x <= m
    BY <2>2, <1>3
  <2>5. (\A n \in T : n <= m) \/ (\A n \in T : n <= x)
    BY <2>2, <2>3, <2>4, <1>3
  <2>6. QED
    BY <2>2, <2>5, <1>3
<1>6. QED
  BY <1>4, <1>5

LEMMA ImageIsFinite ==
    ASSUME NEW S, IsFiniteSet(S), NEW f PROVE IsFiniteSet({f[x] : x \in S})
<1>. DEFINE T == {f[x] : x \in S}
            g == [x \in S |-> f[x]]
<1>1. g \in Surjection(S, T)
  BY DEF Surjection
<1>. HIDE DEF T, g
<1>2. IsFiniteSet(T)
  BY <1>1, FS_Surjection
<1>3. QED
  BY <1>2 DEF T

Increasing(s) == \A m, n \in DOMAIN s : m < n => s[m] < s[n]

LEMMA SortedExtended ==
    ASSUME NEW k \in Nat, NEW U \in SUBSET Nat, NEW s \in [1 .. k -> U], Increasing(s),
           NEW m \in Nat, \A n \in U : n < m
    PROVE  \E t \in [1 .. k + 1 -> U \cup {m}] : Increasing(t)
<1>. DEFINE longer == [i \in 1 .. k + 1 |-> IF i = k + 1 THEN m ELSE s[i]]
<1>1. longer \in [1 .. k + 1 -> U \cup {m}]
  OBVIOUS
<1>2. Increasing(longer)
  <2>1. SUFFICES ASSUME NEW a \in 1 .. k + 1, NEW b \in 1 .. k + 1, a < b
                 PROVE  longer[a] < longer[b]
    BY DEF Increasing
  <2>2. a \in 1 .. k /\ longer[a] = s[a] /\ s[a] \in U
    BY <2>1
  <2>3. CASE b = k + 1
    BY <2>2, <2>3
  <2>4. CASE b # k + 1
    <3>1. b \in DOMAIN s /\ a \in DOMAIN s /\ longer[b] = s[b]
      BY <2>2, <2>4
    <3>2. QED
      BY <3>1, <2>1, <2>2 DEF Increasing
  <2>5. QED
    BY <2>3, <2>4
<1>3. QED
  BY <1>1, <1>2

LEMMA SortedExists ==
    ASSUME NEW S, IsFiniteSet(S)
    PROVE  S \subseteq Nat => \E s \in [1 .. Cardinality(S) -> S] : Increasing(s)
<1>. DEFINE Bad == {T \in SUBSET S : T \subseteq Nat /\ ~\E s \in [1 .. Cardinality(T) -> T] : Increasing(s)}
<1>1. SUFFICES ASSUME Bad # {} PROVE FALSE
  BY DEF Bad
<1>2. PICK T \in Bad : \A U \in Bad : U \subseteq T => U = T
  <2>1. Bad \in SUBSET SUBSET S
    OBVIOUS
  <2>. HIDE DEF Bad
  <2>2. QED
    BY <1>1, <2>1, SmallestCounterexample
<1>3. T \in SUBSET S /\ T \in SUBSET Nat /\ IsFiniteSet(T)
  BY FS_Subset
<1>4. T # {}
  <2>1. SUFFICES ASSUME T = {} PROVE FALSE
    OBVIOUS
  <2>2. Cardinality(T) = 0
    BY <2>1, FS_EmptySet
  <2>3. [i \in 1 .. 0 |-> i] \in [1 .. Cardinality(T) -> T]
    BY <2>2
  <2>4. Increasing([i \in 1 .. 0 |-> i])
    BY DEF Increasing
  <2>5. QED
    BY <2>3, <2>4
<1>5. PICK m \in T : \A n \in T : n <= m
  BY <1>3, <1>4, LargestNumber
<1>. DEFINE U == T \ {m}
<1>6. /\ U \in SUBSET S /\ IsFiniteSet(U) /\ Cardinality(U) \in Nat
      /\ Cardinality(T) = Cardinality(U) + 1
  <2>1. IsFiniteSet(U) /\ Cardinality(U) = Cardinality(T) - 1
    BY <1>3, FS_RemoveElement
  <2>2. Cardinality(T) \in Nat /\ Cardinality(U) \in Nat
    BY <1>3, <2>1, FS_CardinalityType
  <2>3. QED
    BY <1>3, <2>1, <2>2
<1>7. U \notin Bad
  BY <1>2
<1>8. PICK s \in [1 .. Cardinality(U) -> U] : Increasing(s)
  BY <1>6, <1>7
<1>9. m \in Nat /\ U \in SUBSET Nat /\ U \cup {m} = T /\ \A n \in U : n < m
  BY <1>3, <1>5
<1>. HIDE DEF U, Bad
<1>10. \E t \in [1 .. Cardinality(U) + 1 -> U \cup {m}] : Increasing(t)
  BY <1>6, <1>8, <1>9, SortedExtended
<1>13. \E t \in [1 .. Cardinality(T) -> T] : Increasing(t)
  BY <1>6, <1>9, <1>10
<1>14. QED
  BY <1>2, <1>13 DEF Bad

LEMMA SortedIsSorted ==
    ASSUME NEW S, S \subseteq Nat, IsFiniteSet(S)
    PROVE  /\ Sorted(S) \in [1 .. Cardinality(S) -> S] /\ Cardinality(S) \in Nat
           /\ Sorted(S) \in Seq(S) /\ ToSet(Sorted(S)) = S
           /\ \A m, n \in DOMAIN Sorted(S) : m < n => Sorted(S)[m] < Sorted(S)[n]
<1>. DEFINE k == Cardinality(S)
            s == Sorted(S)
<1>1. k \in Nat
  BY FS_CardinalityType
<1>2. s \in [1 .. k -> S] /\ Increasing(s)
  BY SortedExists DEF Sorted, Increasing
<1>. HIDE DEF k, s
<1>3. s \in Injection(1 .. k, S)
  <2>1. SUFFICES ASSUME NEW a \in 1 .. k, NEW b \in 1 .. k, s[a] = s[b] PROVE a = b
    BY <1>2 DEF Injection, IsInjective
  <2>2. s[a] \in Nat /\ s[b] \in Nat
    BY <1>2
  <2>3. QED
    BY <2>1, <2>2, <1>1, <1>2 DEF Increasing
<1>4. Cardinality(1 .. k) = k
  BY <1>1, FS_Interval
<1>5. s \in Surjection(1 .. k, S)
  BY <1>3, <1>4, FS_Injection DEF k
<1>6. ToSet(s) = S
  BY <1>2, <1>5 DEF ToSet, Surjection
<1>7. QED
  BY <1>1, <1>2, <1>6 DEF s, k, Increasing

-----------------------------------------------------------------------------
(* The service and its clients.                                            *)

Stages == {"unborn", "starting", "dead"} \cup HasStore

\* Where a service is that has written the file.
Public == {"published", "serving", "stopping", "withdrawing", "dead"}

\* The store is one process's, so the file is written by one at a time.
OneStore ==
    \A s, t \in Process : stage[s] \in HasStore /\ stage[t] \in HasStore => s = t

Publishing ==
    \A s \in Process : stage[s] = "publishing" /\ s \notin withdrawn => file = Torn

\* What the file names was there to be found once.
FileIsOfService ==
    file \notin {None, Torn} => file \in Process /\ stage[file] \in Public

\* Who serves has served, and who has serves until it dies.
Serving ==
    /\ served \subseteq Process
    /\ \A s \in served : stage[s] \in {"serving", "dead"}
    /\ \A s \in Process : stage[s] = "serving" => s \in served

ServiceInv ==
    /\ stage \in [Process -> Stages] /\ child \in Process \cup {None}
    /\ port \in [Process -> Port \cup {None}]
    /\ OneStore /\ Publishing /\ FileIsOfService /\ Discoverable /\ Serving

\* Places at which a client believes nothing yet.
Doubtful == {"connecting", "probing", "spawning", "waiting", "looking", "without", "idle",
             "checking", "finding", "done", "gone", "withdrawing"}

Places == Doubtful \cup {"connected", "ready", "calling"}

\* What a client believes in has served, or its port is that of one that has.
Believes(c) ==
    \/ client[c] \in {"connected", "ready"}
    \/ c = "bridge" /\ client[c] = "calling"

HasServed(e) ==
    e \in served \/ (stage[e] = "dead" /\ \E s \in served : port[s] = port[e])

ClientHolds(c) ==
    /\ holds[c] # None => holds[c] \in Process /\ stage[holds[c]] \in Public
    /\ c \in {"bridge", "desktop"} /\ Believes(c) => holds[c] # None /\ HasServed(holds[c])

ClientInv ==
    /\ client \in [Client -> Places] /\ holds \in [Client -> Process \cup {None}]
    /\ \A c \in Client : ClientHolds(c)

Inv == ServiceInv /\ ClientInv

\* A service that has been found is found or dead from then on, where it was;
\* and one that has served or is dead stays so.
Steady ==
    /\ served \subseteq served'
    /\ \A s \in Process :
        /\ stage[s] \in Public => stage'[s] \in Public /\ port'[s] = port[s]
        /\ stage[s] = "dead" => stage'[s] = "dead"

LEMMA InitHolds == Init => Inv
<1>1. SUFFICES ASSUME Init PROVE Inv
  OBVIOUS
<1>2. /\ stage = [s \in Process |-> "unborn"] /\ file = None /\ child = None
      /\ client = [c \in Client |-> IF c = "desktop" THEN "idle" ELSE "connecting"]
      /\ holds = [c \in Client |-> None] /\ served = {}
      /\ port = [s \in Process |-> None]
  BY <1>1 DEF Init
<1>3. ServiceInv
  BY <1>2 DEF ServiceInv, OneStore, Publishing, FileIsOfService, Discoverable, Serving,
              Stages, HasStore
<1>4. client \in [Client -> Places]
  BY <1>2 DEF Places, Doubtful
<1>5. \A c \in Client : client[c] \in {"connecting", "idle"} /\ holds[c] = None
  BY <1>2 DEF Client
<1>6. \A c \in Client : ClientHolds(c)
  BY <1>5 DEF ClientHolds, Believes
<1>7. QED
  BY <1>2, <1>3, <1>4, <1>6 DEF Inv, ClientInv

-----------------------------------------------------------------------------
(* The service.                                                            *)

\* What has served, or is where one has, stays so.
LEMMA HasServedStays ==
    ASSUME Inv, Steady, NEW e \in Process, stage[e] \in Public, HasServed(e)
    PROVE  HasServed(e)'
<1>1. CASE e \in served
  BY <1>1 DEF Steady, HasServed
<1>2. CASE e \notin served
  <2>1. PICK s \in served : stage[e] = "dead" /\ port[s] = port[e]
    BY <1>2 DEF HasServed
  <2>2. s \in Process /\ stage[s] \in Public /\ s \in served'
    BY <2>1 DEF Inv, ServiceInv, Serving, Public, Steady
  <2>3. port'[s] = port'[e] /\ stage'[e] = "dead"
    BY <2>1, <2>2 DEF Steady
  <2>4. QED
    BY <2>2, <2>3 DEF HasServed
<1>3. QED
  BY <1>1, <1>2

\* Steps that leave the clients alone.
LEMMA ClientsKeep ==
    ASSUME Inv, Steady, UNCHANGED <<client, holds>> PROVE ClientInv'
BY HasServedStays DEF Inv, ClientInv, ClientHolds, Believes, Steady

LEMMA OpenKeeps ==
    ASSUME Inv, NEW s \in Process, OpenStore(s) PROVE Inv'
<1>1. /\ stage[s] = "starting" /\ UNCHANGED <<file, port, served, child, withdrawn, client, holds>>
      /\ \/ stage' = [stage EXCEPT ![s] = "dead"]
         \/ /\ stage' = [stage EXCEPT ![s] = "open"]
            /\ \A t \in Process : stage[t] \notin HasStore
  BY DEF OpenStore, To, clients, past
<1>2. ServiceInv'
  BY <1>1 DEF Inv, ServiceInv, OneStore, Publishing, FileIsOfService, Discoverable, Serving,
              Stages, HasStore, Public
<1>3. Steady
  BY <1>1 DEF Inv, ServiceInv, Steady, Public
<1>4. QED
  BY <1>1, <1>2, <1>3, ClientsKeep DEF Inv

LEMMA BindKeeps ==
    ASSUME Inv, NEW s \in Process, Bind(s) PROVE Inv'
<1>1. /\ stage[s] = "open" /\ UNCHANGED <<file, served, child, withdrawn, client, holds>>
      /\ stage' = [stage EXCEPT ![s] = "bound"]
      /\ \E p \in Port : port' = [port EXCEPT ![s] = p]
  BY DEF Bind, To, clients, past
<1>2. ServiceInv'
  BY <1>1 DEF Inv, ServiceInv, OneStore, Publishing, FileIsOfService, Discoverable, Serving,
              Stages, HasStore, Public
<1>3. Steady
  BY <1>1 DEF Inv, ServiceInv, Steady, Public
<1>4. QED
  BY <1>1, <1>2, <1>3, ClientsKeep DEF Inv

LEMMA PublishKeeps ==
    ASSUME Inv, NEW s \in Process, Publish(s) PROVE Inv'
<1>1. UNCHANGED <<port, served, child, withdrawn, client, holds>>
  BY DEF Publish, clients, past
<1>2. CASE To(s, "bound", "publishing") /\ file' = Torn
  <2>1. ServiceInv'
    BY <1>1, <1>2 DEF Inv, ServiceInv, OneStore, Publishing, FileIsOfService, Discoverable, Serving,
                Stages, HasStore, Public, To
  <2>2. Steady
    BY <1>1, <1>2 DEF Inv, ServiceInv, Steady, Public, To
  <2>3. QED
    BY <1>1, <2>1, <2>2, ClientsKeep DEF Inv
<1>3. CASE To(s, "publishing", "published") /\ file' = IF file = Torn THEN s ELSE file
  <2>1. ServiceInv'
    BY <1>1, <1>3 DEF Inv, ServiceInv, OneStore, Publishing, FileIsOfService, Discoverable, Serving,
                Stages, HasStore, Public, To
  <2>2. Steady
    BY <1>1, <1>3 DEF Inv, ServiceInv, Steady, Public, To
  <2>3. QED
    BY <1>1, <2>1, <2>2, ClientsKeep DEF Inv
<1>4. QED
  BY <1>2, <1>3 DEF Publish

LEMMA ServeKeeps ==
    ASSUME Inv, NEW s \in Process, Serve(s) PROVE Inv'
<1>1. /\ stage[s] = "published" /\ UNCHANGED <<file, port, child, withdrawn, client, holds>>
      /\ served' = served \cup {s}
      /\ stage' = [stage EXCEPT ![s] = "serving"]
  BY DEF Serve, To, clients
<1>2. ServiceInv'
  BY <1>1 DEF Inv, ServiceInv, OneStore, Publishing, FileIsOfService, Discoverable, Serving,
              Stages, HasStore, Public
<1>3. Steady
  BY <1>1 DEF Inv, ServiceInv, Steady, Public
<1>4. QED
  BY <1>1, <1>2, <1>3, ClientsKeep DEF Inv

LEMMA StopKeeps ==
    ASSUME Inv, NEW s \in Process, Stop(s) PROVE Inv'
<1>1. UNCHANGED <<port, served, child, withdrawn, client, holds>>
  BY DEF Stop, clients, past
<1>2. \/ To(s, "published", "stopping") /\ file' = file
      \/ To(s, "stopping", "withdrawing") /\ file' = None
      \/ To(s, "withdrawing", "dead") /\ file' = file
  BY DEF Stop
<1>3. ServiceInv'
  BY <1>1, <1>2 DEF Inv, ServiceInv, OneStore, Publishing, FileIsOfService, Discoverable, Serving,
              Stages, HasStore, Public, To
<1>4. Steady
  BY <1>1, <1>2 DEF Inv, ServiceInv, Steady, Public, To
<1>5. QED
  BY <1>1, <1>3, <1>4, ClientsKeep DEF Inv

\* Death leaves the file to itself, and the store to the next.
LEMMA DiesKeeps ==
    ASSUME Inv, NEW s \in Process, Dies(s), UNCHANGED <<file, port, served, child, withdrawn>>
    PROVE  ServiceInv' /\ Steady
<1>1. stage' = [stage EXCEPT ![s] = "dead"]
  BY DEF Dies
<1>2. ServiceInv'
  BY <1>1 DEF Inv, ServiceInv, OneStore, Publishing, FileIsOfService, Discoverable, Serving,
              Stages, HasStore, Public
<1>3. Steady
  BY <1>1 DEF Inv, ServiceInv, Steady, Public
<1>4. QED
  BY <1>2, <1>3

LEMMA SpawnKeeps ==
    ASSUME Inv, NEW s \in Process, NEW b, Spawn(s, b), UNCHANGED <<port, served, file, withdrawn>>,
           child' \in {child, s}
    PROVE  ServiceInv' /\ Steady
<1>1. stage[s] = "unborn" /\ stage' = [stage EXCEPT ![s] = "starting"]
  BY DEF Spawn, To
<1>2. ServiceInv'
  BY <1>1 DEF Inv, ServiceInv, OneStore, Publishing, FileIsOfService, Discoverable, Serving,
              Stages, HasStore, Public
<1>3. Steady
  BY <1>1 DEF Inv, ServiceInv, Steady, Public
<1>4. QED
  BY <1>2, <1>3

-----------------------------------------------------------------------------
(* The clients.                                                            *)

\* Who answers where an endpoint says is the service it names, or that is dead.
LEMMA AnsweredByItself ==
    ASSUME Inv, NEW e \in Process, stage[e] \in Public, NEW s \in Answering(e)
    PROVE  HasServed(e)
<1>1. s \in served /\ s \in Process /\ stage[s] = "serving" /\ port[s] = port[e]
  BY DEF Answering, Inv, ServiceInv, Serving
<1>2. CASE stage[e] = "dead"
  BY <1>1, <1>2 DEF HasServed
<1>3. CASE stage[e] # "dead"
  <2>1. stage[e] \in HasStore /\ stage[s] \in HasStore
    BY <1>1, <1>3 DEF Public, HasStore
  <2>2. e = s
    BY <1>1, <2>1 DEF Inv, ServiceInv, OneStore
  <2>3. QED
    BY <1>1, <2>2 DEF HasServed
<1>4. QED
  BY <1>2, <1>3

\* A client's step leaves the other clients alone.
LEMMA OthersHold ==
    ASSUME Inv, Steady, NEW c \in Client, ClientHolds(c)',
           client' = [client EXCEPT ![c] = client'[c]], client'[c] \in Places,
           holds' = [holds EXCEPT ![c] = holds'[c]], holds'[c] \in Process \cup {None}
    PROVE  ClientInv'
<1>1. /\ client' \in [Client -> Places] /\ holds' \in [Client -> Process \cup {None}]
  BY DEF Inv, ClientInv
<1>2. \A d \in Client \ {c} : client'[d] = client[d] /\ holds'[d] = holds[d]
  BY DEF Inv, ClientInv
<1>3. \A d \in Client \ {c} : ClientHolds(d)'
  BY <1>2, HasServedStays DEF Inv, ClientInv, ClientHolds, Believes, Steady
<1>4. QED
  BY <1>1, <1>3 DEF ClientInv

LEMMA DoubtIsSound ==
    ASSUME NEW c \in Client, client[c] \in Doubtful PROVE ~Believes(c)
BY DEF Doubtful, Believes

LEMMA ReadsKeeps ==
    ASSUME Inv, NEW c \in Client, NEW from, NEW found \in Places, NEW not \in Places,
           Reads(c, from, found, not), UNCHANGED <<stage, port, served>>,
           c = "hook" \/ (found \in Doubtful /\ not \in Doubtful)
    PROVE  ClientInv'
<1>1. Steady
  BY DEF Steady
<1>2. /\ client' = [client EXCEPT ![c] = client'[c]] /\ client'[c] \in {found, not}
      /\ holds' = [holds EXCEPT ![c] = ReadFile] /\ holds'[c] = ReadFile
  BY DEF Reads, At, Inv, ClientInv
<1>3. ReadFile # None => ReadFile \in Process /\ stage[ReadFile] \in Public
  BY DEF ReadFile, Inv, ServiceInv, FileIsOfService
<1>4. c = "hook" \/ ~Believes(c)'
  BY <1>2, DoubtIsSound DEF Doubtful, Believes
<1>5. ClientHolds(c)'
  BY <1>2, <1>3, <1>4 DEF ClientHolds
<1>6. QED
  BY <1>1, <1>2, <1>3, <1>5, OthersHold

LEMMA ProbesKeeps ==
    ASSUME Inv, NEW c \in Client, NEW from, NEW alive \in Places, NEW not \in Doubtful,
           Probes(c, from, alive, not), UNCHANGED <<stage, port, served>>
    PROVE  ClientInv'
<1>1. Steady
  BY DEF Steady
<1>2. /\ client' = [client EXCEPT ![c] = client'[c]] /\ holds' = holds
      /\ client'[c] = IF IsAlive(holds[c]) THEN alive ELSE not
      /\ holds'[c] \in Process \cup {None} /\ ClientHolds(c)
      /\ holds' = [holds EXCEPT ![c] = holds'[c]]
  BY DEF Probes, At, Inv, ClientInv
<1>3. client'[c] \in Places
  BY <1>2 DEF Places
<1>4. ASSUME IsAlive(holds[c]) PROVE ClientHolds(c)'
  <2>1. PICK s \in Answering(holds[c]) : TRUE
    BY <1>4 DEF IsAlive
  <2>2. holds[c] # None
    BY <2>1 DEF Answering
  <2>3. holds[c] \in Process /\ stage[holds[c]] \in Public
    BY <1>2, <2>2 DEF ClientHolds
  <2>4. HasServed(holds[c])
    BY <2>1, <2>3, AnsweredByItself
  <2>5. HasServed(holds[c])'
    BY <1>1, <1>2, <2>3, <2>4, HasServedStays
  <2>6. QED
    BY <1>1, <1>2, <2>2, <2>3, <2>5 DEF ClientHolds, Steady
<1>5. ASSUME ~IsAlive(holds[c]) PROVE ClientHolds(c)'
  <2>1. client'[c] \in Doubtful
    BY <1>2, <1>5
  <2>2. ~Believes(c)'
    BY <2>1 DEF Doubtful, Believes
  <2>3. QED
    BY <1>2, <2>2 DEF ClientHolds
<1>6. ClientHolds(c)'
  BY <1>4, <1>5
<1>7. QED
  BY <1>1, <1>2, <1>3, <1>6, OthersHold

\* A client that goes on with what it holds believes no more than it did.
LEMMA MovesKeep ==
    ASSUME Inv, Steady, NEW c \in Client, NEW place \in Places, UNCHANGED holds,
           client' = [client EXCEPT ![c] = place],
           Believes(c)' => Believes(c) \/ c = "hook"
    PROVE  ClientInv'
<1>1. client'[c] = place /\ holds[c] \in Process \cup {None} /\ ClientHolds(c)
  BY DEF Inv, ClientInv
<1>2. holds' = [holds EXCEPT ![c] = holds'[c]]
  BY DEF Inv, ClientInv
<1>3. ClientHolds(c)'
  BY <1>1, HasServedStays DEF ClientHolds, Steady
<1>4. QED
  BY <1>1, <1>2, <1>3, OthersHold

\* A client that forgets what it holds believes nothing.
LEMMA ForgetsKeeps ==
    ASSUME Inv, Steady, NEW c \in Client, NEW place \in Doubtful,
           client' = [client EXCEPT ![c] = place], holds' = [holds EXCEPT ![c] = None]
    PROVE  ClientInv'
<1>1. client'[c] = place /\ holds'[c] = None
  BY DEF Inv, ClientInv
<1>2. ~Believes(c)'
  BY <1>1 DEF Doubtful, Believes
<1>3. ClientHolds(c)'
  BY <1>1, <1>2 DEF ClientHolds
<1>4. QED
  BY <1>1, <1>3, OthersHold DEF Places

\* Steps that change nothing of a service or its file.
LEMMA ServiceKeeps ==
    ASSUME Inv, UNCHANGED <<stage, file, port, served, child, withdrawn>> PROVE ServiceInv' /\ Steady
BY DEF Inv, ServiceInv, OneStore, Publishing, FileIsOfService, Discoverable, Serving, Steady

LEMMA BridgeKeeps ==
    ASSUME Inv, BridgeStep \/ BridgeGivesUp \/ BridgeCalls PROVE Inv'
<1>. USE DEF Places, Doubtful
<1>0. "bridge" \in Client
  BY DEF Client
<1>1. CASE BridgeConnects \/ BridgeWaits
  <2>1. UNCHANGED <<stage, file, port, served, child, withdrawn>>
    BY <1>1 DEF BridgeConnects, BridgeWaits, service, past
  <2>2. \/ Reads("bridge", "connecting", "probing", "spawning")
        \/ Probes("bridge", "probing", "connected", "spawning")
        \/ Reads("bridge", "waiting", "looking", "waiting")
        \/ Probes("bridge", "looking", "connected", "waiting")
    BY <1>1 DEF BridgeConnects, BridgeWaits
  <2>3. ClientInv'
    BY <1>0, <2>1, <2>2, ReadsKeeps, ProbesKeeps
  <2>4. QED
    BY <2>1, <2>3, ServiceKeeps DEF Inv
<1>2. CASE BridgeStarts
  <2>1. UNCHANGED <<file, port, served, child, withdrawn, holds>>
    BY <1>2 DEF BridgeStarts, past
  <2>2. ServiceInv' /\ Steady
    <3>1. CASE \E s \in Process : Spawn(s, FALSE)
      BY <2>1, <3>1, SpawnKeeps
    <3>2. CASE UNCHANGED stage
      BY <2>1, <3>2, ServiceKeeps
    <3>3. QED
      BY <1>2, <3>1, <3>2 DEF BridgeStarts
  <2>3. PICK place \in {"waiting", "without"} : client' = [client EXCEPT !["bridge"] = place]
    BY <1>2 DEF BridgeStarts, At
  <2>4. ~Believes("bridge")'
    BY <1>0, <2>3 DEF Inv, ClientInv, Believes
  <2>5. QED
    BY <1>0, <2>1, <2>2, <2>3, <2>4, MovesKeep DEF Inv
<1>3. CASE BridgeGivesUp
  <2>1. UNCHANGED <<stage, file, port, served, child, withdrawn>>
    BY <1>3 DEF BridgeGivesUp, service, past
  <2>2. /\ client' = [client EXCEPT !["bridge"] = "without"]
        /\ holds' = [holds EXCEPT !["bridge"] = None]
    BY <1>3 DEF BridgeGivesUp, At
  <2>3. QED
    BY <1>0, <2>1, <2>2, ServiceKeeps, ForgetsKeeps DEF Inv
<1>4. CASE BridgeCalls
  <2>1. UNCHANGED <<stage, file, port, served, child, withdrawn, holds>>
    BY <1>4 DEF BridgeCalls, CallsIn, Answered, service, past
  <2>2. PICK place \in {"connected", "calling"} :
            /\ client' = [client EXCEPT !["bridge"] = place]
            /\ client["bridge"] \in {"connected", "calling"}
    BY <1>4 DEF BridgeCalls, CallsIn, Answered, At
  <2>3. Believes("bridge")
    BY <2>2 DEF Believes
  <2>4. QED
    BY <1>0, <2>1, <2>2, <2>3, ServiceKeeps, MovesKeep DEF Inv
<1>5. QED
  BY <1>1, <1>2, <1>3, <1>4 DEF BridgeStep

LEMMA DesktopKeeps ==
    ASSUME Inv, DesktopFinds \/ DesktopStarts \/ DesktopIsAnswered \/ DesktopCalls
                \/ DesktopGivesUp
    PROVE  Inv'
<1>. USE DEF Places, Doubtful
<1>0. "desktop" \in Client
  BY DEF Client
<1>1. CASE DesktopFinds
  <2>1. UNCHANGED <<stage, file, port, served, child, withdrawn>>
    BY <1>1 DEF DesktopFinds, service, past
  <2>2. ClientInv'
    BY <1>0, <1>1, <2>1, ReadsKeeps, ProbesKeeps DEF DesktopFinds
  <2>3. QED
    BY <2>1, <2>2, ServiceKeeps DEF Inv
<1>2. CASE DesktopStarts
  <2>1. UNCHANGED <<port, served, file, withdrawn>> /\ holds' = [holds EXCEPT !["desktop"] = None]
    BY <1>2 DEF DesktopStarts, past
  <2>2. ServiceInv' /\ Steady
    <3>1. CASE \E s \in Process : Spawn(s, FALSE) /\ child' = s
      BY <2>1, <3>1, SpawnKeeps
    <3>2. CASE UNCHANGED <<stage, child>>
      BY <2>1, <3>2, ServiceKeeps
    <3>3. QED
      BY <1>2, <3>1, <3>2 DEF DesktopStarts
  <2>3. PICK place \in {"waiting", "idle"} : client' = [client EXCEPT !["desktop"] = place]
    BY <1>2 DEF DesktopStarts, At
  <2>4. QED
    BY <1>0, <2>1, <2>2, <2>3, ForgetsKeeps DEF Inv
<1>3. CASE DesktopIsAnswered \/ DesktopCalls
  <2>1. UNCHANGED <<stage, file, port, served, child, withdrawn, holds>>
    BY <1>3 DEF DesktopIsAnswered, DesktopCalls, CallsIn, Answered, service, past
  <2>2. PICK place \in {"calling", "idle", "finding", "checking"} :
            client' = [client EXCEPT !["desktop"] = place]
    BY <1>3 DEF DesktopIsAnswered, DesktopCalls, CallsIn, Answered, At
  <2>3. ~Believes("desktop")'
    BY <1>0, <2>2 DEF Inv, ClientInv, Believes
  <2>4. QED
    BY <1>0, <2>1, <2>2, <2>3, ServiceKeeps, MovesKeep DEF Inv
<1>4. CASE DesktopGivesUp
  <2>1. UNCHANGED <<stage, file, port, served, child, withdrawn>>
    BY <1>4 DEF DesktopGivesUp, service, past
  <2>2. /\ client' = [client EXCEPT !["desktop"] = "idle"]
        /\ holds' = [holds EXCEPT !["desktop"] = None]
    BY <1>4 DEF DesktopGivesUp, At
  <2>3. QED
    BY <1>0, <2>1, <2>2, ServiceKeeps, ForgetsKeeps DEF Inv
<1>5. QED
  BY <1>1, <1>2, <1>3, <1>4

LEMMA QuitKeeps ==
    ASSUME Inv, Quit PROVE Inv'
<1>0. "desktop" \in Client
  BY DEF Client
<1>1. /\ UNCHANGED <<file, port, served, child, withdrawn>>
      /\ holds' = [holds EXCEPT !["desktop"] = None]
  BY DEF Quit, past
<1>2. ServiceInv' /\ Steady
  <2>1. CASE child # None /\ Dies(child)
    BY <1>1, <2>1, DiesKeeps DEF Inv, ServiceInv
  <2>2. CASE UNCHANGED stage
    BY <1>1, <2>2, ServiceKeeps
  <2>3. QED
    BY <2>1, <2>2 DEF Quit
<1>3. PICK place \in {"gone", "withdrawing"} : client' = [client EXCEPT !["desktop"] = place]
  BY DEF Quit
<1>4. QED
  BY <1>0, <1>1, <1>2, <1>3, ForgetsKeeps DEF Inv, Doubtful

\* What the desktop removes is excused.
LEMMA WithdrawKeeps ==
    ASSUME Inv, Withdraw PROVE Inv'
<1>0. "desktop" \in Client
  BY DEF Client
<1>1. /\ UNCHANGED <<stage, port, served, child, holds>> /\ file' = None
      /\ withdrawn' = withdrawn \cup {s \in Process : file = s \/ stage[s] = "publishing"}
      /\ client' = [client EXCEPT !["desktop"] = "gone"]
  BY DEF Withdraw, At, service
<1>2. ServiceInv'
  BY <1>1 DEF Inv, ServiceInv, OneStore, Publishing, FileIsOfService, Discoverable, Serving
<1>3. Steady
  BY <1>1 DEF Steady
<1>4. ~Believes("desktop")'
  BY <1>0, <1>1 DEF Inv, ClientInv, Believes
<1>5. QED
  BY <1>0, <1>1, <1>2, <1>3, <1>4, MovesKeep DEF Inv, Places, Doubtful

LEMMA HookKeeps ==
    ASSUME Inv, Hook PROVE Inv'
<1>0. "hook" \in Client
  BY DEF Client
<1>1. UNCHANGED <<stage, file, port, served, child, withdrawn>>
  BY DEF Hook, service, past
<1>2. CASE Reads("hook", "connecting", "ready", "done")
  BY <1>0, <1>1, <1>2, ReadsKeeps, ServiceKeeps DEF Inv, Places, Doubtful
<1>3. CASE CallsIn("hook", "ready", "calling", "done") \/ Answered("hook", "calling", "done")
  <2>1. UNCHANGED holds
    BY <1>3 DEF CallsIn, Answered
  <2>2. PICK place \in {"calling", "done"} : client' = [client EXCEPT !["hook"] = place]
    BY <1>3 DEF CallsIn, Answered, At
  <2>3. QED
    BY <1>0, <1>1, <2>1, <2>2, ServiceKeeps, MovesKeep DEF Inv, Places, Doubtful
<1>4. QED
  BY <1>2, <1>3 DEF Hook

-----------------------------------------------------------------------------
LEMMA StepHolds == Inv /\ [Next]_vars => Inv'
<1>1. SUFFICES ASSUME Inv, [Next]_vars PROVE Inv'
  OBVIOUS
<1>2. ASSUME UNCHANGED <<stage, file, port, served, child, withdrawn, client, holds>> PROVE Inv'
  BY <1>1, <1>2, ServiceKeeps, ClientsKeep DEF Inv
<1>3. ASSUME NEW s \in Process, ServiceStep(s) PROVE Inv'
  BY <1>1, <1>3, OpenKeeps, BindKeeps, PublishKeeps, ServeKeeps, StopKeeps DEF ServiceStep
<1>4. ASSUME NEW s \in Process, SmokeCheck(s) PROVE Inv'
  <2>1. Spawn(s, TRUE) /\ UNCHANGED <<file, port, served, child, withdrawn, client, holds>>
    BY <1>4 DEF SmokeCheck, clients, past
  <2>2. QED
    BY <1>1, <2>1, SpawnKeeps, ClientsKeep DEF Inv
<1>5. ASSUME NEW s \in Process, Crash(s) PROVE Inv'
  <2>1. Dies(s) /\ UNCHANGED <<file, port, served, child, withdrawn, client, holds>>
    BY <1>5 DEF Crash, clients, past
  <2>2. QED
    BY <1>1, <2>1, DiesKeeps, ClientsKeep DEF Inv
<1>6. ASSUME NEW t \in Thread, TakesTurn(t) \/ EndsTurn(t) PROVE Inv'
  BY <1>2, <1>6 DEF TakesTurn, EndsTurn, service, clients, past
<1>7. CASE BridgeStep \/ BridgeGivesUp \/ BridgeCalls
  BY <1>1, <1>7, BridgeKeeps
<1>8. CASE DesktopStep \/ DesktopCalls \/ DesktopGivesUp \/ Quit
  BY <1>1, <1>8, DesktopKeeps, WithdrawKeeps, QuitKeeps DEF DesktopStep
<1>9. CASE Hook
  BY <1>1, <1>9, HookKeeps
<1>10. CASE UNCHANGED vars
  BY <1>2, <1>10 DEF vars, service, past, clients
<1>11. QED
  BY <1>1, <1>3, <1>4, <1>5, <1>6, <1>7, <1>8, <1>9, <1>10 DEF Next

-----------------------------------------------------------------------------
(* What the type invariant says besides.                                   *)

PortsInv == port \in [Process -> Port \cup {None}] /\ bounded \in [Process -> BOOLEAN]

\* Where a turn is taken, somebody has the store open and has published it.
EngineInv ==
    /\ engine \in Thread \cup {None}
    /\ engine # None => \E s \in Process : stage[s] \in {"published", "serving"}

LEMMA PortsKeep == PortsInv /\ [Next]_vars => PortsInv'
<1>. SUFFICES ASSUME PortsInv, [Next]_vars PROVE PortsInv'
  OBVIOUS
<1>. USE DEF PortsInv
<1>1. ASSUME NEW s \in Process, ServiceStep(s) PROVE PortsInv'
  BY <1>1 DEF ServiceStep, OpenStore, Bind, Publish, Serve, Stop
<1>2. ASSUME NEW s \in Process, NEW b \in BOOLEAN, Spawn(s, b), UNCHANGED port PROVE PortsInv'
  BY <1>2 DEF Spawn
<1>3. ASSUME UNCHANGED <<port, bounded>> PROVE PortsInv'
  BY <1>3
<1>4. ASSUME NEW s \in Process, SmokeCheck(s) \/ Crash(s) PROVE PortsInv'
  BY <1>2, <1>3, <1>4 DEF SmokeCheck, Crash
<1>5. ASSUME NEW t \in Thread, TakesTurn(t) \/ EndsTurn(t) PROVE PortsInv'
  BY <1>3, <1>5 DEF TakesTurn, EndsTurn, service
<1>6. CASE BridgeStep \/ BridgeGivesUp \/ BridgeCalls
  BY <1>2, <1>3, <1>6
  DEF BridgeStep, BridgeConnects, BridgeStarts, BridgeWaits, BridgeGivesUp, BridgeCalls, service
<1>7. CASE DesktopStep \/ DesktopCalls \/ DesktopGivesUp \/ Quit
  BY <1>2, <1>3, <1>7
  DEF DesktopStep, DesktopFinds, DesktopStarts, DesktopIsAnswered, Withdraw, DesktopCalls,
      DesktopGivesUp, Quit, service
<1>8. CASE Hook \/ UNCHANGED vars
  BY <1>3, <1>8 DEF Hook, vars, service
<1>9. QED
  BY <1>1, <1>4, <1>5, <1>6, <1>7, <1>8 DEF Next

\* A death takes the turn with it where there was one.
LEMMA DeathEndsTurn ==
    ASSUME Inv, EngineInv, NEW s \in Process, Dies(s) PROVE EngineInv'
<1>1. stage' = [stage EXCEPT ![s] = "dead"] /\ stage \in [Process -> Stages]
  BY DEF Dies, Inv, ServiceInv
<1>2. CASE stage[s] \in HasStore
  BY <1>2 DEF Dies, EngineInv
<1>3. CASE stage[s] \notin HasStore
  BY <1>1, <1>3 DEF Dies, EngineInv, HasStore
<1>4. QED
  BY <1>2, <1>3

LEMMA EngineKeeps == Inv /\ EngineInv /\ [Next]_vars => EngineInv'
<1>. SUFFICES ASSUME Inv, EngineInv, [Next]_vars PROVE EngineInv'
  OBVIOUS
<1>0. stage \in [Process -> Stages]
  BY DEF Inv, ServiceInv
<1>1. ASSUME UNCHANGED engine,
             \A s \in Process : stage[s] \in {"published", "serving"}
                                    => stage'[s] \in {"published", "serving"}
      PROVE  EngineInv'
  BY <1>1 DEF EngineInv
<1>2. ASSUME NEW s \in Process, NEW from, NEW to, To(s, from, to), UNCHANGED engine,
             from \in {"published", "serving"} => to \in {"published", "serving"}
      PROVE  EngineInv'
  <2>1. stage[s] = from /\ stage' = [stage EXCEPT ![s] = to]
    BY <1>2 DEF To
  <2>2. QED
    BY <1>0, <1>1, <1>2, <2>1
<1>3. ASSUME NEW s \in Process, ServiceStep(s) PROVE EngineInv'
  <2>1. CASE OpenStore(s) \/ Bind(s) \/ Publish(s) \/ Serve(s)
    BY <1>2, <2>1 DEF OpenStore, Bind, Publish, Serve
  <2>2. CASE Stop(s)
    <3>1. CASE engine = None
      BY <2>2, <3>1 DEF Stop, EngineInv
    <3>2. CASE engine # None
      BY <1>2, <2>2, <3>2 DEF Stop
    <3>3. QED
      BY <3>1, <3>2
  <2>3. QED
    BY <1>3, <2>1, <2>2 DEF ServiceStep
<1>4. ASSUME NEW s \in Process, NEW b, Spawn(s, b), UNCHANGED engine PROVE EngineInv'
  BY <1>2, <1>4 DEF Spawn
<1>5. ASSUME UNCHANGED <<stage, engine>> PROVE EngineInv'
  BY <1>1, <1>5
<1>6. ASSUME NEW s \in Process, SmokeCheck(s) \/ Crash(s) PROVE EngineInv'
  BY <1>4, <1>6, DeathEndsTurn DEF SmokeCheck, Crash
<1>7. ASSUME NEW t \in Thread, TakesTurn(t) \/ EndsTurn(t) PROVE EngineInv'
  BY <1>7 DEF TakesTurn, EndsTurn, service, EngineInv
<1>8. CASE BridgeStep \/ BridgeGivesUp \/ BridgeCalls
  BY <1>4, <1>5, <1>8
  DEF BridgeStep, BridgeConnects, BridgeStarts, BridgeWaits, BridgeGivesUp, BridgeCalls, service
<1>9. CASE Quit
  BY <1>5, <1>9, DeathEndsTurn DEF Quit, Inv, ServiceInv
<1>10. CASE DesktopStep \/ DesktopCalls \/ DesktopGivesUp
  BY <1>4, <1>5, <1>10
  DEF DesktopStep, DesktopFinds, DesktopStarts, DesktopIsAnswered, Withdraw, DesktopCalls,
      DesktopGivesUp, service
<1>11. CASE Hook \/ UNCHANGED vars
  BY <1>5, <1>11 DEF Hook, vars, service
<1>12. QED
  BY <1>3, <1>6, <1>7, <1>8, <1>9, <1>10, <1>11 DEF Next

\* Every variable keeps its type, and nobody has a turn at an engine whose service
\* is not up: the death of a service ends the turns that were taken in it
\* (main.rs, run and its threads).
THEOREM Typing == Spec => []TypeOK
<1>1. Init => PortsInv /\ EngineInv
  BY DEF Init, PortsInv, EngineInv
<1>2. Inv /\ PortsInv /\ EngineInv => TypeOK
  BY DEF Inv, ServiceInv, FileIsOfService, ClientInv, PortsInv, EngineInv, Stages, TypeOK
<1>3. QED
  BY <1>1, <1>2, InitHolds, StepHolds, PortsKeep, EngineKeeps, PTL DEF Spec

\* However many services start, race, stop and die, one that runs is the one the
\* endpoint file names, unless the desktop has removed it (main.rs, run;
\* endpoint.rs, publish and withdraw).
THEOREM RunningIsDiscoverable == Spec => []Discoverable
<1>1. Inv => Discoverable
  BY DEF Inv, ServiceInv
<1>2. QED
  BY <1>1, InitHolds, StepHolds, PTL DEF Spec

\* Nobody's token is asked for and ports are used again; but whom a client has
\* settled on has served, or is dead and its port that of one that has
\* (client.rs, is_alive).
THEOREM AliveServes == Spec => []AliveMeansServed
<1>1. Inv => AliveMeansServed
  BY DEF Inv, ClientInv, ClientHolds, Believes, HasServed, AliveMeansServed, Client
<1>2. QED
  BY <1>1, InitHolds, StepHolds, PTL DEF Spec

-----------------------------------------------------------------------------
(* The reflector: the invariant.                                           *)

Machine ==
    [online : SUBSET CpuNumber, zone : Zone \cup {NoZone}, dark : SUBSET Sleeper,
     legible : BOOLEAN, privileged : BOOLEAN]

Finding ==
    [purpose : {"none", "build", "check"}, online : SUBSET CpuNumber,
     caches : SUBSET (SUBSET CpuNumber), core : [CpuNumber -> Nat],
     siblings : [CpuNumber -> SUBSET CpuNumber], cacheless : Seq(CpuNumber),
     unread : Seq(CpuNumber)]

ReflectorKnown ==
    /\ machine \in Machine /\ discovery \in Finding
    /\ turn \in 1 .. Len(Sensors) /\ passes \in Nat
    /\ disturbed \in BOOLEAN /\ sure \in BOOLEAN
    /\ Tuple(entities) /\ Tuple(channels) /\ Tuple(reports)
    /\ DOMAIN bound = Sensor

\* What has been found out is so, if nothing came or went since it was begun.
FoundTrue(t) ==
    /\ t.online = machine.online /\ ToSet(t.unread) \subseteq machine.online
    /\ t.caches \subseteq Actual.caches
    /\ \A cpu \in machine.online :
        cpu \in ToSet(t.cacheless) \/ Siblings(cpu, machine.online) \in t.caches
    /\ \A cpu \in CpuNumber :
        \/ cpu \in ToSet(t.unread)
        \/ t.core[cpu] = Actual.core[cpu] /\ t.siblings[cpu] = Actual.siblings[cpu]

DiscoveryOnItsWay ==
    /\ loop = "discovering" => discovery.purpose = "build" /\ (disturbed \/ sure)
    /\ loop = "checking" => discovery.purpose = "check"
    /\ discovery.purpose = "build" => loop = "discovering"
    /\ discovery.purpose = "check" => loop = "checking"
    /\ discovery.purpose = "none" => discovery.cacheless = << >> /\ discovery.unread = << >>
    /\ discovery.purpose # "none" /\ sure => FoundTrue(discovery)

Standing == {"binding", "built", "ready", "sensing", "taken", "checking"}

Told == IF loop = "binding" THEN turn - 1 ELSE Len(Sensors)

\* What a target of a sensor reads is of the entity in whose row it is put.
Aimed(s, t) ==
    /\ t.row \in Rows
    /\ s \in {"frequency", "idle", "counters", "scheduler"} => entities[t.row] = CpuOf(t.from)
    /\ s = "interrupts" /\ ~disturbed =>
        /\ t.from \in DOMAIN Sorted(machine.online)
        /\ entities[t.row] = CpuOf(Sorted(machine.online)[t.from])
    /\ s = "thermal" => entities[t.row][1] = "zone"
    /\ s = "thermal" /\ ~disturbed => entities[t.row] = ZoneOf(machine.zone)
    /\ s = "power" => entities[t.row] = TheDomain

SensorsBound ==
    /\ Len(reports) = Told
    /\ \A n \in DOMAIN reports :
        {"sensor", "inactive"} \subseteq DOMAIN reports[n] /\ reports[n].sensor = Sensors[n]
    /\ \A s \in Sensor : \A t \in bound[s] : Aimed(s, t)
    /\ \A column \in Columns : \E n \in DOMAIN reports :
        /\ channels[column].sensor = Sensors[n] /\ ~reports[n].inactive
        /\ channels[column].key \in ToSet(Keys(Sensors[n]))
    /\ \A m, n \in Columns : channels[m].key = channels[n].key => m = n

\* A number in a cell.
FairNumber(number, row, key) ==
    number # Hole =>
        /\ (number.pass = passes \/ key = "idle.states")
        /\ (entities[row][1] = "cpu" /\ key # "interrupts") => number.of = entities[row]
        /\ ~disturbed => number.of = entities[row]

MatrixFair ==
    /\ DOMAIN numbers = (IF loop = "binding" THEN {} ELSE Rows \X Columns)
    /\ DOMAIN reasons = DOMAIN numbers
    /\ \A c \in DOMAIN numbers :
        /\ reasons[c] = "observed" <=> numbers[c] # Hole
        /\ FairNumber(numbers[c], c[1], channels[c[2]].key)

StructureShown ==
    /\ sure /\ loop # "checking" => Shows(Entities(Actual))
    /\ ~disturbed => Shows(Entities(Actual)) /\ relations = Relations(Actual)

ReflectorInv ==
    /\ ReflectorKnown /\ DiscoveryOnItsWay
    /\ loop = "sensing" => passes > 0
    /\ loop \in Standing => SensorsBound /\ MatrixFair /\ StructureShown

-----------------------------------------------------------------------------
(* What a discovery finds.                                                 *)

LEMMA EntitiesAreListed ==
    ASSUME NEW t, t.online \in SUBSET CpuNumber, t.core \in [CpuNumber -> Nat],
           t.caches \in SUBSET (SUBSET CpuNumber)
    PROVE  Tuple(Entities(t))
<1>. DEFINE coreIds == {t.core[cpu] : cpu \in t.online}
            cores == Sorted(coreIds)
            cpus == Sorted(t.online)
            A == <<TheMachine, ThePackage>>
            B == [n \in DOMAIN cores |-> CoreOf(cores[n])]
            C == [n \in DOMAIN cpus |-> CpuOf(cpus[n])]
            D == [n \in 1 .. Cardinality(t.caches) |->
                    CacheOf(Anchor(t, SortedCaches(t.caches)[n]))]
<1>1. Entities(t) = A \o B \o C \o D
  BY DEF Entities
<1>2. CpuNumber \subseteq Nat /\ IsFiniteSet(CpuNumber)
  BY MachineAssumption
<1>3. /\ t.online \subseteq Nat /\ IsFiniteSet(t.online)
      /\ coreIds \subseteq Nat /\ IsFiniteSet(coreIds)
  <2>1. IsFiniteSet(t.online)
    BY <1>2, FS_Subset
  <2>2. IsFiniteSet(coreIds)
    BY <2>1, ImageIsFinite
  <2>3. coreIds \subseteq Nat
    OBVIOUS
  <2>4. t.online \subseteq Nat
    BY <1>2
  <2>5. QED
    BY <2>1, <2>2, <2>3, <2>4
<1>4. Cardinality(t.caches) \in Nat
  <2>1. IsFiniteSet(SUBSET CpuNumber)
    BY <1>2, FS_SUBSET
  <2>2. IsFiniteSet(t.caches)
    BY <2>1, FS_Subset
  <2>3. QED
    BY <2>2, FS_CardinalityType
<1>5. PICK k \in Nat : DOMAIN cores = 1 .. k
  BY <1>3, SortedIsSorted
<1>6. PICK m \in Nat : DOMAIN cpus = 1 .. m
  BY <1>3, SortedIsSorted
<1>7. Tuple(A)
  <2>1. A \in Seq({TheMachine, ThePackage})
    OBVIOUS
  <2>2. QED
    BY <2>1, TupleFrom
<1>8. Tuple(B)
  <2>1. B = [n \in 1 .. k |-> B[n]]
    BY <1>5
  <2>. HIDE DEF B
  <2>2. QED
    BY <2>1, TupleMade
<1>9. Tuple(C)
  <2>1. C = [n \in 1 .. m |-> C[n]]
    BY <1>6
  <2>. HIDE DEF C
  <2>2. QED
    BY <2>1, TupleMade
<1>10. Tuple(D)
  <2>1. D = [n \in 1 .. Cardinality(t.caches) |-> D[n]]
    OBVIOUS
  <2>. HIDE DEF D
  <2>2. QED
    BY <1>4, <2>1, TupleMade
<1>. HIDE DEF A, B, C, D
<1>11. Tuple(A \o B \o C \o D)
  <2>1. Tuple(A \o B)
    BY <1>7, <1>8, TupleConcat
  <2>2. Tuple((A \o B) \o C)
    BY <2>1, <1>9, TupleConcat
  <2>3. QED
    BY <2>2, <1>10, TupleConcat
<1>12. QED
  BY <1>1, <1>11

LEMMA EntitiesAgree ==
    ASSUME NEW t, NEW u, t.online = u.online, t.core = u.core, t.caches = u.caches
    PROVE  Entities(t) = Entities(u)
  BY DEF Entities, Anchor

LEMMA RelationsAgree ==
    ASSUME NEW t, NEW u, t.online = u.online, t.core = u.core, t.caches = u.caches,
           t.siblings = u.siblings
    PROVE  Relations(t) = Relations(u)
  BY DEF Relations, Anchor

LEMMA ActualFields ==
    /\ Actual.online = machine.online
    /\ Actual.caches = {Siblings(cpu, machine.online) : cpu \in machine.online}
    /\ Actual.core = [cpu \in CpuNumber |-> IF cpu \in machine.online THEN CoreId[cpu] ELSE cpu]
    /\ Actual.siblings = [cpu \in CpuNumber |-> IF cpu \in machine.online
                             THEN Siblings(cpu, machine.online) ELSE {cpu}]
  BY DEF Actual

LEMMA ActualIsListed ==
    ASSUME machine \in Machine PROVE Tuple(Entities(Actual))
<1>1. machine.online \in SUBSET CpuNumber
  BY DEF Machine
<1>2. Actual.online \in SUBSET CpuNumber
  BY <1>1, ActualFields
<1>3. Actual.core \in [CpuNumber -> Nat]
  BY <1>1, ActualFields, MachineAssumption
<1>4. Actual.caches \in SUBSET (SUBSET CpuNumber)
  BY <1>1, ActualFields DEF Siblings
<1>5. QED
  BY <1>2, <1>3, <1>4, EntitiesAreListed

LEMMA NothingLeftOut ==
    ASSUME machine \in Machine, NEW t \in Finding, FoundTrue(t),
           t.cacheless = << >>, t.unread = << >>
    PROVE  Entities(t) = Entities(Actual) /\ Relations(t) = Relations(Actual)
<1>1. ToSet(t.cacheless) = {} /\ ToSet(t.unread) = {}
  BY DEF ToSet
<1>2. t.online = Actual.online
  BY ActualFields DEF FoundTrue
<1>3. t.caches = Actual.caches
  BY <1>1, ActualFields DEF FoundTrue
<1>4. \A cpu \in CpuNumber : t.core[cpu] = Actual.core[cpu] /\ t.siblings[cpu] = Actual.siblings[cpu]
  BY <1>1 DEF FoundTrue
<1>5. t.core \in [CpuNumber -> Nat] /\ t.siblings \in [CpuNumber -> SUBSET CpuNumber]
  BY DEF Finding
<1>6. DOMAIN Actual.core = CpuNumber /\ DOMAIN Actual.siblings = CpuNumber
      /\ Actual.core = [cpu \in CpuNumber |-> Actual.core[cpu]]
      /\ Actual.siblings = [cpu \in CpuNumber |-> Actual.siblings[cpu]]
  BY ActualFields
<1>7. t.core = Actual.core /\ t.siblings = Actual.siblings
  BY <1>4, <1>5, <1>6
<1>8. QED
  BY <1>2, <1>3, <1>7, EntitiesAgree, RelationsAgree
-----------------------------------------------------------------------------
(* A discovery on its way.                                                 *)

LEMMA SameActual ==
    ASSUME machine'.online = machine.online PROVE Actual' = Actual
  BY DEF Actual, Siblings

LEMMA ListsAreTrue ==
    ASSUME machine \in Machine, NEW p \in {"build", "check"}, ReadLists(p), UNCHANGED machine
    PROVE  discovery' \in Finding /\ discovery'.purpose = p /\ FoundTrue(discovery)'
<1>1. machine.online \in SUBSET CpuNumber
  BY DEF Machine
<1>2. /\ Sorted(machine.online) \in Seq(machine.online)
      /\ ToSet(Sorted(machine.online)) = machine.online
  <2>1. IsFiniteSet(machine.online) /\ machine.online \subseteq Nat
    BY <1>1, MachineAssumption, FS_Subset
  <2>2. QED
    BY <2>1, SortedIsSorted
<1>3. Sorted(machine.online) \in Seq(CpuNumber)
  BY <1>1, <1>2
<1>. DEFINE list == Sorted(machine.online)
<1>. HIDE DEF list
<1>4. discovery' = [purpose |-> p, online |-> machine.online, caches |-> {},
                    core |-> [cpu \in CpuNumber |-> cpu],
                    siblings |-> [cpu \in CpuNumber |-> {cpu}],
                    cacheless |-> list, unread |-> list]
  BY DEF ReadLists, NoDiscovery, list
<1>5. discovery' \in Finding
  BY <1>1, <1>3, <1>4, MachineAssumption DEF Finding, list
<1>6. ToSet(discovery'.cacheless) = machine.online /\ ToSet(discovery'.unread) = machine.online
  BY <1>2, <1>4 DEF list
<1>7. Actual' = Actual
  BY SameActual
<1>8. \A cpu \in CpuNumber : cpu \notin machine.online =>
        /\ discovery'.core[cpu] = Actual.core[cpu]
        /\ discovery'.siblings[cpu] = Actual.siblings[cpu]
  BY <1>4, ActualFields
<1>9. FoundTrue(discovery)'
  BY <1>4, <1>6, <1>7, <1>8 DEF FoundTrue
<1>10. QED
  BY <1>4, <1>5, <1>9

LEMMA CacheIsTrue ==
    ASSUME machine \in Machine, discovery \in Finding, ReadCaches, UNCHANGED machine
    PROVE  /\ discovery' \in Finding /\ discovery'.purpose = discovery.purpose
           /\ discovery.cacheless # << >>
           /\ FoundTrue(discovery) => FoundTrue(discovery)'
<1>. DEFINE cpu == Head(discovery.cacheless)
            shown == IF cpu \in machine.online THEN {Siblings(cpu, machine.online)} ELSE {}
            rest == Tail(discovery.cacheless)
<1>1. /\ discovery.cacheless # << >>
      /\ discovery' = [discovery EXCEPT !.cacheless = rest, !.caches = @ \cup shown]
  BY DEF ReadCaches
<1>2. /\ discovery.cacheless \in Seq(CpuNumber) /\ discovery.caches \in SUBSET (SUBSET CpuNumber)
      /\ machine.online \in SUBSET CpuNumber
  BY DEF Finding, Machine
<1>3. /\ cpu \in CpuNumber /\ rest \in Seq(CpuNumber)
      /\ \A e \in ToSet(discovery.cacheless) : e = cpu \/ e \in ToSet(rest)
  BY <1>1, <1>2, TupleTail
<1>4. shown \in SUBSET (SUBSET CpuNumber)
  BY <1>2 DEF Siblings
<1>5. shown \subseteq Actual.caches
  BY ActualFields
<1>6. cpu \in machine.online => Siblings(cpu, machine.online) \in shown
  OBVIOUS
<1>. HIDE DEF cpu, shown, rest
<1>7. discovery' \in Finding
  BY <1>1, <1>2, <1>3, <1>4 DEF Finding
<1>8. /\ discovery'.cacheless = rest /\ discovery'.caches = discovery.caches \cup shown
      /\ discovery'.online = discovery.online /\ discovery'.core = discovery.core
      /\ discovery'.siblings = discovery.siblings /\ discovery'.unread = discovery.unread
      /\ discovery'.purpose = discovery.purpose
  BY <1>1 DEF Finding
<1>9. Actual' = Actual
  BY SameActual
<1>10. ASSUME FoundTrue(discovery) PROVE FoundTrue(discovery)'
  <2>1. \A c \in machine.online :
            c \in ToSet(discovery'.cacheless) \/ Siblings(c, machine.online) \in discovery'.caches
    BY <1>10, <1>3, <1>6, <1>8 DEF FoundTrue
  <2>2. discovery'.caches \subseteq Actual.caches
    BY <1>10, <1>5, <1>8 DEF FoundTrue
  <2>3. QED
    BY <1>8, <1>9, <1>10, <2>1, <2>2 DEF FoundTrue
<1>11. QED
  BY <1>1, <1>7, <1>8, <1>10

LEMMA CpuIsTrue ==
    ASSUME machine \in Machine, discovery \in Finding, ReadCpu, UNCHANGED machine
    PROVE  /\ discovery' \in Finding /\ discovery'.purpose = discovery.purpose
           /\ discovery.unread # << >>
           /\ FoundTrue(discovery) => FoundTrue(discovery)'
<1>. DEFINE cpu == Head(discovery.unread)
            rest == Tail(discovery.unread)
            ids == IF cpu \in machine.online THEN [discovery.core EXCEPT ![cpu] = CoreId[cpu]]
                   ELSE discovery.core
            near == IF cpu \in machine.online
                    THEN [discovery.siblings EXCEPT ![cpu] = Siblings(cpu, machine.online)]
                    ELSE discovery.siblings
<1>1. discovery.unread # << >>
  BY DEF ReadCpu
<1>2. /\ discovery.unread \in Seq(CpuNumber) /\ discovery.core \in [CpuNumber -> Nat]
      /\ discovery.siblings \in [CpuNumber -> SUBSET CpuNumber]
      /\ machine.online \in SUBSET CpuNumber
  BY DEF Finding, Machine
<1>3. /\ cpu \in CpuNumber /\ rest \in Seq(CpuNumber)
      /\ \A e \in ToSet(discovery.unread) : e = cpu \/ e \in ToSet(rest)
      /\ cpu \in ToSet(discovery.unread) /\ ToSet(rest) \subseteq ToSet(discovery.unread)
  BY <1>1, <1>2, TupleTail
<1>4. /\ discovery'.cacheless = discovery.cacheless /\ discovery'.caches = discovery.caches
      /\ discovery'.online = discovery.online /\ discovery'.purpose = discovery.purpose
      /\ discovery'.core = ids /\ discovery'.siblings = near /\ discovery'.unread = rest
      /\ discovery' \in Finding
  <2>. DEFINE read == [discovery EXCEPT !.unread = rest]
              known == [read EXCEPT !.core[cpu] = CoreId[cpu]]
              both == [known EXCEPT !.siblings[cpu] = Siblings(cpu, machine.online)]
  <2>1. discovery' = IF cpu \in machine.online THEN both ELSE read
    BY DEF ReadCpu
  <2>2. CoreId[cpu] \in Nat /\ Siblings(cpu, machine.online) \in SUBSET CpuNumber
    BY <1>2, <1>3, MachineAssumption DEF Siblings
  <2>. HIDE DEF cpu, rest
  <2>3. /\ read \in Finding /\ read.unread = rest
        /\ read.cacheless = discovery.cacheless /\ read.caches = discovery.caches
        /\ read.online = discovery.online /\ read.purpose = discovery.purpose
        /\ read.core = discovery.core /\ read.siblings = discovery.siblings
    BY <1>3 DEF Finding
  <2>. HIDE DEF read
  <2>4. [read.core EXCEPT ![cpu] = CoreId[cpu]] \in [CpuNumber -> Nat]
    BY <2>2, <2>3, <1>2, <1>3
  <2>5. /\ known \in Finding /\ known.unread = rest
        /\ known.cacheless = discovery.cacheless /\ known.caches = discovery.caches
        /\ known.online = discovery.online /\ known.purpose = discovery.purpose
        /\ known.core = [discovery.core EXCEPT ![cpu] = CoreId[cpu]]
        /\ known.siblings = discovery.siblings
    BY <2>3, <2>4 DEF Finding
  <2>. HIDE DEF known
  <2>6. [known.siblings EXCEPT ![cpu] = Siblings(cpu, machine.online)]
            \in [CpuNumber -> SUBSET CpuNumber]
    BY <2>2, <2>5, <1>2, <1>3
  <2>7. /\ both \in Finding /\ both.unread = rest
        /\ both.cacheless = discovery.cacheless /\ both.caches = discovery.caches
        /\ both.online = discovery.online /\ both.purpose = discovery.purpose
        /\ both.core = [discovery.core EXCEPT ![cpu] = CoreId[cpu]]
        /\ both.siblings = [discovery.siblings EXCEPT ![cpu] = Siblings(cpu, machine.online)]
    BY <2>5, <2>6 DEF Finding
  <2>. HIDE DEF both
  <2>8. QED
    BY <2>1, <2>3, <2>7
<1>5. Actual' = Actual
  BY SameActual
<1>6. cpu \in machine.online =>
        ids[cpu] = Actual.core[cpu] /\ near[cpu] = Actual.siblings[cpu]
  BY <1>2, <1>3, ActualFields
<1>8. \A c \in CpuNumber : c # cpu =>
        ids[c] = discovery.core[c] /\ near[c] = discovery.siblings[c]
  BY <1>2
<1>. HIDE DEF cpu, rest, ids, near
<1>9. ASSUME FoundTrue(discovery) PROVE FoundTrue(discovery)'
  <2>1. cpu \in machine.online /\ ToSet(rest) \subseteq machine.online
    BY <1>3, <1>9 DEF FoundTrue
  <2>2. ASSUME NEW c \in CpuNumber, c \notin ToSet(rest)
        PROVE  ids[c] = Actual.core[c] /\ near[c] = Actual.siblings[c]
    <3>1. CASE c = cpu
      BY <3>1, <2>1, <1>6
    <3>2. CASE c # cpu
      BY <3>2, <2>2, <1>3, <1>8, <1>9 DEF FoundTrue
    <3>3. QED
      BY <3>1, <3>2
  <2>3. QED
    BY <1>4, <1>5, <1>9, <2>1, <2>2 DEF FoundTrue
<1>10. QED
  BY <1>1, <1>4, <1>9
-----------------------------------------------------------------------------
(* What a step leaves as it is.                                            *)

\* Nothing that is now claimed of the machine became untrue.
StillTrue ==
    ~disturbed' => ~disturbed /\ machine'.online = machine.online /\ machine'.zone = machine.zone

LEMMA AimStays ==
    ASSUME StillTrue, Rows \subseteq Rows', \A row \in Rows : entities'[row] = entities[row]
    PROVE  \A s, t : Aimed(s, t) => (Aimed(s, t))'
  BY DEF StillTrue, Aimed

LEMMA SensorsStay ==
    ASSUME SensorsBound, StillTrue, UNCHANGED tableVars, Told' = Told
    PROVE  SensorsBound'
<1>1. \A s \in Sensor : \A t \in bound[s] : (Aimed(s, t))'
  BY AimStays DEF SensorsBound, tableVars, Rows
<1>2. QED
  BY <1>1 DEF SensorsBound, tableVars, Columns

LEMMA MatrixStays ==
    ASSUME MatrixFair, StillTrue, UNCHANGED <<tableVars, matrixVars, passes>>,
           loop' = "binding" <=> loop = "binding"
    PROVE  MatrixFair'
  BY DEF MatrixFair, FairNumber, StillTrue, tableVars, matrixVars, Rows, Columns

LEMMA ShownStays ==
    ASSUME UNCHANGED tableVars, machine'.online = machine.online
    PROVE  /\ Shows(Entities(Actual))' = Shows(Entities(Actual))
           /\ (relations = Relations(Actual))' = (relations = Relations(Actual))
<1>1. Actual' = Actual
  BY SameActual
<1>2. Entities(Actual)' = Entities(Actual) /\ Relations(Actual)' = Relations(Actual)
  BY <1>1 DEF Entities, Anchor, Relations
<1>3. QED
  BY <1>2 DEF Shows, tableVars, Rows

LEMMA KnownStays ==
    ASSUME ReflectorKnown, UNCHANGED tableVars,
           machine' \in Machine, discovery' \in Finding, turn' \in 1 .. Len(Sensors),
           passes' \in Nat, disturbed' \in BOOLEAN, sure' \in BOOLEAN
    PROVE  ReflectorKnown'
  BY DEF ReflectorKnown, Tuple, tableVars

-----------------------------------------------------------------------------
(* The steps but those that bind and read.                                 *)

LEMMA FirstTurn == 1 \in 1 .. Len(Sensors) /\ Len(Sensors) \in Nat
  BY SensorAssumption

LEMMA NothingKnown == NoDiscovery \in Finding /\ NoDiscovery.purpose = "none"
                      /\ NoDiscovery.cacheless = << >> /\ NoDiscovery.unread = << >>
  BY MachineAssumption DEF NoDiscovery, Finding

LEMMA ReflectorStarts == ReflectorInit => ReflectorInv
<1>1. SUFFICES ASSUME ReflectorInit PROVE ReflectorInv
  OBVIOUS
<1>2. machine \in Machine
  BY <1>1 DEF ReflectorInit, DiscoveryInit, Machine
<1>3. Tuple(<< >>)
  BY DEF Tuple
<1>4. ReflectorKnown
  BY <1>1, <1>2, <1>3, FirstTurn, NothingKnown DEF ReflectorInit, DiscoveryInit, ReflectorKnown
<1>5. DiscoveryOnItsWay
  BY <1>1, NothingKnown DEF ReflectorInit, DiscoveryInit, DiscoveryOnItsWay
<1>6. QED
  BY <1>1, <1>4, <1>5 DEF ReflectorInit, ReflectorInv, Standing

LEMMA BeginBuildKeeps == ReflectorInv /\ BeginBuild => ReflectorInv'
<1>1. SUFFICES ASSUME ReflectorInv, BeginBuild PROVE ReflectorInv'
  OBVIOUS
<1>2. ReflectorKnown /\ DiscoveryOnItsWay
  BY <1>1 DEF ReflectorInv
<1>3. UNCHANGED <<machine, turn, tableVars, passes>>
  BY <1>1 DEF BeginBuild, world, tableVars
<1>4. CASE machine.legible
  <2>1. ReadLists("build") /\ loop' = "discovering" /\ disturbed' = FALSE /\ sure' = TRUE
    BY <1>1, <1>4 DEF BeginBuild
  <2>2. discovery' \in Finding /\ discovery'.purpose = "build" /\ FoundTrue(discovery)'
    BY <2>1, <1>2, <1>3, ListsAreTrue DEF ReflectorKnown
  <2>3. ReflectorKnown'
    BY <1>2, <1>3, <2>1, <2>2, KnownStays DEF ReflectorKnown
  <2>4. DiscoveryOnItsWay'
    BY <2>1, <2>2 DEF DiscoveryOnItsWay
  <2>5. QED
    BY <2>1, <2>3, <2>4 DEF ReflectorInv, Standing
<1>5. CASE ~machine.legible
  <2>1. loop' = "ended" /\ UNCHANGED <<discovery, ghostVars>>
    BY <1>1, <1>5 DEF BeginBuild
  <2>2. ReflectorKnown'
    BY <1>2, <1>3, <2>1, KnownStays DEF ReflectorKnown, ghostVars
  <2>3. discovery.purpose = "none"
    BY <1>1, <1>2 DEF BeginBuild, DiscoveryOnItsWay, ReflectorKnown, Finding
  <2>4. DiscoveryOnItsWay'
    BY <1>2, <2>1, <2>3 DEF DiscoveryOnItsWay
  <2>5. QED
    BY <2>1, <2>2, <2>4 DEF ReflectorInv, Standing
<1>6. QED
  BY <1>4, <1>5

LEMMA DiscoverKeeps == ReflectorInv /\ Discover => ReflectorInv'
<1>1. SUFFICES ASSUME ReflectorInv, Discover PROVE ReflectorInv'
  OBVIOUS
<1>2. ReflectorKnown /\ DiscoveryOnItsWay
  BY <1>1 DEF ReflectorInv
<1>3. UNCHANGED <<machine, loop, turn, tableVars, matrixVars, passes, disturbed, sure>>
  BY <1>1 DEF Discover, world, ghostVars
<1>4. /\ discovery' \in Finding /\ discovery'.purpose = discovery.purpose
      /\ discovery.purpose # "none" /\ FoundTrue(discovery) => FoundTrue(discovery)'
  BY <1>1, <1>2, <1>3, CacheIsTrue, CpuIsTrue
     DEF Discover, ReflectorKnown, DiscoveryOnItsWay
<1>5. discovery.purpose # "none"
  BY <1>1, <1>2, <1>3, CacheIsTrue, CpuIsTrue
     DEF Discover, ReflectorKnown, DiscoveryOnItsWay
<1>6. ReflectorKnown'
  BY <1>2, <1>3, <1>4, KnownStays DEF ReflectorKnown
<1>7. DiscoveryOnItsWay'
  BY <1>2, <1>3, <1>4, <1>5 DEF DiscoveryOnItsWay
<1>8. StillTrue /\ Told' = Told
  BY <1>3 DEF StillTrue, Told
<1>9. ASSUME loop \in Standing PROVE SensorsBound' /\ MatrixFair' /\ StructureShown'
  <2>1. SensorsBound /\ MatrixFair /\ StructureShown
    BY <1>1, <1>9 DEF ReflectorInv
  <2>2. SensorsBound' /\ MatrixFair'
    BY <1>3, <1>8, <2>1, SensorsStay, MatrixStays
  <2>3. StructureShown'
    BY <1>3, <2>1, ShownStays DEF StructureShown
  <2>4. QED
    BY <2>2, <2>3
<1>10. QED
  BY <1>1, <1>3, <1>6, <1>7, <1>9 DEF ReflectorInv

LEMMA CheckShapeKeeps == ReflectorInv /\ CheckShape => ReflectorInv'
<1>1. SUFFICES ASSUME ReflectorInv, CheckShape PROVE ReflectorInv'
  OBVIOUS
<1>2. ReflectorKnown /\ DiscoveryOnItsWay
  BY <1>1 DEF ReflectorInv
<1>3. UNCHANGED <<machine, turn, tableVars, matrixVars, passes, disturbed>>
  BY <1>1 DEF CheckShape, world
<1>4. loop \in {"built", "taken"} /\ loop' \in {"checking", "ready"}
  BY <1>1 DEF CheckShape
<1>5. SensorsBound /\ MatrixFair /\ StructureShown
  BY <1>1, <1>4 DEF ReflectorInv, Standing
<1>6. StillTrue /\ Told' = Told
  BY <1>3, <1>4 DEF StillTrue, Told
<1>7. SensorsBound' /\ MatrixFair'
  BY <1>3, <1>4, <1>5, <1>6, SensorsStay, MatrixStays
<1>8. CASE machine.legible
  <2>1. ReadLists("check") /\ loop' = "checking" /\ sure' = TRUE
    BY <1>1, <1>8 DEF CheckShape
  <2>2. discovery' \in Finding /\ discovery'.purpose = "check" /\ FoundTrue(discovery)'
    BY <2>1, <1>2, <1>3, ListsAreTrue DEF ReflectorKnown
  <2>3. ReflectorKnown'
    BY <1>2, <1>3, <2>1, <2>2, KnownStays DEF ReflectorKnown
  <2>4. DiscoveryOnItsWay'
    BY <2>1, <2>2 DEF DiscoveryOnItsWay
  <2>5. StructureShown'
    BY <1>3, <1>5, <2>1, ShownStays DEF StructureShown
  <2>6. QED
    BY <1>7, <2>1, <2>3, <2>4, <2>5 DEF ReflectorInv
<1>9. CASE ~machine.legible
  <2>1. loop' = "ready" /\ sure' = FALSE /\ UNCHANGED discovery
    BY <1>1, <1>9 DEF CheckShape
  <2>2. ReflectorKnown'
    BY <1>2, <1>3, <2>1, KnownStays DEF ReflectorKnown
  <2>3. discovery.purpose = "none"
    BY <1>2, <1>4 DEF DiscoveryOnItsWay, ReflectorKnown, Finding
  <2>4. DiscoveryOnItsWay'
    BY <1>2, <2>1, <2>3 DEF DiscoveryOnItsWay
  <2>5. StructureShown'
    BY <1>3, <1>5, <2>1, ShownStays DEF StructureShown
  <2>6. QED
    BY <1>7, <2>1, <2>2, <2>4, <2>5 DEF ReflectorInv
<1>10. QED
  BY <1>8, <1>9

LEMMA EndCheckKeeps == ReflectorInv /\ EndCheck => ReflectorInv'
<1>1. SUFFICES ASSUME ReflectorInv, EndCheck PROVE ReflectorInv'
  OBVIOUS
<1>2. ReflectorKnown /\ DiscoveryOnItsWay
  BY <1>1 DEF ReflectorInv
<1>3. /\ UNCHANGED <<machine, turn, tableVars, matrixVars, passes, disturbed, sure>>
      /\ discovery' = NoDiscovery
  BY <1>1 DEF EndCheck, world, ghostVars
<1>4. /\ discovery.purpose = "check"
      /\ discovery.cacheless = << >> /\ discovery.unread = << >>
  BY <1>1 DEF EndCheck, Discovered
<1>5. /\ loop = "checking" /\ loop' \in {"changed", "ready"}
      /\ loop' = "ready" => Entities(discovery) = entities
  BY <1>1, <1>2, <1>4 DEF EndCheck, DiscoveryOnItsWay, ShapeChanged
<1>6. SensorsBound /\ MatrixFair /\ StructureShown
  BY <1>1, <1>5 DEF ReflectorInv, Standing
<1>7. StillTrue /\ Told' = Told
  BY <1>3, <1>5 DEF StillTrue, Told
<1>8. SensorsBound' /\ MatrixFair'
  BY <1>3, <1>5, <1>6, <1>7, SensorsStay, MatrixStays
<1>9. ReflectorKnown'
  BY <1>2, <1>3, NothingKnown, KnownStays DEF ReflectorKnown
<1>10. DiscoveryOnItsWay'
  BY <1>2, <1>3, <1>5, NothingKnown DEF DiscoveryOnItsWay
<1>11. ASSUME loop' = "ready" PROVE StructureShown'
  <2>1. ASSUME sure PROVE Shows(Entities(Actual))
    <3>1. FoundTrue(discovery)
      BY <1>2, <1>4, <2>1 DEF DiscoveryOnItsWay
    <3>2. Entities(Actual) = entities
      BY <1>2, <1>4, <1>5, <1>11, <3>1, NothingLeftOut DEF ReflectorKnown
    <3>3. Len(entities) \in Nat /\ DOMAIN entities = 1 .. Len(entities)
      BY <1>2, TupleShape DEF ReflectorKnown
    <3>4. QED
      BY <3>2, <3>3 DEF Shows, Rows
  <2>2. QED
    BY <1>3, <1>6, <2>1, ShownStays DEF StructureShown
<1>12. QED
  BY <1>5, <1>8, <1>9, <1>10, <1>11 DEF ReflectorInv, Standing

LEMMA DiscoveryFailsKeeps == ReflectorInv /\ DiscoveryFails => ReflectorInv'
<1>1. SUFFICES ASSUME ReflectorInv, DiscoveryFails PROVE ReflectorInv'
  OBVIOUS
<1>2. ReflectorKnown /\ DiscoveryOnItsWay
  BY <1>1 DEF ReflectorInv
<1>3. /\ UNCHANGED <<machine, turn, tableVars, matrixVars, passes, disturbed>>
      /\ discovery' = NoDiscovery /\ sure' = FALSE
      /\ loop' = (IF loop = "checking" THEN "ready" ELSE "ended")
  BY <1>1 DEF DiscoveryFails, world
<1>4. ReflectorKnown'
  BY <1>2, <1>3, NothingKnown, KnownStays DEF ReflectorKnown
<1>5. DiscoveryOnItsWay'
  BY <1>2, <1>3, NothingKnown DEF DiscoveryOnItsWay
<1>6. CASE loop = "checking"
  <2>1. SensorsBound /\ MatrixFair /\ StructureShown /\ loop' = "ready"
    BY <1>1, <1>3, <1>6 DEF ReflectorInv, Standing
  <2>2. StillTrue /\ Told' = Told
    BY <1>3, <1>6 DEF StillTrue, Told
  <2>3. SensorsBound' /\ MatrixFair'
    BY <1>3, <1>6, <2>1, <2>2, SensorsStay, MatrixStays
  <2>4. StructureShown'
    BY <1>3, <2>1, ShownStays DEF StructureShown
  <2>. QED
    BY <1>4, <1>5, <2>1, <2>3, <2>4 DEF ReflectorInv
<1>7. CASE loop # "checking"
  BY <1>3, <1>4, <1>5, <1>7 DEF ReflectorInv, Standing
<1>. QED
  BY <1>6, <1>7

LEMMA BuildKeeps == ReflectorInv /\ Build => ReflectorInv'
<1>1. SUFFICES ASSUME ReflectorInv, Build PROVE ReflectorInv'
  OBVIOUS
<1>2. ReflectorKnown /\ DiscoveryOnItsWay
  BY <1>1 DEF ReflectorInv
<1>3. /\ UNCHANGED <<machine, passes, disturbed, sure>>
      /\ discovery' = NoDiscovery /\ loop' = "binding" /\ turn' = 1
      /\ entities' = Entities(discovery) /\ relations' = Relations(discovery)
      /\ channels' = << >> /\ reports' = << >> /\ bound' = [s \in Sensor |-> {}]
      /\ numbers' = << >> /\ reasons' = << >>
  BY <1>1 DEF Build, world, ghostVars
<1>4. /\ discovery.purpose = "build"
      /\ discovery.cacheless = << >> /\ discovery.unread = << >>
  BY <1>1 DEF Build, Discovered
<1>5. loop = "discovering" /\ (disturbed \/ sure)
  BY <1>2, <1>4 DEF DiscoveryOnItsWay
<1>6. Tuple(Entities(discovery))
  BY <1>2, EntitiesAreListed DEF ReflectorKnown, Finding
<1>7. Tuple(<< >>)
  BY DEF Tuple
<1>8. ReflectorKnown'
  BY <1>2, <1>3, <1>6, <1>7, FirstTurn, NothingKnown DEF ReflectorKnown, Tuple
<1>9. DiscoveryOnItsWay'
  BY <1>3, NothingKnown DEF DiscoveryOnItsWay
<1>10. SensorsBound'
  BY <1>3 DEF SensorsBound, Told, Columns
<1>11. MatrixFair'
  BY <1>3 DEF MatrixFair
<1>12. StructureShown'
  <2>1. ASSUME sure
        PROVE  Entities(Actual) = entities' /\ Relations(Actual) = relations'
    <3>1. FoundTrue(discovery)
      BY <1>2, <1>4, <2>1 DEF DiscoveryOnItsWay
    <3>2. QED
      BY <1>2, <1>3, <1>4, <3>1, NothingLeftOut DEF ReflectorKnown
  <2>2. Len(entities') \in Nat /\ DOMAIN entities' = 1 .. Len(entities')
    BY <1>3, <1>6, TupleShape
  <2>3. Entities(Actual)' = Entities(Actual) /\ Relations(Actual)' = Relations(Actual)
    <3>1. Actual' = Actual
      BY <1>3, SameActual
    <3>2. QED
      BY <3>1 DEF Entities, Anchor, Relations
  <2>4. ASSUME sure PROVE Shows(Entities(Actual))' /\ (relations = Relations(Actual))'
    BY <2>1, <2>2, <2>3, <2>4 DEF Shows, Rows
  <2>5. QED
    BY <1>3, <1>5, <2>4 DEF StructureShown
<1>13. QED
  BY <1>3, <1>8, <1>9, <1>10, <1>11, <1>12 DEF ReflectorInv

LEMMA BeginPassKeeps == ReflectorInv /\ BeginPass => ReflectorInv'
<1>1. SUFFICES ASSUME ReflectorInv, BeginPass PROVE ReflectorInv'
  OBVIOUS
<1>2. ReflectorKnown /\ DiscoveryOnItsWay
  BY <1>1 DEF ReflectorInv
<1>3. /\ UNCHANGED <<machine, discovery, tableVars, disturbed, sure>>
      /\ passes' = passes + 1 /\ loop' = "sensing" /\ turn' = 1
      /\ numbers' = [c \in Rows \X Columns |-> Hole]
      /\ reasons' = [c \in Rows \X Columns |-> "none claims it"]
      /\ loop \in {"built", "ready"}
  BY <1>1 DEF BeginPass, Cleared, world, ghostVars
<1>4. SensorsBound /\ MatrixFair /\ StructureShown
  BY <1>1, <1>3 DEF ReflectorInv, Standing
<1>0. UNCHANGED <<machine, discovery, tableVars, disturbed, sure>>
  BY <1>3, Zenon
<1>5. StillTrue /\ Told' = Told
  BY <1>3 DEF StillTrue, Told
<1>6. SensorsBound'
  BY <1>3, <1>4, <1>5, SensorsStay
<1>7. passes \in Nat
  BY <1>2 DEF ReflectorKnown
<1>8. ReflectorKnown'
  <2>1. turn' \in 1 .. Len(Sensors) /\ passes' \in Nat
    <3>1. turn' = 1 /\ passes' = passes + 1
      BY <1>3, Zenon
    <3>2. QED
      BY <3>1, <1>7, FirstTurn
  <2>2. QED
    BY <1>0, <1>2, <2>1, KnownStays DEF ReflectorKnown
<1>13. loop' = "sensing" /\ loop \in {"built", "ready"}
  BY <1>3, Zenon
<1>9. DiscoveryOnItsWay'
  <2>1. discovery' = discovery /\ loop' = "sensing"
    BY <1>0, <1>13
  <2>2. discovery.purpose = "none"
    BY <1>2, <1>13 DEF DiscoveryOnItsWay, ReflectorKnown, Finding
  <2>3. QED
    BY <1>2, <2>1, <2>2 DEF DiscoveryOnItsWay
<1>10. MatrixFair'
  <2>1. Rows' = Rows /\ Columns' = Columns
    BY <1>3 DEF Rows, Columns, tableVars
  <2>2. \A c \in Rows \X Columns : numbers'[c] = Hole /\ reasons'[c] # "observed"
    BY <1>3
  <2>3. DOMAIN numbers' = Rows \X Columns /\ DOMAIN reasons' = Rows \X Columns
    BY <1>3
  <2>4. QED
    BY <1>3, <2>1, <2>2, <2>3 DEF MatrixFair, FairNumber, Hole
<1>11. StructureShown'
  BY <1>3, <1>4, ShownStays DEF StructureShown
<1>14. passes' > 0
  <2>1. passes' = passes + 1
    BY <1>3, Zenon
  <2>2. QED
    BY <1>7, <2>1
<1>12. QED
  BY <1>13, <1>6, <1>8, <1>9, <1>10, <1>11, <1>14 DEF ReflectorInv

LEMMA MachineChangesKeeps == ReflectorInv /\ MachineChanges => ReflectorInv'
<1>1. SUFFICES ASSUME ReflectorInv, MachineChanges PROVE ReflectorInv'
  OBVIOUS
<1>2. ReflectorKnown /\ DiscoveryOnItsWay
  BY <1>1 DEF ReflectorInv
<1>3. UNCHANGED <<discovery, loop, turn, tableVars, matrixVars, passes>>
  BY <1>1 DEF MachineChanges
<1>4. /\ machine' \in Machine /\ StillTrue /\ disturbed' \in BOOLEAN /\ sure' \in BOOLEAN
      /\ \/ disturbed' /\ ~sure'
         \/ machine'.online = machine.online /\ UNCHANGED <<disturbed, sure>>
  <2>1. machine \in Machine /\ disturbed \in BOOLEAN /\ sure \in BOOLEAN
    BY <1>2 DEF ReflectorKnown
  <2>2. CASE CpusChange /\ disturbed' = TRUE /\ sure' = FALSE
    <3>1. PICK cpu \in CpuNumber : machine' = [machine EXCEPT !.online = SymDiff(@, {cpu})]
      BY <2>2 DEF CpusChange
    <3>2. SymDiff(machine.online, {cpu}) \in SUBSET CpuNumber
      BY <2>1 DEF Machine, SymDiff
    <3>3. machine' \in Machine
      BY <2>1, <3>1, <3>2 DEF Machine
    <3>4. disturbed' = TRUE /\ sure' = FALSE
      BY <2>2
    <3>5. QED
      BY <3>3, <3>4, Zenon DEF StillTrue
  <2>3. CASE ZoneChanges /\ disturbed' = TRUE /\ sure' = FALSE
    <3>1. machine' \in Machine
      BY <2>1, <2>3 DEF ZoneChanges, Machine
    <3>2. disturbed' = TRUE /\ sure' = FALSE
      BY <2>3
    <3>3. QED
      BY <3>1, <3>2, Zenon DEF StillTrue
  <2>4. CASE AnswersChange /\ UNCHANGED ghostVars
    <3>1. CASE \E sensor \in Sleeper : machine' = [machine EXCEPT !.dark = SymDiff(@, {sensor})]
      <4>1. PICK sensor \in Sleeper : machine' = [machine EXCEPT !.dark = SymDiff(@, {sensor})]
        BY <3>1
      <4>2. SymDiff(machine.dark, {sensor}) \in SUBSET Sleeper
        BY <2>1 DEF Machine, SymDiff
      <4>3. QED
        BY <2>1, <2>4, <4>1, <4>2 DEF Machine, StillTrue, ghostVars
    <3>2. CASE machine' = [machine EXCEPT !.legible = ~@]
      BY <2>1, <2>4, <3>2 DEF Machine, StillTrue, ghostVars
    <3>3. QED
      BY <2>4, <3>1, <3>2 DEF AnswersChange
  <2>5. QED
    BY <1>1, <2>2, <2>3, <2>4 DEF MachineChanges
<1>5. ReflectorKnown'
  BY <1>2, <1>3, <1>4, KnownStays DEF ReflectorKnown
<1>6. DiscoveryOnItsWay'
  <2>1. machine'.online = machine.online => FoundTrue(discovery)' = FoundTrue(discovery)
    <3>1. SUFFICES ASSUME machine'.online = machine.online
                   PROVE  FoundTrue(discovery)' = FoundTrue(discovery)
      OBVIOUS
    <3>2. Actual' = Actual
      BY <3>1, SameActual
    <3>3. QED
      BY <1>3, <3>1, <3>2 DEF FoundTrue
  <2>2. QED
    BY <1>2, <1>3, <1>4, <2>1 DEF DiscoveryOnItsWay
<1>7. Told' = Told
  BY <1>3 DEF Told
<1>8. ASSUME loop \in Standing PROVE SensorsBound' /\ MatrixFair' /\ StructureShown'
  <2>1. SensorsBound /\ MatrixFair /\ StructureShown
    BY <1>1, <1>8 DEF ReflectorInv
  <2>2. SensorsBound' /\ MatrixFair'
    BY <1>3, <1>4, <1>7, <2>1, SensorsStay, MatrixStays
  <2>3. StructureShown'
    BY <1>3, <1>4, <2>1, ShownStays DEF StructureShown
  <2>4. QED
    BY <2>2, <2>3
<1>9. QED
  BY <1>1, <1>3, <1>5, <1>6, <1>8 DEF ReflectorInv

-----------------------------------------------------------------------------
(* Binding.                                                                *)

LEMMA RowIsFound ==
    ASSUME NEW table, Tuple(table), NEW e, e \in ToSet(table)
    PROVE  RowIn(table, e) \in DOMAIN table /\ table[RowIn(table, e)] = e
<1>. DEFINE found == {row \in DOMAIN table : table[row] = e}
<1>1. found \in SUBSET Nat /\ found # {}
  BY TupleShape
<1>. HIDE DEF found
<1>2. Min(found) \in found
  BY <1>1, SmallestIsLeast
<1>3. QED
  BY <1>2 DEF RowIn, found

LEMMA TableGrows ==
    ASSUME Tuple(entities), NEW s
    PROVE  /\ Tuple(Declared(s)) /\ Len(entities) <= Len(Declared(s))
           /\ \A row \in Rows : row \in DOMAIN Declared(s) /\ Declared(s)[row] = entities[row]
           /\ \A row \in DOMAIN Declared(s) : row \notin Rows =>
                row > Len(entities) /\ Declared(s)[row][1] \in {"zone", "domain"}
           /\ Own(s) # NoEntity => Own(s) \in ToSet(Declared(s))
<1>1. Len(entities) \in Nat /\ Rows = 1 .. Len(entities)
  BY TupleShape DEF Rows
<1>2. CASE Own(s) = NoEntity \/ HasRow(Own(s))
  <2>1. Declared(s) = entities
    BY <1>2 DEF Declared
  <2>2. QED
    BY <1>1, <1>2, <2>1 DEF HasRow, Rows
<1>3. CASE ~(Own(s) = NoEntity \/ HasRow(Own(s)))
  <2>1. Declared(s) = Append(entities, Own(s))
    BY <1>3 DEF Declared
  <2>2. Own(s)[1] \in {"zone", "domain"}
    BY <1>3 DEF Own, ZoneOf, TheDomain
  <2>3. /\ Tuple(Declared(s)) /\ Len(Declared(s)) = Len(entities) + 1
        /\ Declared(s)[Len(entities) + 1] = Own(s)
        /\ \A i \in DOMAIN entities : Declared(s)[i] = entities[i]
    BY <2>1, TupleAppend
  <2>4. DOMAIN Declared(s) = 1 .. Len(entities) + 1
    BY <2>3, TupleShape
  <2>5. Own(s) \in ToSet(Declared(s))
    BY <1>1, <2>3, <2>4, TupleShape
  <2>6. QED
    BY <1>1, <2>2, <2>3, <2>4, <2>5 DEF Rows
<1>4. QED
  BY <1>2, <1>3

LEMMA TargetsAreAimed ==
    ASSUME Tuple(entities), NEW s \in SensorName, NEW t \in Targets(s)
    PROVE  LET row == Declared(s)[t.row]
           IN  /\ t.row \in DOMAIN Declared(s)
               /\ s \in {"frequency", "idle", "counters", "scheduler"} => row = CpuOf(t.from)
               /\ s = "interrupts" =>
                    /\ t.from \in DOMAIN Sorted(machine.online)
                    /\ row = CpuOf(Sorted(machine.online)[t.from])
               /\ s = "thermal" => row = ZoneOf(machine.zone)
               /\ s = "power" => row = TheDomain
<1>1. CASE s \in {"frequency", "idle", "counters", "scheduler"}
  <2>1. PICK cpu : HasRow(CpuOf(cpu)) /\ t = Target(RowOf(CpuOf(cpu)), cpu)
    BY <1>1 DEF Targets, CpuTargets, CpusThere
  <2>2. RowOf(CpuOf(cpu)) \in DOMAIN entities /\ entities[RowOf(CpuOf(cpu))] = CpuOf(cpu)
    BY <2>1, RowIsFound DEF RowOf, HasRow
  <2>3. t.row = RowOf(CpuOf(cpu)) /\ t.from = cpu
    BY <2>1 DEF Target
  <2>4. QED
    BY <1>1, <2>2, <2>3, TableGrows DEF Rows
<1>2. CASE s = "interrupts"
  <2>1. PICK n \in DOMAIN Sorted(machine.online) :
            /\ HasRow(CpuOf(Sorted(machine.online)[n]))
            /\ t = Target(RowOf(CpuOf(Sorted(machine.online)[n])), n)
    BY <1>2 DEF Targets, HeaderTargets
  <2>. DEFINE e == CpuOf(Sorted(machine.online)[n])
  <2>2. RowOf(e) \in DOMAIN entities /\ entities[RowOf(e)] = e
    BY <2>1, RowIsFound DEF RowOf, HasRow
  <2>3. t.row = RowOf(e) /\ t.from = n
    BY <2>1 DEF Target
  <2>4. QED
    BY <1>2, <2>2, <2>3, TableGrows DEF Rows
<1>3. CASE s \in {"thermal", "power"}
  <2>1. Own(s) # NoEntity /\ t = Target(RowIn(Declared(s), Own(s)), Own(s))
    BY <1>3 DEF Targets
  <2>2. Tuple(Declared(s)) /\ Own(s) \in ToSet(Declared(s))
    BY <2>1, TableGrows
  <2>3. /\ RowIn(Declared(s), Own(s)) \in DOMAIN Declared(s)
        /\ Declared(s)[RowIn(Declared(s), Own(s))] = Own(s)
    BY <2>2, RowIsFound
  <2>4. t.row = RowIn(Declared(s), Own(s))
    BY <2>1 DEF Target
  <2>5. Own(s) = IF s = "thermal" THEN ZoneOf(machine.zone) ELSE TheDomain
    BY <1>3, <2>1 DEF Own
  <2>6. QED
    BY <1>3, <2>3, <2>4, <2>5
<1>4. QED
  BY <1>1, <1>2, <1>3 DEF SensorName

LEMMA KeysAreDistinct ==
    /\ \A s \in SensorName : DOMAIN Keys(s) = 1 .. Len(Keys(s)) /\ Len(Keys(s)) \in {1, 2}
    /\ \A s, t \in SensorName : \A m \in DOMAIN Keys(s), n \in DOMAIN Keys(t) :
        Keys(s)[m] = Keys(t)[n] => s = t /\ m = n
<1>1. \A s \in SensorName : \/ s = "idle" /\ Keys(s) = <<"idle.residency", "idle.states">>
                            \/ s = "power" /\ Keys(s) = <<"power.energy", "power.limit">>
                            \/ s \notin {"idle", "power"} /\ Keys(s) = <<s>>
  BY DEF Keys
<1>2. \A s \in SensorName : s \notin {"idle.residency", "idle.states", "power.energy", "power.limit"}
  BY DEF SensorName
<1>3. \A s \in SensorName : DOMAIN Keys(s) = 1 .. Len(Keys(s)) /\ Len(Keys(s)) \in {1, 2}
  BY <1>1
<1>4. ASSUME NEW s \in SensorName, NEW t \in SensorName, NEW m \in DOMAIN Keys(s),
             NEW n \in DOMAIN Keys(t), Keys(s)[m] = Keys(t)[n]
      PROVE  s = t /\ m = n
  <2>1. m \in {1, 2} /\ n \in {1, 2}
    BY <1>3
  <2>2. /\ s = "idle" => Keys(s)[m] = IF m = 1 THEN "idle.residency" ELSE "idle.states"
        /\ s = "power" => Keys(s)[m] = IF m = 1 THEN "power.energy" ELSE "power.limit"
        /\ s \notin {"idle", "power"} => m = 1 /\ Keys(s)[m] = s
    BY <1>1, <2>1
  <2>3. /\ t = "idle" => Keys(t)[n] = IF n = 1 THEN "idle.residency" ELSE "idle.states"
        /\ t = "power" => Keys(t)[n] = IF n = 1 THEN "power.energy" ELSE "power.limit"
        /\ t \notin {"idle", "power"} => n = 1 /\ Keys(t)[n] = t
    BY <1>1, <2>1
  <2>4. QED
    BY <1>2, <1>4, <2>1, <2>2, <2>3
<1>5. QED
  BY <1>3, <1>4

Columned(s) == [n \in DOMAIN Keys(s) |-> [key |-> Keys(s)[n], sensor |-> s]]

\* What the step does to the tables, the sensor and its number being fixed.
BindAs(s, n) ==
    /\ Len(reports') = n /\ Tuple(reports') /\ Tuple(entities') /\ Tuple(channels')
    /\ DOMAIN bound' = Sensor
    /\ \A i \in DOMAIN reports : reports'[i] = reports[i]
    /\ {"sensor", "inactive"} \subseteq DOMAIN reports'[n] /\ reports'[n].sensor = s
    /\ \/ /\ UNCHANGED <<entities, channels, bound>>
       \/ /\ ~reports'[n].inactive /\ entities' = Declared(s)
          /\ channels' = channels \o Columned(s)
          /\ bound'[s] = Targets(s)
          /\ \A r \in Sensor \ {s} : bound'[r] = bound[r]

LEMMA ColumnedShape ==
    ASSUME NEW s \in SensorName
    PROVE  /\ Tuple(Columned(s)) /\ Len(Columned(s)) = Len(Keys(s)) /\ Len(Keys(s)) \in Nat
           /\ DOMAIN Keys(s) = 1 .. Len(Keys(s))
           /\ \A n \in DOMAIN Keys(s) :
                Columned(s)[n].key = Keys(s)[n] /\ Columned(s)[n].sensor = s
<1>1. DOMAIN Keys(s) = 1 .. Len(Keys(s)) /\ Len(Keys(s)) \in Nat
  BY KeysAreDistinct
<1>2. Columned(s) = [n \in 1 .. Len(Keys(s)) |-> Columned(s)[n]]
  BY <1>1 DEF Columned
<1>3. Tuple(Columned(s)) /\ Len(Columned(s)) = Len(Keys(s))
  BY <1>1, <1>2, TupleMade
<1>4. QED
  BY <1>1, <1>3 DEF Columned

LEMMA BindSteps ==
    ASSUME ReflectorKnown, SensorsBound, loop = "binding", BindSensor
    PROVE  \E s, n : s = AtTurn /\ n = turn /\ BindAs(s, n)
<1>0. PICK s, n : s = AtTurn /\ n = turn
  OBVIOUS
<1>1. n \in Nat /\ Len(reports) + 1 = n /\ s \in SensorName /\ s \in Sensor
  <2>1. turn \in 1 .. Len(Sensors) /\ Len(reports) = turn - 1
    BY DEF ReflectorKnown, SensorsBound, Told
  <2>2. Sensors[turn] \in SensorName /\ Sensors[turn] \in Sensor
    BY <2>1, SensorAssumption DEF Sensor, ToSet
  <2>3. QED
    BY <1>0, <2>1, <2>2, SensorAssumption DEF AtTurn
<1>2. Tuple(reports) /\ Tuple(entities) /\ Tuple(channels) /\ DOMAIN bound = Sensor
  BY DEF ReflectorKnown
<1>3. ASSUME NEW report, reports' = Append(reports, report)
      PROVE  /\ Len(reports') = n /\ Tuple(reports') /\ reports'[n] = report
             /\ \A i \in DOMAIN reports : reports'[i] = reports[i]
  BY <1>1, <1>2, <1>3, TupleAppend
<1>4. CASE Targets(AtTurn) = {}
  <2>1. reports' = Append(reports, Inactive(s)) /\ UNCHANGED <<entities, channels, bound>>
    BY <1>0, <1>4 DEF BindSensor
  <2>2. /\ Len(reports') = n /\ Tuple(reports') /\ reports'[n] = Inactive(s)
        /\ \A i \in DOMAIN reports : reports'[i] = reports[i]
    BY <1>3, <2>1
  <2>3. {"sensor", "inactive"} \subseteq DOMAIN Inactive(s) /\ Inactive(s).sensor = s
    BY DEF Inactive
  <2>4. BindAs(s, n)
    BY <1>2, <2>1, <2>2, <2>3 DEF BindAs
  <2>5. QED
    BY <1>0, <2>4
<1>5. CASE Targets(AtTurn) # {}
  <2>1. /\ reports' = Append(reports, Pending(s))
        /\ entities' = Declared(s) /\ channels' = channels \o Columned(s)
        /\ bound' = [bound EXCEPT ![s] = Targets(s)]
    BY <1>0, <1>5 DEF BindSensor, Columned
  <2>2. /\ Len(reports') = n /\ Tuple(reports') /\ reports'[n] = Pending(s)
        /\ \A i \in DOMAIN reports : reports'[i] = reports[i]
    BY <1>3, <2>1
  <2>3. /\ {"sensor", "inactive"} \subseteq DOMAIN Pending(s) /\ Pending(s).sensor = s
        /\ ~Pending(s).inactive
    BY DEF Pending
  <2>4. Tuple(entities')
    BY <1>2, <2>1, TableGrows
  <2>5. Tuple(channels')
    BY <1>1, <1>2, <2>1, ColumnedShape, TupleConcat
  <2>6. /\ DOMAIN bound' = Sensor /\ bound'[s] = Targets(s)
        /\ \A r \in Sensor \ {s} : bound'[r] = bound[r]
    BY <1>1, <1>2, <2>1
  <2>7. BindAs(s, n)
    BY <2>1, <2>2, <2>3, <2>4, <2>5, <2>6 DEF BindAs
  <2>8. QED
    BY <1>0, <2>7
<1>6. QED
  BY <1>4, <1>5

LEMMA AimsAreBound ==
    ASSUME ReflectorKnown, SensorsBound, UNCHANGED <<machine, disturbed>>,
           NEW s \in SensorName, NEW n, BindAs(s, n)
    PROVE  \A r \in Sensor : \A t \in bound'[r] : (Aimed(r, t))'
<1>1. Tuple(entities) /\ Len(entities) \in Nat /\ Rows = 1 .. Len(entities)
  BY TupleShape DEF ReflectorKnown, Rows
<1>2. Rows \subseteq Rows' /\ \A row \in Rows : entities'[row] = entities[row]
  BY <1>1, TableGrows DEF BindAs, Rows
<1>3. StillTrue
  BY DEF StillTrue
<1>4. ASSUME NEW r \in Sensor, NEW t \in bound'[r], bound'[r] = bound[r]
      PROVE  (Aimed(r, t))'
  <2>1. Aimed(r, t)
    BY <1>4 DEF SensorsBound
  <2>2. QED
    BY <1>2, <1>3, <2>1, AimStays
<1>5. ASSUME NEW t \in Targets(s), entities' = Declared(s) PROVE (Aimed(s, t))'
  <2>1. LET row == entities'[t.row]
        IN  /\ t.row \in DOMAIN entities'
            /\ s \in {"frequency", "idle", "counters", "scheduler"} => row = CpuOf(t.from)
            /\ s = "interrupts" =>
                    /\ t.from \in DOMAIN Sorted(machine.online)
                    /\ row = CpuOf(Sorted(machine.online)[t.from])
            /\ s = "thermal" => row = ZoneOf(machine.zone)
            /\ s = "power" => row = TheDomain
    BY <1>1, <1>5, TargetsAreAimed
  <2>2. ZoneOf(machine.zone)[1] = "zone"
    BY DEF ZoneOf
  <2>3. QED
    BY <2>1, <2>2 DEF Aimed, Rows
<1>6. ASSUME NEW r \in Sensor, NEW t \in bound'[r] PROVE (Aimed(r, t))'
  <2>1. CASE bound'[r] = bound[r]
    BY <2>1, <1>4
  <2>2. CASE bound'[r] # bound[r]
    <3>1. r = s /\ bound'[s] = Targets(s) /\ entities' = Declared(s)
      BY <2>2 DEF BindAs
    <3>2. QED
      BY <1>5, <1>6, <3>1
  <2>3. QED
    BY <2>1, <2>2
<1>7. QED
  BY <1>6

LEMMA ColumnsAreBound ==
    ASSUME ReflectorKnown, SensorsBound, loop = "binding",
           NEW s, NEW n, s = AtTurn, n = turn, BindAs(s, n)
    PROVE  /\ \A i \in DOMAIN reports' :
                {"sensor", "inactive"} \subseteq DOMAIN reports'[i]
                /\ reports'[i].sensor = Sensors[i]
           /\ \A column \in Columns' : \E i \in DOMAIN reports' :
                /\ channels'[column].sensor = Sensors[i] /\ ~reports'[i].inactive
                /\ channels'[column].key \in ToSet(Keys(Sensors[i]))
           /\ \A a, b \in Columns' : channels'[a].key = channels'[b].key => a = b
<1>1. n \in Nat /\ Len(reports) = n - 1 /\ n \in DOMAIN Sensors /\ s = Sensors[n]
  BY SensorAssumption DEF ReflectorKnown, SensorsBound, Told, AtTurn
<1>2. /\ DOMAIN reports = 1 .. n - 1 /\ DOMAIN reports' = 1 .. n
      /\ Tuple(channels) /\ Len(channels) \in Nat /\ Columns = 1 .. Len(channels)
  BY <1>1, TupleShape DEF ReflectorKnown, BindAs, Columns
<1>3. \A m \in DOMAIN Sensors : Sensors[m] \in SensorName
  BY SensorAssumption
<1>4. ASSUME NEW i \in DOMAIN reports'
      PROVE  {"sensor", "inactive"} \subseteq DOMAIN reports'[i] /\ reports'[i].sensor = Sensors[i]
  <2>1. CASE i = n
    BY <2>1, <1>1 DEF BindAs
  <2>2. CASE i # n
    BY <2>2, <1>1, <1>2 DEF BindAs, SensorsBound
  <2>3. QED
    BY <2>1, <2>2
<1>5. ASSUME NEW column \in Columns
      PROVE  \E i \in DOMAIN reports :
                /\ i \in DOMAIN reports' /\ i \in DOMAIN Sensors /\ i < n
                /\ channels[column].sensor = Sensors[i] /\ ~reports'[i].inactive
                /\ channels[column].key \in ToSet(Keys(Sensors[i]))
  <2>1. PICK i \in DOMAIN reports :
                /\ channels[column].sensor = Sensors[i] /\ ~reports[i].inactive
                /\ channels[column].key \in ToSet(Keys(Sensors[i]))
    BY DEF SensorsBound
  <2>2. reports'[i] = reports[i]
    BY DEF BindAs
  <2>3. i \in DOMAIN reports' /\ i \in DOMAIN Sensors /\ i < n
    BY <1>1, <1>2, SensorAssumption
  <2>4. QED
    BY <2>1, <2>2, <2>3
<1>6. CASE channels' = channels
  BY <1>4, <1>5, <1>6 DEF Columns, SensorsBound
<1>7. CASE ~reports'[n].inactive /\ channels' = channels \o Columned(s)
  <2>. DEFINE new == Columned(s)
              k == Len(channels)
  <2>1. /\ Tuple(new) /\ Len(new) = Len(Keys(s)) /\ Len(Keys(s)) \in Nat
        /\ DOMAIN Keys(s) = 1 .. Len(Keys(s))
        /\ \A j \in DOMAIN Keys(s) : new[j].key = Keys(s)[j] /\ new[j].sensor = s
    BY <1>1, <1>3, ColumnedShape
  <2>. HIDE DEF new
  <2>2. channels' = channels \o new
    BY <1>7 DEF new
  <2>3. /\ Tuple(channels') /\ Len(channels') = k + Len(Keys(s))
        /\ \A c \in 1 .. k + Len(Keys(s)) :
            channels'[c] = IF c <= k THEN channels[c] ELSE new[c - k]
    <3>. DEFINE all == channels \o new
    <3>1. /\ Tuple(all) /\ Len(all) = Len(channels) + Len(new)
          /\ \A c \in 1 .. Len(channels) + Len(new) :
                all[c] = IF c <= Len(channels) THEN channels[c] ELSE new[c - Len(channels)]
      BY <1>2, <2>1, TupleConcat
    <3>. HIDE DEF all
    <3>2. channels' = all
      BY <2>2 DEF all
    <3>3. QED
      BY <2>1, <3>1, <3>2
  <2>4. Columns' = 1 .. k + Len(Keys(s))
    BY <2>3, TupleShape DEF Columns
  <2>5. ASSUME NEW c \in Columns', c > k
        PROVE  /\ c - k \in DOMAIN Keys(s) /\ channels'[c].key = Keys(s)[c - k]
               /\ channels'[c].sensor = s
    <3>1. c - k \in DOMAIN Keys(s)
      BY <1>2, <2>1, <2>4, <2>5
    <3>2. channels'[c] = new[c - k]
      BY <1>2, <2>1, <2>3, <2>4, <2>5
    <3>3. QED
      BY <2>1, <3>1, <3>2
  <2>6. \A c \in Columns' : c <= k => c \in Columns /\ channels'[c] = channels[c]
    BY <1>2, <2>1, <2>3, <2>4
  <2>7. ASSUME NEW c \in Columns'
        PROVE  \E i \in DOMAIN reports' :
                /\ channels'[c].sensor = Sensors[i] /\ ~reports'[i].inactive
                /\ channels'[c].key \in ToSet(Keys(Sensors[i]))
    <3>1. CASE c <= k
      BY <3>1, <2>6, <1>5
    <3>2. CASE c > k
      <4>1. Keys(s)[c - k] \in ToSet(Keys(s))
        BY <3>2, <2>5 DEF ToSet
      <4>2. n \in DOMAIN reports'
        BY <1>1, <1>2
      <4>3. channels'[c].sensor = Sensors[n] /\ channels'[c].key \in ToSet(Keys(Sensors[n]))
        BY <3>2, <4>1, <2>5, <1>1
      <4>4. QED
        BY <4>2, <4>3, <1>7
    <3>3. QED
      BY <3>1, <3>2, <1>2, <2>1, <2>4
  <2>8. ASSUME NEW a \in Columns', NEW b \in Columns', a <= k, b > k
        PROVE  channels'[a].key # channels'[b].key
    <3>1. PICK i \in DOMAIN Sensors :
                i < n /\ channels'[a].key \in ToSet(Keys(Sensors[i]))
      BY <2>6, <2>8, <1>5
    <3>2. PICK m \in DOMAIN Keys(Sensors[i]) : channels'[a].key = Keys(Sensors[i])[m]
      BY <3>1 DEF ToSet
    <3>3. Sensors[i] # s
      BY <1>1, <3>1, SensorAssumption
    <3>4. QED
      BY <1>1, <1>3, <2>5, <2>8, <3>2, <3>3, KeysAreDistinct
  <2>9. ASSUME NEW a \in Columns', NEW b \in Columns', channels'[a].key = channels'[b].key
        PROVE  a = b
    <3>1. CASE a <= k /\ b <= k
      BY <2>6, <2>9, <3>1 DEF SensorsBound
    <3>2. CASE a > k /\ b > k
      <4>1. a - k = b - k
        BY <1>1, <1>3, <2>5, <2>9, <3>2, KeysAreDistinct
      <4>2. QED
        BY <4>1, <1>2, <2>1, <2>4
    <3>3. QED
      BY <2>8, <2>9, <3>1, <3>2, <1>2, <2>1, <2>4
  <2>10. QED
    BY <1>4, <2>7, <2>9
<1>8. QED
  BY <1>6, <1>7 DEF BindAs

LEMMA StructureStays ==
    ASSUME ReflectorKnown, StructureShown, loop = "binding", loop' # "checking",
           UNCHANGED <<machine, relations, disturbed, sure>>,
           NEW s, entities' = entities \/ entities' = Declared(s)
    PROVE  StructureShown'
<1>1. Actual' = Actual
  BY SameActual
<1>2. Entities(Actual)' = Entities(Actual) /\ Relations(Actual)' = Relations(Actual)
  BY <1>1 DEF Entities, Anchor, Relations
<1>3. Tuple(entities) /\ Tuple(Entities(Actual))
  BY ActualIsListed DEF ReflectorKnown
<1>. DEFINE shown == Entities(Actual)
<1>4. ASSUME Shows(shown) PROVE Shows(Entities(Actual))'
  <2>1. /\ Len(shown) \in Nat /\ Len(entities) \in Nat /\ Rows = 1 .. Len(entities)
    BY <1>3, TupleShape DEF Rows
  <2>2. CASE entities' = entities
    BY <1>2, <1>4, <2>2 DEF Shows, Rows
  <2>3. CASE entities' = Declared(s)
    <3>1. /\ Tuple(entities') /\ Len(entities) <= Len(entities')
          /\ \A row \in Rows : row \in DOMAIN entities' /\ entities'[row] = entities[row]
          /\ \A row \in DOMAIN entities' : row \notin Rows =>
                row > Len(entities) /\ entities'[row][1] \in {"zone", "domain"}
      BY <1>3, <2>3, TableGrows
    <3>2. Len(entities') \in Nat /\ DOMAIN entities' = 1 .. Len(entities')
      BY <3>1, TupleShape
    <3>. HIDE DEF shown
    <3>3. Len(shown) <= Len(entities')
      BY <1>4, <2>1, <3>1, <3>2 DEF Shows
    <3>4. ASSUME NEW row \in Rows'
          PROVE  IF row <= Len(shown) THEN entities'[row] = shown[row]
                 ELSE entities'[row][1] \in {"zone", "domain"}
      <4>1. CASE row \in Rows
        BY <4>1, <1>4, <3>1 DEF Shows
      <4>2. CASE row \notin Rows
        <5>1. row > Len(entities) /\ entities'[row][1] \in {"zone", "domain"} /\ row \in Nat
          BY <4>2, <3>1, <3>2 DEF Rows
        <5>2. ~(row <= Len(shown))
          BY <5>1, <1>4, <2>1 DEF Shows
        <5>3. QED
          BY <5>1, <5>2
      <4>3. QED
        BY <4>1, <4>2
    <3>5. QED
      BY <1>2, <3>3, <3>4 DEF Shows, shown
  <2>4. QED
    BY <2>2, <2>3
<1>5. QED
  BY <1>2, <1>4 DEF StructureShown

LEMMA BindSensorKeeps == ReflectorInv /\ BindSensor => ReflectorInv'
<1>1. SUFFICES ASSUME ReflectorInv, BindSensor PROVE ReflectorInv'
  OBVIOUS
<1>2. loop = "binding"
  BY <1>1 DEF BindSensor
<1>3. /\ ReflectorKnown /\ DiscoveryOnItsWay
      /\ SensorsBound /\ MatrixFair /\ StructureShown
  BY <1>1, <1>2 DEF ReflectorInv, Standing
<1>4. UNCHANGED <<machine, discovery, relations, passes, disturbed, sure>>
  BY <1>1 DEF BindSensor, world, ghostVars
<1>5. PICK s, n : s = AtTurn /\ n = turn /\ BindAs(s, n)
  BY <1>1, <1>2, <1>3, BindSteps
<1>6. /\ Len(Sensors) \in Nat /\ n \in 1 .. Len(Sensors) /\ s \in SensorName
  BY <1>3, <1>5, SensorAssumption DEF ReflectorKnown, AtTurn
<1>7. \/ n < Len(Sensors) /\ turn' = n + 1 /\ loop' = "binding" /\ UNCHANGED matrixVars
      \/ /\ n = Len(Sensors) /\ turn' = 1 /\ loop' \in {"built", "ready"}
         /\ numbers' = [c \in Rows' \X Columns' |-> Hole]
         /\ reasons' = [c \in Rows' \X Columns' |-> "none claims it"]
  <2>1. n = turn
    BY <1>5
  <2>2. CASE turn < Len(Sensors)
    <3>1. turn' = turn + 1 /\ loop' = loop /\ UNCHANGED matrixVars
      BY <1>1, <2>2, Zenon DEF BindSensor
    <3>2. QED
      BY <3>1, <2>1, <2>2, <1>2, Zenon
  <2>3. CASE ~(turn < Len(Sensors))
    <3>1. /\ turn' = 1 /\ loop' = (IF builds = 1 THEN "built" ELSE "ready")
          /\ numbers' = [c \in Rows' \X Columns' |-> Hole]
          /\ reasons' = [c \in Rows' \X Columns' |-> "none claims it"]
      BY <1>1, <2>3, Zenon DEF BindSensor, Rows, Columns
    <3>2. loop' \in {"built", "ready"}
      BY <3>1, Zenon
    <3>3. n = Len(Sensors)
      BY <2>1, <2>3, <1>6
    <3>4. QED
      BY <3>1, <3>2, <3>3, Zenon
  <2>4. QED
    BY <2>2, <2>3, Zenon
<1>8. turn' \in 1 .. Len(Sensors) /\ loop' \in {"binding", "built", "ready"} /\ Told' = n
  <2>1. \/ n < Len(Sensors) /\ turn' = n + 1 /\ loop' = "binding"
        \/ n = Len(Sensors) /\ turn' = 1 /\ loop' \in {"built", "ready"}
    BY <1>7, Zenon
  <2>2. QED
    BY <1>6, <2>1 DEF Told
<1>9. ReflectorKnown'
  BY <1>3, <1>4, <1>5, <1>8 DEF ReflectorKnown, BindAs, Tuple
<1>10. DiscoveryOnItsWay'
  <2>1. discovery.purpose = "none"
    BY <1>2, <1>3 DEF DiscoveryOnItsWay, ReflectorKnown, Finding
  <2>2. QED
    BY <1>3, <1>4, <1>8, <2>1 DEF DiscoveryOnItsWay
<1>11. SensorsBound'
  <2>1. \A r \in Sensor : \A t \in bound'[r] : (Aimed(r, t))'
    BY <1>3, <1>4, <1>5, <1>6, AimsAreBound
  <2>2. /\ \A i \in DOMAIN reports' :
                {"sensor", "inactive"} \subseteq DOMAIN reports'[i]
                /\ reports'[i].sensor = Sensors[i]
        /\ \A column \in Columns' : \E i \in DOMAIN reports' :
                /\ channels'[column].sensor = Sensors[i] /\ ~reports'[i].inactive
                /\ channels'[column].key \in ToSet(Keys(Sensors[i]))
        /\ \A a, b \in Columns' : channels'[a].key = channels'[b].key => a = b
    BY <1>2, <1>3, <1>5, ColumnsAreBound
  <2>3. Len(reports') = Told'
    BY <1>5, <1>8 DEF BindAs
  <2>4. QED
    BY <2>1, <2>2, <2>3 DEF SensorsBound, Sensor, Columns
<1>12. MatrixFair'
  <2>1. CASE loop' = "binding"
    <3>1. numbers' = numbers /\ reasons' = reasons
      BY <1>7, <2>1 DEF matrixVars
    <3>2. DOMAIN numbers = {} /\ DOMAIN reasons = {}
      BY <1>2, <1>3 DEF MatrixFair
    <3>3. QED
      BY <2>1, <3>1, <3>2 DEF MatrixFair
  <2>2. CASE loop' # "binding"
    <3>1. /\ numbers' = [c \in Rows' \X Columns' |-> Hole]
          /\ reasons' = [c \in Rows' \X Columns' |-> "none claims it"]
      BY <1>7, <2>2
    <3>2. DOMAIN numbers' = Rows' \X Columns' /\ DOMAIN reasons' = Rows' \X Columns'
      BY <3>1
    <3>3. \A c \in DOMAIN numbers' : numbers'[c] = Hole /\ reasons'[c] # "observed"
      BY <3>1
    <3>4. QED
      BY <2>2, <3>2, <3>3 DEF MatrixFair, FairNumber, Hole
  <2>3. QED
    BY <2>1, <2>2
<1>13. StructureShown'
  <2>1. entities' = entities \/ entities' = Declared(s)
    BY <1>5 DEF BindAs
  <2>2. QED
    BY <1>2, <1>3, <1>4, <1>8, <2>1, StructureStays
<1>14. QED
  BY <1>8, <1>9, <1>10, <1>11, <1>12, <1>13 DEF ReflectorInv

-----------------------------------------------------------------------------
(* Reading.                                                                *)

FairReading(r) ==
    r.why # "" => (r.why = "observed" <=> r.value # Hole) /\ FairNumber(r.value, r.row, r.key)

LEMMA GotIsFair ==
    ASSUME NEW row, NEW key, NEW of, NEW pass, pass = passes \/ key = "idle.states",
           of # NoEntity \/ pass # 0,
           entities[row][1] = "cpu" /\ key # "interrupts" => of = entities[row],
           ~disturbed => of = entities[row]
    PROVE  FairReading(Got(row, key, of, pass))
<1>. DEFINE r == Got(row, key, of, pass)
<1>1. r.row = row /\ r.key = key /\ r.why = "observed" /\ r.value = [of |-> of, pass |-> pass]
  BY DEF Got
<1>. HIDE DEF r
<1>2. r.value # Hole /\ r.value.of = of /\ r.value.pass = pass
  BY <1>1 DEF Hole
<1>3. FairReading(r)
  BY <1>1, <1>2 DEF FairReading, FairNumber
<1>4. QED
  BY <1>3 DEF r

LEMMA MissingIsFair ==
    ASSUME NEW row, NEW key, NEW why, NEW counts, why # "observed"
    PROVE  FairReading(Missing(row, key, why, counts))
  BY DEF FairReading, FairNumber, Missing

LEMMA SampleIsFair ==
    ASSUME NEW target, NEW key, NEW of, NEW there \in BOOLEAN, NEW answers \in BOOLEAN,
           NEW required \in BOOLEAN, passes > 0, passes \in Nat,
           entities[target.row][1] = "cpu" /\ key # "interrupts" => of = entities[target.row],
           ~disturbed => of = entities[target.row]
    PROVE  FairReading(Sample(target, key, of, there, answers, required))
<1>1. CASE there /\ answers
  <2>1. FairReading(Got(target.row, key, of, passes))
    BY GotIsFair
  <2>2. QED
    BY <1>1, <2>1 DEF Sample
<1>2. CASE ~(there /\ answers)
  <2>1. PICK why, counts : why # "observed"
            /\ Sample(target, key, of, there, answers, required)
                = Missing(target.row, key, why, counts)
    BY <1>2 DEF Sample
  <2>2. QED
    BY <2>1, MissingIsFair
<1>3. QED
  BY <1>1, <1>2

LEMMA FailedIsFair ==
    ASSUME NEW row PROVE FairReading(Failed(row))
  BY MissingIsFair DEF Failed

LEMMA ReadingsAreFair ==
    ASSUME SensorsBound, passes > 0, passes \in Nat, NEW s \in SensorName, s \in Sensor,
           NEW kept \in BOOLEAN, NEW r \in Readings(s, kept)
    PROVE  FairReading(r)
<1>1. \A t \in bound[s] : Aimed(s, t)
  BY DEF SensorsBound
<1>2. \A c : CpuOf(c) # NoEntity /\ CpuOf(c)[1] = "cpu"
  BY DEF CpuOf, NoEntity
<1>3. Answers(s) \in BOOLEAN
  BY DEF Answers
<1>4. CASE s \in {"frequency", "idle"}
  <2>1. PICK t \in bound[s] :
            \/ r = Sample(t, Keys(s)[1], CpuOf(t.from), t.from \in machine.online, Answers(s), TRUE)
            \/ r = Got(t.row, "idle.states", CpuOf(t.from), 0)
    BY <1>4 DEF Readings, ReadFiles
  <2>2. entities[t.row] = CpuOf(t.from)
    BY <1>1, <1>4 DEF Aimed
  <2>3. CASE r = Sample(t, Keys(s)[1], CpuOf(t.from), t.from \in machine.online, Answers(s), TRUE)
    <3>0. (t.from \in machine.online) \in BOOLEAN
      OBVIOUS
    <3>1. PICK there \in BOOLEAN : there = (t.from \in machine.online)
      BY <3>0, Zenon
    <3>2. FairReading(Sample(t, Keys(s)[1], CpuOf(t.from), there, Answers(s), TRUE))
      BY <2>2, <3>1, <1>3, SampleIsFair
    <3>3. QED
      BY <2>3, <3>1, <3>2
  <2>4. CASE r = Got(t.row, "idle.states", CpuOf(t.from), 0)
    BY <2>2, <2>4, <1>2, GotIsFair
  <2>5. QED
    BY <2>1, <2>3, <2>4
<1>5. CASE s = "scheduler"
  <2>1. \/ r = Failed(1)
        \/ \E t \in bound[s] : r = Got(t.row, s, CpuOf(t.from), passes)
    BY <1>5 DEF Readings, ReadLines
  <2>2. ASSUME NEW t \in bound[s], r = Got(t.row, s, CpuOf(t.from), passes)
        PROVE  FairReading(r)
    <3>1. entities[t.row] = CpuOf(t.from)
      BY <1>1, <1>5 DEF Aimed
    <3>2. QED
      BY <2>2, <3>1, <1>2, GotIsFair
  <2>3. QED
    BY <2>1, <2>2, FailedIsFair
<1>6. CASE s = "interrupts"
  <2>. DEFINE header == Sorted(machine.online)
              under(n) == IF n \in DOMAIN header THEN CpuOf(header[n]) ELSE NoEntity
  <2>1. \/ r = Failed(1)
        \/ \E t \in bound[s] : r = Got(t.row, s, under(t.from), passes)
    BY <1>6 DEF Readings, ReadColumns
  <2>2. ASSUME NEW t \in bound[s], r = Got(t.row, s, under(t.from), passes)
        PROVE  FairReading(r)
    <3>1. ~disturbed => under(t.from) = entities[t.row]
      BY <1>1, <1>6 DEF Aimed
    <3>. HIDE DEF under
    <3>2. QED
      BY <1>6, <2>2, <3>1, GotIsFair
  <2>3. QED
    BY <2>1, <2>2, FailedIsFair
<1>7. CASE s = "counters"
  <2>1. PICK t \in bound[s] : r = Got(t.row, s, CpuOf(t.from), passes) \/ r = Failed(t.row)
    BY <1>7 DEF Readings, ReadCounters
  <2>2. entities[t.row] = CpuOf(t.from)
    BY <1>1, <1>7 DEF Aimed
  <2>3. CASE r = Got(t.row, s, CpuOf(t.from), passes)
    BY <2>2, <2>3, <1>2, GotIsFair
  <2>4. QED
    BY <2>1, <2>3, FailedIsFair
<1>8. CASE s = "thermal"
  <2>1. PICK t \in bound[s] :
            r = Got(t.row, s, ZoneOf(machine.zone), passes) \/ r = Failed(t.row)
    BY <1>8 DEF Readings, ReadZone
  <2>2. entities[t.row][1] = "zone" /\ (~disturbed => entities[t.row] = ZoneOf(machine.zone))
    BY <1>1, <1>8 DEF Aimed
  <2>3. CASE r = Got(t.row, s, ZoneOf(machine.zone), passes)
    BY <2>2, <2>3, GotIsFair
  <2>4. QED
    BY <2>1, <2>3, FailedIsFair
<1>9. CASE s = "power"
  <2>1. PICK t \in bound[s] :
            \/ r = Sample(t, "power.energy", TheDomain, TRUE, Answers(s), TRUE)
            \/ r = Sample(t, "power.limit", TheDomain, FALSE, Answers(s), FALSE)
    BY <1>9 DEF Readings, ReadDomain
  <2>2. entities[t.row] = TheDomain
    BY <1>1, <1>9 DEF Aimed
  <2>3. QED
    BY <2>1, <2>2, <1>3, SampleIsFair
<1>10. QED
  BY <1>4, <1>5, <1>6, <1>7, <1>8, <1>9 DEF SensorName

LEMMA SenseKeeps == ReflectorInv /\ Sense => ReflectorInv'
<1>1. SUFFICES ASSUME ReflectorInv, Sense PROVE ReflectorInv'
  OBVIOUS
<1>2. loop = "sensing"
  BY <1>1 DEF Sense
<1>3. /\ ReflectorKnown /\ DiscoveryOnItsWay /\ passes > 0 /\ passes \in Nat
      /\ SensorsBound /\ MatrixFair /\ StructureShown
  BY <1>1, <1>2 DEF ReflectorInv, Standing, ReflectorKnown
<1>4. UNCHANGED <<machine, discovery, entities, relations, channels, bound, passes, disturbed, sure>>
  BY <1>1 DEF Sense, world, ghostVars
<1>5. /\ turn \in 1 .. Len(Sensors) /\ Len(Sensors) \in Nat
      /\ AtTurn \in SensorName /\ AtTurn \in Sensor
  <2>1. turn \in 1 .. Len(Sensors)
    BY <1>3 DEF ReflectorKnown
  <2>2. QED
    BY <2>1, SensorAssumption DEF AtTurn, Sensor, ToSet
<1>6. turn' \in 1 .. Len(Sensors) /\ loop' \in {"sensing", "taken"}
  <2>1. IF turn < Len(Sensors) THEN turn' = turn + 1 /\ UNCHANGED loop
        ELSE turn' = 1 /\ loop' = "taken"
    BY <1>1, Zenon DEF Sense
  <2>2. QED
    BY <2>1, <1>2, <1>5
<1>7. PICK kept \in BOOLEAN :
        LET readings == Readings(AtTurn, kept)
            told == {r \in readings : r.why # ""}
            at(c) == {r \in told : r.row = c[1] /\ r.key = channels[c[2]].key}
            samples == Cardinality({r \in readings : r.counts = "sample"})
            errors == Cardinality({r \in readings : r.counts = "error"})
        IN  IF reports[turn].inactive THEN UNCHANGED <<matrixVars, reports>>
            ELSE /\ numbers' = [c \in Rows \X Columns |->
                                IF at(c) = {} THEN numbers[c] ELSE (CHOOSE r \in at(c) : TRUE).value]
                 /\ reasons' = [c \in Rows \X Columns |->
                                IF at(c) = {} THEN reasons[c] ELSE (CHOOSE r \in at(c) : TRUE).why]
                 /\ reports' = [reports EXCEPT ![turn] =
                        [@ EXCEPT !.samples = samples, !.errors = errors,
                         !.availability = IF samples > 0 THEN "observed" ELSE "unavailable"]]
  BY <1>1, Zenon DEF Sense
<1>8. /\ Tuple(reports') /\ DOMAIN reports' = DOMAIN reports /\ Len(reports') = Len(reports)
      /\ \A n \in DOMAIN reports :
            /\ DOMAIN reports'[n] = DOMAIN reports[n]
            /\ {"sensor", "inactive"} \subseteq DOMAIN reports[n] =>
                reports'[n].sensor = reports[n].sensor
                /\ reports'[n].inactive = reports[n].inactive
  <2>1. Tuple(reports) /\ DOMAIN reports = 1 .. Len(reports) /\ Len(reports) \in Nat
    BY <1>3, TupleShape DEF ReflectorKnown
  <2>2. CASE reports' = reports
    BY <2>1, <2>2
  <2>3. CASE ~reports[turn].inactive
    <3>1. PICK a, b, d : reports' = [reports EXCEPT ![turn] =
                [reports[turn] EXCEPT !.samples = a, !.errors = b, !.availability = d]]
      BY <1>7, <2>3, Zenon
    <3>. DEFINE it == [reports[turn] EXCEPT !.samples = a, !.errors = b, !.availability = d]
    <3>2. /\ DOMAIN it = DOMAIN reports[turn]
          /\ {"sensor", "inactive"} \subseteq DOMAIN reports[turn] =>
                it.sensor = reports[turn].sensor /\ it.inactive = reports[turn].inactive
      OBVIOUS
    <3>. HIDE DEF it
    <3>3. reports' = [reports EXCEPT ![turn] = it]
      BY <3>1 DEF it
    <3>4. reports' = [n \in 1 .. Len(reports) |-> reports'[n]]
      BY <2>1, <3>3 DEF Tuple
    <3>5. Tuple(reports') /\ Len(reports') = Len(reports)
      BY <2>1, <3>4, TupleMade
    <3>6. QED
      BY <2>1, <3>2, <3>3, <3>5
  <2>4. QED
    BY <1>7, <2>2, <2>3, Zenon
<1>9. ReflectorKnown'
  BY <1>3, <1>4, <1>6, <1>8 DEF ReflectorKnown, Tuple
<1>10. DiscoveryOnItsWay'
  <2>1. discovery.purpose = "none"
    BY <1>2, <1>3 DEF DiscoveryOnItsWay, ReflectorKnown, Finding
  <2>2. QED
    BY <1>3, <1>4, <1>6, <2>1 DEF DiscoveryOnItsWay
<1>11. SensorsBound'
  <2>1. StillTrue /\ Rows' = Rows /\ Columns' = Columns
    BY <1>4 DEF StillTrue, Rows, Columns
  <2>2. \A s \in Sensor : \A t \in bound[s] : (Aimed(s, t))'
    BY <1>3, <1>4, <2>1, AimStays DEF SensorsBound
  <2>3. Len(reports') = Told'
    BY <1>2, <1>3, <1>6, <1>8 DEF SensorsBound, Told
  <2>4. \A n \in DOMAIN reports : {"sensor", "inactive"} \subseteq DOMAIN reports[n]
    BY <1>3 DEF SensorsBound
  <2>5. QED
    BY <1>3, <1>4, <1>8, <2>1, <2>2, <2>3, <2>4 DEF SensorsBound
<1>12. MatrixFair'
  <2>1. CASE reports[turn].inactive
    <3>1. UNCHANGED matrixVars
      BY <1>7, <2>1, Zenon
    <3>2. QED
      BY <1>2, <1>3, <1>4, <1>6, <3>1
         DEF MatrixFair, FairNumber, matrixVars, Rows, Columns
  <2>2. CASE ~reports[turn].inactive
    <3>. DEFINE told == {r \in Readings(AtTurn, kept) : r.why # ""}
                at(c) == {r \in told : r.row = c[1] /\ r.key = channels[c[2]].key}
    <3>1. /\ numbers' = [c \in Rows \X Columns |->
                            IF at(c) = {} THEN numbers[c] ELSE (CHOOSE r \in at(c) : TRUE).value]
          /\ reasons' = [c \in Rows \X Columns |->
                            IF at(c) = {} THEN reasons[c] ELSE (CHOOSE r \in at(c) : TRUE).why]
      BY <1>7, <2>2, Zenon
    <3>2. DOMAIN numbers = Rows \X Columns /\ loop' # "binding"
      BY <1>2, <1>3, <1>6 DEF MatrixFair
    <3>3. DOMAIN numbers' = Rows \X Columns /\ DOMAIN reasons' = Rows \X Columns
      BY <3>1
    <3>4. ASSUME NEW c \in Rows \X Columns
          PROVE  /\ reasons'[c] = "observed" <=> numbers'[c] # Hole
                 /\ FairNumber(numbers'[c], c[1], channels[c[2]].key)
      <4>1. CASE at(c) = {}
        <5>1. numbers'[c] = numbers[c] /\ reasons'[c] = reasons[c]
          BY <3>1, <4>1
        <5>2. QED
          BY <5>1, <3>2, <1>3 DEF MatrixFair
      <4>2. CASE at(c) # {}
        <5>. DEFINE r == CHOOSE q \in at(c) : TRUE
        <5>1. r \in at(c)
          BY <4>2
        <5>2. numbers'[c] = r.value /\ reasons'[c] = r.why
          BY <3>1, <4>2
        <5>. HIDE DEF r
        <5>3. /\ r \in Readings(AtTurn, kept) /\ r.why # ""
              /\ r.row = c[1] /\ r.key = channels[c[2]].key
          BY <5>1
        <5>4. FairReading(r)
          BY <5>3, <1>3, <1>5, ReadingsAreFair
        <5>5. QED
          BY <5>2, <5>3, <5>4 DEF FairReading
      <4>3. QED
        BY <4>1, <4>2
    <3>5. /\ Rows' = Rows /\ Columns' = Columns /\ channels' = channels /\ entities' = entities
          /\ passes' = passes /\ disturbed' = disturbed
      BY <1>4 DEF Rows, Columns
    <3>. HIDE DEF at, told
    <3>6. QED
      BY <3>2, <3>3, <3>4, <3>5 DEF MatrixFair, FairNumber
  <2>3. QED
    BY <2>1, <2>2
<1>13. StructureShown'
  <2>1. Actual' = Actual
    BY <1>4, SameActual
  <2>2. Entities(Actual)' = Entities(Actual) /\ Relations(Actual)' = Relations(Actual)
    BY <2>1 DEF Entities, Anchor, Relations
  <2>3. QED
    BY <1>2, <1>3, <1>4, <1>6, <2>2 DEF StructureShown, Shows, Rows
<1>14. QED
  BY <1>3, <1>4, <1>6, <1>9, <1>10, <1>11, <1>12, <1>13 DEF ReflectorInv

-----------------------------------------------------------------------------
(* The theorem.                                                            *)

LEMMA StutterKeeps == ReflectorInv /\ UNCHANGED reflectorVars => ReflectorInv'
<1>1. SUFFICES ASSUME ReflectorInv, UNCHANGED reflectorVars PROVE ReflectorInv'
  OBVIOUS
<1>2. UNCHANGED <<machine, discovery, loop, turn, entities, relations, channels, bound, reports,
                  numbers, reasons, passes, builds, disturbed, sure>>
  BY <1>1 DEF reflectorVars, discoveryVars
<1>3. ReflectorKnown /\ DiscoveryOnItsWay
  BY <1>1 DEF ReflectorInv
<1>4. UNCHANGED tableVars /\ UNCHANGED matrixVars /\ StillTrue /\ Told' = Told
  BY <1>2 DEF tableVars, matrixVars, StillTrue, Told
<1>5. ReflectorKnown'
  BY <1>2, <1>3, <1>4, KnownStays DEF ReflectorKnown
<1>6. DiscoveryOnItsWay'
  <2>1. Actual' = Actual
    BY <1>2, SameActual
  <2>2. FoundTrue(discovery)' = FoundTrue(discovery)
    BY <1>2, <2>1 DEF FoundTrue
  <2>3. QED
    BY <1>2, <1>3, <2>2 DEF DiscoveryOnItsWay
<1>7. ASSUME loop \in Standing PROVE SensorsBound' /\ MatrixFair' /\ StructureShown'
  <2>1. SensorsBound /\ MatrixFair /\ StructureShown
    BY <1>1, <1>7 DEF ReflectorInv
  <2>2. SensorsBound' /\ MatrixFair'
    BY <1>2, <1>4, <2>1, SensorsStay, MatrixStays
  <2>3. StructureShown'
    BY <1>2, <1>4, <2>1, ShownStays DEF StructureShown
  <2>4. QED
    BY <2>2, <2>3
<1>8. QED
  BY <1>1, <1>2, <1>5, <1>6, <1>7 DEF ReflectorInv

LEMMA ReflectorStep == ReflectorInv /\ [ReflectorNext]_reflectorVars => ReflectorInv'
  BY BeginBuildKeeps, DiscoverKeeps, DiscoveryFailsKeeps, BuildKeeps, CheckShapeKeeps, EndCheckKeeps, BindSensorKeeps,
     BeginPassKeeps, SenseKeeps, MachineChangesKeeps, StutterKeeps DEF ReflectorNext

LEMMA InvariantIsHonest == ReflectorInv => ReflectionIsHonest
<1>1. SUFFICES ASSUME ReflectorInv, loop \in {"binding", "built", "ready", "sensing", "taken"}
               PROVE  NothingStale /\ NothingMisplaced /\ TrueWhenUndisturbed /\ CaughtUp
  BY DEF ReflectionIsHonest
<1>2. /\ SensorsBound /\ MatrixFair /\ StructureShown /\ loop # "checking"
  BY <1>1 DEF ReflectorInv, Standing
<1>3. NothingStale
  BY <1>2 DEF MatrixFair, FairNumber, NothingStale
<1>4. \A c \in DOMAIN numbers : c \in Rows \X Columns
  BY <1>2 DEF MatrixFair
<1>5. NothingMisplaced
  <2>1. ASSUME NEW c \in DOMAIN numbers
        PROVE  /\ numbers[c] # Hole /\ entities[c[1]][1] = "cpu" /\ channels[c[2]].key # "interrupts"
                    => numbers[c].of = entities[c[1]]
               /\ \E n \in DOMAIN reports :
                    reports[n].sensor = channels[c[2]].sensor /\ ~reports[n].inactive
    <3>1. c[2] \in Columns
      BY <1>4
    <3>2. QED
      BY <1>2, <3>1 DEF MatrixFair, FairNumber, SensorsBound
  <2>2. QED
    BY <1>2, <2>1 DEF NothingMisplaced, SensorsBound
<1>6. TrueWhenUndisturbed
  BY <1>2 DEF TrueWhenUndisturbed, StructureShown, MatrixFair, FairNumber
<1>7. CaughtUp
  BY <1>2 DEF CaughtUp, StructureShown
<1>8. QED
  BY <1>3, <1>5, <1>6, <1>7

\* However the machine changes while it is discovered, bound and read: a number that
\* is shown was read in this pass, in the row of the entity it is of, unless the
\* machine changed in between; a cell without a number says why there is none
\* (reflector.rs, observe; observation/*.rs; mirror_daemon.rs, run).
THEOREM ReflectionsAreHonest == ReflectorSpec => []ReflectionIsHonest
  BY ReflectorStarts, ReflectorStep, InvariantIsHonest, PTL DEF ReflectorSpec

-----------------------------------------------------------------------------
(* The daemon: the invariant.                                              *)

Chunk == {Line(n) : n \in Nat} \cup {Fragment(n) : n \in Nat} \cup {NewLine}
Recorded == [id : Nat, session : Nat, shape : Shape \cup {NoShape}]

Daemon ==
    [stage : {"off", "ready", "observed", "published", "written"},
     shape : Shape \cup {NoShape}, sequence : Nat, session : Nat]

\* What a reader of the file will find once the buffer has been passed on.
File == recording \o buffer
Running == daemon.stage # "off"

MirrorKnown ==
    /\ shape \in Shape /\ made \in Nat /\ killed \in SUBSET Nat
    /\ daemon \in Daemon
    /\ recording \in Seq(Chunk) /\ buffer \in Seq(Chunk) /\ recorded \in Seq(Recorded)
    /\ ~Running => buffer = << >>

\* The pieces of the file are numbered as the reflections they are of.
Ascending ==
    /\ \A p, q \in 1 .. Len(File) :
        p < q /\ File[p] # NewLine /\ File[q] # NewLine => File[p].id < File[q].id
    /\ \A p \in 1 .. Len(File) : File[p] # NewLine =>
        /\ File[p].id <= made
        /\ daemon.stage \in {"observed", "published"} => File[p].id < made

\* So are the reflections, and sessions as they are started.
Numbered ==
    /\ \A i, j \in 1 .. Len(recorded) : i < j =>
        /\ recorded[i].id < recorded[j].id /\ recorded[i].session <= recorded[j].session
    /\ \A i \in 1 .. Len(recorded) :
        /\ recorded[i].id <= made /\ recorded[i].session <= daemon.session
        /\ daemon.stage \in {"observed", "published"} => recorded[i].id < made
    /\ \A session \in killed :
        session <= daemon.session /\ (Running => session < daemon.session)

IsLine(i, p) == File[p] = Line(recorded[i].id)
Gone(i) == \A p \in 1 .. Len(File) : ~IsLine(i, p)
IsFirst(i) == i = 1 \/ recorded[i - 1].session # recorded[i].session

\* The session of a reflection was killed, and nothing of it that came later is
\* in the file.
CutOff(i) ==
    /\ recorded[i].session \in killed
    /\ \A j \in 1 .. Len(recorded) : j > i /\ recorded[j].session = recorded[i].session => Gone(j)

KilledBefore(n) == \E session \in killed : session < n

Opened(i, p) ==
    p = 1 \/ File[p - 1] = NewLine \/ (IsFirst(i) /\ KilledBefore(recorded[i].session))
Closed(i, p) ==
    \/ p < Len(File) /\ File[p + 1] = NewLine
    \/ p = Len(File) /\ daemon.stage = "written"
    \/ CutOff(i)

\* What is in the buffer is of the session that runs.
Buffered(i, p) ==
    \/ p < Len(recording)
    \/ p = Len(recording) /\ (p = Len(File) \/ File[p + 1] # NewLine)
    \/ recorded[i].session = daemon.session

Placed(i, p) == Opened(i, p) /\ Closed(i, p) /\ (Running => Buffered(i, p))

ByLines ==
    \A i \in 1 .. Len(recorded) :
        /\ Gone(i) => CutOff(i)
        /\ \A p \in 1 .. Len(File) : IsLine(i, p) => Placed(i, p)

\* Half a line, with nothing after it, was left by a session that was killed.
Ragged == Len(File) > 0 /\ File[Len(File)] # NewLine

Seams ==
    /\ Ragged /\ daemon.stage \in {"ready", "observed", "published"} =>
        /\ KilledBefore(daemon.session)
        /\ \A i \in 1 .. Len(recorded) : recorded[i].session # daemon.session
    /\ Ragged /\ ~Running => KilledBefore(daemon.session + 1)
    /\ daemon.stage = "written" =>
        /\ Len(recorded) > 0 /\ recorded[Len(recorded)].session = daemon.session
        /\ Len(File) > 0 /\ IsLine(Len(recorded), Len(File))

MirrorInv == MirrorKnown /\ Ascending /\ Numbered /\ ByLines /\ Seams

-----------------------------------------------------------------------------
(* The file.                                                               *)

LEMMA Pieces ==
    /\ NewLine \in Chunk /\ NewLine.kind # "line"
    /\ \A n \in Nat : Line(n) \in Chunk /\ Fragment(n) \in Chunk
    /\ \A n : Line(n) # NewLine /\ Line(n).id = n /\ Line(n).kind = "line"
    /\ \A n : Fragment(n) # NewLine /\ Fragment(n).id = n /\ Fragment(n).kind # "line"
    /\ \A m, n : Line(m) # Fragment(n)
    /\ \A c \in Chunk : c # NewLine => c.id \in Nat
    /\ \A c \in Chunk : c.kind = "line" => c = Line(c.id)
<1>1. NewLine.kind = "newline"
  BY DEF NewLine
<1>2. \A n : Line(n).kind = "line" /\ Line(n).id = n /\ Fragment(n).kind = "torn"
             /\ Fragment(n).id = n
  BY DEF Line, Fragment
<1>. QED
  BY <1>1, <1>2 DEF Chunk

LEMMA Joined ==
    ASSUME NEW T, NEW s \in Seq(T), NEW t \in Seq(T)
    PROVE  /\ s \o t \in Seq(T) /\ Len(s \o t) = Len(s) + Len(t)
           /\ Len(s) \in Nat /\ Len(t) \in Nat
           /\ \A p \in 1 .. Len(s) : (s \o t)[p] = s[p]
           /\ \A p \in 1 .. Len(t) : (s \o t)[Len(s) + p] = t[p]
<1>1. Len(s) \in Nat /\ Len(t) \in Nat /\ Len(s \o t) = Len(s) + Len(t)
  OBVIOUS
<1>2. ASSUME NEW p \in 1 .. Len(t) PROVE (s \o t)[Len(s) + p] = t[p]
  <2>1. Len(s) + p \in 1 .. Len(s) + Len(t) /\ ~(Len(s) + p <= Len(s))
    BY <1>1
  <2>2. (Len(s) + p) - Len(s) = p
    BY <1>1
  <2>3. (s \o t)[Len(s) + p] = t[(Len(s) + p) - Len(s)]
    BY <1>1, <2>1
  <2>. QED
    BY <2>2, <2>3
<1>. QED
  BY <1>1, <1>2

\* Both are lists of pieces, and so is what they make together.
LEMMA FileShape ==
    ASSUME recording \in Seq(Chunk), buffer \in Seq(Chunk)
    PROVE  /\ File \in Seq(Chunk) /\ Len(File) = Len(recording) + Len(buffer)
           /\ Len(recording) \in Nat /\ Len(buffer) \in Nat /\ Len(File) \in Nat
           /\ \A p \in 1 .. Len(File) : File[p] \in Chunk
           /\ \A p \in 1 .. Len(recording) : File[p] = recording[p]
           /\ \A p \in 1 .. Len(buffer) : File[Len(recording) + p] = buffer[p]
<1>1. /\ File \in Seq(Chunk) /\ Len(File) = Len(recording) + Len(buffer)
      /\ Len(recording) \in Nat /\ Len(buffer) \in Nat
      /\ \A p \in 1 .. Len(recording) : File[p] = recording[p]
      /\ \A p \in 1 .. Len(buffer) : File[Len(recording) + p] = buffer[p]
  BY Joined DEF File
<1>2. \A p \in 1 .. Len(File) : File[p] \in Chunk
  BY <1>1
<1>. QED
  BY <1>1, <1>2

LEMMA PutAppends ==
    ASSUME recording \in Seq(Chunk), buffer \in Seq(Chunk), NEW c \in Chunk, Put(c)
    PROVE  /\ recording' \in Seq(Chunk) /\ buffer' \in Seq(Chunk) /\ File' = Append(File, c)
           /\ recording' = recording \/ Len(recording') = Len(File)
              \/ Len(recording') = Len(File) + 1
<1>1. PICK f \in Seq(Chunk) : f = recording \o buffer
  BY Joined
<1>2. File = f
  BY <1>1 DEF File
<1>3. CASE buffer' = Append(buffer, c) /\ UNCHANGED recording
  <2>1. File' = recording \o Append(buffer, c)
    BY <1>3 DEF File
  <2>2. recording \o Append(buffer, c) = Append(recording \o buffer, c)
    OBVIOUS
  <2>. QED
    BY <1>1, <1>2, <1>3, <2>1, <2>2
<1>4. CASE buffer' = <<c>> /\ recording' = recording \o buffer
  <2>1. File' = f \o <<c>> /\ recording' = f
    BY <1>1, <1>4 DEF File
  <2>2. f \o <<c>> = Append(f, c)
    OBVIOUS
  <2>. QED
    BY <1>2, <1>4, <2>1, <2>2
<1>5. CASE buffer' = << >> /\ recording' = Append(recording \o buffer, c)
  <2>1. File' = Append(f, c) \o << >> /\ recording' = Append(f, c)
    BY <1>1, <1>5 DEF File
  <2>2. Append(f, c) \o << >> = Append(f, c) /\ Append(f, c) \in Seq(Chunk)
        /\ Len(Append(f, c)) = Len(f) + 1
    OBVIOUS
  <2>. QED
    BY <1>2, <1>5, <2>1, <2>2
<1>. QED
  BY <1>3, <1>4, <1>5 DEF Put

LEMMA FlushKeeps ==
    ASSUME recording \in Seq(Chunk), buffer \in Seq(Chunk), Flushed
    PROVE  /\ recording' \in Seq(Chunk) /\ buffer' = << >> /\ File' = File
<1>1. PICK f \in Seq(Chunk) : f = recording \o buffer
  BY Joined
<1>2. recording' = f /\ buffer' = << >>
  BY <1>1 DEF Flushed
<1>. QED
  BY <1>1, <1>2 DEF File

\* What a killed daemon leaves: some of what it had to pass on, and perhaps the
\* first half of the line after that.
LEMMA CutShortLeaves ==
    ASSUME recording \in Seq(Chunk), buffer \in Seq(Chunk), NEW c \in Chunk, CutShort(c)
    PROVE  \E k \in Len(recording) .. Len(File) :
            \/ recording' = SubSeq(File, 1, k)
            \/ \E n \in Nat :
                /\ recording' = Append(SubSeq(File, 1, k), Fragment(n))
                /\ \/ k < Len(File) /\ File[k + 1] # NewLine /\ File[k + 1].id = n
                   \/ k = Len(File) /\ c = Line(n)
<1>. DEFINE pending == Append(buffer, c)
<1>1. pending \in Seq(Chunk) /\ Len(pending) = Len(buffer) + 1 /\ Len(buffer) \in Nat
      /\ (\A p \in 1 .. Len(buffer) : pending[p] = buffer[p])
      /\ pending[Len(buffer) + 1] = c
  OBVIOUS
<1>. HIDE DEF pending
<1>2. PICK n \in 0 .. Len(buffer) :
        \/ recording' = recording \o SubSeq(pending, 1, n)
        \/ /\ pending[n + 1].kind = "line"
           /\ recording' = recording \o Append(SubSeq(pending, 1, n), Fragment(pending[n + 1].id))
  BY DEF CutShort, pending
<1>. DEFINE k == Len(recording) + n
<1>3. k \in Len(recording) .. Len(File) /\ (k < Len(File) <=> n < Len(buffer))
  BY FileShape, <1>1
<1>4. recording \o SubSeq(pending, 1, n) = SubSeq(File, 1, k)
  <2>. DEFINE l == SubSeq(pending, 1, n)
              m == SubSeq(File, 1, k)
  <2>1. l \in Seq(Chunk) /\ Len(l) = n /\ \A p \in 1 .. n : l[p] = pending[p]
    BY <1>1
  <2>2. m \in Seq(Chunk) /\ Len(m) = k /\ \A p \in 1 .. k : m[p] = File[p]
    BY FileShape, <1>3
  <2>. HIDE DEF l, m
  <2>3. /\ recording \o l \in Seq(Chunk) /\ Len(recording \o l) = k
        /\ \A p \in 1 .. Len(recording) : (recording \o l)[p] = recording[p]
        /\ \A p \in 1 .. n : (recording \o l)[Len(recording) + p] = l[p]
    <3>1. /\ recording \o l \in Seq(Chunk) /\ Len(recording \o l) = Len(recording) + Len(l)
          /\ \A p \in 1 .. Len(recording) : (recording \o l)[p] = recording[p]
          /\ \A p \in 1 .. Len(l) : (recording \o l)[Len(recording) + p] = l[p]
      <4>1. recording \in Seq(Chunk) /\ l \in Seq(Chunk)
        BY <2>1
      <4>. QED
        BY <4>1, Joined
    <3>. QED
      BY <2>1, <3>1
  <2>4. ASSUME NEW p \in 1 .. k PROVE (recording \o l)[p] = m[p]
    <3>3. Len(recording) \in Nat /\ p \in Nat /\ p <= Len(recording) + n
          /\ (p <= Len(recording) \/ p > Len(recording))
      BY FileShape
    <3>1. CASE p <= Len(recording)
      BY <2>2, <2>3, <3>1, FileShape
    <3>2. CASE p > Len(recording)
      <4>. DEFINE q == p - Len(recording)
      <4>1. q \in 1 .. n /\ p = Len(recording) + q
        BY <3>2, <3>3
      <4>. HIDE DEF q
      <4>2. l[q] = buffer[q] /\ File[p] = buffer[q]
        BY <1>1, <2>1, <4>1, FileShape
      <4>. QED
        BY <2>2, <2>3, <4>1, <4>2
    <3>. QED
      BY <3>1, <3>2, <3>3, Zenon
  <2>5. recording \o l = m
    BY <2>2, <2>3, <2>4, SeqEqual
  <2>. QED
    BY <2>5 DEF l, m
<1>5. CASE recording' = recording \o SubSeq(pending, 1, n)
  BY <1>3, <1>4, <1>5
<1>6. CASE /\ pending[n + 1].kind = "line"
           /\ recording' = recording \o Append(SubSeq(pending, 1, n), Fragment(pending[n + 1].id))
  <2>1. pending[n + 1] \in Chunk /\ SubSeq(pending, 1, n) \in Seq(Chunk)
    BY <1>1
  <2>2. PICK id \in Nat : pending[n + 1] = Line(id)
    BY <1>6, <2>1, Pieces
  <2>3. Fragment(pending[n + 1].id) = Fragment(id) /\ Fragment(id) \in Chunk
    BY <2>2, Pieces
  <2>4. recording \o Append(SubSeq(pending, 1, n), Fragment(id))
            = Append(recording \o SubSeq(pending, 1, n), Fragment(id))
    BY <2>1, <2>3
  <2>5. recording' = Append(SubSeq(File, 1, k), Fragment(id))
    BY <1>4, <1>6, <2>3, <2>4
  <2>6. CASE n < Len(buffer)
    <3>1. File[k + 1] = Line(id)
      <4>1. pending[n + 1] = buffer[n + 1] /\ File[Len(recording) + (n + 1)] = buffer[n + 1]
        BY <1>1, <2>6, FileShape
      <4>2. Len(recording) + (n + 1) = k + 1
        BY FileShape
      <4>. QED
        BY <2>2, <4>1, <4>2
    <3>. QED
      BY <1>3, <2>5, <2>6, <3>1, Pieces
  <2>7. CASE n = Len(buffer)
    BY <1>1, <1>3, <2>2, <2>5, <2>7, FileShape
  <2>. QED
    BY <1>1, <2>6, <2>7
<1>. QED
  BY <1>2, <1>5, <1>6

-----------------------------------------------------------------------------
(* The steps of the daemon.                                                *)

\* What most steps leave as it was.
LEMMA NothingWritten ==
    ASSUME MirrorInv, MirrorKnown', File' = File, UNCHANGED <<recorded, killed>>,
           made' \in {made, made + 1}, daemon.stage # "written", daemon'.stage # "written",
           daemon'.stage \in {"observed", "published"} =>
                made' = made + 1 \/ daemon.stage \in {"observed", "published"},
           \/ Running /\ Running' /\ daemon'.session = daemon.session /\ recording' = recording
           \/ Running /\ ~Running' /\ daemon'.session = daemon.session
           \/ ~Running /\ Running' /\ daemon'.session = daemon.session + 1 /\ buffer' = << >>
    PROVE  MirrorInv'
<1>1. /\ MirrorKnown /\ Ascending /\ Numbered /\ ByLines /\ Seams
  BY DEF MirrorInv
<1>2. /\ made \in Nat /\ daemon.session \in Nat /\ recorded \in Seq(Recorded)
      /\ daemon.stage \in {"off", "ready", "observed", "published", "written"}
      /\ daemon'.stage \in {"off", "ready", "observed", "published", "written"}
      /\ daemon'.session \in Nat /\ killed \in SUBSET Nat
      /\ recording \in Seq(Chunk) /\ buffer \in Seq(Chunk)
      /\ recording' \in Seq(Chunk) /\ buffer' \in Seq(Chunk)
  BY <1>1 DEF MirrorKnown, Daemon
<1>3. \A i \in 1 .. Len(recorded) :
        recorded[i].id \in Nat /\ recorded[i].session \in Nat
  <2>1. \A i \in 1 .. Len(recorded) : recorded[i] \in Recorded
    BY <1>2
  <2>. QED
    BY <2>1 DEF Recorded
<1>4. /\ Len(File) \in Nat
      /\ \A p \in 1 .. Len(File) : File[p] # NewLine => File[p].id \in Nat
  BY <1>2, FileShape, Pieces
<1>5. Ascending'
  <2>1. \A p \in 1 .. Len(File) : File[p] # NewLine =>
        /\ File[p].id <= made
        /\ daemon.stage \in {"observed", "published"} => File[p].id < made
    BY <1>1 DEF Ascending
  <2>2. \A p \in 1 .. Len(File) : File[p] # NewLine =>
        /\ File[p].id <= made'
        /\ daemon'.stage \in {"observed", "published"} => File[p].id < made'
    BY <1>2, <1>4, <2>1
  <2>. QED
    BY <1>1, <2>2 DEF Ascending
<1>6. Numbered'
  <2>1. \A i \in 1 .. Len(recorded) :
        /\ recorded[i].id <= made' /\ recorded[i].session <= daemon'.session
        /\ daemon'.stage \in {"observed", "published"} => recorded[i].id < made'
    BY <1>1, <1>2, <1>3 DEF Numbered
  <2>2. \A session \in killed :
        session <= daemon'.session /\ (Running' => session < daemon'.session)
    <3>1. \A session \in killed : session \in Nat /\ session <= daemon.session
            /\ (Running => session < daemon.session)
      BY <1>1, <1>2 DEF Numbered
    <3>2. /\ daemon'.session = daemon.session \/ daemon'.session = daemon.session + 1
          /\ Running' => daemon'.session = daemon.session + 1 \/ Running
      OBVIOUS
    <3>. QED
      BY <1>2, <3>1, <3>2
  <2>. QED
    BY <1>1, <2>1, <2>2 DEF Numbered
<1>7. ASSUME NEW i \in 1 .. Len(recorded)
      PROVE  /\ Gone(i)' <=> Gone(i)
             /\ \A p \in 1 .. Len(File) : IsLine(i, p)' <=> IsLine(i, p)
  BY DEF Gone, IsLine
<1>8. ASSUME NEW i \in 1 .. Len(recorded) PROVE CutOff(i)' <=> CutOff(i)
  BY <1>7 DEF CutOff
<1>9. ByLines'
  <2>1. ASSUME NEW i \in 1 .. Len(recorded), NEW p \in 1 .. Len(File), IsLine(i, p)
        PROVE  Placed(i, p)'
    <3>1. Placed(i, p)
      BY <1>1, <2>1 DEF ByLines
    <3>2. Opened(i, p)'
      BY <3>1 DEF Placed, Opened, IsFirst, KilledBefore
    <3>3. Closed(i, p)'
      BY <1>8, <3>1 DEF Placed, Closed
    <3>4. Running' => Buffered(i, p)'
      <4>1. CASE Running /\ recording' = recording /\ daemon'.session = daemon.session
        BY <3>1, <4>1 DEF Placed, Buffered
      <4>2. CASE buffer' = << >>
        <5>1. File' = recording'
          BY <1>2, <4>2 DEF File
        <5>2. p < Len(recording') \/ p = Len(recording')
          BY <1>4, <5>1
        <5>. QED
          BY <5>1, <5>2 DEF Buffered
      <4>. QED
        BY <4>1, <4>2
    <3>. QED
      BY <3>2, <3>3, <3>4 DEF Placed
  <2>. QED
    BY <1>1, <1>7, <1>8, <2>1 DEF ByLines
<1>10. Seams'
  <2>1. Ragged' <=> Ragged
    BY DEF Ragged
  <2>2. ASSUME Ragged', daemon'.stage \in {"ready", "observed", "published"}
        PROVE  /\ KilledBefore(daemon'.session)
               /\ \A i \in 1 .. Len(recorded) : recorded[i].session # daemon'.session
    <3>1. CASE Running /\ daemon'.session = daemon.session
      <4>1. daemon.stage \in {"ready", "observed", "published"}
        BY <1>2, <3>1 DEF Running
      <4>. QED
        BY <1>1, <2>1, <2>2, <3>1, <4>1 DEF Seams
    <3>2. CASE ~Running /\ daemon'.session = daemon.session + 1
      <4>1. \A i \in 1 .. Len(recorded) : recorded[i].session <= daemon.session
        BY <1>1 DEF Numbered
      <4>. QED
        BY <1>1, <1>2, <1>3, <2>1, <2>2, <3>2, <4>1 DEF Seams
    <3>3. Running'
      BY <2>2 DEF Running
    <3>. QED
      BY <3>1, <3>2, <3>3
  <2>3. ASSUME Ragged', ~Running' PROVE KilledBefore(daemon'.session + 1)
    <3>1. daemon'.session = daemon.session /\ daemon.stage \in {"ready", "observed", "published"}
      BY <1>2, <2>3 DEF Running
    <3>2. KilledBefore(daemon.session)
      BY <1>1, <2>1, <2>3, <3>1 DEF Seams
    <3>. QED
      BY <1>2, <3>1, <3>2 DEF KilledBefore
  <2>4. \A n : KilledBefore(n)' <=> KilledBefore(n)
    BY DEF KilledBefore
  <2>. QED
    BY <2>2, <2>3, <2>4 DEF Seams, KilledBefore
<1>. QED
  BY <1>5, <1>6, <1>9, <1>10 DEF MirrorInv

LEMMA AtAnotherStage ==
    ASSUME MirrorKnown, NEW place \in {"off", "ready", "observed", "published", "written"}
    PROVE  /\ [daemon EXCEPT !.stage = place] \in Daemon
           /\ [daemon EXCEPT !.stage = place].stage = place
           /\ [daemon EXCEPT !.stage = place].session = daemon.session
  BY DEF MirrorKnown, Daemon

LEMMA Typed ==
    ASSUME MirrorInv
    PROVE  /\ MirrorKnown /\ made \in Nat /\ daemon.session \in Nat /\ recorded \in Seq(Recorded)
           /\ Len(recorded) \in Nat
           /\ daemon.stage \in {"off", "ready", "observed", "published", "written"}
           /\ killed \in SUBSET Nat /\ recording \in Seq(Chunk) /\ buffer \in Seq(Chunk)
           /\ Len(recording) \in Nat /\ Len(recording) <= Len(File)
           /\ Len(File) \in Nat /\ \A p \in 1 .. Len(File) : File[p] \in Chunk
           /\ \A p \in 1 .. Len(File) : File[p] # NewLine => File[p].id \in Nat
           /\ \A i \in 1 .. Len(recorded) : recorded[i].id \in Nat /\ recorded[i].session \in Nat
<1>1. MirrorKnown
  BY DEF MirrorInv
<1>2. /\ made \in Nat /\ recorded \in Seq(Recorded) /\ daemon.session \in Nat
      /\ daemon.stage \in {"off", "ready", "observed", "published", "written"}
      /\ killed \in SUBSET Nat /\ recording \in Seq(Chunk) /\ buffer \in Seq(Chunk)
  BY <1>1 DEF MirrorKnown, Daemon
<1>3. /\ Len(recording) \in Nat /\ Len(recording) <= Len(File) /\ Len(File) \in Nat
      /\ \A p \in 1 .. Len(File) : File[p] \in Chunk
  BY <1>2, FileShape
<1>4. \A p \in 1 .. Len(File) : File[p] # NewLine => File[p].id \in Nat
  BY <1>3, Pieces
<1>5. \A i \in 1 .. Len(recorded) : recorded[i] \in Recorded
  BY <1>2
<1>. QED
  BY <1>1, <1>2, <1>3, <1>4, <1>5 DEF Recorded

\* A piece is told apart from the others by its number.
LEMMA OnePlace ==
    ASSUME MirrorInv, NEW i \in 1 .. Len(recorded), NEW p \in 1 .. Len(File), IsLine(i, p)
    PROVE  /\ File[p] # NewLine /\ File[p].id = recorded[i].id
           /\ \A j \in 1 .. Len(recorded), q \in 1 .. Len(File) : j > i /\ IsLine(j, q) => q > p
           /\ \A j \in 1 .. Len(recorded) : IsLine(j, p) => j = i
<1>1. \A j \in 1 .. Len(recorded), q \in 1 .. Len(File) : IsLine(j, q) =>
        File[q] # NewLine /\ File[q].id = recorded[j].id
  BY Pieces DEF IsLine
<1>2. /\ \A m, n \in 1 .. Len(recorded) : m < n => recorded[m].id < recorded[n].id
      /\ \A m, n \in 1 .. Len(File) :
            m < n /\ File[m] # NewLine /\ File[n] # NewLine => File[m].id < File[n].id
  BY DEF MirrorInv, Numbered, Ascending
<1>3. ASSUME NEW j \in 1 .. Len(recorded), NEW q \in 1 .. Len(File), j > i, IsLine(j, q)
      PROVE  q > p
  <2>1. File[p].id < File[q].id /\ File[p].id \in Nat /\ File[q].id \in Nat
    BY <1>1, <1>2, <1>3, Typed
  <2>2. q < p => File[q].id < File[p].id
    BY <1>1, <1>2, <1>3
  <2>. QED
    BY <2>1, <2>2, Typed
<1>4. ASSUME NEW j \in 1 .. Len(recorded), IsLine(j, p) PROVE j = i
  <2>1. recorded[j].id = recorded[i].id /\ recorded[i].id \in Nat
    BY <1>1, <1>4, Typed
  <2>2. j < i => recorded[j].id < recorded[i].id
    BY <1>2
  <2>3. j > i => recorded[i].id < recorded[j].id
    BY <1>2
  <2>. QED
    BY <2>1, <2>2, <2>3, Typed
<1>. QED
  BY <1>1, <1>3, <1>4

\* The line that is being written is at the end of the file.
LEMMA LastIsLast ==
    ASSUME MirrorInv, daemon.stage = "written",
           NEW i \in 1 .. Len(recorded), IsLine(i, Len(File))
    PROVE  i = Len(recorded) /\ recorded[i].session = daemon.session
<1>1. /\ Len(recorded) \in 1 .. Len(recorded) /\ Len(File) \in 1 .. Len(File)
      /\ IsLine(Len(recorded), Len(File)) /\ recorded[Len(recorded)].session = daemon.session
  BY Typed DEF MirrorInv, Seams
<1>. QED
  BY <1>1, OnePlace

LEMMA RecordLineKeeps ==
    ASSUME MirrorInv, RecordLine PROVE MirrorInv'
<1>. DEFINE r == [id |-> made, session |-> daemon.session, shape |-> daemon.shape]
<1>1. /\ daemon.stage = "published" /\ daemon' = [daemon EXCEPT !.stage = "written"]
      /\ recorded' = Append(recorded, r) /\ Put(Line(made))
      /\ UNCHANGED <<shape, made, plane, killed, reader, history>>
  BY DEF RecordLine
<1>2. /\ MirrorKnown /\ Ascending /\ Numbered /\ ByLines /\ Seams
  BY DEF MirrorInv
<1>3. /\ made \in Nat /\ daemon.session \in Nat /\ recorded \in Seq(Recorded)
      /\ Len(recorded) \in Nat /\ Len(File) \in Nat /\ Len(recording) \in Nat
      /\ recording \in Seq(Chunk) /\ buffer \in Seq(Chunk) /\ killed \in SUBSET Nat
      /\ \A p \in 1 .. Len(File) : File[p] # NewLine => File[p].id \in Nat
      /\ \A i \in 1 .. Len(recorded) : recorded[i].id \in Nat /\ recorded[i].session \in Nat
      /\ File \in Seq(Chunk) /\ Len(recording) <= Len(File)
  BY Typed, FileShape
<1>21. PICK last \in Nat, end \in Nat : last = Len(recorded) + 1 /\ end = Len(File) + 1
  BY <1>3
<1>4. /\ recording' \in Seq(Chunk) /\ buffer' \in Seq(Chunk)
      /\ File' = Append(File, Line(made))
      /\ recording' = recording \/ Len(recording') = Len(File) \/ Len(recording') = Len(File) + 1
  BY <1>1, <1>3, Pieces, PutAppends
<1>5. /\ Len(File') = end /\ File'[end] = Line(made)
      /\ \A p \in 1 .. Len(File) : File'[p] = File[p]
  BY <1>3, <1>4, <1>21, Pieces
<1>6. r \in Recorded /\ r.id = made /\ r.session = daemon.session
  BY <1>2, <1>3 DEF MirrorKnown, Recorded, Daemon
<1>. HIDE DEF r
<1>7. /\ recorded' \in Seq(Recorded) /\ Len(recorded') = last
      /\ recorded'[last].id = made /\ recorded'[last].session = daemon.session
      /\ \A i \in 1 .. Len(recorded) : recorded'[i] = recorded[i]
  BY <1>1, <1>3, <1>6, <1>21
<1>8. daemon' \in Daemon /\ daemon'.stage = "written" /\ daemon'.session = daemon.session
  BY <1>1, <1>2, AtAnotherStage
<1>9. Running /\ Running'
  BY <1>1, <1>8 DEF Running
<1>10. MirrorKnown'
  BY <1>1, <1>2, <1>4, <1>7, <1>8, <1>9 DEF MirrorKnown
<1>11. /\ \A p \in 1 .. Len(File) : File[p] # NewLine => File[p].id < made
       /\ \A i \in 1 .. Len(recorded) : recorded[i].id < made /\ recorded[i].session <= daemon.session
       /\ \A session \in killed : session < daemon.session
  BY <1>1, <1>2, <1>9 DEF Ascending, Numbered
<1>12. Line(made) # NewLine /\ Line(made).id = made
  BY Pieces
<1>13. /\ last = Len(recorded) + 1 /\ end = Len(File) + 1
       /\ \A i \in 1 .. last : i \in 1 .. Len(recorded) \/ i = last
       /\ \A p \in 1 .. end : p \in 1 .. Len(File) \/ p = end
       /\ last \in 1 .. last /\ end \in 1 .. end
  BY <1>3, <1>21
<1>14. Ascending'
  <2>1. ASSUME NEW p \in 1 .. end, NEW q \in 1 .. end, p < q,
               File'[p] # NewLine, File'[q] # NewLine
        PROVE  File'[p].id < File'[q].id
    <3>1. p \in 1 .. Len(File)
      BY <1>3, <1>13, <2>1
    <3>2. CASE q \in 1 .. Len(File)
      BY <1>2, <1>5, <2>1, <3>1, <3>2 DEF Ascending
    <3>3. CASE q = end
      BY <1>5, <1>11, <1>12, <2>1, <3>1, <3>3
    <3>. QED
      BY <1>13, <3>2, <3>3
  <2>2. ASSUME NEW p \in 1 .. end, File'[p] # NewLine PROVE File'[p].id <= made'
    <3>1. made' = made /\ made \in Nat
      BY <1>1, <1>3
    <3>2. CASE p \in 1 .. Len(File)
      BY <1>3, <1>5, <1>11, <2>2, <3>1, <3>2
    <3>3. CASE p = end
      BY <1>5, <1>12, <3>1, <3>3
    <3>. QED
      BY <1>13, <3>2, <3>3
  <2>. QED
    BY <1>5, <1>8, <2>1, <2>2 DEF Ascending
<1>15. Numbered'
  <2>1. ASSUME NEW i \in 1 .. last, NEW j \in 1 .. last, i < j
        PROVE  recorded'[i].id < recorded'[j].id /\ recorded'[i].session <= recorded'[j].session
    <3>1. i \in 1 .. Len(recorded)
      BY <1>3, <1>13, <2>1
    <3>2. CASE j \in 1 .. Len(recorded)
      BY <1>2, <1>7, <2>1, <3>1, <3>2 DEF Numbered
    <3>3. CASE j = last
      BY <1>7, <1>11, <3>1, <3>3
    <3>. QED
      BY <1>13, <3>2, <3>3
  <2>2. ASSUME NEW i \in 1 .. last
        PROVE  recorded'[i].id <= made' /\ recorded'[i].session <= daemon'.session
    BY <1>1, <1>3, <1>7, <1>8, <1>11, <1>13
  <2>3. \A session \in killed' : session <= daemon'.session /\ session < daemon'.session
    BY <1>1, <1>3, <1>8, <1>11
  <2>. QED
    BY <1>7, <1>8, <2>1, <2>2, <2>3 DEF Numbered
<1>16. ASSUME NEW i \in 1 .. Len(recorded)
       PROVE  /\ \A p \in 1 .. Len(File) : IsLine(i, p)' <=> IsLine(i, p)
              /\ ~IsLine(i, end)' /\ (Gone(i)' <=> Gone(i))
  <2>1. recorded'[i] = recorded[i] /\ recorded[i].id # made
    BY <1>3, <1>7, <1>11
  <2>2. \A p \in 1 .. Len(File) : IsLine(i, p)' <=> IsLine(i, p)
    BY <1>5, <2>1 DEF IsLine
  <2>3. ~IsLine(i, end)'
    <3>1. Line(made) # Line(recorded[i].id)
      BY <2>1, Pieces
    <3>. QED
      BY <1>5, <2>1, <3>1 DEF IsLine
  <2>. QED
    BY <1>5, <1>13, <2>2, <2>3 DEF Gone
<1>17. /\ \A p \in 1 .. Len(File) : ~IsLine(last, p)'
       /\ IsLine(last, end)' /\ ~Gone(last)'
  <2>1. IsLine(last, end)'
    BY <1>5, <1>7 DEF IsLine
  <2>2. ASSUME NEW p \in 1 .. Len(File) PROVE ~IsLine(last, p)'
    <3>1. IsLine(last, p)' <=> File[p] = Line(made)
      BY <1>5, <1>7 DEF IsLine
    <3>2. File[p] # Line(made)
      BY <1>3, <1>11, <1>12
    <3>. QED
      BY <3>1, <3>2
  <2>. QED
    BY <1>5, <1>13, <2>1, <2>2 DEF Gone
<1>18. ASSUME NEW i \in 1 .. Len(recorded), CutOff(i) PROVE CutOff(i)'
  <2>1. recorded'[i].session \in killed' /\ recorded'[i].session < daemon.session
    BY <1>1, <1>7, <1>11, <1>18 DEF CutOff
  <2>2. ASSUME NEW j \in 1 .. last, j > i, recorded'[j].session = recorded'[i].session
        PROVE  Gone(j)'
    <3>1. j # last
      BY <1>3, <1>7, <2>1, <2>2
    <3>2. j \in 1 .. Len(recorded)
      BY <1>13, <3>1
    <3>3. Gone(j)
      BY <1>7, <1>18, <2>2, <3>2 DEF CutOff
    <3>. QED
      BY <1>16, <3>2, <3>3
  <2>. QED
    BY <1>7, <2>1, <2>2 DEF CutOff
<1>19. ByLines'
  <2>1. ASSUME NEW i \in 1 .. Len(recorded), NEW p \in 1 .. Len(File), IsLine(i, p)
        PROVE  Placed(i, p)'
    <3>1. Placed(i, p)
      BY <1>2, <2>1 DEF ByLines
    <3>2. Opened(i, p)'
      <4>1. CASE p = 1
        BY <4>1 DEF Opened
      <4>2. CASE p # 1 /\ File[p - 1] = NewLine
        <5>1. p - 1 \in 1 .. Len(File)
          BY <1>3, <4>2
        <5>2. File'[p - 1] = NewLine
          BY <1>5, <4>2, <5>1
        <5>. QED
          BY <5>2 DEF Opened
      <4>3. CASE IsFirst(i) /\ KilledBefore(recorded[i].session)
        <5>1. IsFirst(i)'
          <6>1. i = 1 \/ i - 1 \in 1 .. Len(recorded)
            BY <1>3
          <6>. QED
            BY <1>7, <4>3, <6>1 DEF IsFirst
        <5>2. KilledBefore(recorded[i].session)'
          BY <1>1, <1>7, <4>3 DEF KilledBefore
        <5>. QED
          BY <5>1, <5>2 DEF Opened
      <4>. QED
        BY <3>1, <4>1, <4>2, <4>3 DEF Placed, Opened
    <3>3. Closed(i, p)'
      <4>1. CASE p < Len(File) /\ File[p + 1] = NewLine
        <5>1. p + 1 \in 1 .. Len(File) /\ p < end
          BY <1>3, <1>13, <4>1
        <5>. QED
          BY <1>5, <4>1, <5>1 DEF Closed
      <4>2. CASE CutOff(i)
        BY <1>18, <4>2 DEF Closed
      <4>. QED
        BY <1>1, <3>1, <4>1, <4>2 DEF Placed, Closed
    <3>4. Buffered(i, p)'
      <4>1. CASE p < Len(recording)
        <5>1. p < Len(recording')
          BY <1>3, <1>4, <4>1
        <5>. QED
          BY <5>1 DEF Buffered
      <4>2. CASE p = Len(recording) /\ (p = Len(File) \/ File[p + 1] # NewLine)
        <5>1. p < end /\ File'[p + 1] # NewLine
          <6>1. CASE p = Len(File)
            BY <1>3, <1>5, <1>12, <1>13, <6>1
          <6>2. CASE p # Len(File) /\ File[p + 1] # NewLine
            <7>1. p + 1 \in 1 .. Len(File) /\ p < end
              BY <1>3, <1>13, <6>2
            <7>. QED
              BY <1>5, <6>2, <7>1
          <6>. QED
            BY <4>2, <6>1, <6>2
        <5>2. p < Len(recording') \/ p = Len(recording')
          BY <1>3, <1>4, <4>2
        <5>. QED
          BY <5>1, <5>2 DEF Buffered
      <4>3. CASE recorded[i].session = daemon.session
        BY <1>7, <1>8, <4>3 DEF Buffered
      <4>. QED
        BY <1>9, <3>1, <4>1, <4>2, <4>3 DEF Placed, Buffered
    <3>. QED
      BY <3>2, <3>3, <3>4 DEF Placed
  <2>2. Placed(last, end)'
    <3>1. Opened(last, end)'
      <4>1. CASE end = 1
        BY <4>1 DEF Opened
      <4>2. CASE Len(File) > 0 /\ File[Len(File)] = NewLine
        <5>1. end - 1 = Len(File) /\ File'[Len(File)] = NewLine
          BY <1>3, <1>5, <1>13, <4>2
        <5>. QED
          BY <5>1 DEF Opened
      <4>3. CASE Ragged
        <5>1. /\ KilledBefore(daemon.session)
              /\ \A i \in 1 .. Len(recorded) : recorded[i].session # daemon.session
          BY <1>1, <1>2, <4>3 DEF Seams
        <5>2. KilledBefore(recorded[last].session)'
          BY <1>1, <1>7, <5>1 DEF KilledBefore
        <5>3. IsFirst(last)'
          <6>1. last = 1 \/ last - 1 \in 1 .. Len(recorded)
            BY <1>3, <1>13
          <6>2. last # 1 => recorded'[last - 1].session # daemon.session
            BY <1>7, <5>1, <6>1
          <6>. QED
            BY <1>7, <6>2 DEF IsFirst
        <5>. QED
          BY <5>2, <5>3 DEF Opened
      <4>. QED
        BY <1>3, <1>13, <4>1, <4>2, <4>3 DEF Ragged
    <3>2. Closed(last, end)'
      BY <1>5, <1>8 DEF Closed
    <3>3. Buffered(last, end)'
      BY <1>7, <1>8 DEF Buffered
    <3>. QED
      BY <3>1, <3>2, <3>3 DEF Placed
  <2>3. ASSUME NEW i \in 1 .. last, Gone(i)' PROVE CutOff(i)'
    <3>1. i \in 1 .. Len(recorded)
      BY <1>13, <1>17, <2>3
    <3>2. CutOff(i)
      BY <1>2, <1>16, <2>3, <3>1 DEF ByLines
    <3>. QED
      BY <1>18, <3>1, <3>2
  <2>4. ASSUME NEW i \in 1 .. last, NEW p \in 1 .. end, IsLine(i, p)' PROVE Placed(i, p)'
    <3>1. CASE i = last
      BY <1>13, <1>17, <2>2, <2>4, <3>1
    <3>2. CASE i \in 1 .. Len(recorded)
      BY <1>13, <1>16, <2>1, <2>4, <3>2
    <3>. QED
      BY <1>13, <3>1, <3>2
  <2>. QED
    BY <1>5, <1>7, <2>3, <2>4 DEF ByLines
<1>20. Seams'
  <2>1. last > 0 /\ end > 0
    BY <1>3, <1>13
  <2>. QED
    BY <1>5, <1>7, <1>8, <1>9, <1>17, <2>1 DEF Seams
<1>. QED
  BY <1>10, <1>14, <1>15, <1>19, <1>20 DEF MirrorInv

LEMMA RecordEndKeeps ==
    ASSUME MirrorInv, RecordEnd PROVE MirrorInv'
<1>1. /\ daemon.stage = "written" /\ daemon' = [daemon EXCEPT !.stage = "ready"]
      /\ Put(NewLine) /\ UNCHANGED <<shape, made, plane, recorded, killed, reader, history>>
  BY DEF RecordEnd
<1>2. /\ MirrorKnown /\ Ascending /\ Numbered /\ ByLines /\ Seams
  BY DEF MirrorInv
<1>3. /\ Len(recorded) \in Nat /\ Len(File) \in Nat /\ Len(recording) \in Nat
      /\ Len(recording) <= Len(File) /\ recording \in Seq(Chunk) /\ buffer \in Seq(Chunk)
      /\ File \in Seq(Chunk)
  BY Typed, FileShape
<1>4. /\ recording' \in Seq(Chunk) /\ buffer' \in Seq(Chunk)
      /\ File' = Append(File, NewLine)
      /\ recording' = recording \/ Len(recording') = Len(File) \/ Len(recording') = Len(File) + 1
  BY <1>1, <1>3, Pieces, PutAppends
<1>5. PICK end \in Nat : end = Len(File) + 1
  BY <1>3
<1>6. /\ Len(File') = end /\ File'[end] = NewLine
      /\ \A p \in 1 .. Len(File) : File'[p] = File[p]
      /\ \A p \in 1 .. end : File'[p] # NewLine => p \in 1 .. Len(File)
  BY <1>3, <1>4, <1>5, Pieces
<1>7. daemon' \in Daemon /\ daemon'.stage = "ready" /\ daemon'.session = daemon.session
  BY <1>1, <1>2, AtAnotherStage
<1>8. Running /\ Running'
  BY <1>1, <1>7 DEF Running
<1>9. MirrorKnown'
  BY <1>1, <1>2, <1>4, <1>7, <1>8 DEF MirrorKnown
<1>10. Ascending'
  BY <1>1, <1>2, <1>6, <1>7 DEF Ascending
<1>11. Numbered'
  BY <1>1, <1>2, <1>7, <1>8 DEF Numbered
<1>12. ASSUME NEW i \in 1 .. Len(recorded)
       PROVE  /\ \A p \in 1 .. Len(File) : IsLine(i, p)' <=> IsLine(i, p)
              /\ \A p \in 1 .. end : IsLine(i, p)' => p \in 1 .. Len(File)
              /\ Gone(i)' <=> Gone(i)
  <2>1. \A p \in 1 .. Len(File) : IsLine(i, p)' <=> IsLine(i, p)
    BY <1>1, <1>6 DEF IsLine
  <2>2. ASSUME NEW p \in 1 .. end, IsLine(i, p)' PROVE p \in 1 .. Len(File)
    <3>1. File'[p] # NewLine
      BY <2>2, Pieces DEF IsLine
    <3>. QED
      BY <1>6, <3>1
  <2>3. Gone(i)' => Gone(i)
    <3>1. \A p \in 1 .. Len(File) : p \in 1 .. end
      BY <1>3, <1>5
    <3>. QED
      BY <1>6, <2>1, <3>1 DEF Gone
  <2>4. Gone(i) => Gone(i)'
    BY <1>6, <2>1, <2>2 DEF Gone
  <2>. QED
    BY <2>1, <2>2, <2>3, <2>4
<1>13. \A i \in 1 .. Len(recorded) : CutOff(i)' <=> CutOff(i)
  BY <1>1, <1>12 DEF CutOff
<1>14. ASSUME NEW i \in 1 .. Len(recorded), NEW p \in 1 .. Len(File), IsLine(i, p)
       PROVE  Placed(i, p)'
  <2>1. Placed(i, p)
    BY <1>2, <1>14 DEF ByLines
  <2>2. Opened(i, p)'
    <3>1. p = 1 \/ p - 1 \in 1 .. Len(File)
      BY <1>3
    <3>2. File[p - 1] = NewLine => p = 1 \/ File'[p - 1] = NewLine
      BY <1>6, <3>1
    <3>3. /\ IsFirst(i)' <=> IsFirst(i)
          /\ KilledBefore(recorded[i].session)' <=> KilledBefore(recorded[i].session)
      BY <1>1 DEF IsFirst, KilledBefore
    <3>. QED
      BY <2>1, <3>2, <3>3 DEF Placed, Opened
  <2>3. Closed(i, p)'
    <3>1. CASE p < Len(File) /\ File[p + 1] = NewLine
      <4>1. p + 1 \in 1 .. Len(File) /\ p < end
        BY <1>3, <1>5, <3>1
      <4>. QED
        BY <1>6, <3>1, <4>1 DEF Closed
    <3>2. CASE p = Len(File)
      BY <1>3, <1>5, <1>6, <3>2 DEF Closed
    <3>3. CASE CutOff(i)
      BY <1>13, <3>3 DEF Closed
    <3>. QED
      BY <2>1, <3>1, <3>2, <3>3 DEF Placed, Closed
  <2>4. Buffered(i, p)'
    <3>1. CASE p < Len(recording)
      <4>1. p < Len(recording')
        BY <1>3, <1>4, <3>1
      <4>. QED
        BY <4>1 DEF Buffered
    <3>2. CASE p = Len(File)
      <4>1. recorded[i].session = daemon.session
        BY <1>1, <1>14, <3>2, LastIsLast
      <4>. QED
        BY <1>1, <1>7, <4>1 DEF Buffered
    <3>3. CASE p = Len(recording) /\ p # Len(File) /\ File[p + 1] # NewLine
      <4>1. p + 1 \in 1 .. Len(File) /\ p < end
        BY <1>3, <1>5, <3>3
      <4>2. File'[p + 1] # NewLine
        BY <1>6, <3>3, <4>1
      <4>3. p < Len(recording') \/ p = Len(recording')
        BY <1>3, <1>4, <3>3
      <4>. QED
        BY <4>2, <4>3 DEF Buffered
    <3>4. CASE recorded[i].session = daemon.session
      BY <1>1, <1>7, <3>4 DEF Buffered
    <3>. QED
      BY <1>8, <2>1, <3>1, <3>2, <3>3, <3>4 DEF Placed, Buffered
  <2>. QED
    BY <2>2, <2>3, <2>4 DEF Placed
<1>15. ByLines'
  <2>1. ASSUME NEW i \in 1 .. Len(recorded), Gone(i)' PROVE CutOff(i)'
    BY <1>2, <1>12, <1>13, <2>1 DEF ByLines
  <2>2. ASSUME NEW i \in 1 .. Len(recorded), NEW p \in 1 .. end, IsLine(i, p)' PROVE Placed(i, p)'
    BY <1>12, <1>14, <2>2
  <2>. QED
    BY <1>1, <1>6, <2>1, <2>2 DEF ByLines
<1>16. Seams'
  <2>1. ~Ragged'
    BY <1>6 DEF Ragged
  <2>. QED
    BY <1>7, <2>1 DEF Seams
<1>. QED
  BY <1>9, <1>10, <1>11, <1>15, <1>16 DEF MirrorInv

\* What there is of the file after a kill, which nothing is buffered for.
LEMMA KilledLeaves ==
    ASSUME MirrorInv, Killed
    PROVE  /\ recording' \in Seq(Chunk) /\ File' = recording'
           /\ \E k \in Len(recording) .. Len(File) :
                /\ Len(File') \in {k, k + 1}
                /\ \A p \in 1 .. k : File'[p] = File[p]
                /\ Len(File') = k + 1 =>
                    /\ File'[k + 1] # NewLine /\ \A n : File'[k + 1] # Line(n)
                    /\ \/ k < Len(File) /\ File[k + 1] # NewLine /\ File[k + 1].id = File'[k + 1].id
                       \/ daemon.stage = "published" /\ File'[k + 1].id = made
<1>1. /\ made \in Nat /\ recording \in Seq(Chunk) /\ buffer \in Seq(Chunk) /\ File \in Seq(Chunk)
      /\ Len(File) \in Nat /\ Len(recording) \in Nat /\ Len(recording) <= Len(File)
      /\ \A p \in 1 .. Len(File) : File[p] # NewLine => File[p].id \in Nat
      /\ \A p \in 1 .. Len(recording) : File[p] = recording[p]
  BY Typed, FileShape
<1>2. /\ buffer' = << >>
      /\ \/ UNCHANGED recording
         \/ daemon.stage = "published" /\ CutShort(Line(made))
         \/ daemon.stage = "written" /\ CutShort(NewLine)
  BY DEF Killed
<1>. DEFINE Left(k) ==
            /\ Len(recording') \in {k, k + 1}
            /\ \A p \in 1 .. k : recording'[p] = File[p]
            /\ Len(recording') = k + 1 =>
                /\ recording'[k + 1] # NewLine /\ \A n : recording'[k + 1] # Line(n)
                /\ \/ k < Len(File) /\ File[k + 1] # NewLine
                      /\ File[k + 1].id = recording'[k + 1].id
                   \/ daemon.stage = "published" /\ recording'[k + 1].id = made
<1>3. recording' \in Seq(Chunk) /\ \E k \in Len(recording) .. Len(File) : Left(k)
  <2>1. CASE UNCHANGED recording
    <3>1. Left(Len(recording))
      BY <1>1, <2>1
    <3>. HIDE DEF Left
    <3>2. Len(recording) \in Len(recording) .. Len(File)
      BY <1>1
    <3>. QED
      BY <1>1, <2>1, <3>1, <3>2
  <2>2. ASSUME NEW c \in Chunk, CutShort(c), \A n : c = Line(n) => n = made,
               (\E n : c = Line(n)) => daemon.stage = "published"
        PROVE  recording' \in Seq(Chunk) /\ \E k \in Len(recording) .. Len(File) : Left(k)
    <3>1. PICK k \in Len(recording) .. Len(File) :
            \/ recording' = SubSeq(File, 1, k)
            \/ \E n \in Nat :
                /\ recording' = Append(SubSeq(File, 1, k), Fragment(n))
                /\ \/ k < Len(File) /\ File[k + 1] # NewLine /\ File[k + 1].id = n
                   \/ k = Len(File) /\ c = Line(n)
      BY <1>1, <2>2, CutShortLeaves
    <3>. DEFINE m == SubSeq(File, 1, k)
    <3>2. m \in Seq(Chunk) /\ Len(m) = k /\ k \in Nat /\ \A p \in 1 .. k : m[p] = File[p]
      BY <1>1
    <3>3. CASE recording' = m
      <4>. HIDE DEF m
      <4>1. Len(recording') = k /\ k # k + 1 /\ \A p \in 1 .. k : recording'[p] = File[p]
        BY <3>2, <3>3
      <4>. QED
        BY <3>2, <3>3, <4>1
    <3>4. ASSUME NEW n \in Nat, recording' = Append(m, Fragment(n)),
                 \/ k < Len(File) /\ File[k + 1] # NewLine /\ File[k + 1].id = n
                 \/ k = Len(File) /\ c = Line(n)
          PROVE  recording' \in Seq(Chunk) /\ Left(k)
      <4>. HIDE DEF m
      <4>1. Fragment(n) \in Chunk /\ Fragment(n) # NewLine /\ Fragment(n).id = n
            /\ \A l : Fragment(n) # Line(l)
        BY Pieces
      <4>2. /\ recording' \in Seq(Chunk) /\ Len(recording') = k + 1
            /\ recording'[k + 1] = Fragment(n) /\ \A p \in 1 .. k : recording'[p] = m[p]
        BY <3>2, <3>4, <4>1
      <4>3. c = Line(n) => n = made /\ daemon.stage = "published"
        BY <2>2
      <4>. QED
        BY <3>2, <3>4, <4>1, <4>2, <4>3
    <3>. QED
      BY <3>1, <3>3, <3>4
  <2>3. CASE daemon.stage = "published" /\ CutShort(Line(made))
    <3>1. \A n : Line(made) = Line(n) => n = made
      BY Pieces, Line(made).id = made
    <3>. QED
      BY <1>1, <2>2, <2>3, <3>1, Pieces
  <2>4. CASE daemon.stage = "written" /\ CutShort(NewLine)
    BY <2>2, <2>4, Pieces
  <2>. QED
    BY <1>2, <2>1, <2>3, <2>4
<1>4. File' = recording'
  <2>1. File' = recording' \o << >>
    BY <1>2 DEF File
  <2>. QED
    BY <1>3, <2>1
<1>. QED
  BY <1>3, <1>4

LEMMA KilledKeeps ==
    ASSUME MirrorInv, Killed PROVE MirrorInv'
<1>1. /\ daemon.stage # "off" /\ daemon' = [daemon EXCEPT !.stage = "off"] /\ buffer' = << >>
      /\ killed' = killed \cup {daemon.session}
      /\ UNCHANGED <<shape, made, plane, recorded, reader, history>>
  BY DEF Killed, Ended
<1>2. /\ MirrorKnown /\ Ascending /\ Numbered /\ ByLines /\ Seams
  BY DEF MirrorInv
<1>3. /\ Len(recorded) \in Nat /\ Len(File) \in Nat /\ Len(recording) \in Nat /\ made \in Nat
      /\ Len(recording) <= Len(File) /\ daemon.session \in Nat /\ killed \in SUBSET Nat
      /\ \A p \in 1 .. Len(File) : File[p] # NewLine => File[p].id \in Nat
      /\ \A i \in 1 .. Len(recorded) : recorded[i].id \in Nat /\ recorded[i].session \in Nat
  BY Typed
<1>4. PICK k \in Len(recording) .. Len(File) :
        /\ Len(File') \in {k, k + 1}
        /\ \A p \in 1 .. k : File'[p] = File[p]
        /\ Len(File') = k + 1 =>
            /\ File'[k + 1] # NewLine /\ \A n : File'[k + 1] # Line(n)
            /\ \/ k < Len(File) /\ File[k + 1] # NewLine /\ File[k + 1].id = File'[k + 1].id
               \/ daemon.stage = "published" /\ File'[k + 1].id = made
  BY KilledLeaves
<1>5. daemon' \in Daemon /\ daemon'.stage = "off" /\ daemon'.session = daemon.session
  BY <1>1, <1>2, AtAnotherStage
<1>6. Running /\ ~Running'
  BY <1>1, <1>5 DEF Running
<1>7. /\ k \in Nat /\ \A p \in 1 .. k : p \in 1 .. Len(File) /\ p \in 1 .. Len(File')
      /\ \A p \in 1 .. Len(File') : p \in 1 .. k \/ (p = k + 1 /\ Len(File') = k + 1)
      /\ k < Len(File) => k + 1 \in 1 .. Len(File)
  BY <1>3, <1>4
<1>8. MirrorKnown'
  <2>1. recording' \in Seq(Chunk) /\ buffer' \in Seq(Chunk)
    BY <1>1, KilledLeaves
  <2>2. killed' \in SUBSET Nat
    BY <1>1, <1>3
  <2>. QED
    BY <1>1, <1>2, <1>5, <2>1, <2>2 DEF MirrorKnown
<1>9. ASSUME NEW p \in 1 .. k, File[p] # NewLine, Len(File') = k + 1
      PROVE  File[p].id < File'[k + 1].id /\ File'[k + 1].id <= made
  <2>1. CASE k < Len(File) /\ File[k + 1] # NewLine /\ File[k + 1].id = File'[k + 1].id
    <3>1. File[p].id < File[k + 1].id /\ File[k + 1].id <= made
      BY <1>2, <1>7, <1>9, <2>1 DEF Ascending
    <3>. QED
      BY <2>1, <3>1
  <2>2. CASE daemon.stage = "published" /\ File'[k + 1].id = made
    BY <1>2, <1>3, <1>7, <1>9, <2>2 DEF Ascending
  <2>. QED
    BY <1>4, <1>9, <2>1, <2>2
<1>10. Ascending'
  <2>1. ASSUME NEW p \in 1 .. Len(File'), NEW q \in 1 .. Len(File'), p < q,
               File'[p] # NewLine, File'[q] # NewLine
        PROVE  File'[p].id < File'[q].id
    <3>1. p \in 1 .. k /\ File[p] = File'[p]
      BY <1>4, <1>7, <2>1
    <3>2. CASE q \in 1 .. k
      BY <1>2, <1>4, <1>7, <2>1, <3>1, <3>2 DEF Ascending
    <3>3. CASE q = k + 1 /\ Len(File') = k + 1
      BY <1>9, <2>1, <3>1, <3>3
    <3>. QED
      BY <1>7, <3>2, <3>3
  <2>2. ASSUME NEW p \in 1 .. Len(File'), File'[p] # NewLine PROVE File'[p].id <= made
    <3>1. CASE p \in 1 .. k
      BY <1>2, <1>4, <1>7, <2>2, <3>1 DEF Ascending
    <3>2. CASE p = k + 1 /\ Len(File') = k + 1
      BY <1>2, <1>3, <1>4, <1>7, <3>2 DEF Ascending
    <3>. QED
      BY <1>7, <3>1, <3>2
  <2>. QED
    BY <1>1, <1>5, <2>1, <2>2 DEF Ascending
<1>11. Numbered'
  <2>1. \A session \in killed' : session <= daemon'.session
    BY <1>1, <1>2, <1>3, <1>5 DEF Numbered
  <2>. QED
    BY <1>1, <1>2, <1>5, <1>6, <2>1 DEF Numbered
<1>12. ASSUME NEW i \in 1 .. Len(recorded)
       PROVE  /\ \A p \in 1 .. k : IsLine(i, p)' <=> IsLine(i, p)
              /\ \A p \in 1 .. Len(File') : IsLine(i, p)' => p \in 1 .. k
              /\ Gone(i) => Gone(i)'
  <2>1. \A p \in 1 .. k : IsLine(i, p)' <=> IsLine(i, p)
    BY <1>1, <1>4 DEF IsLine
  <2>2. \A p \in 1 .. Len(File') : IsLine(i, p)' => p \in 1 .. k
    BY <1>1, <1>4, <1>7 DEF IsLine
  <2>. QED
    BY <1>7, <2>1, <2>2 DEF Gone
<1>13. ASSUME NEW i \in 1 .. Len(recorded), CutOff(i) PROVE CutOff(i)'
  BY <1>1, <1>12, <1>13 DEF CutOff
\* What was the last there is, or is there no longer, of the session that is killed.
<1>14. ASSUME NEW i \in 1 .. Len(recorded), NEW p \in 1 .. Len(File), IsLine(i, p),
              p >= k, recorded[i].session = daemon.session
       PROVE  CutOff(i)'
  <2>1. recorded'[i].session \in killed'
    BY <1>1, <1>14
  <2>2. ASSUME NEW j \in 1 .. Len(recorded), j > i PROVE Gone(j)'
    <3>1. ASSUME NEW q \in 1 .. Len(File'), IsLine(j, q)' PROVE FALSE
      <4>1. q \in 1 .. k /\ IsLine(j, q) /\ q \in 1 .. Len(File)
        BY <1>7, <1>12, <3>1
      <4>2. q > p
        BY <1>14, <2>2, <4>1, OnePlace
      <4>. QED
        BY <1>7, <1>14, <4>1, <4>2
    <3>. QED
      BY <3>1 DEF Gone
  <2>. QED
    BY <1>1, <2>1, <2>2 DEF CutOff
<1>15. ByLines'
  <2>1. ASSUME NEW i \in 1 .. Len(recorded), Gone(i)' PROVE CutOff(i)'
    <3>1. CASE Gone(i)
      BY <1>2, <1>13, <3>1 DEF ByLines
    <3>2. CASE ~Gone(i)
      <4>1. PICK p \in 1 .. Len(File) : IsLine(i, p)
        BY <3>2 DEF Gone
      <4>2. p > k
        BY <1>7, <1>12, <2>1, <4>1 DEF Gone
      <4>3. Placed(i, p)
        BY <1>2, <4>1 DEF ByLines
      <4>4. recorded[i].session = daemon.session
        BY <1>3, <1>6, <1>7, <4>2, <4>3 DEF Placed, Buffered
      <4>. QED
        BY <1>7, <1>14, <4>1, <4>2, <4>4
    <3>. QED
      BY <3>1, <3>2
  <2>2. ASSUME NEW i \in 1 .. Len(recorded), NEW p \in 1 .. Len(File'), IsLine(i, p)'
        PROVE  Placed(i, p)'
    <3>1. p \in 1 .. k /\ IsLine(i, p) /\ p \in 1 .. Len(File) /\ Placed(i, p)
      BY <1>2, <1>7, <1>12, <2>2 DEF ByLines
    <3>2. Opened(i, p)'
      <4>1. p = 1 \/ p - 1 \in 1 .. k
        BY <1>7, <3>1
      <4>2. File[p - 1] = NewLine => p = 1 \/ File'[p - 1] = NewLine
        BY <1>4, <4>1
      <4>3. /\ IsFirst(i)' <=> IsFirst(i)
            /\ KilledBefore(recorded[i].session) => KilledBefore(recorded[i].session)'
        BY <1>1 DEF IsFirst, KilledBefore
      <4>. QED
        BY <3>1, <4>2, <4>3 DEF Placed, Opened
    <3>3. Closed(i, p)'
      <4>1. CASE CutOff(i)
        BY <1>13, <4>1 DEF Closed
      <4>2. CASE p < Len(File) /\ File[p + 1] = NewLine /\ p < k
        <5>1. p + 1 \in 1 .. k /\ p < Len(File')
          BY <1>4, <1>7, <3>1, <4>2
        <5>. QED
          BY <1>4, <4>2, <5>1 DEF Closed
      <4>3. CASE p = Len(File) /\ daemon.stage = "written"
        <5>1. recorded[i].session = daemon.session
          BY <3>1, <4>3, LastIsLast
        <5>2. p >= k
          BY <1>3, <1>4, <4>3
        <5>. QED
          BY <1>14, <3>1, <5>1, <5>2 DEF Closed
      <4>4. CASE p < Len(File) /\ File[p + 1] = NewLine /\ p >= k
        <5>1. ~(p < Len(recording)) /\ p # Len(File)
          BY <1>3, <1>4, <4>4
        <5>2. recorded[i].session = daemon.session
          BY <1>6, <3>1, <4>4, <5>1 DEF Placed, Buffered
        <5>. QED
          BY <1>14, <3>1, <4>4, <5>2 DEF Closed
      <4>5. p < k \/ p >= k
        BY <1>7, <3>1
      <4>. QED
        BY <3>1, <4>1, <4>2, <4>3, <4>4, <4>5 DEF Placed, Closed
    <3>. QED
      BY <1>6, <3>2, <3>3 DEF Placed
  <2>. QED
    BY <1>1, <2>1, <2>2 DEF ByLines
<1>16. Seams'
  <2>1. KilledBefore(daemon.session + 1)'
    <3>1. daemon'.session \in killed' /\ daemon'.session < daemon'.session + 1
      BY <1>1, <1>3, <1>5
    <3>. QED
      BY <3>1 DEF KilledBefore
  <2>. QED
    BY <1>5, <2>1 DEF Seams
<1>. QED
  BY <1>8, <1>10, <1>11, <1>15, <1>16 DEF MirrorInv

LEMMA StartKeeps ==
    ASSUME MirrorInv, Start PROVE MirrorInv'
<1>1. /\ daemon.stage = "off" /\ buffer' = << >> /\ UNCHANGED <<shape, made, recording, recorded, killed>>
      /\ daemon' = [stage |-> "ready", shape |-> shape, sequence |-> 1, session |-> daemon.session + 1]
  BY DEF Start
<1>2. MirrorKnown /\ daemon.session \in Nat /\ recording \in Seq(Chunk)
  BY Typed
<1>3. daemon' \in Daemon /\ daemon'.stage = "ready" /\ daemon'.session = daemon.session + 1
  BY <1>1, <1>2 DEF MirrorKnown, Daemon
<1>4. ~Running /\ Running' /\ buffer = << >>
  BY <1>1, <1>2, <1>3 DEF Running, MirrorKnown
<1>5. File' = File
  BY <1>1, <1>4 DEF File
<1>6. MirrorKnown'
  BY <1>1, <1>2, <1>3, <1>4 DEF MirrorKnown
<1>. QED
  BY <1>1, <1>3, <1>4, <1>5, <1>6, NothingWritten

\* A reflection made, of whichever reflector, or published.
LEMMA UnrecordedKeeps ==
    ASSUME MirrorInv, TakeReflection \/ RebuildMirror \/ PublishReflection PROVE MirrorInv'
<1>1. /\ daemon.stage \in {"ready", "observed"}
      /\ UNCHANGED <<shape, buffer, recording, recorded, killed>>
      /\ \/ daemon' = [daemon EXCEPT !.stage = "observed", !.sequence = @ + 1] /\ made' = made + 1
         \/ /\ daemon' = [daemon EXCEPT !.stage = "observed", !.shape = shape, !.sequence = 1]
            /\ made' = made + 1
         \/ /\ daemon.stage = "observed" /\ made' = made
            /\ daemon' = [daemon EXCEPT !.stage = "published"]
  BY DEF TakeReflection, RebuildMirror, PublishReflection
<1>2. MirrorKnown /\ made \in Nat
  BY Typed
<1>3. /\ daemon' \in Daemon /\ daemon'.session = daemon.session
      /\ \/ daemon'.stage = "observed" /\ made' = made + 1
         \/ daemon'.stage = "published" /\ made' = made /\ daemon.stage = "observed"
  <2>1. daemon \in Daemon /\ shape \in Shape
    BY <1>2 DEF MirrorKnown
  <2>2. CASE daemon' = [daemon EXCEPT !.stage = "observed", !.sequence = @ + 1] /\ made' = made + 1
    <3>1. PICK n \in Nat : n = daemon.sequence + 1
      BY <2>1 DEF Daemon
    <3>2. daemon' = [daemon EXCEPT !.stage = "observed", !.sequence = n]
      BY <2>2, <3>1
    <3>. QED
      BY <2>1, <2>2, <3>2 DEF Daemon
  <2>3. CASE /\ daemon' = [daemon EXCEPT !.stage = "observed", !.shape = shape, !.sequence = 1]
             /\ made' = made + 1
    BY <2>1, <2>3 DEF Daemon
  <2>4. CASE /\ daemon.stage = "observed" /\ made' = made
             /\ daemon' = [daemon EXCEPT !.stage = "published"]
    BY <2>1, <2>4 DEF Daemon
  <2>. QED
    BY <1>1, <2>2, <2>3, <2>4
<1>4. File' = File /\ Running /\ Running'
  BY <1>1, <1>3 DEF File, Running
<1>5. MirrorKnown'
  BY <1>1, <1>2, <1>3, <1>4 DEF MirrorKnown
<1>. QED
  BY <1>1, <1>3, <1>4, <1>5, NothingWritten

\* It ends by itself, and its recorder passes on what it has.
LEMMA EndKeeps ==
    ASSUME MirrorInv, BuildFails \/ Finish PROVE MirrorInv'
<1>1. /\ daemon.stage = "ready" /\ daemon' = [daemon EXCEPT !.stage = "off"] /\ Flushed
      /\ UNCHANGED <<shape, made, recorded, killed>>
  BY DEF BuildFails, Finish, Ended
<1>2. MirrorKnown /\ made \in Nat /\ recording \in Seq(Chunk) /\ buffer \in Seq(Chunk)
  BY Typed
<1>3. daemon' \in Daemon /\ daemon'.stage = "off" /\ daemon'.session = daemon.session
  BY <1>1, <1>2, AtAnotherStage
<1>4. recording' \in Seq(Chunk) /\ buffer' = << >> /\ File' = File
  BY <1>1, <1>2, FlushKeeps
<1>5. Running /\ ~Running'
  BY <1>1, <1>3 DEF Running
<1>6. MirrorKnown'
  BY <1>1, <1>2, <1>3, <1>4, <1>5 DEF MirrorKnown
<1>. QED
  BY <1>1, <1>3, <1>4, <1>5, <1>6, NothingWritten

\* What others do leaves the daemon and its file alone.
LEMMA OthersKeep ==
    ASSUME MirrorInv, shape' \in Shape,
           UNCHANGED <<daemon, made, buffer, recording, recorded, killed>>
    PROVE  MirrorInv'
<1>1. File' = File /\ (Running' <=> Running)
  BY DEF File, Running
<1>2. MirrorKnown /\ Ascending /\ Numbered /\ ByLines /\ Seams
  BY DEF MirrorInv
<1>3. MirrorKnown'
  BY <1>1, <1>2 DEF MirrorKnown
<1>4. Ascending' /\ Numbered'
  BY <1>1, <1>2 DEF Ascending, Numbered
<1>5. \A i, p : /\ IsLine(i, p)' <=> IsLine(i, p)
                /\ IsFirst(i)' <=> IsFirst(i)
  BY <1>1 DEF IsLine, IsFirst
<1>6. \A i : Gone(i)' <=> Gone(i)
  BY <1>1, <1>5 DEF Gone
<1>7. /\ \A i : CutOff(i)' <=> CutOff(i)
      /\ \A n : KilledBefore(n)' <=> KilledBefore(n)
  BY <1>6 DEF CutOff, KilledBefore
<1>8. \A i, p : Placed(i, p)' <=> Placed(i, p)
  <2>1. \A i, p : Opened(i, p)' <=> Opened(i, p)
    BY <1>1, <1>5, <1>7 DEF Opened, KilledBefore
  <2>2. \A i, p : Closed(i, p)' <=> Closed(i, p)
    BY <1>1, <1>7 DEF Closed
  <2>3. \A i, p : Buffered(i, p)' <=> Buffered(i, p)
    BY <1>1 DEF Buffered
  <2>. QED
    BY <1>1, <2>1, <2>2, <2>3 DEF Placed
<1>9. ByLines'
  BY <1>1, <1>2, <1>5, <1>6, <1>7, <1>8 DEF ByLines
<1>10. Seams'
  BY <1>1, <1>2 DEF Seams, Ragged, IsLine, KilledBefore
<1>. QED
  BY <1>2, <1>3, <1>4, <1>9, <1>10 DEF MirrorInv

LEMMA MirrorStarts == MirrorInit => MirrorInv
<1>1. SUFFICES ASSUME MirrorInit PROVE MirrorInv
  OBVIOUS
<1>2. /\ shape \in Shape /\ made = 0 /\ buffer = << >> /\ recording = << >> /\ recorded = << >>
      /\ daemon = [stage |-> "off", shape |-> NoShape, sequence |-> 0, session |-> 0]
      /\ killed = {}
  BY <1>1 DEF MirrorInit
<1>3. File = << >> /\ Len(File) = 0 /\ Len(recorded) = 0
  BY <1>2 DEF File
<1>4. daemon \in Daemon /\ daemon.stage = "off"
  BY <1>2 DEF Daemon
<1>5. MirrorKnown
  BY <1>2, <1>4 DEF MirrorKnown
<1>6. Ascending /\ Numbered /\ ByLines
  BY <1>2, <1>3 DEF Ascending, Numbered, ByLines
<1>7. Seams
  BY <1>3, <1>4 DEF Seams, Ragged
<1>. QED
  BY <1>5, <1>6, <1>7 DEF MirrorInv

LEMMA MirrorStep ==
    ASSUME MirrorInv, [MirrorNext]_mirrorVars PROVE MirrorInv'
<1>1. shape \in Shape
  BY DEF MirrorInv, MirrorKnown
<1>2. CASE ShapeChanges
  BY <1>1, <1>2, OthersKeep DEF ShapeChanges
<1>3. CASE Attach \/ Poll \/ StreamEnds \/ Replay \/ ReplayEnds
  <2>1. UNCHANGED <<shape, daemon, made, buffer, recording, recorded, killed>>
    BY <1>3, Zenon DEF Attach, Poll, StreamEnds, Replay, ReplayEnds
  <2>. QED
    BY <1>1, <2>1, OthersKeep
<1>4. CASE UNCHANGED mirrorVars
  BY <1>1, <1>4, OthersKeep DEF mirrorVars
<1>. QED
  BY <1>2, <1>3, <1>4, StartKeeps, UnrecordedKeeps, EndKeeps, RecordLineKeeps, RecordEndKeeps,
     KilledKeeps DEF MirrorNext

-----------------------------------------------------------------------------
(* What is read again.                                                     *)

\* Names the pieces with a line to themselves, in the order of the file.
LEMMA ReadInOrder ==
    ASSUME MirrorInv
    PROVE  LET read == Readable(File)
           IN  /\ \A i, j \in DOMAIN read : i < j => read[i] < read[j]
               /\ ToSet(read) = {File[p].id : p \in Whole(File)}
<1>. DEFINE W == Whole(File)
            order == Sorted(W)
            read == Readable(File)
<1>1. W \subseteq 1 .. Len(File) /\ IsFiniteSet(W) /\ W \subseteq Nat
  <2>1. W \subseteq 1 .. Len(File)
    BY Typed, FileShape DEF Whole
  <2>2. IsFiniteSet(1 .. Len(File))
    BY Typed, FS_Interval
  <2>. QED
    BY <2>1, <2>2, FS_Subset
<1>2. /\ \A m, n \in DOMAIN order : m < n => order[m] < order[n]
      /\ ToSet(order) = W
  BY <1>1, SortedIsSorted
<1>3. read = [n \in DOMAIN order |-> File[order[n]].id]
  BY DEF Readable, IdsAt
<1>. HIDE DEF order, read
<1>4. \A n \in DOMAIN order : order[n] \in W
  BY <1>2 DEF ToSet
<1>5. \A p \in W : p \in 1 .. Len(File) /\ File[p] # NewLine
  BY <1>1, Pieces DEF Whole
<1>6. \A i, j \in DOMAIN read : i < j => read[i] < read[j]
  BY <1>2, <1>3, <1>4, <1>5 DEF MirrorInv, Ascending
<1>7. ToSet(read) = {File[p].id : p \in W}
  <2>1. \A n \in DOMAIN read : read[n] \in {File[p].id : p \in W}
    BY <1>3, <1>4
  <2>2. \A p \in W : \E n \in DOMAIN read : read[n] = File[p].id
    BY <1>2, <1>3 DEF ToSet
  <2>. QED
    BY <2>1, <2>2 DEF ToSet
<1>. QED
  BY <1>6, <1>7 DEF read

\* A reflection that is not read again is in no place of its own: it is nowhere, it
\* follows half a line, or something other than its end follows it.
LEMMA LostAtSeams == MirrorInv => LossesAreAtTheSeams
<1>1. SUFFICES ASSUME MirrorInv PROVE LossesAreAtTheSeams
  OBVIOUS
<1>. DEFINE read == Readable(File)
            lost == {i \in DOMAIN recorded : recorded[i].id \notin ToSet(read)}
            isFirst(i) == i = 1 \/ recorded[i - 1].session # recorded[i].session
<1>2. /\ ByLines /\ Len(recorded) \in Nat /\ DOMAIN recorded = 1 .. Len(recorded)
      /\ Len(File) \in Nat /\ DOMAIN File = 1 .. Len(File)
      /\ \A p \in 1 .. Len(File) : File[p] \in Chunk
      /\ \A i \in 1 .. Len(recorded) : recorded[i].session \in Nat
  BY <1>1, Typed, FileShape DEF MirrorInv
<1>3. /\ \A i, j \in DOMAIN read : i < j => read[i] < read[j]
      /\ ToSet(read) = {File[p].id : p \in Whole(File)}
  BY <1>1, ReadInOrder
<1>. HIDE DEF read
<1>4. ASSUME NEW i \in 1 .. Len(recorded), Gone(i) PROVE i \in lost
  <2>1. ASSUME NEW p \in Whole(File), File[p].id = recorded[i].id PROVE FALSE
    <3>1. p \in 1 .. Len(File) /\ File[p] = Line(recorded[i].id)
      BY <1>2, <2>1, Pieces DEF Whole
    <3>. QED
      BY <1>4, <3>1 DEF Gone, IsLine
  <2>. QED
    BY <1>2, <1>3, <2>1
<1>5. ASSUME NEW i \in lost, CutOff(i)
      PROVE  /\ recorded[i].session \in killed
             /\ \A j \in i .. Len(recorded) : recorded[j].session = recorded[i].session => j \in lost
  <2>1. ASSUME NEW j \in i .. Len(recorded), recorded[j].session = recorded[i].session
        PROVE  j \in lost
    <3>1. CASE j = i
      BY <3>1
    <3>2. CASE j # i
      <4>1. j \in 1 .. Len(recorded) /\ j > i
        BY <1>2, <3>2
      <4>2. Gone(j)
        BY <1>5, <2>1, <4>1 DEF CutOff
      <4>. QED
        BY <1>4, <4>1, <4>2
    <3>. QED
      BY <3>1, <3>2
  <2>. QED
    BY <1>5, <2>1 DEF CutOff
<1>6. ASSUME NEW i \in lost
      PROVE  \/ isFirst(i) /\ KilledBefore(recorded[i].session)
             \/ CutOff(i)
  <2>1. i \in 1 .. Len(recorded)
    BY <1>2
  <2>2. CASE Gone(i)
    BY <1>2, <2>1, <2>2 DEF ByLines
  <2>3. CASE ~Gone(i)
    <3>1. PICK p \in 1 .. Len(File) : IsLine(i, p)
      BY <2>3 DEF Gone
    <3>2. File[p].kind = "line" /\ File[p].id = recorded[i].id
      BY <3>1, Pieces DEF IsLine
    <3>3. p \notin Whole(File)
      BY <1>3, <3>2
    <3>4. Opened(i, p) /\ Closed(i, p)
      BY <1>2, <2>1, <3>1 DEF ByLines, Placed
    <3>5. CASE ~(p = 1 \/ File[p - 1] = NewLine)
      BY <3>4, <3>5 DEF Opened, IsFirst
    <3>6. CASE ~(p = Len(File) \/ File[p + 1] = NewLine)
      BY <3>4, <3>6 DEF Closed
    <3>. QED
      BY <1>2, <3>2, <3>3, <3>5, <3>6 DEF Whole
  <2>. QED
    BY <2>2, <2>3
<1>7. ASSUME NEW i \in lost
      PROVE  \/ isFirst(i) /\ \E session \in killed : session < recorded[i].session
             \/ /\ recorded[i].session \in killed
                /\ \A j \in i .. Len(recorded) :
                    recorded[j].session = recorded[i].session => j \in lost
  BY <1>5, <1>6 DEF KilledBefore
<1>. QED
  BY <1>3, <1>7 DEF LossesAreAtTheSeams, File, read

\* Wherever a daemon is killed, and whatever of a line it had written, what is not
\* read again is the end of its session, and the line that the next one glues to
\* what it left (recording.rs, Recorder::record and next_snapshot; mirror_daemon.rs,
\* which has no handler for signals).
THEOREM OnlyTheSeamsAreLost == MirrorSpec => []LossesAreAtTheSeams
  BY MirrorStarts, MirrorStep, LostAtSeams, PTL DEF MirrorSpec

-----------------------------------------------------------------------------
(* Groups.                                                                 *)

Linked(a, b) == {<<a, b>>, <<b, a>>} \cap alike # {}

\* A forest: every item is under its root, which has the highest rank on the way.
Forest(up, root, rank) ==
    /\ up \in [Item -> Item] /\ root \in [Item -> Item] /\ rank \in [Item -> Nat]
    /\ \A i \in Item :
        /\ up[root[i]] = root[i] /\ root[up[i]] = root[i]
        /\ up[i] = i => root[i] = i
        /\ up[i] # i => rank[i] < rank[up[i]]
        /\ root[i] # i => rank[i] < rank[root[i]]

\* Items with one root cannot be parted without parting two that are alike.
Chained(root) ==
    \A some \in SUBSET Item : \A a \in some, b \in Item \ some :
        root[a] = root[b] =>
            \E c \in some, d \in Item \ some : Linked(c, d) /\ root[c] = root[d]

Merged(root) == \A p \in compared \cap alike : root[p[1]] = root[p[2]]

GroupsInv ==
    /\ alike \subseteq Pairs /\ compared \subseteq Pairs
    /\ phase \in {"grouping", "seeding", "iterating", "done"}
    /\ phase = "grouping" <=> compared # Pairs
    /\ \E root, rank : Forest(parent, root, rank) /\ Chained(root) /\ Merged(root)

LEMMA ItemsAreFinite ==
    /\ IsFiniteSet(Item) /\ Cardinality(Item) = Items /\ Items \in Nat
    /\ IsFiniteSet(0 .. Items) /\ Cardinality(0 .. Items) = Items + 1
    /\ 1 \in Item /\ 2 \in Item /\ <<1, 2>> \in Pairs
<1>1. Items \in Nat /\ Items > 1
  BY RegimesAssumption
<1>. QED
  BY <1>1, FS_Interval DEF Item, Pairs

\* What find follows is there to be followed.
Walk(up, item, n) == up = [m \in 0 .. n |-> IF m = 0 THEN item ELSE parent[up[m - 1]]]

LEMMA WalkExists ==
    ASSUME NEW item, NEW n \in Nat PROVE \E up : Walk(up, item, n)
<1>. DEFINE Bad == {m \in Nat : ~\E up : Walk(up, item, m)}
<1>1. SUFFICES ASSUME Bad # {} PROVE FALSE
  OBVIOUS
<1>2. PICK m \in Bad : \A k \in Bad : m <= k
  BY <1>1, SmallestIsLeast
<1>3. CASE m = 0
  <2>. DEFINE up == [k \in 0 .. 0 |-> item]
  <2>1. Walk(up, item, 0)
    BY DEF Walk
  <2>. QED
    BY <1>2, <1>3, <2>1
<1>4. CASE m # 0
  <2>1. m - 1 \in Nat /\ m - 1 \notin Bad
    BY <1>2, <1>4
  <2>2. PICK f : Walk(f, item, m - 1)
    BY <2>1
  <2>3. DOMAIN f = 0 .. m - 1 /\ f[0] = item
        /\ \A k \in 0 .. m - 1 : k # 0 => f[k] = parent[f[k - 1]]
    BY <2>1, <2>2 DEF Walk
  <2>. DEFINE g == [k \in 0 .. m |-> IF k = m THEN parent[f[m - 1]] ELSE f[k]]
  <2>4. ASSUME NEW k \in 0 .. m
        PROVE  g[k] = IF k = 0 THEN item ELSE parent[g[k - 1]]
    <3>1. CASE k = 0
      BY <1>4, <2>3, <3>1
    <3>2. CASE k # 0
      <4>1. k - 1 \in 0 .. m /\ k - 1 # m /\ g[k - 1] = f[k - 1]
        BY <3>2
      <4>2. g[k] = parent[f[k - 1]]
        BY <2>3, <3>2
      <4>. QED
        BY <3>2, <4>1, <4>2
    <3>. QED
      BY <3>1, <3>2
  <2>5. DOMAIN g = 0 .. m
    OBVIOUS
  <2>6. g = [k \in DOMAIN g |-> g[k]]
    OBVIOUS
  <2>. HIDE DEF g
  <2>7. g = [k \in 0 .. m |-> IF k = 0 THEN item ELSE parent[g[k - 1]]]
    BY <2>4, <2>5, <2>6
  <2>. QED
    BY <1>2, <2>7 DEF Walk
<1>. QED
  BY <1>3, <1>4

LEMMA WayShape ==
    ASSUME parent \in [Item -> Item], NEW item \in Item
    PROVE  \E up \in [0 .. Items -> Item] :
            /\ up[0] = item /\ \A n \in 1 .. Items : up[n] = parent[up[n - 1]]
            /\ Way(item) = {up[n] : n \in 0 .. Items}
<1>. DEFINE f == CHOOSE up : up = [n \in 0 .. Items |-> IF n = 0 THEN item ELSE parent[up[n - 1]]]
<1>1. Way(item) = Range(f)
  BY DEF Way
<1>2. Walk(f, item, Items)
  <2>1. \E up : Walk(up, item, Items)
    BY WalkExists, ItemsAreFinite
  <2>2. \E up : up = [n \in 0 .. Items |-> IF n = 0 THEN item ELSE parent[up[n - 1]]]
    BY <2>1 DEF Walk
  <2>3. f = [n \in 0 .. Items |-> IF n = 0 THEN item ELSE parent[f[n - 1]]]
    BY <2>2
  <2>. HIDE DEF f
  <2>. QED
    BY <2>3 DEF Walk
<1>. HIDE DEF f
<1>3. /\ DOMAIN f = 0 .. Items /\ f = [n \in 0 .. Items |-> f[n]]
      /\ f[0] = item /\ \A n \in 1 .. Items : f[n] = parent[f[n - 1]]
  BY <1>2, ItemsAreFinite DEF Walk
<1>4. \A n \in 0 .. Items : f[n] \in Item
  <2>. DEFINE Bad == {n \in Nat : n <= Items /\ f[n] \notin Item}
  <2>1. SUFFICES ASSUME Bad # {} PROVE FALSE
    BY ItemsAreFinite
  <2>2. PICK n \in Bad : \A k \in Bad : n <= k
    BY <2>1, SmallestIsLeast
  <2>3. n # 0 /\ n - 1 \in Nat /\ n - 1 \notin Bad /\ n \in 1 .. Items
    BY <1>3, <2>2, ItemsAreFinite
  <2>4. f[n - 1] \in Item
    BY <2>3, ItemsAreFinite
  <2>. QED
    BY <1>3, <2>2, <2>3, <2>4
<1>5. f \in [0 .. Items -> Item]
  BY <1>3, <1>4
<1>6. Way(item) = {f[n] : n \in 0 .. Items}
  BY <1>1, <1>3 DEF Range
<1>. QED
  BY <1>3, <1>5, <1>6

\* The way up ends at the root, since it cannot go on rising.
LEMMA WayToRoot ==
    ASSUME NEW root, NEW rank, Forest(parent, root, rank), NEW item \in Item
    PROVE  /\ Root(item) = root[item]
           /\ Way(item) \subseteq Item /\ \A i \in Way(item) : root[i] = root[item]
<1>1. /\ parent \in [Item -> Item] /\ root \in [Item -> Item] /\ rank \in [Item -> Nat]
      /\ \A i \in Item : root[parent[i]] = root[i]
      /\ \A i \in Item : parent[i] = i => root[i] = i
      /\ \A i \in Item : parent[i] # i => rank[i] < rank[parent[i]]
  BY DEF Forest
<1>2. PICK up \in [0 .. Items -> Item] :
            /\ up[0] = item /\ \A n \in 1 .. Items : up[n] = parent[up[n - 1]]
            /\ Way(item) = {up[n] : n \in 0 .. Items}
  BY <1>1, WayShape
<1>3. \A n \in 0 .. Items : root[up[n]] = root[item]
  <2>. DEFINE Bad == {n \in Nat : n <= Items /\ root[up[n]] # root[item]}
  <2>1. SUFFICES ASSUME Bad # {} PROVE FALSE
    BY ItemsAreFinite
  <2>2. PICK n \in Bad : \A k \in Bad : n <= k
    BY <2>1, SmallestIsLeast
  <2>3. n # 0 /\ n - 1 \in Nat /\ n - 1 \notin Bad /\ n \in 1 .. Items /\ n - 1 \in 0 .. Items
    BY <1>2, <2>2, ItemsAreFinite
  <2>4. root[up[n - 1]] = root[item] /\ up[n - 1] \in Item
    BY <1>2, <2>3
  <2>. QED
    BY <1>1, <1>2, <2>2, <2>3, <2>4
<1>4. \E n \in 0 .. Items : parent[up[n]] = up[n]
  <2>1. SUFFICES ASSUME \A n \in 0 .. Items : parent[up[n]] # up[n] PROVE FALSE
    OBVIOUS
  <2>2. \A n \in 1 .. Items : rank[up[n - 1]] < rank[up[n]]
    <3>1. ASSUME NEW n \in 1 .. Items PROVE rank[up[n - 1]] < rank[up[n]]
      <4>1. n - 1 \in 0 .. Items
        BY ItemsAreFinite
      <4>2. up[n - 1] \in Item /\ parent[up[n - 1]] # up[n - 1] /\ up[n] = parent[up[n - 1]]
        BY <1>2, <2>1, <4>1
      <4>. QED
        BY <1>1, <4>2
    <3>. QED
      BY <3>1
  <2>3. ASSUME NEW m \in 0 .. Items
        PROVE  \A n \in 0 .. Items : m < n => rank[up[m]] < rank[up[n]]
    <3>. DEFINE Bad == {n \in Nat : n <= Items /\ m < n /\ ~(rank[up[m]] < rank[up[n]])}
    <3>1. SUFFICES ASSUME Bad # {} PROVE FALSE
      BY ItemsAreFinite
    <3>2. PICK n \in Bad : \A k \in Bad : n <= k
      BY <3>1, SmallestIsLeast
    <3>3. n - 1 \in Nat /\ n - 1 \notin Bad /\ n \in 1 .. Items /\ n - 1 \in 0 .. Items
          /\ n \in 0 .. Items /\ m <= n - 1
      BY <3>2, ItemsAreFinite
    <3>4. /\ rank[up[n - 1]] < rank[up[n]] /\ (m = n - 1 \/ rank[up[m]] < rank[up[n - 1]])
          /\ rank[up[m]] \in Nat /\ rank[up[n - 1]] \in Nat /\ rank[up[n]] \in Nat
      BY <1>1, <1>2, <2>2, <3>3, ItemsAreFinite
    <3>. QED
      BY <2>2, <3>2, <3>3, <3>4
  <2>4. PICK m, n \in 0 .. Items : m # n /\ up[m] = up[n]
    <3>1. Cardinality(Item) < Cardinality(0 .. Items)
      BY ItemsAreFinite
    <3>2. up \in [0 .. Items -> Item] /\ IsFiniteSet(0 .. Items) /\ IsFiniteSet(Item)
      BY ItemsAreFinite
    <3>3. \E m, n \in 0 .. Items : m # n /\ up[m] = up[n]
      BY <3>1, <3>2, FS_PigeonHole, Zenon
    <3>. QED
      BY <3>3
  <2>5. rank[up[m]] \in Nat /\ rank[up[n]] \in Nat
    BY <1>1, <1>2
  <2>. QED
    BY <2>3, <2>4, <2>5
<1>5. \A i \in Way(item) : i \in Item /\ root[i] = root[item]
  BY <1>2, <1>3
<1>6. PICK i \in Way(item) : parent[i] = i
  BY <1>2, <1>4
<1>7. \A j \in Way(item) : parent[j] = j => j = root[item]
  BY <1>1, <1>5
<1>8. Root(item) = root[item]
  BY <1>6, <1>7 DEF Root
<1>. QED
  BY <1>5, <1>8

LEMMA NextIsLeft ==
    ASSUME compared \subseteq Pairs, compared # Pairs
    PROVE  NextPair \in Pairs /\ NextPair \notin compared
<1>. DEFINE left == Pairs \ compared
            firsts == {p[1] : p \in left}
            a == Min(firsts)
            seconds == {p[2] : p \in {q \in left : q[1] = a}}
            b == Min(seconds)
<1>1. left # {} /\ \A p \in left : p[1] \in Nat /\ p[2] \in Nat
  BY DEF Pairs, Item
<1>2. a \in firsts /\ \A n \in firsts : a <= n
  <2>1. firsts # {} /\ firsts \in SUBSET Nat
    BY <1>1
  <2>. HIDE DEF firsts
  <2>. QED
    BY <2>1, SmallestIsLeast
<1>3. seconds # {} /\ seconds \in SUBSET Nat
  BY <1>1, <1>2
<1>. HIDE DEF a
<1>4. b \in seconds /\ \A n \in seconds : b <= n
  <2>. HIDE DEF seconds
  <2>. QED
    BY <1>3, SmallestIsLeast
<1>5. PICK p \in left : p[1] = a /\ p[2] = b
  BY <1>4
<1>6. ASSUME NEW q \in left PROVE p[1] < q[1] \/ (p[1] = q[1] /\ p[2] <= q[2])
  <2>1. a <= q[1] /\ a \in Nat /\ q[1] \in Nat
    BY <1>1, <1>2, <1>5
  <2>2. q[1] = a => b <= q[2]
    BY <1>4
  <2>. QED
    BY <1>5, <2>1, <2>2
<1>. HIDE DEF left
<1>7. NextPair \in left
  BY <1>5, <1>6 DEF NextPair, left
<1>. QED
  BY <1>7 DEF left

LEMMA ForestFacts ==
    ASSUME NEW up, NEW root, NEW rank, Forest(up, root, rank)
    PROVE  /\ up \in [Item -> Item] /\ root \in [Item -> Item] /\ rank \in [Item -> Nat]
           /\ \A i \in Item :
                /\ up[i] \in Item /\ root[i] \in Item /\ rank[i] \in Nat
                /\ up[root[i]] = root[i] /\ root[up[i]] = root[i] /\ root[root[i]] = root[i]
                /\ up[i] = i => root[i] = i
                /\ up[i] # i => rank[i] < rank[up[i]]
                /\ root[i] # i => rank[i] < rank[root[i]]
  BY DEF Forest

LEMMA CompressionKeeps ==
    ASSUME NEW up, NEW root, NEW rank, Forest(up, root, rank), NEW item \in Item,
           NEW way \in SUBSET Item, \A i \in way : root[i] = root[item]
    PROVE  Forest(Compressed(up, way, root[item]), root, rank)
<1>. DEFINE new == Compressed(up, way, root[item])
<1>1. /\ new \in [Item -> Item] /\ \A i \in way : new[i] = root[item]
      /\ \A i \in Item : i \notin way => new[i] = up[i]
  BY ForestFacts DEF Compressed
<1>. HIDE DEF new
<1>2. ASSUME NEW i \in Item
      PROVE  /\ new[root[i]] = root[i] /\ root[new[i]] = root[i]
             /\ new[i] = i => root[i] = i
             /\ new[i] # i => rank[i] < rank[new[i]]
  <2>1. new[root[i]] = root[i]
    BY <1>1, ForestFacts
  <2>2. CASE i \in way
    BY <1>1, <2>1, <2>2, ForestFacts
  <2>3. CASE i \notin way
    BY <1>1, <2>1, <2>3, ForestFacts
  <2>. QED
    BY <2>2, <2>3
<1>3. Forest(new, root, rank)
  BY <1>1, <1>2, ForestFacts DEF Forest
<1>. QED
  BY <1>3 DEF new

\* One tree under the root of another, whose ranks are raised above those of the first.
JoinedRoot(root, ra, rb) == [i \in Item |-> IF root[i] = ra THEN rb ELSE root[i]]
JoinedRank(root, rank, ra, rb) ==
    [i \in Item |-> IF root[i] = rb THEN rank[i] + rank[ra] + 1 ELSE rank[i]]

LEMMA JoinKeeps ==
    ASSUME NEW up, NEW root, NEW rank, Forest(up, root, rank), NEW a \in Item, NEW b \in Item,
           NEW ra, NEW rb, ra = root[a], rb = root[b], ra # rb
    PROVE  Forest(Join(up, a, b, ra, rb), JoinedRoot(root, ra, rb), JoinedRank(root, rank, ra, rb))
<1>. DEFINE new == Join(up, a, b, ra, rb)
            over == JoinedRoot(root, ra, rb)
            high == JoinedRank(root, rank, ra, rb)
<1>1. ra \in Item /\ rb \in Item /\ root[ra] = ra /\ root[rb] = rb /\ up[rb] = rb /\ up[ra] = ra
  BY ForestFacts
<1>2. /\ new \in [Item -> Item] /\ new[ra] = rb /\ \A i \in Item \ {ra} : new[i] = up[i]
      /\ over \in [Item -> Item]
      /\ \A i \in Item : over[i] = IF root[i] = ra THEN rb ELSE root[i]
      /\ high \in [Item -> Nat]
      /\ \A i \in Item : high[i] = IF root[i] = rb THEN rank[i] + rank[ra] + 1 ELSE rank[i]
  BY <1>1, ForestFacts DEF Join, JoinedRoot, JoinedRank
<1>. HIDE DEF new, over, high
<1>3. ASSUME NEW i \in Item
      PROVE  /\ new[over[i]] = over[i] /\ over[new[i]] = over[i]
             /\ new[i] = i => over[i] = i
             /\ new[i] # i => high[i] < high[new[i]]
             /\ over[i] # i => high[i] < high[over[i]]
  <2>1. new[over[i]] = over[i]
    BY <1>1, <1>2, ForestFacts
  <2>2. CASE i = ra
    <3>1. over[i] = rb /\ new[i] = rb /\ over[rb] = rb
      BY <1>1, <1>2, <2>2
    <3>2. high[i] = rank[ra] /\ high[rb] = rank[rb] + rank[ra] + 1
      BY <1>1, <1>2, <2>2
    <3>3. rank[ra] \in Nat /\ rank[rb] \in Nat
      BY <1>1, ForestFacts
    <3>4. high[i] < high[rb]
      BY <3>2, <3>3
    <3>. QED
      BY <2>1, <2>2, <3>1, <3>4
  <2>3. CASE i # ra
    <3>1. new[i] = up[i] /\ root[up[i]] = root[i] /\ up[i] \in Item
      BY <1>2, <2>3, ForestFacts
    <3>2. over[new[i]] = over[i]
      BY <1>2, <3>1
    <3>3. new[i] = i => over[i] = i
      BY <1>2, <2>3, <3>1, ForestFacts
    <3>4. new[i] # i => high[i] < high[new[i]]
      <4>1. new[i] # i => rank[i] < rank[up[i]]
        BY <3>1, ForestFacts
      <4>2. rank[i] \in Nat /\ rank[up[i]] \in Nat /\ rank[ra] \in Nat
        BY <1>1, <3>1, ForestFacts
      <4>3. /\ root[i] = rb => high[i] = rank[i] + rank[ra] + 1
                               /\ high[up[i]] = rank[up[i]] + rank[ra] + 1
            /\ root[i] # rb => high[i] = rank[i] /\ high[up[i]] = rank[up[i]]
        BY <1>2, <3>1
      <4>. QED
        BY <3>1, <4>1, <4>2, <4>3
    <3>5. over[i] # i => high[i] < high[over[i]]
      <4>1. rank[i] \in Nat /\ rank[ra] \in Nat /\ rank[rb] \in Nat /\ rank[root[i]] \in Nat
        BY <1>1, ForestFacts
      <4>2. root[i] # i => rank[i] < rank[root[i]]
        BY ForestFacts
      <4>3. CASE root[i] = ra
        <5>1. over[i] = rb /\ high[i] = rank[i] /\ high[rb] = rank[rb] + rank[ra] + 1
          BY <1>1, <1>2, <4>3
        <5>. QED
          BY <2>3, <4>1, <4>2, <4>3, <5>1
      <4>4. CASE root[i] # ra
        <5>1. over[i] = root[i] /\ root[i] \in Item /\ root[root[i]] = root[i]
          BY <1>2, <4>4, ForestFacts
        <5>2. /\ root[i] = rb => high[i] = rank[i] + rank[ra] + 1
                                 /\ high[root[i]] = rank[root[i]] + rank[ra] + 1
              /\ root[i] # rb => high[i] = rank[i] /\ high[root[i]] = rank[root[i]]
          BY <1>2, <5>1
        <5>. QED
          BY <4>1, <4>2, <5>1, <5>2
      <4>. QED
        BY <4>3, <4>4
    <3>. QED
      BY <2>1, <3>2, <3>3, <3>4, <3>5
  <2>. QED
    BY <2>2, <2>3
<1>4. Forest(new, over, high)
  BY <1>2, <1>3 DEF Forest
<1>. QED
  BY <1>4 DEF new, over, high

\* Two chains that an alike pair joins are one.
LEMMA ChainsJoin ==
    ASSUME NEW root \in [Item -> Item], Chained(root), NEW a \in Item, NEW b \in Item, Linked(a, b)
    PROVE  Chained(JoinedRoot(root, root[a], root[b]))
<1>. DEFINE over == JoinedRoot(root, root[a], root[b])
<1>1. \A i \in Item : over[i] = IF root[i] = root[a] THEN root[b] ELSE root[i]
  BY DEF JoinedRoot
<1>2. over[a] = over[b] /\ \A i, j \in Item : root[i] = root[j] => over[i] = over[j]
  BY <1>1
<1>. HIDE DEF over
<1>3. ASSUME NEW some \in SUBSET Item, NEW x \in some, NEW y \in Item \ some, over[x] = over[y]
      PROVE  \E c \in some, d \in Item \ some : Linked(c, d) /\ over[c] = over[d]
  <2>1. ASSUME NEW u \in some, NEW v \in Item \ some, root[u] = root[v]
        PROVE  \E c \in some, d \in Item \ some : Linked(c, d) /\ over[c] = over[d]
    <3>1. PICK c \in some, d \in Item \ some : Linked(c, d) /\ root[c] = root[d]
      BY <2>1 DEF Chained
    <3>. QED
      BY <1>2, <3>1
  <2>2. CASE root[x] = root[y]
    BY <2>1, <2>2
  <2>3. CASE root[x] # root[y]
    <3>1. /\ root[x] \in {root[a], root[b]} /\ root[y] \in {root[a], root[b]}
      BY <1>1, <1>3, <2>3
    <3>2. CASE a \in some /\ b \notin some
      BY <1>2, <3>2
    <3>3. CASE b \in some /\ a \notin some
      BY <1>2, <3>3 DEF Linked
    <3>4. CASE a \in some /\ b \in some
      BY <2>1, <3>1, <3>4
    <3>5. CASE a \notin some /\ b \notin some
      BY <2>1, <3>1, <3>5
    <3>. QED
      BY <3>2, <3>3, <3>4, <3>5
  <2>. QED
    BY <2>2, <2>3
<1>4. Chained(over)
  BY <1>3 DEF Chained
<1>. QED
  BY <1>4 DEF over

LEMMA GroupingStarts == RegimesInit => GroupsInv
<1>1. SUFFICES ASSUME RegimesInit PROVE GroupsInv
  OBVIOUS
<1>2. /\ parent = [i \in Item |-> i] /\ compared = {} /\ phase = "grouping" /\ alike \subseteq Pairs
  BY <1>1 DEF RegimesInit
<1>. DEFINE rank == [i \in Item |-> 0]
<1>3. Forest(parent, parent, rank)
  BY <1>2 DEF Forest
<1>4. Chained(parent) /\ Merged(parent)
  BY <1>2 DEF Chained, Merged
<1>5. compared # Pairs
  BY <1>2, ItemsAreFinite
<1>. QED
  BY <1>2, <1>3, <1>4, <1>5 DEF GroupsInv

LEMMA CompareKeeps == GroupsInv /\ Compare => GroupsInv'
<1>1. SUFFICES ASSUME GroupsInv, Compare PROVE GroupsInv'
  OBVIOUS
<1>2. PICK root, rank : Forest(parent, root, rank) /\ Chained(root) /\ Merged(root)
  BY <1>1 DEF GroupsInv
<1>3. PICK pair : pair = NextPair
  OBVIOUS
<1>4. PICK a, b : a = pair[1] /\ b = pair[2]
  OBVIOUS
<1>5. phase = "grouping" /\ pair \in Pairs /\ pair \notin compared /\ alike \subseteq Pairs
      /\ compared \subseteq Pairs
  BY <1>1, <1>3, NextIsLeft DEF GroupsInv, Compare
<1>6. a \in Item /\ b \in Item /\ pair = <<a, b>>
  BY <1>4, <1>5 DEF Pairs
<1>7. /\ Root(a) = root[a] /\ Root(b) = root[b] /\ Way(a) \subseteq Item /\ Way(b) \subseteq Item
      /\ (\A i \in Way(a) : root[i] = root[a]) /\ (\A i \in Way(b) : root[i] = root[b])
  BY <1>2, <1>6, WayToRoot
<1>. DEFINE first == Compressed(parent, Way(a), root[a])
            found == Compressed(first, Way(b), root[b])
<1>8. /\ compared' = compared \cup {pair} /\ UNCHANGED alike
      /\ phase' = IF compared' = Pairs THEN "seeding" ELSE phase
      /\ parent' = IF pair \notin alike THEN parent
                   ELSE IF root[a] = root[b] THEN found ELSE Join(found, a, b, root[a], root[b])
  BY <1>1, <1>3, <1>4, <1>7 DEF Compare
<1>9. Forest(found, root, rank)
  <2>1. Forest(first, root, rank)
    BY <1>2, <1>6, <1>7, CompressionKeeps
  <2>. HIDE DEF first
  <2>. QED
    BY <1>6, <1>7, <2>1, CompressionKeeps
<1>. HIDE DEF found
<1>10. root \in [Item -> Item]
  BY <1>2, ForestFacts
<1>11. \E over, high : Forest(parent', over, high) /\ Chained(over)
                       /\ \A p \in compared' \cap alike : over[p[1]] = over[p[2]]
  <2>1. CASE pair \notin alike
    BY <1>2, <1>8, <2>1 DEF Merged
  <2>2. CASE pair \in alike /\ root[a] = root[b]
    <3>1. \A p \in compared' \cap alike : root[p[1]] = root[p[2]]
      BY <1>2, <1>4, <1>8, <2>2 DEF Merged
    <3>. QED
      BY <1>2, <1>8, <1>9, <2>2, <3>1
  <2>3. CASE pair \in alike /\ root[a] # root[b]
    <3>. DEFINE over == JoinedRoot(root, root[a], root[b])
                high == JoinedRank(root, rank, root[a], root[b])
    <3>1. Forest(parent', over, high)
      BY <1>6, <1>8, <1>9, <2>3, JoinKeeps
    <3>2. Linked(a, b)
      BY <1>6, <2>3 DEF Linked
    <3>3. Chained(over)
      BY <1>2, <1>6, <1>10, <3>2, ChainsJoin
    <3>4. ASSUME NEW p \in compared' \cap alike PROVE over[p[1]] = over[p[2]]
      <4>1. p[1] \in Item /\ p[2] \in Item
        BY <1>5, <1>8 DEF Pairs
      <4>2. p = pair \/ root[p[1]] = root[p[2]]
        BY <1>2, <1>8 DEF Merged
      <4>. QED
        BY <1>4, <1>6, <4>1, <4>2 DEF JoinedRoot
    <3>. QED
      BY <3>1, <3>3, <3>4
  <2>. QED
    BY <2>1, <2>2, <2>3
<1>12. \A over : Chained(over)' <=> Chained(over)
  BY <1>8 DEF Chained, Linked
<1>13. PICK over, high : Forest(parent', over, high) /\ Chained(over)
                         /\ \A p \in compared' \cap alike : over[p[1]] = over[p[2]]
  BY <1>11
<1>14. Forest(parent, over, high)' /\ Chained(over)' /\ Merged(over)'
  BY <1>8, <1>12, <1>13 DEF Forest, Merged
<1>15. /\ alike' \subseteq Pairs /\ compared' \subseteq Pairs
       /\ phase' \in {"grouping", "seeding", "iterating", "done"}
       /\ phase' = "grouping" <=> compared' # Pairs
  BY <1>5, <1>8
<1>. QED
  BY <1>14, <1>15 DEF GroupsInv

\* The regimes are computed after the groups, and leave them.
LEMMA GroupsLeft ==
    ASSUME GroupsInv, UNCHANGED <<alike, parent, compared>>,
           phase' = phase \/ (phase # "grouping" /\ phase' \in {"iterating", "done"})
    PROVE  GroupsInv'
<1>1. PICK root, rank : Forest(parent, root, rank) /\ Chained(root) /\ Merged(root)
  BY DEF GroupsInv
<1>2. Forest(parent, root, rank)' /\ Chained(root)' /\ Merged(root)'
  BY <1>1 DEF Forest, Chained, Linked, Merged
<1>3. /\ alike' \subseteq Pairs /\ compared' \subseteq Pairs
      /\ phase' \in {"grouping", "seeding", "iterating", "done"}
      /\ phase' = "grouping" <=> compared' # Pairs
  BY DEF GroupsInv
<1>. QED
  BY <1>2, <1>3 DEF GroupsInv

LEMMA GroupsStep == GroupsInv /\ [RegimesNext]_regimesVars => GroupsInv'
<1>1. GroupsInv /\ Seed => GroupsInv'
  BY GroupsLeft DEF Seed
<1>2. GroupsInv /\ Iterate => GroupsInv'
  BY GroupsLeft DEF Iterate
<1>3. GroupsInv /\ UNCHANGED regimesVars => GroupsInv'
  BY GroupsLeft DEF regimesVars
<1>. QED
  BY <1>1, <1>2, <1>3, CompareKeeps DEF RegimesNext

LEMMA ChainsAreGroups == GroupsInv => GroupsAreChains
<1>1. SUFFICES ASSUME GroupsInv, phase = "seeding"
               PROVE  /\ \A a, b \in Item : Linked(a, b) => Root(a) = Root(b)
                      /\ \A group \in Groups, some \in SUBSET Item :
                            some \subseteq group /\ some \notin {{}, group} =>
                                \E a \in some, b \in group \ some : Linked(a, b)
  BY DEF GroupsAreChains, Linked
<1>2. PICK root, rank : Forest(parent, root, rank) /\ Chained(root) /\ Merged(root)
  BY <1>1 DEF GroupsInv
<1>3. \A i \in Item : Root(i) = root[i]
  BY <1>2, WayToRoot
<1>4. compared = Pairs /\ alike \subseteq Pairs
  BY <1>1 DEF GroupsInv
<1>5. ASSUME NEW a \in Item, NEW b \in Item, Linked(a, b) PROVE Root(a) = Root(b)
  <2>1. PICK p \in alike : p \in {<<a, b>>, <<b, a>>}
    BY <1>5 DEF Linked
  <2>2. root[p[1]] = root[p[2]]
    BY <1>2, <1>4, <2>1 DEF Merged
  <2>. QED
    BY <1>3, <2>1, <2>2
<1>6. ASSUME NEW group \in Groups, NEW some \in SUBSET Item,
             some \subseteq group, some # {}, some # group
      PROVE  \E a \in some, b \in group \ some : Linked(a, b)
  <2>1. PICK r \in Item : group = {i \in Item : root[i] = r}
    BY <1>3 DEF Groups
  <2>2. PICK x \in some, y \in group \ some : root[x] = root[y]
    BY <1>6, <2>1
  <2>3. PICK c \in some, d \in Item \ some : Linked(c, d) /\ root[c] = root[d]
    BY <1>2, <2>1, <2>2 DEF Chained
  <2>4. d \in group
    BY <1>6, <2>1, <2>3
  <2>. QED
    BY <2>3, <2>4
<1>. QED
  BY <1>5, <1>6

-----------------------------------------------------------------------------
(* Regimes.                                                                *)

\* Before the first pass there is one frame at each centre, and no two centres
\* are at one.
Seeded ==
    /\ assignment = [f \in Frame |-> 1]
    /\ \A c \in DOMAIN centre : \E f \in Frame : frame[f] = centre[c]
    /\ \A c, d \in DOMAIN centre : centre[c] = centre[d] => c = d

SettlingInv ==
    /\ RegimesTypeOK
    /\ phase # "done" => iterations < Iterations
    /\ phase \in {"grouping", "seeding"} => iterations = 0
    /\ phase # "done" /\ iterations = 0 => Seeded
    /\ phase = "iterating" /\ iterations > 0 => Moved(assignment) = centre
    /\ iterations < Iterations => RegimesAreSettled

LEMMA SquaresAreNatural ==
    \A m, n \in Int : Square(m - n) \in Nat /\ (Square(m - n) = 0 <=> m = n)
<1>1. ASSUME NEW k \in Int PROVE k * k \in Nat /\ (k * k = 0 <=> k = 0)
  <2>1. CASE k = 0
    BY <2>1
  <2>2. CASE k > 0
    <3>1. k * k > 0
      BY <2>2
    <3>. QED
      BY <2>2, <3>1
  <2>3. CASE k < 0
    <3>1. k * k > 0
      BY <2>3
    <3>. QED
      BY <2>3, <3>1
  <2>. QED
    BY <2>1, <2>2, <2>3
<1>2. ASSUME NEW m \in Int, NEW n \in Int
      PROVE  Square(m - n) \in Nat /\ (Square(m - n) = 0 <=> m = n)
  <2>1. Square(m - n) = (m - n) * (m - n) /\ m - n \in Int
    BY DEF Square
  <2>2. m - n = 0 <=> m = n
    OBVIOUS
  <2>. HIDE DEF Square
  <2>. QED
    BY <1>1, <2>1, <2>2
<1>. QED
  BY <1>2

\* Two vectors are apart by a number, which is 0 for equal ones only.
LEMMA ApartIsADistance ==
    \A a, b \in Vector : Apart(a, b) \in Nat /\ (Apart(a, b) = 0 <=> a = b)
<1>1. ASSUME NEW a \in Vector, NEW b \in Vector
      PROVE  Apart(a, b) \in Nat /\ (Apart(a, b) = 0 <=> a = b)
  <2>. DEFINE D == 1 .. Dimensions
              square == [d \in D |-> Square(a[d] - b[d])]
  <2>1. \A d \in D : a[d] \in Int /\ b[d] \in Int
    BY DEF Vector
  <2>2. IsFiniteSet(D)
    BY RegimesAssumption, FS_Interval
  <2>3. PICK q : q = square
    OBVIOUS
  <2>4. \A d \in D : q[d] \in Nat /\ (q[d] = 0 <=> a[d] = b[d])
    <3>1. \A d \in D : q[d] = Square(a[d] - b[d])
      BY <2>3
    <3>. QED
      BY <2>1, <3>1, SquaresAreNatural
  <2>5. Apart(a, b) = SumFunctionOnSet(q, D)
    BY <2>3 DEF Apart
  <2>6. PICK total : total = SumFunctionOnSet(q, D)
    OBVIOUS
  <2>7. total \in Nat
    BY <2>2, <2>4, <2>6, SumIsANumber
  <2>8. ASSUME a = b PROVE total = 0
    <3>1. \A d \in D : q[d] = 0
      BY <2>4, <2>8
    <3>. QED
      BY <2>2, <2>6, <3>1, SumOfZeros
  <2>9. ASSUME total = 0 PROVE a = b
    <3>1. ASSUME NEW d \in D PROVE a[d] = b[d]
      <4>1. PICK rest : rest = SumFunctionOnSet(q, D \ {d})
        OBVIOUS
      <4>2. IsFiniteSet(D \ {d}) /\ \A e \in D \ {d} : q[e] \in Nat
        BY <2>2, <2>4, FS_Subset
      <4>3. rest \in Nat
        BY <4>1, <4>2, SumIsANumber
      <4>4. total = q[d] + rest
        <5>1. \A e \in D : q[e] \in Nat
          BY <2>4
        <5>. HIDE DEF D
        <5>. QED
          BY <2>2, <2>6, <4>1, <5>1, SumSplits
      <4>5. q[d] = 0
        BY <2>4, <2>9, <4>3, <4>4
      <4>. QED
        BY <2>4, <4>5
    <3>2. a = [d \in D |-> a[d]] /\ b = [d \in D |-> b[d]]
      BY DEF Vector
    <3>. QED
      BY <3>1, <3>2, Zenon
  <2>. QED
    BY <2>5, <2>6, <2>7, <2>8, <2>9
<1>. QED
  BY <1>1

LEMMA RegimesKnown ==
    ASSUME RegimesTypeOK
    PROVE  /\ frame \in Seq(Vector) /\ Len(frame) \in Nat \ {0} /\ Frame = 1 .. Len(frame)
           /\ Frame \subseteq Nat /\ IsFiniteSet(Frame) /\ 1 \in Frame
           /\ \A f \in Frame : frame[f] \in Vector
           /\ centre \in Seq(Vector) /\ Len(centre) \in Nat \ {0}
           /\ DOMAIN centre = 1 .. Len(centre) /\ 1 \in DOMAIN centre
           /\ \A c \in DOMAIN centre : centre[c] \in Vector
           /\ assignment \in [Frame -> DOMAIN centre]
<1>1. Wanted \in Nat \ {0}
  BY RegimesAssumption
<1>2. frame \in Seq(Vector) /\ frame # <<>>
  BY DEF RegimesTypeOK
<1>3. centre \in Seq(Vector) /\ Len(centre) \in 1 .. Wanted /\ assignment \in [Frame -> DOMAIN centre]
  BY DEF RegimesTypeOK
<1>4. Len(frame) \in Nat \ {0} /\ Frame = 1 .. Len(frame)
  BY <1>2 DEF Frame
<1>5. IsFiniteSet(Frame)
  BY <1>4, FS_Interval
<1>. QED
  BY <1>1, <1>2, <1>3, <1>4, <1>5

\* There is a nearest centre, and Best names the first.
LEMMA BestIsNearest ==
    ASSUME RegimesTypeOK, NEW f \in Frame
    PROVE  /\ Best(f) \in DOMAIN centre /\ Apart(frame[f], centre[Best(f)]) = Nearest(f)
           /\ Nearest(f) \in Nat
           /\ \A c \in DOMAIN centre : Nearest(f) <= Apart(frame[f], centre[c])
<1>. DEFINE ways == {Apart(frame[f], centre[c]) : c \in DOMAIN centre}
            best == {c \in DOMAIN centre : Apart(frame[f], centre[c]) = Nearest(f)}
<1>1. \A c \in DOMAIN centre : Apart(frame[f], centre[c]) \in Nat
  <2>1. frame[f] \in Vector /\ \A c \in DOMAIN centre : centre[c] \in Vector
    BY RegimesKnown
  <2>. QED
    BY <2>1, ApartIsADistance
<1>2. ways \in SUBSET Nat /\ ways # {}
  BY <1>1, RegimesKnown
<1>3. Nearest(f) = Min(ways)
  BY DEF Nearest
<1>4. Nearest(f) \in ways /\ \A n \in ways : Nearest(f) <= n
  <2>. HIDE DEF ways
  <2>. QED
    BY <1>2, <1>3, SmallestIsLeast
<1>5. best \in SUBSET Nat /\ best # {}
  BY <1>4, RegimesKnown
<1>6. Best(f) = Min(best)
  BY DEF Best
<1>7. Best(f) \in best
  <2>. HIDE DEF best
  <2>. QED
    BY <1>5, <1>6, SmallestIsLeast
<1>. QED
  BY <1>2, <1>4, <1>7

LEMMA FarthestIsAFrame ==
    ASSUME RegimesTypeOK PROVE Farthest \in Frame
<1>. DEFINE near == [f \in Frame |-> Nearest(f)]
            ways == {near[f] : f \in Frame}
            far == {f \in Frame : \A g \in Frame : near[g] <= near[f]}
<1>1. IsFiniteSet(ways) /\ ways \subseteq Nat /\ ways # {}
  <2>1. IsFiniteSet(ways)
    BY RegimesKnown, ImageIsFinite
  <2>. QED
    BY <2>1, BestIsNearest, RegimesKnown
<1>2. PICK m \in ways : \A n \in ways : n <= m
  <2>. HIDE DEF ways
  <2>. QED
    BY <1>1, LargestNumber
<1>3. far \in SUBSET Nat /\ far # {}
  <2>1. PICK f \in Frame : m = near[f]
    BY <1>2
  <2>2. f \in far
    <3>. HIDE DEF near
    <3>. QED
      BY <1>2, <2>1
  <2>. QED
    BY <2>2, RegimesKnown
<1>4. Farthest = Min(far)
  BY DEF Farthest
<1>5. Farthest \in far
  <2>. HIDE DEF far
  <2>. QED
    BY <1>3, <1>4, SmallestIsLeast
<1>. QED
  BY <1>5

LEMMA MeanIsAVector ==
    ASSUME RegimesTypeOK, NEW members \in SUBSET Frame, members # {}
    PROVE  Mean(members) \in Vector
<1>1. IsFiniteSet(members) /\ Cardinality(members) \in Nat /\ Cardinality(members) # 0
  BY RegimesKnown, FS_Subset, FS_CardinalityType, FS_EmptySet
<1>2. ASSUME NEW d \in 1 .. Dimensions
      PROVE  SumFunctionOnSet([f \in members |-> frame[f][d]], members) \div Cardinality(members) \in Nat
  <2>. DEFINE part == [f \in members |-> frame[f][d]]
  <2>1. \A f \in members : part[f] \in Nat
    BY RegimesKnown DEF Vector
  <2>. HIDE DEF part
  <2>2. SumFunctionOnSet(part, members) \in Nat
    BY <1>1, <2>1, SumIsANumber
  <2>3. \A m \in Nat, n \in Nat \ {0} : m \div n \in Nat
    OBVIOUS
  <2>4. SumFunctionOnSet(part, members) \div Cardinality(members) \in Nat
    BY <1>1, <2>2, <2>3
  <2>. QED
    BY <2>4 DEF part
<1>. QED
  BY <1>2 DEF Mean, Vector

LEMMA MovedShape ==
    ASSUME RegimesTypeOK, NEW assigned \in [Frame -> DOMAIN centre]
    PROVE  Moved(assigned) \in [DOMAIN centre -> Vector]
<1>1. \A c : Members(assigned, c) \in SUBSET Frame
  BY DEF Members
<1>2. ASSUME NEW c \in DOMAIN centre
      PROVE  (IF Members(assigned, c) = {} THEN centre[c] ELSE Mean(Members(assigned, c))) \in Vector
  BY <1>1, MeanIsAVector, RegimesKnown
<1>. QED
  BY <1>2 DEF Moved

LEMMA SeedKeeps == SettlingInv /\ GroupsInv /\ Seed => SettlingInv'
<1>1. SUFFICES ASSUME SettlingInv, Seed PROVE SettlingInv'
  OBVIOUS
<1>2. /\ RegimesTypeOK /\ phase = "seeding" /\ iterations = 0 /\ 0 < Iterations /\ Seeded
      /\ UNCHANGED <<alike, parent, compared, frame, assignment, iterations>>
  BY <1>1 DEF SettlingInv, Seed
<1>3. CASE phase' = "iterating" /\ UNCHANGED centre
  <2>1. RegimesTypeOK'
    BY <1>2, <1>3 DEF RegimesTypeOK, Frame
  <2>2. Seeded'
    BY <1>2, <1>3 DEF Seeded, Frame
  <2>. QED
    BY <1>2, <1>3, <2>1, <2>2 DEF SettlingInv, RegimesAreSettled
<1>4. CASE /\ Len(centre) < Min({Wanted, Len(frame)}) /\ Nearest(Farthest) > 0
           /\ centre' = Append(centre, frame[Farthest]) /\ UNCHANGED phase
  <2>1. PICK f \in Frame : f = Farthest
    BY <1>2, FarthestIsAFrame
  <2>2. frame[f] \in Vector /\ centre \in Seq(Vector) /\ Len(centre) \in Nat
    BY <1>2, RegimesKnown
  <2>3. PICK last \in Nat : last = Len(centre) + 1
    BY <2>2
  <2>4. /\ centre' \in Seq(Vector) /\ Len(centre') = last /\ centre'[last] = frame[f]
        /\ DOMAIN centre' = 1 .. last /\ DOMAIN centre = 1 .. Len(centre)
        /\ \A c \in DOMAIN centre : centre'[c] = centre[c]
        /\ \A c \in DOMAIN centre' : c \in DOMAIN centre \/ c = last
    BY <1>4, <2>1, <2>2, <2>3
  <2>5. last <= Wanted
    <3>1. {Wanted, Len(frame)} \in SUBSET Nat
      BY <1>2, RegimesKnown, RegimesAssumption
    <3>2. Min({Wanted, Len(frame)}) \in {Wanted, Len(frame)} /\ Min({Wanted, Len(frame)}) <= Wanted
      BY <3>1, SmallestIsLeast
    <3>. QED
      BY <1>4, <2>2, <2>3, <3>1, <3>2
  <2>6. \A c \in DOMAIN centre : centre[c] # frame[f]
    <3>1. ASSUME NEW c \in DOMAIN centre, centre[c] = frame[f] PROVE FALSE
      <4>1. Apart(frame[f], centre[c]) = 0
        BY <2>2, <3>1, ApartIsADistance
      <4>2. Nearest(f) \in Nat /\ Nearest(f) <= 0
        BY <1>2, <4>1, BestIsNearest
      <4>. QED
        BY <1>4, <2>1, <4>2
    <3>. QED
      BY <3>1
  <2>7. assignment \in [Frame -> DOMAIN centre']
    BY <1>2, <2>2, <2>3, <2>4, RegimesKnown
  <2>8. RegimesTypeOK'
    <3>1. Len(centre') \in 1 .. Wanted
      BY <2>2, <2>3, <2>4, <2>5, RegimesAssumption
    <3>. QED
      BY <1>2, <1>4, <2>4, <2>7, <3>1 DEF RegimesTypeOK, Frame
  <2>9. Seeded'
    <3>1. \A c \in DOMAIN centre' : \E g \in Frame : frame[g] = centre'[c]
      BY <1>2, <2>4 DEF Seeded
    <3>2. \A c, d \in DOMAIN centre' : centre'[c] = centre'[d] => c = d
      BY <1>2, <2>4, <2>6 DEF Seeded
    <3>. QED
      BY <1>2, <3>1, <3>2 DEF Seeded, Frame
  <2>. QED
    BY <1>2, <1>4, <2>8, <2>9 DEF SettlingInv, RegimesAreSettled
<1>. QED
  BY <1>1, <1>3, <1>4 DEF Seed

LEMMA IterateKeeps == SettlingInv /\ Iterate => SettlingInv'
<1>1. SUFFICES ASSUME SettlingInv, Iterate PROVE SettlingInv'
  OBVIOUS
<1>. DEFINE A == [f \in Frame |-> Best(f)]
<1>2. PICK assigned : assigned = A
  OBVIOUS
<1>3. /\ phase = "iterating" /\ iterations' = iterations + 1
      /\ assignment' = assigned /\ centre' = Moved(assigned)
      /\ phase' = IF assigned = assignment \/ iterations' = Iterations THEN "done" ELSE phase
      /\ UNCHANGED <<alike, parent, compared, frame>>
  BY <1>1, <1>2 DEF Iterate
<1>4. /\ RegimesTypeOK /\ iterations \in Nat /\ iterations < Iterations /\ Iterations \in Nat
      /\ iterations = 0 => Seeded
      /\ iterations > 0 => Moved(assignment) = centre
  BY <1>1, <1>3, RegimesAssumption DEF SettlingInv, RegimesTypeOK
<1>5. /\ assigned \in [Frame -> DOMAIN centre]
      /\ \A f \in Frame : assigned[f] = Best(f)
  BY <1>2, <1>4, BestIsNearest
<1>. HIDE DEF A
<1>6. centre' \in [DOMAIN centre -> Vector]
  BY <1>3, <1>4, <1>5, MovedShape
<1>7. centre' \in Seq(Vector) /\ Len(centre') = Len(centre) /\ DOMAIN centre' = DOMAIN centre
  <2>1. DOMAIN centre = 1 .. Len(centre) /\ Len(centre) \in Nat
    BY <1>4, RegimesKnown
  <2>. QED
    BY <1>6, <2>1
<1>8. RegimesTypeOK'
  <2>1. iterations' \in 0 .. Iterations
    BY <1>3, <1>4
  <2>. QED
    BY <1>3, <1>4, <1>5, <1>7, <2>1 DEF RegimesTypeOK, Frame
<1>9. Moved(assigned)' = centre'
  <2>1. \A c \in DOMAIN centre :
            centre'[c] = IF Members(assigned, c) = {} THEN centre[c]
                         ELSE Mean(Members(assigned, c))
    BY <1>3 DEF Moved
  <2>2. Moved(assigned)' =
            [c \in DOMAIN centre |->
                IF Members(assigned, c) = {} THEN centre'[c]
                ELSE Mean(Members(assigned, c))]
    BY <1>3, <1>7 DEF Moved, Members, Mean, Frame
  <2>3. Moved(assigned)' = [c \in DOMAIN centre |-> centre'[c]]
    BY <2>1, <2>2
  <2>. QED
    BY <1>6, <2>3
<1>10. ASSUME phase' = "done", iterations' < Iterations PROVE RegimesAreSettled'
  <2>1. assigned = assignment
    BY <1>3, <1>4, <1>10
  <2>2. ASSUME NEW f \in Frame
        PROVE  Apart(frame[f], centre'[assigned[f]]) = Nearest(f)'
    <3>1. CASE iterations > 0
      <4>1. centre' = centre
        BY <1>3, <1>4, <2>1, <3>1
      <4>2. Nearest(f)' = Nearest(f)
        BY <1>3, <4>1 DEF Nearest
      <4>. QED
        BY <1>4, <1>5, <4>1, <4>2, BestIsNearest
    <3>2. CASE iterations = 0
      <4>1. Seeded /\ \A g \in Frame : assigned[g] = 1
        BY <1>4, <2>1, <3>2 DEF Seeded
      <4>2. ASSUME NEW c \in DOMAIN centre PROVE c = 1
        <5>1. PICK g \in Frame : frame[g] = centre[c]
          BY <4>1 DEF Seeded
        <5>2. frame[g] \in Vector /\ centre[1] \in Vector /\ 1 \in DOMAIN centre
          BY <1>4, RegimesKnown
        <5>3. Apart(frame[g], centre[c]) = 0
          BY <5>1, <5>2, ApartIsADistance
        <5>4. Apart(frame[g], centre[1]) <= 0 /\ Apart(frame[g], centre[1]) \in Nat
          <6>1. Nearest(g) = Apart(frame[g], centre[1]) /\ Nearest(g) \in Nat
            BY <1>4, <1>5, <4>1, BestIsNearest
          <6>2. Nearest(g) <= Apart(frame[g], centre[c])
            BY <1>4, BestIsNearest
          <6>. QED
            BY <5>3, <6>1, <6>2
        <5>5. frame[g] = centre[1]
          <6>1. Apart(frame[g], centre[1]) = 0
            BY <5>4
          <6>. QED
            BY <5>2, <6>1, ApartIsADistance
        <5>. QED
          BY <4>1, <5>1, <5>2, <5>5 DEF Seeded
      <4>3. DOMAIN centre' = {1}
        BY <1>4, <1>7, <4>2, RegimesKnown
      <4>. DEFINE ways == {Apart(frame[f], centre'[c]) : c \in DOMAIN centre'}
      <4>4. ways = {Apart(frame[f], centre'[1])}
        BY <4>3
      <4>5. Apart(frame[f], centre'[1]) \in Nat
        <5>1. centre'[1] \in Vector /\ frame[f] \in Vector
          BY <1>4, <1>6, <1>7, <4>3, RegimesKnown
        <5>. QED
          BY <5>1, ApartIsADistance
      <4>6. Nearest(f)' = Min(ways)
        BY <1>3 DEF Nearest
      <4>. HIDE DEF ways
      <4>7. Min(ways) \in ways
        BY <4>4, <4>5, SmallestIsLeast
      <4>. QED
        BY <4>1, <4>4, <4>6, <4>7
    <3>. QED
      BY <1>4, <3>1, <3>2
  <2>. QED
    BY <1>3, <1>9, <2>2 DEF RegimesAreSettled, Frame
<1>11. /\ phase' # "done" => iterations' < Iterations
       /\ phase' \in {"iterating", "done"} /\ iterations' > 0
  BY <1>3, <1>4
<1>. QED
  BY <1>3, <1>8, <1>9, <1>10, <1>11 DEF SettlingInv, RegimesAreSettled

LEMMA SettlingStarts == RegimesInit => SettlingInv
<1>1. SUFFICES ASSUME RegimesInit PROVE SettlingInv
  OBVIOUS
<1>2. /\ alike \subseteq Pairs /\ compared = {} /\ phase = "grouping" /\ iterations = 0
      /\ parent = [i \in Item |-> i] /\ centre = <<frame[1]>>
      /\ assignment = [f \in Frame |-> 1]
  BY <1>1 DEF RegimesInit
<1>3. frame \in Seq(Vector) /\ frame # <<>>
  <2>1. Origin \in Seq(Vector) /\ Origin # <<>>
    BY DEF Origin, Vector
  <2>. QED
    BY <1>1, <2>1, RegimesAssumption DEF RegimesInit
<1>4. Wanted \in Nat \ {0} /\ Iterations \in Nat \ {0}
  BY RegimesAssumption
<1>5. 1 \in Frame /\ frame[1] \in Vector
  BY <1>3 DEF Frame
<1>6. /\ centre \in Seq(Vector) /\ Len(centre) = 1 /\ DOMAIN centre = {1}
      /\ centre[1] = frame[1]
  BY <1>2, <1>5
<1>7. RegimesTypeOK
  BY <1>2, <1>3, <1>4, <1>6 DEF RegimesTypeOK
<1>8. Seeded
  BY <1>2, <1>5, <1>6 DEF Seeded
<1>. QED
  BY <1>2, <1>4, <1>7, <1>8 DEF SettlingInv, RegimesAreSettled

\* Comparing leaves what the regimes are computed from.
LEMMA GroupingSettles == SettlingInv /\ GroupsInv /\ Compare /\ GroupsInv' => SettlingInv'
<1>1. SUFFICES ASSUME SettlingInv, Compare, GroupsInv' PROVE SettlingInv'
  OBVIOUS
<1>2. /\ phase = "grouping" /\ phase' \in {"grouping", "seeding"}
      /\ UNCHANGED <<alike, frame, centre, assignment, iterations>>
  BY <1>1 DEF Compare
<1>3. RegimesTypeOK /\ iterations = 0 /\ iterations < Iterations /\ Seeded
  BY <1>1, <1>2 DEF SettlingInv
<1>4. parent' \in [Item -> Item] /\ alike' \subseteq Pairs /\ compared' \subseteq Pairs
  BY <1>1 DEF GroupsInv, Forest
<1>5. RegimesTypeOK'
  BY <1>2, <1>3, <1>4 DEF RegimesTypeOK, Frame
<1>6. Seeded'
  BY <1>2, <1>3 DEF Seeded, Frame
<1>. QED
  BY <1>2, <1>3, <1>5, <1>6 DEF SettlingInv, RegimesAreSettled

LEMMA SettlingStep ==
    SettlingInv /\ GroupsInv /\ [RegimesNext]_regimesVars /\ GroupsInv' => SettlingInv'
<1>1. SettlingInv /\ UNCHANGED regimesVars => SettlingInv'
  <2>1. SUFFICES ASSUME SettlingInv, UNCHANGED regimesVars PROVE SettlingInv'
    OBVIOUS
  <2>2. UNCHANGED <<alike, parent, compared, frame, centre, assignment, iterations, phase>>
    BY <2>1 DEF regimesVars
  <2>3. RegimesTypeOK' <=> RegimesTypeOK
    BY <2>2 DEF RegimesTypeOK, Frame
  <2>4. Seeded' <=> Seeded
    BY <2>2 DEF Seeded, Frame
  <2>5. Moved(assignment)' = Moved(assignment)
    BY <2>2 DEF Moved, Members, Mean, Frame
  <2>6. RegimesAreSettled' <=> RegimesAreSettled
    <3>1. \A f : Nearest(f)' = Nearest(f)
      BY <2>2 DEF Nearest
    <3>. QED
      BY <2>2, <2>5, <3>1 DEF RegimesAreSettled, Frame
  <2>. QED
    BY <2>1, <2>2, <2>3, <2>4, <2>5, <2>6 DEF SettlingInv
<1>. QED
  BY <1>1, GroupingSettles, SeedKeeps, IterateKeeps DEF RegimesNext

\* Every variable keeps its type: whatever is assigned is assigned to a centre, and
\* there are no more of those than were asked for (discover.rs, regimes).
THEOREM RegimesTyping == RegimesSpec => []RegimesTypeOK
<1>1. SettlingInv => RegimesTypeOK
  BY DEF SettlingInv
<1>. QED
  BY <1>1, GroupingStarts, GroupsStep, SettlingStarts, SettlingStep, PTL DEF RegimesSpec

\* Where no two centres are at one, each is nearest to the frame it was put at.
LEMMA FirstPassFills ==
    ASSUME SettlingInv, Iterate, iterations = 0 PROVE EachHasMembers'
<1>1. /\ RegimesTypeOK /\ Seeded /\ phase = "iterating"
      /\ assignment' = [f \in Frame |-> Best(f)]
      /\ centre' = Moved(assignment') /\ UNCHANGED frame
  BY DEF SettlingInv, Iterate
<1>2. DOMAIN centre' = DOMAIN centre
  BY <1>1 DEF Moved
<1>3. ASSUME NEW c \in DOMAIN centre PROVE Members(assignment', c) # {}
  <2>1. PICK f \in Frame : frame[f] = centre[c]
    BY <1>1 DEF Seeded
  <2>2. /\ Best(f) \in DOMAIN centre
        /\ Apart(frame[f], centre[Best(f)]) = Nearest(f)
        /\ Nearest(f) \in Nat /\ Nearest(f) <= Apart(frame[f], centre[c])
    BY <1>1, BestIsNearest
  <2>3. frame[f] \in Vector /\ centre[c] \in Vector /\ centre[Best(f)] \in Vector
    BY <1>1, <2>2, RegimesKnown
  <2>4. Apart(frame[f], centre[c]) = 0
    BY <2>1, <2>3, ApartIsADistance
  <2>5. Apart(frame[f], centre[Best(f)]) = 0
    BY <2>2, <2>4
  <2>6. frame[f] = centre[Best(f)]
    BY <2>3, <2>5, ApartIsADistance
  <2>7. Best(f) = c
    BY <1>1, <2>1, <2>2, <2>6 DEF Seeded
  <2>. QED
    BY <1>1, <2>7 DEF Members
<1>4. \A c : Members(assignment, c)' = Members(assignment', c)
  BY <1>1 DEF Members, Frame
<1>. QED
  BY <1>2, <1>3, <1>4 DEF EachHasMembers

\* What the observer is told is what its experience holds, for every similarity and
\* all frames: groups are chains of what is alike; the passes end where every frame is
\* with the centre nearest to it, the mean of its frames, unless they end because there
\* were as many as there may be; and no regime is born empty, because the seeds are
\* frames that differ (discover.rs, cluster_by_similarity and regimes).
THEOREM WhatIsFoundIsThere == RegimesSpec => []StructureIsSound
<1>. DEFINE Born == SettlingInv /\ GroupsInv /\ (iterations = 1 => EachHasMembers)
<1>1. RegimesInit => Born
  BY GroupingStarts, SettlingStarts DEF RegimesInit
<1>2. Born /\ [RegimesNext]_regimesVars => Born'
  <2>1. SUFFICES ASSUME Born, [RegimesNext]_regimesVars PROVE Born'
    OBVIOUS
  <2>2. SettlingInv' /\ GroupsInv'
    BY <2>1, GroupsStep, SettlingStep
  <2>3. iterations \in Nat
    BY <2>1, RegimesAssumption DEF SettlingInv, RegimesTypeOK
  <2>4. CASE Iterate
    <3>1. iterations' = iterations + 1
      BY <2>4 DEF Iterate
    <3>. QED
      BY <2>1, <2>2, <2>3, <2>4, <3>1, FirstPassFills
  <2>5. CASE Compare \/ Seed
    <3>1. iterations' = iterations /\ phase \in {"grouping", "seeding"}
      BY <2>5 DEF Compare, Seed
    <3>2. iterations = 0
      BY <2>1, <3>1 DEF SettlingInv
    <3>. QED
      BY <2>2, <3>1, <3>2
  <2>6. CASE UNCHANGED regimesVars
    <3>1. iterations' = iterations /\ (EachHasMembers' <=> EachHasMembers)
      BY <2>6 DEF regimesVars, EachHasMembers, Members, Frame
    <3>. QED
      BY <2>1, <2>2, <3>1
  <2>. QED
    BY <2>1, <2>4, <2>5, <2>6 DEF RegimesNext
<1>3. Born => StructureIsSound
  BY ChainsAreGroups DEF StructureIsSound, SettlingInv
<1>. QED
  BY <1>1, <1>2, <1>3, PTL DEF RegimesSpec
=============================================================================
