---------------------------- MODULE OpenHashProofs ----------------------------
(***************************************************************************)
(* Theorems about OpenHash, for all keys and hashes, tables of all sizes   *)
(* and any load factor and growth: also if paths miss most of their table  *)
(* or the table is too full, so that insertions give up and take whatever  *)
(* place comes next.                                                       *)
(***************************************************************************)
EXTENDS OpenHash, FiniteSetTheorems, WellFoundedInduction, TLAPS

-----------------------------------------------------------------------------
(* The inductive invariant *)

Elements == [key : Keys, hops : Nat]

TableTypes ==
  /\ size \in Sizes /\ division \in Methods(size)
  /\ table \in [Positions -> Elements \cup {None, Vacated}]
  /\ count \in Nat

CallTypes ==
  /\ removing \in {0, 1} /\ pc \in {"idle", "add", "grow", "hung"}
  /\ hand \in Keys \cup {None} /\ stored \subseteq Keys
  /\ old \in [DOMAIN old -> Keys] /\ DOMAIN old \subseteq Nat /\ IsFiniteSet(DOMAIN old)
  /\ pc \in {"idle", "hung"} => hand = None
  /\ pc # "grow" => DOMAIN old = {}

\* The key is in this place of its path, and none before it has ever been free. The
\* last place of a path is that of the insertions that give up.
Hops == 0 .. size
Reached(k, p) ==
  \E i \in Hops : Place(k, i) = p /\ \A j \in 0 .. i - 1 : table[Place(k, j)] # None

ReachInv == \A p \in Occupied : Reached(table[p].key, p)

\* What is stored is in the table, on its way into it or still to be moved: in one place only.
InTable(k) == \E p \in Occupied : table[p].key = k
ToMove(k)  == \E i \in DOMAIN old : old[i] = k

OnceInv ==
  /\ \A p, q \in Occupied : table[p].key = table[q].key => p = q
  /\ \A i, j \in DOMAIN old : old[i] = old[j] => i = j
  /\ \A k \in Keys : ~(InTable(k) /\ ToMove(k)) /\ (k = hand => ~InTable(k) /\ ~ToMove(k))
  /\ \A k \in Keys : k \in stored <=> InTable(k) \/ ToMove(k) \/ k = hand

Total == count + Cardinality(DOMAIN old) + (IF hand = None THEN 0 ELSE 1)

CountInv ==
  /\ count = Cardinality(Occupied)
  /\ Cardinality(stored) = Total

TypeInv == TableTypes /\ CallTypes
HashInv == TypeInv /\ ReachInv /\ OnceInv /\ CountInv

-----------------------------------------------------------------------------
(* Numbers, sizes and paths *)

\* A set of numbers that is not empty has a least one.
LEMMA LeastNumber ==
  ASSUME NEW T, T \subseteq Nat, T # {}
  PROVE  Min(T) \in T /\ \A y \in T : Min(T) <= y
<1> DEFINE upTo(x) == {y \in T : y <= x}
           Parts   == {upTo(x) : x \in T}
<1>1. Parts # {} /\ Parts \subseteq FiniteSubsetsOf(Nat)
  <2>1. ASSUME NEW x \in T
        PROVE  upTo(x) \in FiniteSubsetsOf(Nat)
    BY FS_BoundedSetOfNaturals DEF FiniteSubsetsOf
  <2> QED
    BY <2>1
<1>2. \E U \in Parts : \A V \in Parts : <<V, U>> \notin StrictSubsetOrdering(Nat)
  <2>1. IsWellFoundedOn(StrictSubsetOrdering(Nat), FiniteSubsetsOf(Nat))
    BY FS_StrictSubsetOrderingWellFounded
  <2> QED
    BY <1>1, <2>1, WFMin
<1>3. PICK x \in T : \A V \in Parts : <<V, upTo(x)>> \notin StrictSubsetOrdering(Nat)
  BY <1>2
<1>4. ASSUME NEW y \in T, y < x
      PROVE  FALSE
  <2>1. \A z \in T : z <= y => z <= x
    BY <1>4
  <2>2. x \in upTo(x) /\ x \notin upTo(y)
    BY <1>4
  <2>3. upTo(y) \subseteq upTo(x)
    BY <2>1
  <2>4. upTo(y) \in Parts /\ upTo(y) \in SUBSET Nat /\ upTo(x) \in SUBSET Nat
    OBVIOUS
  <2> HIDE DEF upTo, Parts
  <2>5. <<upTo(y), upTo(x)>> \in StrictSubsetOrdering(Nat)
    BY <2>2, <2>3, <2>4 DEF StrictSubsetOrdering
  <2> QED
    BY <1>3, <2>4, <2>5
<1>5. \E y \in T : \A z \in T : y <= z
  BY <1>4
<1> QED
  BY <1>5 DEF Min

LEMMA SizeTypes == Sizes \subseteq Nat \ {0} /\ \A s \in Sizes : Methods(s) \subseteq BOOLEAN
<1>1. Sizes \subseteq Nat \ {0}
  BY HashAssumption DEF Sizes
<1>2. ASSUME NEW s \in Sizes
      PROVE  UsesDivision(s) \in BOOLEAN
  BY DEF UsesDivision
<1> QED
  BY <1>1, <1>2 DEF Methods

\* All the places a search looks at are in the table.
LEMMA PlaceType ==
  ASSUME TableTypes, NEW k \in Keys, NEW i \in 0 .. size
  PROVE  Place(k, i) \in Positions
<1>1. division \in BOOLEAN /\ size \in Nat
  BY SizeTypes DEF TableTypes
<1>2. Paths[k, size, division] \in [1 .. size + 1 -> 0 .. size - 1]
  BY <1>1, PathAssumption DEF TableTypes
<1>3. i + 1 \in 1 .. size + 1
  BY <1>1
<1> QED
  BY <1>2, <1>3 DEF Place, Positions

LEMMA OccupiedType ==
  ASSUME TableTypes
  PROVE  /\ Occupied \subseteq Positions /\ IsFiniteSet(Positions) /\ IsFiniteSet(Occupied)
         /\ Positions \subseteq Nat
         /\ \A p \in Occupied : table[p] \in Elements /\ table[p].key \in Keys
         /\ \A p \in Positions \ Occupied : table[p] \in {None, Vacated}
<1>1. size \in Nat
  BY SizeTypes DEF TableTypes
<1>2. IsFiniteSet(Positions)
  BY <1>1, FS_Interval DEF Positions
<1>3. IsFiniteSet(Occupied)
  BY <1>2, FS_Subset DEF Occupied
<1> QED
  BY <1>1, <1>2, <1>3 DEF TableTypes, Occupied, Positions, Elements

-----------------------------------------------------------------------------
(* Steps *)

LEMMA HashInit == Init => HashInv
<1> SUFFICES ASSUME Init
             PROVE  HashInv
  OBVIOUS
<1> USE DEF Init
<1>1. TableTypes
  BY PathAssumption DEF TableTypes, Methods
<1>2. CallTypes /\ DOMAIN old = {}
  BY FS_EmptySet DEF CallTypes
<1>3. Occupied = {}
  BY DEF Occupied
<1>4. Total = 0 /\ Cardinality(stored) = 0 /\ Cardinality(Occupied) = 0
  BY <1>2, <1>3, FS_EmptySet DEF Total
<1> QED
  BY <1>1, <1>2, <1>3, <1>4, HashAssumption DEF HashInv, TypeInv, ReachInv, OnceInv, InTable, ToMove, CountInv

LEMMA TotalType ==
  ASSUME HashInv
  PROVE  /\ Total \in Nat /\ MaxLoad \in Nat /\ size \in Nat \ {0}
         /\ Total <= Cardinality(Keys) /\ Cardinality(Keys) \in Nat
<1>1. Cardinality(DOMAIN old) \in Nat
  BY FS_CardinalityType DEF HashInv, TypeInv, CallTypes
<1>2. Cardinality(stored) <= Cardinality(Keys) /\ Cardinality(Keys) \in Nat
  BY HashAssumption, FS_Subset, FS_CardinalityType DEF HashInv, TypeInv, CallTypes
<1> QED
  BY <1>1, <1>2, HashAssumption, SizeTypes DEF HashInv, TypeInv, TableTypes, CountInv, Total

LEMMA SameTable ==
  ASSUME UNCHANGED <<size, division, table>>
  PROVE  UNCHANGED Occupied /\ (ReachInv <=> ReachInv') /\ (\A k : InTable(k) <=> InTable(k)')
         /\ (TableTypes /\ UNCHANGED count => TableTypes')
BY DEF Occupied, Positions, ReachInv, Reached, Hops, Place, InTable, TableTypes

\* All elements wait for their place in the new table.
LEMMA StartGrowStep ==
  ASSUME HashInv, NEW target \in Sizes \cup {6}, pc \in {"idle", "add"}, hand = None,
         StartGrow(target)
  PROVE  HashInv'
<1> USE DEF HashInv, TypeInv
<1>1. CASE removing > 0 \/ target = 6
  <2> USE <1>1 DEF StartGrow
  <2>1. TypeInv'
    BY DEF TableTypes, CallTypes, Positions
  <2>2. UNCHANGED <<Occupied, Total>>
    BY DEF Occupied, Positions, Total
  <2>3. ReachInv'
    BY SameTable
  <2>4. OnceInv' /\ CountInv'
    BY <2>2 DEF OnceInv, InTable, ToMove, CountInv
  <2> QED
    BY <2>1, <2>3, <2>4
<1>2. CASE ~(removing > 0 \/ target = 6)
  <2> USE <1>2 DEF StartGrow
  <2>1. Occupied' = {} /\ DOMAIN old = {} /\ DOMAIN old' = Occupied
    BY DEF Occupied, Positions, CallTypes
  <2>2. TableTypes'
    BY DEF TableTypes, Positions, Methods
  <2>3. CallTypes'
    BY <2>1, OccupiedType DEF CallTypes
  <2>4. Total' = Total /\ count' = Cardinality(Occupied')
    BY <2>1, FS_EmptySet, OccupiedType, FS_CardinalityType DEF Total, CountInv
  <2>5. OnceInv'
    <3>1. \A k \in Keys : ToMove(k)' <=> InTable(k)
      BY <2>1 DEF ToMove, InTable
    <3>2. \A k \in Keys : ~InTable(k)' /\ ~ToMove(k)
      BY <2>1 DEF ToMove, InTable
    <3>3. \A i, j \in DOMAIN old' : old'[i] = old'[j] => i = j
      BY <2>1 DEF OnceInv
    <3>4. \A p, q \in Occupied' : table'[p].key = table'[q].key => p = q
      BY <2>1
    <3> HIDE DEF StartGrow
    <3>5. hand' = hand /\ stored' = stored
      BY DEF StartGrow
    <3> QED
      BY <2>1, <3>1, <3>2, <3>3, <3>4, <3>5, HashAssumption DEF OnceInv
  <2> QED
    BY <2>1, <2>2, <2>3, <2>4, <2>5 DEF ReachInv, CountInv
<1> QED
  BY <1>1, <1>2

LEMMA MoveStep ==
  ASSUME HashInv, Move
  PROVE  HashInv'
<1> USE DEF HashInv, TypeInv
<1> DEFINE next == Min(DOMAIN old)
<1>1. DOMAIN old # {}
  <2>1. SUFFICES ASSUME DOMAIN old = {}
                 PROVE  old = <<>>
    BY DEF Move
  <2> QED
    BY <2>1 DEF CallTypes
<1>2. next \in DOMAIN old
  BY <1>1, LeastNumber DEF CallTypes
<1> HIDE DEF next
<1>3. hand' = old[next] /\ old' = [i \in DOMAIN old \ {next} |-> old[i]]
  BY DEF Move, Restrict, next
<1>4. old[next] \in Keys /\ hand' # None
  BY <1>2, <1>3, HashAssumption DEF CallTypes
<1>5. IsFiniteSet(DOMAIN old') /\ Cardinality(DOMAIN old') = Cardinality(DOMAIN old) - 1
  BY <1>2, <1>3, FS_RemoveElement DEF CallTypes
<1>6. CallTypes'
  BY <1>3, <1>4, <1>5 DEF CallTypes, Move
<1>7. UNCHANGED Occupied /\ ReachInv' /\ TableTypes' /\ \A k : InTable(k) <=> InTable(k)'
  BY SameTable DEF Move
<1>8. Total' = Total
  <2>1. Cardinality(DOMAIN old) \in Nat /\ count \in Nat
    BY FS_CardinalityType DEF CallTypes, TableTypes
  <2> QED
    BY <1>4, <1>5, <2>1 DEF Total, Move
<1>9. OnceInv'
  <2>1. \A k \in Keys : ToMove(k) <=> ToMove(k)' \/ k = hand'
    BY <1>2, <1>3 DEF ToMove
  <2>2. ~ToMove(hand)' /\ (\A i, j \in DOMAIN old' : old'[i] = old'[j] => i = j)
    BY <1>2, <1>3 DEF ToMove, OnceInv
  <2>3. hand = None /\ UNCHANGED <<stored, table>>
    BY DEF Move
  <2>4. \A k \in Keys : k = hand' => ~ToMove(k)'
    BY <2>2 DEF ToMove
  <2> QED
    BY <1>4, <1>7, <2>1, <2>2, <2>3, <2>4, HashAssumption DEF OnceInv
<1> QED
  BY <1>6, <1>7, <1>8, <1>9 DEF CountInv, Move

LEMMA GrownStep ==
  ASSUME HashInv, Grown
  PROVE  HashInv'
<1> USE DEF HashInv, TypeInv, Grown
<1>1. CallTypes'
  BY DEF CallTypes
<1>2. UNCHANGED <<Occupied, Total>> /\ ReachInv' /\ TableTypes' /\ \A k : InTable(k) <=> InTable(k)'
  BY SameTable DEF Total
<1>3. OnceInv' /\ CountInv'
  BY <1>2 DEF OnceInv, ToMove, CountInv
<1> QED
  BY <1>1, <1>2, <1>3

\* Whatever is in the table is found: nothing on the way to it has ever been free, and
\* a search that gives up ends where an insertion does that gives up.
LEMMA FoundIfThere ==
  ASSUME TableTypes, ReachInv, NEW k \in Keys
  PROVE  Found(k) <=> InTable(k)
<1> DEFINE stops == {i \in Positions : table[Place(k, i)] = None \/ HasKey(Place(k, i), k)}
<1>1. ASSUME InTable(k)
      PROVE  HasKey(Place(k, FirstOf(stops)), k)
  <2>1. PICK p \in Occupied : table[p].key = k
    BY <1>1 DEF InTable
  <2>2. PICK i \in Hops : Place(k, i) = p /\ \A j \in 0 .. i - 1 : table[Place(k, j)] # None
    BY <2>1 DEF ReachInv, Reached
  <2>3. stops \subseteq Positions /\ stops \subseteq Nat /\ i \in Nat /\ (i < size => i \in Positions)
    BY OccupiedType, SizeTypes DEF Hops, Positions, TableTypes
  <2>4. i \in Positions => i \in stops
    BY <2>1, <2>2 DEF HasKey
  <2>5. CASE stops = {}
    <3>1. i = size
      BY <2>3, <2>4, <2>5, SizeTypes DEF Hops, TableTypes
    <3> QED
      BY <2>1, <2>2, <2>5, <3>1 DEF FirstOf, HasKey
  <2>6. CASE stops # {}
    <3>1. Min(stops) \in stops /\ \A j \in stops : Min(stops) <= j
      BY <2>3, <2>6, LeastNumber
    <3>2. FirstOf(stops) = Min(stops)
      BY <2>6 DEF FirstOf
    <3>3. Min(stops) <= i
      BY <2>3, <2>4, <3>1, SizeTypes DEF Hops, Positions, TableTypes
    <3>4. CASE Min(stops) = i
      BY <2>1, <2>2, <3>2, <3>4 DEF HasKey
    <3>5. CASE Min(stops) # i
      <4>1. Min(stops) \in 0 .. i - 1
        BY <2>3, <3>1, <3>3, <3>5
      <4> QED
        BY <2>2, <3>1, <3>2, <4>1
    <3> QED
      BY <3>4, <3>5
  <2> QED
    BY <2>5, <2>6
<1>2. Search(k) = Place(k, FirstOf(stops))
  BY DEF Search
<1> HIDE DEF stops
<1> QED
  BY <1>1, <1>2 DEF Found, HasKey, InTable

LEMMA AddStep ==
  ASSUME HashInv, NEW k \in Keys, Add(k)
  PROVE  HashInv'
<1> USE DEF HashInv, TypeInv
<1>1. hand = None /\ ~InTable(k) /\ k # None /\ k \notin stored
  BY FoundIfThere, HashAssumption DEF Add, CallTypes, OnceInv, ToMove
<1>2. CallTypes'
  BY DEF CallTypes, Add
<1>3. UNCHANGED Occupied /\ ReachInv' /\ TableTypes' /\ \A l : InTable(l) <=> InTable(l)'
  BY SameTable DEF Add
<1>4. Cardinality(stored') = Cardinality(stored) + 1
  <2>1. IsFiniteSet(stored)
    BY HashAssumption, FS_Subset DEF CallTypes
  <2> QED
    BY <1>1, <2>1, FS_AddElement DEF Add
<1>5. Total' = Total + 1 /\ Total' - 1 = Total
  <2>1. Cardinality(DOMAIN old) \in Nat /\ count \in Nat
    BY FS_CardinalityType DEF CallTypes, TableTypes
  <2> QED
    BY <1>1, <2>1 DEF Total, Add
<1>6. CountInv'
  BY <1>3, <1>4, <1>5 DEF CountInv, Add
<1>7. OnceInv'
  <2>1. \A l \in Keys : ~ToMove(l) /\ ~ToMove(l)'
    BY DEF Add, ToMove, CallTypes
  <2>2. stored' = stored \cup {k} /\ hand' = k /\ UNCHANGED <<table, old>>
    BY DEF Add
  <2> QED
    BY <1>1, <1>3, <2>1, <2>2, HashAssumption DEF OnceInv
<1> QED
  BY <1>2, <1>3, <1>6, <1>7

\* No place before the one an insertion gets to is free, whether that suits or not.
LEMMA InsertionPlace ==
  ASSUME HashInv, hand # None
  PROVE  /\ InsertHops(hand) \in Hops
         /\ \A j \in 0 .. InsertHops(hand) - 1 : table[Place(hand, j)] # None
<1> USE DEF HashInv, TypeInv
<1> DEFINE stops == {i \in Positions : Suitable(hand, Place(hand, i), i)}
<1>1. hand \in Keys
  BY DEF CallTypes
<1>2. stops \subseteq Positions /\ stops \subseteq Nat /\ size \in Nat
  BY OccupiedType, SizeTypes DEF TableTypes
<1>3. \A j \in Positions : j \notin stops => table[Place(hand, j)] # None
  BY DEF Suitable
<1>4. CASE stops = {}
  <2>1. InsertHops(hand) = size
    BY <1>4 DEF InsertHops, FirstOf
  <2>2. size \in Hops /\ 0 .. size - 1 = Positions
    BY <1>2 DEF Hops, Positions
  <2> HIDE DEF stops
  <2> QED
    BY <1>3, <1>4, <2>1, <2>2
<1>5. CASE stops # {}
  <2>0. PICK m : m = Min(stops)
    OBVIOUS
  <2>1. m \in stops /\ \A j \in stops : m <= j
    <3> HIDE DEF stops
    <3> QED
      BY <1>2, <1>5, <2>0, LeastNumber
  <2>2. InsertHops(hand) = m
    BY <1>5, <2>0 DEF InsertHops, FirstOf
  <2> HIDE DEF stops
  <2>3. m \in 0 .. size - 1 /\ size \in Nat
    BY <1>2, <2>1 DEF Positions
  <2>4. m \in Hops
    BY <2>3 DEF Hops
  <2>5. ASSUME NEW j \in 0 .. m - 1
        PROVE  table[Place(hand, j)] # None
    <3>1. j \in Positions
      BY <2>3 DEF Positions
    <3>2. j \notin stops
      BY <2>1, <2>3
    <3> QED
      BY <1>3, <3>1, <3>2
  <2> QED
    BY <2>2, <2>4, <2>5
<1> QED
  BY <1>4, <1>5

\* A place gets something else than before, and is not made free.
LEMMA PlaceChanges ==
  ASSUME TableTypes, ReachInv, NEW p \in Positions, NEW x \in Elements \cup {Vacated},
         table' = [table EXCEPT ![p] = x], UNCHANGED <<size, division>>,
         count' \in Nat, x \in Elements => Reached(x.key, p)
  PROVE  /\ TableTypes' /\ ReachInv' /\ table'[p] = x
         /\ \A q \in Occupied \ {p} : table'[q] = table[q]
         /\ Occupied' = IF x \in Elements THEN Occupied \cup {p} ELSE Occupied \ {p}
<1>1. table'[p] = x /\ \A q \in Positions \ {p} : table'[q] = table[q]
  BY DEF TableTypes
<1>2. x # None /\ (x \in Elements <=> x # Vacated)
  BY HashAssumption DEF Elements
<1>3. Occupied' = IF x \in Elements THEN Occupied \cup {p} ELSE Occupied \ {p}
  BY <1>1, <1>2 DEF Occupied, Positions
<1>4. TableTypes'
  BY DEF TableTypes, Positions
<1> DEFINE reaches(k, q) ==
      \E i \in Hops : Place(k, i) = q /\ \A j \in 0 .. i - 1 : table'[Place(k, j)] # None
<1>5. ASSUME NEW k \in Keys, NEW q, Reached(k, q)
      PROVE  reaches(k, q)
  <2>1. PICK i \in Hops : Place(k, i) = q /\ \A j \in 0 .. i - 1 : table[Place(k, j)] # None
    BY <1>5 DEF Reached
  <2>2. ASSUME NEW j \in 0 .. i - 1
        PROVE  table'[Place(k, j)] # None
    <3>1. j \in 0 .. size
      BY <2>2, SizeTypes DEF TableTypes, Hops
    <3>2. Place(k, j) \in Positions
      BY <3>1, PlaceType
    <3> QED
      BY <1>1, <1>2, <2>1, <3>2
  <2> QED
    BY <2>1, <2>2
<1>6. ASSUME NEW q \in Occupied'
      PROVE  reaches(table'[q].key, q)
  <2>1. CASE q = p
    <3>1. x \in Elements /\ x.key \in Keys /\ Reached(x.key, p)
      BY <1>3, <1>6, <2>1 DEF Elements
    <3> QED
      BY <1>1, <1>5, <2>1, <3>1
  <2>2. CASE q # p
    <3>1. q \in Occupied /\ table'[q] = table[q]
      BY <1>1, <1>3, <1>6, <2>2, OccupiedType
    <3>2. table[q].key \in Keys /\ Reached(table[q].key, q)
      BY <3>1, OccupiedType DEF ReachInv
    <3> QED
      BY <1>5, <3>1, <3>2
  <2> QED
    BY <2>1, <2>2
<1>7. ReachInv'
  <2>1. size' = size /\ division' = division /\ Hops' = Hops
    BY DEF Hops
  <2>2. SUFFICES ASSUME NEW q \in Occupied'
                 PROVE  \E i \in Hops' :
                          /\ Paths[table'[q].key, size', division'][i + 1] = q
                          /\ \A j \in 0 .. i - 1 :
                               table'[Paths[table'[q].key, size', division'][j + 1]] # None
    BY DEF ReachInv, Reached, Place
  <2> DEFINE path == Paths[table'[q].key, size, division]
  <2>3. \E i \in Hops : path[i + 1] = q /\ \A j \in 0 .. i - 1 : table'[path[j + 1]] # None
    <3> HIDE DEF path
    <3>1. reaches(table'[q].key, q)
      BY <1>6, <2>2
    <3>2. \A i : Place(table'[q].key, i) = path[i + 1]
      BY DEF Place, path
    <3> QED
      BY <3>1, <3>2
  <2>4. path = Paths[table'[q].key, size', division']
    BY <2>1
  <2> HIDE DEF path
  <2> QED
    BY <2>1, <2>3, <2>4
<1> QED
  BY <1>1, <1>3, <1>4, <1>7, OccupiedType

\* Another element gets the place: the number of those there are stays the same.
LEMMA InsertStep ==
  ASSUME HashInv, Insert
  PROVE  HashInv'
<1> USE DEF HashInv, TypeInv
<1> DEFINE hops == InsertHops(hand)
           p    == Place(hand, hops)
           x    == [key |-> hand, hops |-> hops]
<1>1. hand \in Keys /\ hand # None /\ UNCHANGED <<size, division, removing, pc, old, stored>>
  BY DEF Insert, CallTypes
<1>2. hops \in Hops /\ \A j \in 0 .. hops - 1 : table[Place(hand, j)] # None
  BY <1>1, InsertionPlace
<1>3. p \in Positions /\ Reached(hand, p)
  <2>1. hops \in 0 .. size
    BY <1>2 DEF Hops
  <2> QED
    BY <1>1, <1>2, <2>1, PlaceType DEF Reached
<1>4. x \in Elements /\ x.key = hand
  BY <1>1, <1>2, SizeTypes DEF Elements, Hops, TableTypes
<1>5. /\ table' = [table EXCEPT ![p] = x]
      /\ hand' = IF p \in Occupied THEN table[p].key ELSE None
      /\ count' = IF p \in Occupied THEN count ELSE count + 1
  BY DEF Insert
<1> HIDE DEF hops, p, x
<1>6. count \in Nat /\ count' \in Nat
  BY <1>5 DEF TableTypes
<1>7. /\ TableTypes' /\ ReachInv' /\ table'[p] = x
      /\ \A q \in Occupied \ {p} : table'[q] = table[q]
      /\ Occupied' = Occupied \cup {p}
  <2>1. UNCHANGED <<size, division>> /\ (x \in Elements => Reached(x.key, p))
    BY <1>1, <1>3, <1>4
  <2> QED
    BY <1>3, <1>4, <1>5, <1>6, <2>1, PlaceChanges
<1>8. CallTypes'
  <2>1. hand' \in Keys \cup {None} /\ pc \in {"add", "grow"}
    BY <1>5, OccupiedType DEF Insert
  <2> QED
    BY <1>1, <2>1 DEF CallTypes
<1>9. Total' = Total
  <2> DEFINE waiting == Cardinality(DOMAIN old)
  <2>1. waiting \in Nat
    BY FS_CardinalityType DEF CallTypes
  <2>2. Total' = count' + waiting + (IF hand' = None THEN 0 ELSE 1)
    BY <1>1 DEF Total
  <2>3. Total = count + waiting + 1
    BY <1>1 DEF Total
  <2>4. p \in Occupied => hand' # None
    BY <1>5, OccupiedType, HashAssumption
  <2> HIDE DEF waiting
  <2> QED
    BY <1>5, <1>6, <2>1, <2>2, <2>3, <2>4
<1>10. count' = Cardinality(Occupied')
  BY <1>5, <1>7, OccupiedType, FS_AddElement DEF CountInv
<1>11. OnceInv'
  <2>1. \A k \in Keys : InTable(k)' <=> k = hand \/ \E q \in Occupied \ {p} : table[q].key = k
    BY <1>4, <1>7 DEF InTable
  <2>2. \A k \in Keys : InTable(k)' \/ k = hand' <=> InTable(k) \/ k = hand
    <3>1. CASE p \in Occupied
      BY <1>5, <2>1, <3>1 DEF InTable
    <3>2. CASE p \notin Occupied
      BY <1>5, <2>1, <3>2, HashAssumption DEF InTable
    <3> QED
      BY <3>1, <3>2
  <2>3. \A q, r \in Occupied' : table'[q].key = table'[r].key => q = r
    <3>1. \A q \in Occupied \ {p} : table'[q].key # hand
      BY <1>1, <1>7 DEF OnceInv, InTable
    <3> QED
      BY <1>4, <1>7, <3>1 DEF OnceInv
  <2>4. \A k \in Keys : k = hand' => InTable(k) /\ ~InTable(k)'
    <3> SUFFICES ASSUME NEW k \in Keys, k = hand'
                 PROVE  InTable(k) /\ ~InTable(k)'
      OBVIOUS
    <3>1. p \in Occupied /\ k = table[p].key
      BY <1>5, HashAssumption
    <3>2. InTable(k)
      BY <3>1 DEF InTable
    <3> QED
      BY <1>1, <2>1, <3>1, <3>2 DEF OnceInv
  <2>5. \A k \in Keys : ToMove(k)' <=> ToMove(k)
    BY <1>1 DEF ToMove
  <2>6. old' = old /\ stored' = stored
    BY <1>1
  <2> QED
    BY <2>2, <2>3, <2>4, <2>5, <2>6 DEF OnceInv
<1> QED
  BY <1>1, <1>7, <1>8, <1>9, <1>10, <1>11 DEF CountInv

LEMMA AddedStep ==
  ASSUME HashInv, Added
  PROVE  HashInv'
<1> DEFINE target == (size * Growth) \div 100
           load   == MaxLoad * size
<1>1. pc = "add" /\ hand = None /\ size \in Sizes
  BY DEF Added, HashInv, TypeInv, TableTypes
<1>2. DOMAIN old = {} /\ Total = count /\ count \in Nat
  <2>1. DOMAIN old = {} /\ count \in Nat
    BY <1>1 DEF HashInv, TypeInv, CallTypes, TableTypes
  <2> QED
    BY <1>1, <2>1, FS_EmptySet DEF Total
<1>3. load \in Nat
  <2>1. MaxLoad \in Nat /\ size \in Nat
    BY <1>1, HashAssumption, SizeTypes
  <2> QED
    BY <2>1
<1>5. CASE count * 100 > load /\ target > size
  <2>1. Cardinality(Keys) * 100 > load
    <3> HIDE DEF load, target
    <3> QED
      BY <1>2, <1>3, <1>5, TotalType
  <2>2. target <= MaxSize
    BY <1>1, <2>1, PathAssumption
  <2>3. target \in Sizes \cup {6}
    <3>1. size = 5 \/ size >= 7
      BY <1>1 DEF Sizes
    <3>2. target \in Int /\ MaxSize \in Nat
      BY <1>1, HashAssumption, SizeTypes
    <3> HIDE DEF target
    <3> QED
      BY <1>1, <1>5, <2>2, <3>1, <3>2 DEF Sizes
  <2>4. StartGrow(target)
    BY <1>5 DEF Added
  <2> HIDE DEF target
  <2> QED
    BY <1>1, <2>3, <2>4, StartGrowStep
<1>6. CASE ~(count * 100 > load /\ target > size)
  <2>1. pc' = "idle" /\ UNCHANGED <<size, division, table, count, removing, hand, old, stored>>
    BY <1>6 DEF Added
  <2> USE DEF HashInv, TypeInv
  <2>3. CallTypes'
    BY <1>1, <1>2, <2>1 DEF CallTypes
  <2>4. UNCHANGED <<Occupied, Total>> /\ ReachInv' /\ TableTypes'
        /\ \A k : InTable(k) <=> InTable(k)'
    BY <2>1, SameTable DEF Total
  <2>5. OnceInv' /\ CountInv'
    BY <2>1, <2>4 DEF OnceInv, ToMove, CountInv
  <2> QED
    BY <2>3, <2>4, <2>5
<1> QED
  BY <1>5, <1>6

LEMMA GrowStep ==
  ASSUME HashInv, Grow
  PROVE  HashInv'
<1>1. PICK target \in GrowTargets : target > size /\ StartGrow(target)
  BY DEF Grow
<1>2. target \in Sizes /\ pc = "idle" /\ hand = None
  BY PathAssumption DEF Grow, HashInv, TypeInv, CallTypes
<1> QED
  BY <1>1, <1>2, StartGrowStep

-----------------------------------------------------------------------------
(* Removal *)

\* Whatever the place, a removal takes what is in it, and nothing else.
LEMMA RemovalStep ==
  ASSUME HashInv, pc = "idle", NEW p, RemoveIdx(p), stored' = stored \ Taken(p),
         removing' \in {0, 1}, UNCHANGED <<size, division, pc, hand, old>>
  PROVE  HashInv'
<1> USE DEF HashInv, TypeInv
<1>1. hand = None /\ DOMAIN old = {}
  BY DEF CallTypes
<1>2. CallTypes'
  BY DEF CallTypes
<1>3. \A k \in Keys : ~ToMove(k) /\ ~ToMove(k)'
  BY <1>1 DEF ToMove
<1>4. CASE p \notin Occupied
  <2>1. UNCHANGED <<table, count, stored>>
    BY <1>4 DEF RemoveIdx, Taken
  <2>2. UNCHANGED <<Occupied, Total>> /\ ReachInv' /\ TableTypes'
        /\ \A k : InTable(k) <=> InTable(k)'
    BY <2>1, SameTable DEF Total
  <2>3. OnceInv' /\ CountInv'
    BY <1>3, <2>1, <2>2 DEF OnceInv, CountInv
  <2> QED
    BY <1>2, <2>2, <2>3
<1>5. CASE p \in Occupied
  <2> DEFINE k == table[p].key
  <2>1. /\ p \in Positions /\ k \in Keys /\ IsFiniteSet(Occupied) /\ IsFiniteSet(stored)
        /\ count \in Nat
    BY <1>5, OccupiedType, HashAssumption, FS_Subset DEF CallTypes, TableTypes
  <2>2. table' = [table EXCEPT ![p] = Vacated] /\ count' = count - 1 /\ stored' = stored \ {k}
    BY <1>5 DEF RemoveIdx, Taken
  <2>3. k \in stored
    BY <1>5, <2>1 DEF OnceInv, InTable
  <2> HIDE DEF k
  <2>4. /\ Cardinality(Occupied \ {p}) = Cardinality(Occupied) - 1
        /\ Cardinality(stored') = Cardinality(stored) - 1
    BY <1>5, <2>1, <2>2, <2>3, FS_RemoveElement
  <2>5. count' \in Nat
    <3>1. Cardinality(Occupied \ {p}) \in Nat
      BY <2>1, FS_Subset, FS_CardinalityType
    <3> QED
      BY <2>2, <2>4, <3>1 DEF CountInv
  <2>6. Vacated \in Elements \cup {Vacated} /\ Vacated \notin Elements
    BY HashAssumption DEF Elements
  <2>7. TableTypes' /\ ReachInv' /\ (\A q \in Occupied \ {p} : table'[q] = table[q])
        /\ Occupied' = Occupied \ {p}
    BY <2>1, <2>2, <2>5, <2>6, PlaceChanges
  <2>8. CountInv' /\ Total' = Total - 1
    <3>1. Total = count /\ Total' = count'
      BY <1>1, <2>1, <2>5, FS_EmptySet DEF Total
    <3> QED
      BY <2>2, <2>4, <2>7, <3>1 DEF CountInv
  <2>10. OnceInv'
    <3>1. \A l \in Keys : InTable(l)' <=> InTable(l) /\ l # k
      <4>1. \A l \in Keys : InTable(l)' <=> \E q \in Occupied \ {p} : table[q].key = l
        BY <2>7 DEF InTable
      <4>2. \A q \in Occupied : table[q].key = k <=> q = p
        BY <1>5 DEF OnceInv, k
      <4> QED
        BY <4>1, <4>2 DEF InTable, k
    <3>2. \A l \in Keys : l # hand
      BY <1>1, HashAssumption
    <3>3. \A q, r \in Occupied' : table'[q].key = table'[r].key => q = r
      BY <2>7 DEF OnceInv
    <3> QED
      BY <1>3, <2>2, <3>1, <3>2, <3>3 DEF OnceInv
  <2> QED
    BY <1>2, <2>7, <2>8, <2>10
<1> QED
  BY <1>4, <1>5

\* Nobody has to look into the table for what is stored: between calls all of it is found.
LEMMA IdleFound ==
  ASSUME HashInv, pc = "idle", NEW k \in Keys
  PROVE  Found(k) <=> k \in stored
<1>1. hand # k /\ ~ToMove(k)
  BY HashAssumption DEF HashInv, TypeInv, CallTypes, ToMove
<1> QED
  BY <1>1, FoundIfThere DEF HashInv, TypeInv, OnceInv

LEMMA RemoveKeyStep ==
  ASSUME CarefulRemoval, HashInv, NEW k \in Keys, RemoveKey(k)
  PROVE  HashInv'
<1>1. HasKey(Search(k), k)
  BY IdleFound DEF RemoveKey, Found
<1>2. Taken(Search(k)) = {k}
  BY <1>1 DEF Taken, HasKey
<1>3. removing' \in {0, 1}
  BY DEF RemoveKey, HashInv, TypeInv, CallTypes
<1> QED
  BY <1>2, <1>3, RemovalStep DEF RemoveKey

LEMMA PopStep ==
  ASSUME HashInv, PopBack \/ PopFront
  PROVE  HashInv'
<1>1. CASE PopBack
  BY <1>1, RemovalStep DEF PopBack
<1>2. CASE PopFront
  BY <1>2, RemovalStep DEF PopFront
<1> QED
  BY <1>1, <1>2

LEMMA ClearStep ==
  ASSUME HashInv, Clear
  PROVE  HashInv'
<1> USE DEF HashInv, TypeInv
<1>1. hand = None /\ DOMAIN old = {} /\ UNCHANGED <<size, division, removing, hand, old>>
  BY DEF Clear, CallTypes
<1>2. CASE removing > 0
  <2>1. pc' = "hung" /\ UNCHANGED <<table, count, stored>>
    BY <1>2 DEF Clear
  <2>2. CallTypes'
    BY <1>1, <2>1 DEF CallTypes
  <2>3. UNCHANGED <<Occupied, Total>> /\ ReachInv' /\ TableTypes'
        /\ \A k : InTable(k) <=> InTable(k)'
    BY <1>1, <2>1, SameTable DEF Total
  <2>4. OnceInv' /\ CountInv'
    BY <1>1, <2>1, <2>3 DEF OnceInv, ToMove, CountInv
  <2> QED
    BY <2>2, <2>3, <2>4
<1>3. CASE ~(removing > 0)
  <2>1. /\ table' = [p \in Positions |-> IF p \in Occupied THEN None ELSE table[p]]
        /\ count' = 0 /\ stored' = {} /\ pc' = pc /\ pc = "idle"
    BY <1>3 DEF Clear
  <2>2. CallTypes'
    BY <1>1, <2>1 DEF CallTypes
  <2>3. Occupied' = {}
    BY <1>1, <2>1, OccupiedType DEF Occupied, Positions
  <2>4. TableTypes'
    <3>1. \A p \in Positions : table'[p] \in Elements \cup {None, Vacated}
      BY <2>1, OccupiedType
    <3> QED
      BY <1>1, <2>1, <3>1 DEF TableTypes, Positions
  <2>5. Total' = 0 /\ CountInv'
    BY <1>1, <2>1, <2>3, FS_EmptySet DEF Total, CountInv
  <2>7. ReachInv' /\ OnceInv'
    BY <1>1, <2>1, <2>3, HashAssumption DEF ReachInv, OnceInv, InTable, ToMove
  <2> QED
    BY <2>2, <2>4, <2>5, <2>7
<1> QED
  BY <1>2, <1>3

LEMMA HashNext ==
  ASSUME CarefulRemoval, HashInv, [Next]_vars
  PROVE  HashInv'
<1>1. CASE Step
  BY <1>1, MoveStep, GrownStep, InsertStep, AddedStep DEF Step
<1>2. CASE Call
  BY <1>2, AddStep, RemoveKeyStep, GrowStep, PopStep, ClearStep DEF Call
<1>3. CASE UNCHANGED vars
  <2> USE DEF HashInv, TypeInv, vars
  <2>1. UNCHANGED <<Occupied, Total>> /\ ReachInv' /\ TableTypes'
        /\ \A k : InTable(k) <=> InTable(k)'
    BY <1>3, SameTable DEF Total
  <2>2. CallTypes'
    BY <1>3 DEF CallTypes
  <2>3. OnceInv' /\ CountInv'
    BY <1>3, <2>1 DEF OnceInv, ToMove, CountInv
  <2> QED
    BY <2>1, <2>2, <2>3
<1> QED
  BY <1>1, <1>2, <1>3 DEF Next

-----------------------------------------------------------------------------
(* What follows for the users *)

\* The places and ways of the elements and their number are as they should be in all states.
LEMMA HashAlways ==
  ASSUME CarefulRemoval
  PROVE  Spec => []HashInv
<1>1. HashInv /\ [Next]_vars => HashInv'
  BY HashNext
<1> QED
  BY HashInit, <1>1, PTL DEF Spec

\* Whatever is added, removed and displaced, and however often the table grows, between
\* calls get() finds what is stored and nothing else: the path to an element is never
\* interrupted by a free place.
THEOREM StoredKeysAreFound ==
  ASSUME CarefulRemoval
  PROVE  Spec => []FoundExactly
<1>1. HashInv => FoundExactly
  BY IdleFound DEF FoundExactly
<1> QED
  BY <1>1, HashAlways, PTL

\* size() counts the elements in the table, and no element is lost, doubled or put in by
\* a displacement or while the table grows.
THEOREM CountsAreRight ==
  ASSUME CarefulRemoval
  PROVE  Spec => []CountExact
<1>1. HashInv => CountExact
  <2> SUFFICES ASSUME HashInv
               PROVE  CountExact
    OBVIOUS
  <2> DEFINE keys == {table[p].key : p \in Occupied} \cup Range(old) \cup ({hand} \ {None})
  <2>1. /\ stored \subseteq Keys /\ hand \in Keys \cup {None} /\ (\A i \in DOMAIN old : old[i] \in Keys)
        /\ \A p \in Occupied : table[p].key \in Keys
    BY OccupiedType DEF HashInv, TypeInv, CallTypes
  <2>2. \A k \in Keys : k \in keys <=> InTable(k) \/ ToMove(k) \/ k = hand
    BY HashAssumption DEF Range, InTable, ToMove
  <2>3. keys \subseteq Keys
    BY <2>1 DEF Range
  <2> HIDE DEF keys
  <2>4. keys = stored
    BY <2>1, <2>2, <2>3 DEF HashInv, OnceInv
  <2> QED
    BY <2>4 DEF CountExact, keys, HashInv, CountInv, Total
<1> QED
  BY <1>1, HashAlways, PTL

=============================================================================
