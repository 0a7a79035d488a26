------------------------------ MODULE OpenHash ------------------------------
(***************************************************************************)
(* pwx::TOpenHash (src/src/container/TOpenHash.h) on its base VTHashBase:  *)
(* a table of elements that are found by probing, in which removed ones    *)
(* leave "vacated" places, new ones may take the place of others that are  *)
(* nearer to their base ("Robin Hood"), and which grows when it is full.   *)
(*                                                                         *)
(* One thread uses the table, or several whose calls the container's lock  *)
(* keeps apart. Elements are put into the table one per step.              *)
(***************************************************************************)
EXTENDS OpenHashProbe, FiniteSetsExt

CONSTANTS Keys,
          None,             \* no key: nullptr
          Vacated,          \* the mark of a place whose element was removed
          Primary,          \* the hash of each key
          Secondary,        \* the hash of each primary hash
          InitSizes,        \* the sizes a table may be created with
          GrowTargets,      \* the sizes users ask grow() for
          MaxSize,          \* bound: larger than any table with these keys gets
          MaxLoad, Growth,  \* maxLoadFactor and dynGrowFactor, in percent
          CarefulRemoval    \* TRUE: only keys that are there are removed

ASSUME HashAssumption ==
  /\ None \notin Keys /\ Vacated \notin Keys /\ None # Vacated
  /\ {None, Vacated} \cap [key : Keys, hops : Nat] = {}
  /\ IsFiniteSet(Keys) /\ MaxSize \in Nat
  /\ Primary \in [Keys -> Nat]
  /\ \A k \in Keys : Secondary[Primary[k]] \in Nat
  /\ \A s \in InitSizes \cup GrowTargets : s \in Nat \ {0, 1, 2, 3, 4, 6}
  /\ MaxLoad \in 1 .. 99 /\ Growth \in Nat /\ Growth > 100
  /\ CarefulRemoval \in BOOLEAN

VARIABLES size,      \* hashSize
          division,  \* CHMethod is CHM_Division
          table,     \* hashTable: None, Vacated or an element with key and hops
          count,     \* eCount
          removing,  \* 1 if the counter of removals in progress is above 0
          pc,        \* what the call in progress does next
          hand,      \* the key of the element to be inserted
          old,       \* what grow() has still to move: places of the old table, with keys
          stored     \* history: the keys users have added and not removed

vars == <<size, division, table, count, removing, pc, hand, old, stored>>

Sizes == {5} \cup 7 .. MaxSize
Paths == [k \in Keys, s \in Sizes, d \in BOOLEAN |->
            Path(Primary[k], Secondary[Primary[k]], s, d)]

\* Every path stays in its table, and the bound holds all that users ask for and
\* all that a table grows to which is too small for the keys.
ASSUME PathAssumption ==
  /\ \A k \in Keys, s \in Sizes, d \in BOOLEAN : Paths[k, s, d] \in [1 .. s + 1 -> 0 .. s - 1]
  /\ InitSizes \cup GrowTargets \subseteq Sizes
  /\ \A s \in Sizes :
       Cardinality(Keys) * 100 > MaxLoad * s => (s * Growth) \div 100 <= MaxSize

\* Where the search for a key is after i hops.
Place(k, i)  == Paths[k, size, division][i + 1]

Positions    == 0 .. size - 1
Occupied     == {p \in Positions : table[p] \notin {None, Vacated}}
HasKey(p, k) == p \in Occupied /\ table[p].key = k

Init ==
  /\ size \in InitSizes
  /\ division = TRUE
  /\ table = [p \in Positions |-> None]
  /\ count = 0
  /\ removing = 0
  /\ pc = "idle"
  /\ hand = None
  /\ old = <<>>
  /\ stored = {}

-----------------------------------------------------------------------------
(* privGetIndex(): along the key's path to the first place that will do,   *)
(* or, if none does, whatever comes next.                                  *)

FirstOf(stops) == IF stops = {} THEN size ELSE Min(stops)

\* Mutation: the search for a key ends at vacated places.
SearchVacated(k) ==
  Place(k, FirstOf({i \in Positions : \/ table[Place(k, i)] \in {None, Vacated}
                                      \/ HasKey(Place(k, i), k)}))

\* Where a key is, or would be. Vacated places are jumped over.
Search(k) ==
  Place(k, FirstOf({i \in Positions : table[Place(k, i)] = None \/ HasKey(Place(k, i), k)}))

\* Mutation: vacated places are jumped over when a key is inserted, too.
SuitableFresh(k, p, i) == \/ table[p] = None
                          \/ HasKey(p, k)
                          \/ i > 1 /\ p \in Occupied /\ table[p].hops < i - 1

\* Mutation: an element with as many hops has to give up its place.
SuitableEager(k, p, i) == table[p] \in {None, Vacated} \/ HasKey(p, k) \/ table[p].hops <= i

\* A new element goes to a free place or to one whose element has at least two
\* hops less. The counter of hops tells how far that is.
Suitable(k, p, i) == \/ table[p] \in {None, Vacated}
                     \/ HasKey(p, k)
                     \/ i > 1 /\ table[p].hops < i - 1

InsertHops(k) == FirstOf({i \in Positions : Suitable(k, Place(k, i), i)})

\* get() and exists().
Found(k) == HasKey(Search(k), k)

-----------------------------------------------------------------------------
(* grow() *)

\* It waits until no element is being removed, then starts with a new table. If
\* that has six places the search for the first element's step goes on for ever.
StartGrow(target) ==
  /\ IF removing > 0 \/ target = 6
     THEN /\ pc' = "hung"
          /\ UNCHANGED <<size, division, table, count, old>>
     ELSE /\ pc' = "grow"
          /\ size' = target
          /\ division' = UsesDivision(target)
          /\ table' = [p \in 0 .. target - 1 |-> None]
          /\ count' = 0
          /\ old' = [p \in Occupied |-> table[p].key]
  /\ UNCHANGED <<removing, hand, stored>>

Grow ==
  /\ pc = "idle"
  /\ \E target \in GrowTargets : target > size /\ StartGrow(target)

Move ==
  /\ pc = "grow" /\ hand = None
  /\ old # <<>>
  /\ hand' = old[Min(DOMAIN old)]
  /\ old' = Restrict(old, DOMAIN old \ {Min(DOMAIN old)})
  /\ UNCHANGED <<size, division, table, count, removing, pc, stored>>

Grown ==
  /\ pc = "grow" /\ hand = None
  /\ old = <<>>
  /\ pc' = "idle"
  /\ UNCHANGED <<size, division, table, count, removing, hand, old, stored>>

-----------------------------------------------------------------------------
(* add() *)

Add(k) ==
  /\ pc = "idle"
  /\ ~Found(k)
  /\ pc' = "add"
  /\ hand' = k
  /\ stored' = stored \cup {k}
  /\ UNCHANGED <<size, division, table, count, removing, old>>

\* privInsert(): one round of its loop. An element that has to give up its
\* place is the next one to be inserted.
Insert ==
  /\ pc \in {"add", "grow"} /\ hand # None
  /\ LET hops == InsertHops(hand)
         p    == Place(hand, hops)
     IN /\ table' = [table EXCEPT ![p] = [key |-> hand, hops |-> hops]]
        /\ hand' = IF p \in Occupied THEN table[p].key ELSE None
        /\ count' = IF p \in Occupied THEN count ELSE count + 1
  /\ UNCHANGED <<size, division, removing, pc, old, stored>>

\* The new element is in: the table grows if the load factor is exceeded.
Added ==
  LET target == (size * Growth) \div 100
  IN /\ pc = "add" /\ hand = None
     /\ IF count * 100 > MaxLoad * size /\ target > size
        THEN StartGrow(target)
        ELSE /\ pc' = "idle"
             /\ UNCHANGED <<size, division, table, count, removing, hand, old, stored>>

-----------------------------------------------------------------------------
(* Removal *)

\* Mutation: the count goes down even if there is nothing to remove.
RemoveIdxCounts(p) ==
  /\ table' = IF p \in Occupied THEN [table EXCEPT ![p] = Vacated] ELSE table
  /\ count' = count - 1

\* privRemoveIdx(): an index behind the table and a place without an element
\* are left alone.
RemoveIdx(p) ==
  /\ table' = IF p \in Occupied THEN [table EXCEPT ![p] = Vacated] ELSE table
  /\ count' = IF p \in Occupied THEN count - 1 ELSE count

\* What is in a place comes out of the table and into the hands of the user.
Taken(p) == IF p \in Occupied THEN {table[p].key} ELSE {}

\* remKey(), delKey(), remElem() and delElem().
RemoveKey(k) ==
  /\ pc = "idle"
  /\ CarefulRemoval => k \in stored
  /\ RemoveIdx(Search(k))
  /\ stored' = stored \ {k}
  /\ UNCHANGED <<size, division, removing, pc, hand, old>>

\* pop_back() and pop_front() return from within their search, and leave the
\* counter of removals as it is then.
PopBack ==
  /\ pc = "idle" /\ count > 0
  /\ RemoveIdx(Max(Occupied))
  /\ stored' = stored \ Taken(Max(Occupied))
  /\ removing' = 1
  /\ UNCHANGED <<size, division, pc, hand, old>>

\* The place that is emptied is the one behind the first element.
PopFront ==
  /\ pc = "idle" /\ count > 0
  /\ RemoveIdx(Min(Occupied) + 1)
  /\ stored' = stored \ Taken(Min(Occupied) + 1)
  /\ removing' = 1
  /\ UNCHANGED <<size, division, pc, hand, old>>

\* clear() waits until no element is being removed. Vacated places stay.
Clear ==
  /\ pc = "idle"
  /\ IF removing > 0
     THEN pc' = "hung" /\ UNCHANGED <<table, count, stored>>
     ELSE /\ table' = [p \in Positions |-> IF p \in Occupied THEN None ELSE table[p]]
          /\ count' = 0
          /\ stored' = {}
          /\ UNCHANGED pc
  /\ UNCHANGED <<size, division, removing, hand, old>>

-----------------------------------------------------------------------------
Step == Move \/ Grown \/ Insert \/ Added
Call == (\E k \in Keys : Add(k) \/ RemoveKey(k)) \/ Grow \/ PopBack \/ PopFront \/ Clear

Next == Step \/ Call
Spec == Init /\ [][Next]_vars /\ WF_vars(Step)

-----------------------------------------------------------------------------
(* Properties *)

\* Tables are created with the division method, whatever their size.
Methods(s) == {UsesDivision(s)} \cup (IF s \in InitSizes THEN {TRUE} ELSE {})

\* What hashes, steps and factors must be like for PlaceReached: each path has
\* more places than elements may be there, and a table that is too small is followed
\* by one with room for at least one more. Nothing in the code sees to that, and
\* the other properties do without.
PathsReach ==
  \A k \in Keys, s \in Sizes : \A d \in Methods(s) :
    Cardinality({Paths[k, s, d][i] : i \in 1 .. s}) * 100 > MaxLoad * s

RoomToGrow ==
  \A s \in Sizes : Cardinality(Keys) * 100 > MaxLoad * s =>
    LET target == (s * Growth) \div 100
    IN target \in Sizes /\ target > s /\ MaxLoad * target >= MaxLoad * s + 100

TypeOK ==
  /\ size \in Nat /\ division \in BOOLEAN
  /\ table \in [Positions -> [key : Keys, hops : 0 .. size] \cup {None, Vacated}]
  /\ count \in Nat
  /\ removing \in {0, 1}
  /\ pc \in {"idle", "add", "grow", "hung"}
  /\ hand \in Keys \cup {None}
  /\ Range(old) \subseteq Keys
  /\ stored \subseteq Keys

\* Between calls get() finds the keys that were added and not removed, and no
\* others: through vacated places, displaced elements and growing tables.
FoundExactly == pc = "idle" => \A k \in Keys : Found(k) <=> k \in stored

\* size() is the number of elements in the table, and no two of them, those
\* on their way included, have the same key.
CountExact ==
  /\ count = Cardinality(Occupied)
  /\ LET keys == {table[p].key : p \in Occupied} \cup Range(old) \cup ({hand} \ {None})
     IN keys = stored /\ Cardinality(keys)
                           = count + Cardinality(DOMAIN old) + (IF hand = None THEN 0 ELSE 1)

\* An insertion never has to give up and take whatever place comes next: with
\* the load limited, each path meets a place that suits.
PlaceReached ==
  hand # None => InsertHops(hand) < size

\* add() and grow() return: displacing elements comes to an end.
CallsReturn == pc \in {"add", "grow"} ~> pc \in {"idle", "hung"}

\* VTHashBase.h:115: clear() is to "wait until all actions ceased", grow() too.
\* With one thread there are none when it is called.
NeverHangs == pc # "hung"
=============================================================================
