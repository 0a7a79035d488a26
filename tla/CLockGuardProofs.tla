--------------------------- MODULE CLockGuardProofs ---------------------------
(***************************************************************************)
(* Proofs about CLockGuard, for any set of threads and objects, any finite *)
(* number of guards, and any groups of up to three objects.                *)
(***************************************************************************)
EXTENDS CLockGuard, FiniteSetTheorems, TLAPS

-----------------------------------------------------------------------------
(* The inductive invariant *)

Three   == 1 .. 3
Triples == [Three -> Objects \cup {Null}]
Groups  == UNION {[1 .. n -> Objects \cup {Null}] : n \in Three}
Calls   == [at : CallPlaces, guard : Guards \cup {NoGuard}, want : Groups,
            todo : SUBSET Three, got : SUBSET Three, next : Guards \cup {NoGuard}]

GuardTypes ==
  /\ holds \in [Objects -> [Threads -> Nat]]
  /\ destroyed \subseteq Objects
  /\ slots \in [Threads -> [Guards -> Triples]]
  /\ direct \in [Threads -> [Objects -> Nat]]
  /\ call \in [Threads -> Calls]

\* How often a group names an object in some of its places; how often the guards in G do
\* whose slots are f; what a thread with own locks and these slots should have.
CountIn(places, group, o) == Cardinality({i \in places : group[i] = o})
Sum(G, f, o) == Cardinality({slot \in G \X Three : f[slot[1]][slot[2]] = o})
Owed(f, own, o) == own + Sum(Guards, f, o)

\* What belongs to each place of the call c of a thread whose guards have the slots f. A
\* thread that takes over has a next guard; the one it takes over from asks for nothing.
Shape(c, f) ==
  /\ c.at \in {"drop", "yield"} => c.guard # NoGuard
  /\ c.at \in {"idle", "ask", "unlock"} => c.guard = NoGuard
  /\ c.guard = NoGuard => c.next = NoGuard
  /\ c.guard # NoGuard => c.want \in Triples
  /\ c.next # NoGuard => c.next # c.guard /\ c.want = Empty /\ c.at \in {"drop", "try"}
  /\ c.at = "drop" => c.todo \subseteq Places(f[c.guard])
  /\ c.at \in {"try", "back", "ask", "unlock"} => c.todo \subseteq Places(c.want)
  /\ c.at \in {"try", "back"} => c.got \subseteq Places(c.want)
  /\ c.at = "try" => c.got \cap c.todo = {}
  /\ c.at \in {"try", "back", "yield"} /\ c.guard # NoGuard => f[c.guard] = c.want

\* What the next guard has been given but not locked; nobody but the two guards has it.
Handed(c, f, o) == IF c.next = NoGuard THEN 0 ELSE Times(o, f[c.next])
Alone(c, f, own, o) ==
  c.next # NoGuard /\ Times(o, f[c.next]) > 0
    => Owed(f, own, o) = Times(o, f[c.next]) + Times(o, f[c.guard])

\* How the locks a thread has on o differ from what it should have on the way through c.
Dropping(c, f, has, own, o) ==
  \/ has + CountIn(Three \ c.todo, f[c.guard], o) + Handed(c, f, o) = Owed(f, own, o)
  \/ /\ has + Times(o, f[c.guard]) + Handed(c, f, o) = Owed(f, own, o)
     /\ Times(o, f[c.guard]) > 0 => has = 0

Guarding(c, f, has, own, o) ==
  /\ c.at = "drop" => Dropping(c, f, has, own, o)
  /\ c.at = "try" => has + CountIn(Three \ c.got, c.want, o) + Handed(c, f, o) = Owed(f, own, o)
  /\ c.at = "back" => has + CountIn(Three \ c.todo, c.want, o) = Owed(f, own, o)
  /\ c.at = "yield" => has + Times(o, c.want) = Owed(f, own, o)

Using(c, f, has, own, o) ==
  /\ c.at \in {"idle", "ask", "unlock"} => has = Owed(f, own, o)
  /\ c.at = "try" => has = Owed(f, own, o) + CountIn(c.got, c.want, o)
  /\ c.at = "back" => has = Owed(f, own, o) + CountIn(c.todo, c.want, o)
  /\ c.at = "ask" => has = 0 \/ Times(o, c.want) <= own
  /\ c.at = "unlock" => has = 0 \/ CountIn(c.todo, c.want, o) <= own

Balance(c, f, has, own, o) ==
  IF c.guard = NoGuard THEN Using(c, f, has, own, o) ELSE Guarding(c, f, has, own, o)

Balanced(t) ==
  /\ Shape(call[t], slots[t])
  /\ \A o \in Objects \ destroyed : /\ Alone(call[t], slots[t], direct[t][o], o)
                                    /\ Balance(call[t], slots[t], holds[o][t], direct[t][o], o)

BalanceInv == \A t \in Threads : Balanced(t)

-----------------------------------------------------------------------------
(* Counting *)

LEMMA ThreeFinite == IsFiniteSet(Three) /\ \A S \in SUBSET Three : IsFiniteSet(S)
<1>1. 1 \in Int /\ 3 \in Int  OBVIOUS
<1>2. IsFiniteSet(1 .. 3)  BY ONLY <1>1, FS_Interval
<1>3. IsFiniteSet(Three)  BY <1>2 DEF Three
<1>4. QED  BY <1>3, FS_Subset

LEMMA CountFinite ==
  ASSUME NEW S \in SUBSET Three, NEW group, NEW o
  PROVE  IsFiniteSet({i \in S : group[i] = o}) /\ CountIn(S, group, o) \in Nat
<1>1. {i \in S : group[i] = o} \in SUBSET Three  OBVIOUS
<1>2. IsFiniteSet({i \in S : group[i] = o})  BY <1>1, ThreeFinite
<1>3. QED  BY <1>2, FS_CardinalityType DEF CountIn

LEMMA CountAdd ==
  ASSUME NEW S \in SUBSET Three, NEW i \in Three \ S, NEW group, NEW o
  PROVE  CountIn(S \cup {i}, group, o) = CountIn(S, group, o) + (IF group[i] = o THEN 1 ELSE 0)
<1> DEFINE A == {j \in S : group[j] = o}
           B == {j \in S \cup {i} : group[j] = o}
<1>1. IsFiniteSet(A) /\ Cardinality(A) = CountIn(S, group, o) /\ Cardinality(B) = CountIn(S \cup {i}, group, o)
  BY CountFinite DEF CountIn
<1>2. i \notin A  OBVIOUS
<1>3. CASE group[i] = o
  <2>1. B = A \cup {i}  BY <1>3
  <2> HIDE DEF A, B
  <2>2. QED  BY <1>1, <1>2, <1>3, <2>1, FS_AddElement
<1>4. CASE group[i] # o
  <2>1. B = A  BY <1>4
  <2> HIDE DEF A, B
  <2>2. CountIn(S, group, o) \in Nat  BY CountFinite
  <2>3. QED  BY <1>1, <1>4, <2>1, <2>2
<1>5. QED  BY <1>3, <1>4

LEMMA CountRemove ==
  ASSUME NEW S \in SUBSET Three, NEW i \in S, NEW group, NEW o
  PROVE  CountIn(S, group, o) = CountIn(S \ {i}, group, o) + (IF group[i] = o THEN 1 ELSE 0)
<1>1. S \ {i} \in SUBSET Three /\ i \in Three \ (S \ {i}) /\ (S \ {i}) \cup {i} = S  OBVIOUS
<1>2. QED  BY <1>1, CountAdd

LEMMA CountNone ==
  ASSUME NEW group, NEW o
  PROVE  CountIn({}, group, o) = 0
<1>1. {i \in {} : group[i] = o} = {}  OBVIOUS
<1>2. QED  BY <1>1, FS_EmptySet DEF CountIn

LEMMA TimesIsCount ==
  ASSUME NEW group \in Groups, NEW o
  PROVE  /\ Times(o, group) = CountIn(DOMAIN group, group, o)
         /\ DOMAIN group \in SUBSET Three /\ Times(o, group) \in Nat
<1>1. DOMAIN group \in SUBSET Three
  <2>1. PICK n \in Three : group \in [1 .. n -> Objects \cup {Null}]  BY DEF Groups
  <2>2. DOMAIN group = 1 .. n /\ 1 .. n \subseteq Three  BY <2>1 DEF Three
  <2>3. QED  BY <2>2
<1>2. Times(o, group) = CountIn(DOMAIN group, group, o)  BY DEF Times, CountIn
<1>3. QED  BY <1>1, <1>2, CountFinite

\* All the places that are not nullptr are enough.
LEMMA CountPlaces ==
  ASSUME NEW group \in Groups, NEW o \in Objects, NEW S, Places(group) \subseteq S, S \subseteq DOMAIN group
  PROVE  CountIn(S, group, o) = Times(o, group)
<1>1. o # Null  BY GroupAssumption DEF GroupAssumption
<1>2. {i \in S : group[i] = o} = {i \in DOMAIN group : group[i] = o}  BY <1>1 DEF Places
<1>3. QED  BY <1>2 DEF CountIn, Times

LEMMA CountBound ==
  ASSUME NEW group \in Groups, NEW o, NEW S, S \subseteq DOMAIN group
  PROVE  CountIn(S, group, o) <= Times(o, group) /\ CountIn(S, group, o) \in Nat
<1>1. DOMAIN group \in SUBSET Three /\ S \in SUBSET Three  BY TimesIsCount
<1>2. IsFiniteSet({i \in DOMAIN group : group[i] = o})  BY <1>1, CountFinite
<1>3. {i \in S : group[i] = o} \in SUBSET {i \in DOMAIN group : group[i] = o}  OBVIOUS
<1>4. CountIn(S, group, o) <= Times(o, group)  BY <1>2, <1>3, FS_Subset DEF CountIn, Times
<1>5. QED  BY <1>1, <1>4, CountFinite

LEMMA TripleIsGroup == Triples \subseteq Groups /\ \A w \in Triples : DOMAIN w = Three
<1>1. 3 \in Three /\ Three = 1 .. 3  BY DEF Three
<1>2. QED  BY <1>1 DEF Triples, Groups

LEMMA SumSplit ==
  ASSUME NEW G \in SUBSET Guards, NEW g \in G, NEW f \in [Guards -> Triples], NEW o
  PROVE  /\ Sum(G, f, o) = Sum(G \ {g}, f, o) + Times(o, f[g])
         /\ Sum(G, f, o) \in Nat /\ Sum(G \ {g}, f, o) \in Nat /\ Times(o, f[g]) \in Nat
<1> DEFINE A == {slot \in (G \ {g}) \X Three : f[slot[1]][slot[2]] = o}
           B == {slot \in {g} \X Three : f[slot[1]][slot[2]] = o}
           C == {slot \in G \X Three : f[slot[1]][slot[2]] = o}
           T == {i \in DOMAIN f[g] : f[g][i] = o}
<1>1. IsFiniteSet(G) /\ IsFiniteSet(G \X Three)
  <2>1. IsFiniteSet(Guards)  BY GroupAssumption DEF GroupAssumption
  <2>2. IsFiniteSet(G)  BY <2>1, FS_Subset
  <2>3. QED  BY <2>2, ThreeFinite, FS_Product
<1>2. C = A \cup B /\ A \cap B = {}  OBVIOUS
<1>3. IsFiniteSet(C) /\ IsFiniteSet(A) /\ IsFiniteSet(B)
  <2>1. A \in SUBSET (G \X Three) /\ B \in SUBSET (G \X Three) /\ C \in SUBSET (G \X Three)  OBVIOUS
  <2> HIDE DEF A, B, C
  <2>2. QED  BY <1>1, <2>1, FS_Subset
<1>4. Cardinality(C) = Cardinality(A) + Cardinality(B)
  <2> HIDE DEF A, B, C
  <2>1. Cardinality(C) = Cardinality(A) + Cardinality(B) - Cardinality(A \cap B)
    BY <1>2, <1>3, FS_Union
  <2>2. Cardinality(A \cap B) = 0  BY <1>2, FS_EmptySet
  <2>3. Cardinality(A) \in Nat /\ Cardinality(B) \in Nat  BY <1>3, FS_CardinalityType
  <2>4. QED  BY <2>1, <2>2, <2>3
<1>5. Cardinality(T) = Cardinality(B)
  <2>1. T \in SUBSET Three  BY DEF Triples
  <2>2. IsFiniteSet(T)  BY <2>1, ThreeFinite
  <2> DEFINE pair == [i \in T |-> <<g, i>>]
  <2>3. pair \in Bijection(T, B)
    <3>1. \A i \in T : pair[i] \in B  BY <2>1
    <3>2. \A i, j \in T : pair[i] = pair[j] => i = j  OBVIOUS
    <3>3. \A b \in B : \E i \in T : pair[i] = b
      <4>1. SUFFICES ASSUME NEW b \in B PROVE \E i \in T : pair[i] = b  OBVIOUS
      <4>2. b = <<g, b[2]>> /\ b[2] \in Three /\ f[g][b[2]] = o  OBVIOUS
      <4>3. b[2] \in T  BY <4>2 DEF Triples
      <4>4. QED  BY <4>2, <4>3
    <3>4. pair \in [T -> B]  BY <3>1
    <3> HIDE DEF pair, T, B
    <3>5. QED  BY <3>2, <3>3, <3>4 DEF Bijection, Injection, Surjection, IsInjective
  <2>4. ExistsBijection(T, B)  BY <2>3 DEF ExistsBijection
  <2> HIDE DEF T, B, pair
  <2>5. QED  BY <2>2, <2>4, FS_Bijection
<1>6. Cardinality(A) \in Nat /\ Cardinality(B) \in Nat /\ Cardinality(C) \in Nat
  <2> HIDE DEF A, B, C
  <2>1. QED  BY <1>3, FS_CardinalityType
<1>7. Times(o, f[g]) = Cardinality(T)  BY DEF Times
<1>8. Sum(G, f, o) = Cardinality(C) /\ Sum(G \ {g}, f, o) = Cardinality(A)  BY DEF Sum
<1> HIDE DEF A, B, C, T
<1>9. QED  BY <1>4, <1>5, <1>6, <1>7, <1>8

\* The slots of one guard change.
LEMMA SumChange ==
  ASSUME NEW f \in [Guards -> Triples], NEW h \in [Guards -> Triples], NEW g \in Guards, NEW o,
         \A k \in Guards \ {g} : h[k] = f[k]
  PROVE  /\ Sum(Guards, h, o) + Times(o, f[g]) = Sum(Guards, f, o) + Times(o, h[g])
         /\ Times(o, f[g]) \in Nat /\ Times(o, h[g]) \in Nat
         /\ Sum(Guards, f, o) \in Nat /\ Sum(Guards, h, o) \in Nat
<1>1. {slot \in (Guards \ {g}) \X Three : h[slot[1]][slot[2]] = o}
        = {slot \in (Guards \ {g}) \X Three : f[slot[1]][slot[2]] = o}
  OBVIOUS
<1>2. Sum(Guards \ {g}, h, o) = Sum(Guards \ {g}, f, o)  BY <1>1 DEF Sum
<1>3. /\ Sum(Guards, h, o) = Sum(Guards \ {g}, h, o) + Times(o, h[g])
      /\ Sum(Guards, h, o) \in Nat /\ Sum(Guards \ {g}, h, o) \in Nat /\ Times(o, h[g]) \in Nat
  BY SumSplit
<1>4. /\ Sum(Guards, f, o) = Sum(Guards \ {g}, f, o) + Times(o, f[g])
      /\ Sum(Guards, f, o) \in Nat /\ Times(o, f[g]) \in Nat
  BY SumSplit
<1>5. Sum(Guards, h, o) + Times(o, f[g]) = Sum(Guards, f, o) + Times(o, h[g])  BY <1>2, <1>3, <1>4
<1>6. QED  BY <1>3, <1>4, <1>5

\* Two guards are part of all.
LEMMA SumTwo ==
  ASSUME NEW f \in [Guards -> Triples], NEW g \in Guards, NEW h \in Guards \ {g}, NEW o
  PROVE  Times(o, f[g]) + Times(o, f[h]) <= Sum(Guards, f, o)
<1>1. /\ Sum(Guards, f, o) = Sum(Guards \ {g}, f, o) + Times(o, f[g])
      /\ Times(o, f[g]) \in Nat
  BY SumSplit
<1>2. /\ Sum(Guards \ {g}, f, o) = Sum((Guards \ {g}) \ {h}, f, o) + Times(o, f[h])
      /\ Sum((Guards \ {g}) \ {h}, f, o) \in Nat /\ Times(o, f[h]) \in Nat
  BY SumSplit
<1>3. QED  BY <1>1, <1>2

LEMMA DueIsOwed ==
  ASSUME NEW t \in Threads, NEW o
  PROVE  Due(t, o) = Owed(slots[t], direct[t][o], o)
  BY DEF Due, Guarded, Owed, Sum, Three

LEMMA TimesType ==
  ASSUME NEW w \in Triples, NEW o
  PROVE  Times(o, w) \in Nat
  BY TripleIsGroup, TimesIsCount

LEMMA EmptyTriple == Empty \in Triples /\ \A o \in Objects : Times(o, Empty) = 0
<1>1. Empty \in Triples  BY DEF Empty, Triples, Three
<1>2. ASSUME NEW o \in Objects PROVE Times(o, Empty) = 0
  <2>1. Places(Empty) = {}  BY DEF Places, Empty
  <2>2. Times(o, Empty) = CountIn({}, Empty, o)  BY <1>1, <2>1, TripleIsGroup, CountPlaces
  <2>3. QED  BY <2>2, CountNone
<1>3. QED  BY <1>1, <1>2

\* Outside of its places a group names no object.
LEMMA CountOutside ==
  ASSUME NEW w, NEW S, S \cap Places(w) = {}, S \subseteq DOMAIN w, NEW o \in Objects
  PROVE  CountIn(S, w, o) = 0
<1>1. o # Null  BY GroupAssumption DEF GroupAssumption
<1>2. {i \in S : w[i] = o} = {}  BY <1>1 DEF Places
<1>3. QED  BY <1>2, FS_EmptySet DEF CountIn

-----------------------------------------------------------------------------
(* The types, and what a thread leaves alone of the others *)

OnlyOf(t) ==
  /\ destroyed \subseteq destroyed'
  /\ \A u \in Threads \ {t} :
       /\ call'[u] = call[u] /\ slots'[u] = slots[u] /\ direct'[u] = direct[u]
       /\ \A o \in Objects : holds'[o][u] = holds[o][u]

LEMMA OthersBalanced ==
  ASSUME BalanceInv, NEW t, OnlyOf(t), NEW u \in Threads \ {t}
  PROVE  Balanced(u)'
<1>1. Balanced(u)  BY DEF BalanceInv
<1>2. /\ destroyed \subseteq destroyed'
      /\ call'[u] = call[u] /\ slots'[u] = slots[u] /\ direct'[u] = direct[u]
      /\ \A o \in Objects : holds'[o][u] = holds[o][u]
  BY DEF OnlyOf
<1>3. QED  BY <1>1, <1>2 DEF Balanced

LEMMA MinIn == ASSUME NEW S \in SUBSET Three, S # {} PROVE Min(S) \in S
<1>1. \E x \in S : \A y \in S : x <= y
  <2>1. CASE 1 \in S  BY <2>1 DEF Three
  <2>2. CASE 1 \notin S /\ 2 \in S  BY <2>2 DEF Three
  <2>3. CASE 1 \notin S /\ 2 \notin S
    <3>1. \A y \in S : y = 3  BY <2>3 DEF Three
    <3>2. PICK x \in S : TRUE  OBVIOUS
    <3>3. QED  BY <3>1, <3>2
  <2>4. QED  BY <2>1, <2>2, <2>3
<1>2. QED  BY <1>1 DEF Min

LEMMA PlaceIn ==
  ASSUME GuardTypes, NEW t \in Threads, call[t].todo # {}
  PROVE  Place(t) \in call[t].todo /\ Place(t) \in Three
<1>1. call[t].todo \in SUBSET Three  BY DEF GuardTypes, Calls
<1>2. QED  BY <1>1, MinIn DEF Place

LEMMA PlacesOfGroup == ASSUME NEW w \in Groups PROVE Places(w) \in SUBSET Three
  BY TimesIsCount DEF Places

LEMMA IdleCall == Idle \in Calls
<1>1. Empty \in Groups  BY EmptyTriple, TripleIsGroup
<1>2. QED  BY <1>1 DEF Idle, Calls, CallPlaces

LEMMA ResetToIs ==
  ASSUME GuardTypes, NEW t \in Threads, NEW g \in Guards, NEW w \in Triples
  PROVE  /\ ResetTo(t, g, w) = [at |-> "drop", guard |-> g, want |-> w,
                                todo |-> Places(slots[t][g]), got |-> {}, next |-> NoGuard]
         /\ ResetTo(t, g, w) \in Calls
<1>1. ResetTo(t, g, w) = [at |-> "drop", guard |-> g, want |-> w,
                          todo |-> Places(slots[t][g]), got |-> {}, next |-> NoGuard]
  BY DEF ResetTo
<1>2. w \in Groups /\ slots[t][g] \in Groups  BY TripleIsGroup DEF GuardTypes
<1>3. Places(slots[t][g]) \in SUBSET Three  BY <1>2, PlacesOfGroup
<1>4. QED  BY <1>1, <1>2, <1>3 DEF Calls, CallPlaces

LEMMA AttemptIs ==
  ASSUME NEW c \in Calls, NEW w \in Groups
  PROVE  /\ Attempt(w, c) = [at |-> "try", guard |-> c.guard, want |-> w,
                             todo |-> Places(w), got |-> {}, next |-> c.next]
         /\ Attempt(w, c) \in Calls
<1>1. Attempt(w, c) = [at |-> "try", guard |-> c.guard, want |-> w,
                       todo |-> Places(w), got |-> {}, next |-> c.next]
  BY DEF Attempt
<1>2. Places(w) \in SUBSET Three  BY PlacesOfGroup
<1>3. c.guard \in Guards \cup {NoGuard} /\ c.next \in Guards \cup {NoGuard}  BY DEF Calls
<1>4. QED  BY <1>1, <1>2, <1>3 DEF Calls, CallPlaces

LEMMA OnwardIs ==
  ASSUME GuardTypes, NEW t \in Threads
  PROVE  /\ Onward(t) \in Calls
         /\ Onward(t).at = call[t].at /\ Onward(t).guard = call[t].guard
         /\ Onward(t).want = call[t].want /\ Onward(t).got = call[t].got
         /\ Onward(t).next = call[t].next
         /\ Onward(t).todo = call[t].todo \ {Place(t)}
<1> DEFINE T == call[t].todo \ {Place(t)}
<1>1. call[t] \in Calls /\ T \in SUBSET Three  BY DEF GuardTypes, Calls
<1>2. Onward(t) = [call[t] EXCEPT !.todo = T]  BY DEF Onward
<1> HIDE DEF T
<1>3. QED  BY <1>1, <1>2 DEF Calls, T

LEMMA UnlockedType ==
  ASSUME GuardTypes, NEW t \in Threads, NEW x \in Objects
  PROVE  /\ Unlocked(x, t) \in [Objects -> [Threads -> Nat]]
         /\ \A o \in Objects : \A u \in Threads :
              Unlocked(x, t)[o][u] = IF o = x /\ u = t /\ holds[o][u] > 0 THEN holds[o][u] - 1 ELSE holds[o][u]
<1>1. holds \in [Objects -> [Threads -> Nat]]  BY DEF GuardTypes
<1>2. CASE holds[x][t] = 0  BY <1>1, <1>2 DEF Unlocked
<1>3. CASE holds[x][t] # 0
  <2>1. Unlocked(x, t) = [holds EXCEPT ![x][t] = @ - 1]  BY <1>3 DEF Unlocked
  <2>2. holds[x][t] - 1 \in Nat /\ holds[x][t] > 0  BY <1>1, <1>3
  <2>3. QED  BY <1>1, <2>1, <2>2
<1>4. QED  BY <1>2, <1>3

\* A step that gives the call of t another state and changes no more than it says.
LEMMA CallMoves ==
  ASSUME GuardTypes, NEW t \in Threads, NEW c \in Calls, Enter(t, c)
  PROVE  call' \in [Threads -> Calls] /\ call'[t] = c /\ \A u \in Threads \ {t} : call'[u] = call[u]
  BY DEF GuardTypes, Enter

LEMMA OnlyTheCall ==
  ASSUME GuardTypes, NEW t \in Threads, NEW c \in Calls, Enter(t, c),
         UNCHANGED <<holds, destroyed, slots, direct>>
  PROVE  GuardTypes' /\ OnlyOf(t) /\ call'[t] = c
<1>1. call' \in [Threads -> Calls] /\ call'[t] = c /\ \A u \in Threads \ {t} : call'[u] = call[u]
  BY CallMoves
<1>2. QED  BY <1>1 DEF GuardTypes, OnlyOf

-----------------------------------------------------------------------------
(* What each step of t keeps *)

Kept(t) == GuardTypes' /\ OnlyOf(t) /\ Balanced(t)'

LEMMA OwedType ==
  ASSUME NEW f \in [Guards -> Triples], NEW own \in Nat, NEW o
  PROVE  Sum(Guards, f, o) \in Nat /\ Owed(f, own, o) \in Nat
<1> DEFINE C == {slot \in Guards \X Three : f[slot[1]][slot[2]] = o}
<1>1. IsFiniteSet(Guards \X Three)
  BY GroupAssumption, ThreeFinite, FS_Product DEF GroupAssumption
<1>2. C \in SUBSET (Guards \X Three)  OBVIOUS
<1>3. Cardinality(C) = Sum(Guards, f, o)  BY DEF Sum
<1> HIDE DEF C
<1>4. Cardinality(C) \in Nat  BY <1>1, <1>2, FS_Subset, FS_CardinalityType
<1>5. QED  BY <1>3, <1>4 DEF Owed

LEMMA ThreadTypes ==
  ASSUME GuardTypes, NEW t \in Threads
  PROVE  /\ call[t] \in Calls /\ slots[t] \in [Guards -> Triples]
         /\ \A o \in Objects : /\ holds[o][t] \in Nat /\ direct[t][o] \in Nat
                               /\ Owed(slots[t], direct[t][o], o) \in Nat
  BY OwedType DEF GuardTypes

\* Outside of calls everything is where it should be.
LEMMA IdleBalanced ==
  ASSUME GuardTypes, BalanceInv, NEW t \in Threads, At(t, "idle")
  PROVE  /\ call[t].guard = NoGuard /\ call[t].next = NoGuard
         /\ \A o \in Objects \ destroyed : holds[o][t] = Owed(slots[t], direct[t][o], o)
<1>1. Balanced(t)  BY DEF BalanceInv
<1>2. call[t].guard = NoGuard /\ call[t].next = NoGuard  BY <1>1 DEF Balanced, Shape, At
<1>3. QED  BY <1>1, <1>2 DEF Balanced, Balance, Using, At

\* A thread outside of calls that has what is due is balanced.
LEMMA BalancedIdle ==
  ASSUME NEW t \in Threads, call'[t] = Idle,
         \A o \in Objects \ destroyed' : holds'[o][t] = Owed(slots'[t], direct'[t][o], o)
  PROVE  Balanced(t)'
<1>1. /\ Idle.at = "idle" /\ Idle.guard = NoGuard /\ Idle.next = NoGuard
      /\ Idle.at \notin {"drop", "yield", "try", "back", "ask", "unlock"}
  BY DEF Idle
<1>2. Shape(Idle, slots'[t])
  <2>1. Idle.todo = {} /\ Idle.got = {}  BY DEF Idle
  <2>2. QED  BY <1>1, <2>1 DEF Shape
<1>3. ASSUME NEW o \in Objects \ destroyed'
      PROVE  /\ Alone(Idle, slots'[t], direct'[t][o], o)
             /\ Balance(Idle, slots'[t], holds'[o][t], direct'[t][o], o)
  BY <1>1 DEF Alone, Balance, Using
<1>4. QED  BY <1>2, <1>3 DEF Balanced

\* reset() begins by unlocking what the guard has.
LEMMA ResetToKept ==
  ASSUME GuardTypes, BalanceInv, NEW t \in Threads, NEW g \in Guards, NEW w \in Triples,
         At(t, "idle"), Enter(t, ResetTo(t, g, w)), UNCHANGED <<holds, destroyed, slots, direct>>
  PROVE  Kept(t)
<1> DEFINE d == ResetTo(t, g, w)
<1>1. /\ d \in Calls /\ d.at = "drop" /\ d.guard = g /\ d.want = w
      /\ d.todo = Places(slots[t][g]) /\ d.got = {} /\ d.next = NoGuard
  BY ResetToIs
<1>2. GuardTypes' /\ OnlyOf(t) /\ call'[t] = d  BY <1>1, OnlyTheCall
<1>3. g # NoGuard  BY GroupAssumption DEF GroupAssumption
<1> HIDE DEF d
<1>4. Shape(d, slots[t])  BY <1>1, <1>3 DEF Shape
<1>5. ASSUME NEW o \in Objects \ destroyed
      PROVE  /\ Alone(d, slots[t], direct[t][o], o)
             /\ Balance(d, slots[t], holds[o][t], direct[t][o], o)
  <2>1. slots[t] \in [Guards -> Triples] /\ holds[o][t] \in Nat  BY ThreadTypes
  <2>2. DOMAIN slots[t][g] = Three  BY <2>1, TripleIsGroup
  <2>3. CountIn(Three \ d.todo, slots[t][g], o) = 0  BY <1>1, <2>2, CountOutside
  <2>4. holds[o][t] = Owed(slots[t], direct[t][o], o)  BY IdleBalanced
  <2>5. Handed(d, slots[t], o) = 0  BY <1>1 DEF Handed
  <2>6. Dropping(d, slots[t], holds[o][t], direct[t][o], o)  BY <1>1, <2>1, <2>3, <2>4, <2>5 DEF Dropping
  <2>7. QED  BY <1>1, <1>3, <2>6 DEF Alone, Balance, Guarding
<1>6. Balanced(t)'  BY <1>2, <1>4, <1>5 DEF Balanced
<1>7. QED  BY <1>2, <1>6 DEF Kept

LEMMA ResetKept ==
  ASSUME GuardTypes, BalanceInv, NEW t \in Threads, Reset(t)
  PROVE  Kept(t)
<1>1. PICK g \in Guards, group \in Requests :
        LET want == [i \in 1 .. 3 |-> IF i <= Len(group) THEN group[i] ELSE slots[t][g][i]]
        IN /\ At(t, "idle")
           /\ Enter(t, ResetTo(t, g, want))
           /\ UNCHANGED <<holds, destroyed, slots, direct>>
  BY DEF Reset
<1> DEFINE want == [i \in 1 .. 3 |-> IF i <= Len(group) THEN group[i] ELSE slots[t][g][i]]
<1>2. want \in Triples
  <2>1. PICK n \in 1 .. 3 : group \in [1 .. n -> Objects \cup {Null}]
    BY GroupAssumption DEF GroupAssumption
  <2>2. Len(group) = n  BY <2>1
  <2>3. slots[t][g] \in Triples  BY DEF GuardTypes
  <2>4. ASSUME NEW i \in 1 .. 3 PROVE want[i] \in Objects \cup {Null}
    BY <2>1, <2>2, <2>3 DEF Triples, Three
  <2>5. QED  BY <2>4 DEF Triples, Three
<1> HIDE DEF want
<1>3. At(t, "idle") /\ Enter(t, ResetTo(t, g, want)) /\ UNCHANGED <<holds, destroyed, slots, direct>>
  BY <1>1 DEF want
<1>4. QED  BY <1>2, <1>3, ResetToKept

LEMMA ClearKept ==
  ASSUME GuardTypes, BalanceInv, NEW t \in Threads, Clear(t)
  PROVE  Kept(t)
  BY EmptyTriple, ResetToKept DEF Clear

\* try_locks() for a user or a guard begins: nothing is locked by it yet.
LEMMA TryLocksKept ==
  ASSUME GuardTypes, BalanceInv, NEW t \in Threads, TryLocks(t)
  PROVE  Kept(t)
<1>1. PICK group \in Requests :
        At(t, "idle") /\ Enter(t, Attempt(group, Idle)) /\ UNCHANGED <<holds, destroyed, slots, direct>>
  BY DEF TryLocks
<1> DEFINE d == Attempt(group, Idle)
<1>2. group \in Groups  BY GroupAssumption DEF GroupAssumption, Groups, Three
<1>3. /\ d \in Calls /\ d.at = "try" /\ d.guard = NoGuard /\ d.want = group
      /\ d.todo = Places(group) /\ d.got = {} /\ d.next = NoGuard
  <2>1. Idle \in Calls /\ Idle.guard = NoGuard /\ Idle.next = NoGuard  BY IdleCall DEF Idle
  <2>2. QED  BY <1>2, <2>1, AttemptIs
<1>4. GuardTypes' /\ OnlyOf(t) /\ call'[t] = d  BY <1>1, <1>3, OnlyTheCall
<1> HIDE DEF d
<1>5. Shape(d, slots[t])  BY <1>3 DEF Shape
<1>6. ASSUME NEW o \in Objects \ destroyed
      PROVE  /\ Alone(d, slots[t], direct[t][o], o)
             /\ Balance(d, slots[t], holds[o][t], direct[t][o], o)
  <2>1. holds[o][t] \in Nat /\ Owed(slots[t], direct[t][o], o) \in Nat  BY ThreadTypes
  <2>2. CountIn(d.got, d.want, o) = 0  BY <1>3, CountNone
  <2>3. holds[o][t] = Owed(slots[t], direct[t][o], o)  BY <1>1, IdleBalanced
  <2>4. QED  BY <1>3, <2>1, <2>2, <2>3 DEF Alone, Balance, Using
<1>7. Balanced(t)'  BY <1>1, <1>4, <1>5, <1>6 DEF Balanced
<1>8. QED  BY <1>4, <1>7 DEF Kept

\* TakeOver(): the target has been given what the source still has locked.
LEMMA TakeOverKept ==
  ASSUME GuardTypes, BalanceInv, CarefulTakeOver, NEW t \in Threads, TakeOver(t)
  PROVE  Kept(t)
<1>1. PICK dst, src \in Guards :
        /\ At(t, "idle") /\ dst # src
        /\ slots[t][dst] = Empty
        /\ \A o \in Objects : Times(o, slots[t][src]) > 0 => Due(t, o) = Times(o, slots[t][src])
        /\ slots' = [slots EXCEPT ![t][dst] = slots[t][src]]
        /\ Enter(t, [ResetTo(t, src, Empty) EXCEPT !.next = dst])
        /\ UNCHANGED <<holds, destroyed, direct>>
  BY DEF TakeOver
<1> DEFINE d == [ResetTo(t, src, Empty) EXCEPT !.next = dst]
           f == slots[t]
           h == slots'[t]
<1>2. /\ d \in Calls /\ d.at = "drop" /\ d.guard = src /\ d.want = Empty
      /\ d.todo = Places(f[src]) /\ d.got = {} /\ d.next = dst
  BY EmptyTriple, ResetToIs DEF Calls
<1>3. f \in [Guards -> Triples]  BY ThreadTypes
<1>4. /\ slots' \in [Threads -> [Guards -> Triples]] /\ h \in [Guards -> Triples]
      /\ h[dst] = f[src] /\ \A k \in Guards \ {dst} : h[k] = f[k]
      /\ h[src] = f[src]
  BY <1>1 DEF GuardTypes
<1>5. src # NoGuard /\ dst # NoGuard  BY GroupAssumption DEF GroupAssumption
<1> HIDE DEF d
<1>6. call' \in [Threads -> Calls] /\ call'[t] = d /\ \A u \in Threads \ {t} : call'[u] = call[u]
  BY <1>1, <1>2, CallMoves DEF d
<1>7. GuardTypes' /\ OnlyOf(t)  BY <1>1, <1>4, <1>6 DEF GuardTypes, OnlyOf
<1>8. Shape(d, h)  BY <1>1, <1>2, <1>4, <1>5, EmptyTriple DEF Shape
<1>9. ASSUME NEW o \in Objects \ destroyed
      PROVE  Alone(d, h, direct[t][o], o) /\ Balance(d, h, holds[o][t], direct[t][o], o)
  <2> DEFINE n == Times(o, f[src])
             own == direct[t][o]
             has == holds[o][t]
  <2>1. n \in Nat /\ own \in Nat /\ has \in Nat  BY <1>3, ThreadTypes, TimesType
  <2>2. Times(o, f[dst]) = 0  BY <1>1, EmptyTriple
  <2>3. Sum(Guards, h, o) + 0 = Sum(Guards, f, o) + n /\ Sum(Guards, f, o) \in Nat /\ Sum(Guards, h, o) \in Nat
    BY <1>3, <1>4, <2>2, SumChange
  <2>4. Owed(h, own, o) = Owed(f, own, o) + n /\ Owed(f, own, o) \in Nat  BY <2>1, <2>3 DEF Owed
  <2>5. n > 0 => Owed(f, own, o) = n  BY <1>1, DueIsOwed
  <2>6. has = Owed(f, own, o)  BY <1>1, IdleBalanced
  <2>7. DOMAIN h[src] = Three  BY <1>4, TripleIsGroup
  <2>8. CountIn(Three \ d.todo, h[src], o) = 0  BY <1>2, <1>4, <2>7, CountOutside
  <2>9. Handed(d, h, o) = n  BY <1>2, <1>4, <1>5 DEF Handed
  <2> HIDE DEF f, h
  <2>10. Alone(d, h, own, o)  BY <1>2, <1>4, <2>1, <2>4, <2>5 DEF Alone
  <2>11. Dropping(d, h, has, own, o)  BY <1>2, <2>1, <2>4, <2>6, <2>8, <2>9 DEF Dropping
  <2>12. QED  BY <1>2, <1>5, <2>10, <2>11 DEF Balance, Guarding
<1>10. Balanced(t)'  BY <1>1, <1>4, <1>6, <1>8, <1>9 DEF Balanced
<1>11. QED  BY <1>7, <1>10 DEF Kept

\* Whatever a step does to the locks of t on one object, the other threads keep theirs.
LEMMA LocksMove ==
  ASSUME GuardTypes, NEW t \in Threads, NEW c \in Calls, Enter(t, c), NEW x \in Objects,
         holds' = Unlocked(x, t), UNCHANGED <<destroyed, slots, direct>>
  PROVE  /\ GuardTypes' /\ OnlyOf(t) /\ call'[t] = c
         /\ \A o \in Objects :
              holds'[o][t] = IF o = x /\ holds[o][t] > 0 THEN holds[o][t] - 1 ELSE holds[o][t]
<1>1. call' \in [Threads -> Calls] /\ call'[t] = c /\ \A u \in Threads \ {t} : call'[u] = call[u]
  BY CallMoves
<1>2. holds' \in [Objects -> [Threads -> Nat]]  BY UnlockedType
<1>3. \A o \in Objects : \A u \in Threads :
        holds'[o][u] = IF o = x /\ u = t /\ holds[o][u] > 0 THEN holds[o][u] - 1 ELSE holds[o][u]
  BY UnlockedType
<1>4. GuardTypes'  BY <1>1, <1>2 DEF GuardTypes
<1>5. OnlyOf(t)  BY <1>1, <1>3 DEF OnlyOf
<1>6. QED  BY <1>1, <1>3, <1>4, <1>5

\* An object that a guard has locked twice at most: one of the two guards of a take over
\* cannot be owed what the other one is.
LEMMA OwedToGuards ==
  ASSUME NEW f \in [Guards -> Triples], NEW own \in Nat, NEW o, NEW c \in Calls,
         c.guard # NoGuard, c.next # c.guard
  PROVE  /\ Times(o, f[c.guard]) + Handed(c, f, o) <= Owed(f, own, o)
         /\ Times(o, f[c.guard]) \in Nat /\ Handed(c, f, o) \in Nat /\ Owed(f, own, o) \in Nat
<1>1. c.guard \in Guards /\ c.next \in Guards \cup {NoGuard}  BY DEF Calls
<1>2. Times(o, f[c.guard]) \in Nat /\ Times(o, f[c.guard]) <= Sum(Guards, f, o)
  <2>1. /\ Sum(Guards, f, o) = Sum(Guards \ {c.guard}, f, o) + Times(o, f[c.guard])
        /\ Sum(Guards \ {c.guard}, f, o) \in Nat /\ Times(o, f[c.guard]) \in Nat
    BY <1>1, SumSplit
  <2>2. QED  BY <2>1
<1>3. Sum(Guards, f, o) \in Nat /\ Owed(f, own, o) = own + Sum(Guards, f, o)  BY OwedType DEF Owed
<1>4. CASE c.next = NoGuard
  <2>1. Handed(c, f, o) = 0  BY <1>4 DEF Handed
  <2>2. QED  BY <1>2, <1>3, <2>1
<1>5. CASE c.next # NoGuard
  <2>1. c.next \in Guards \ {c.guard}  BY <1>1, <1>5
  <2>2. Handed(c, f, o) = Times(o, f[c.next])  BY <1>5 DEF Handed
  <2>3. Times(o, f[c.next]) \in Nat  BY <2>1, TimesType
  <2>4. Times(o, f[c.guard]) + Times(o, f[c.next]) <= Sum(Guards, f, o)  BY <1>1, <2>1, SumTwo
  <2>5. QED  BY <1>2, <1>3, <2>2, <2>3, <2>4
<1>6. QED  BY <1>4, <1>5

\* unlock() for each object of the guard. What is given back is locked, unless the guard has
\* been given objects that were let go: then nothing is locked.
LEMMA DropKept ==
  ASSUME GuardTypes, BalanceInv, NEW t \in Threads, Drop(t)
  PROVE  Kept(t)
<1> DEFINE c == call[t]
           f == slots[t]
           i == Place(t)
           w == f[c.guard]
           x == w[i]
           d == Onward(t)
<1>1. c \in Calls /\ f \in [Guards -> Triples] /\ c.at = "drop" /\ c.todo # {}
  BY ThreadTypes DEF Drop, Working, At
<1>2. Balanced(t) /\ Shape(c, f)  BY DEF BalanceInv, Balanced
<1>3. c.guard # NoGuard /\ c.guard \in Guards /\ w \in Triples /\ c.todo \subseteq Places(w)
  BY <1>1, <1>2 DEF Shape, Calls
<1>4. i \in c.todo /\ i \in Three  BY <1>1, PlaceIn
<1>5. x \in Objects  BY <1>3, <1>4 DEF Places, Triples
<1>6. /\ d \in Calls /\ d.at = "drop" /\ d.guard = c.guard /\ d.want = c.want
      /\ d.todo = c.todo \ {i} /\ d.got = c.got /\ d.next = c.next
  BY <1>1, OnwardIs
<1>7. holds' = Unlocked(x, t) /\ Enter(t, d) /\ UNCHANGED <<destroyed, slots, direct>>  BY DEF Drop
<1> HIDE DEF d
<1>8. /\ GuardTypes' /\ OnlyOf(t) /\ call'[t] = d
      /\ \A o \in Objects :
           holds'[o][t] = IF o = x /\ holds[o][t] > 0 THEN holds[o][t] - 1 ELSE holds[o][t]
  BY <1>5, <1>6, <1>7, LocksMove
<1>9. Shape(d, f)  BY <1>1, <1>2, <1>3, <1>6 DEF Shape
<1>10. ASSUME NEW o \in Objects \ destroyed
       PROVE  Alone(d, f, direct[t][o], o) /\ Balance(d, f, holds'[o][t], direct[t][o], o)
  <2> DEFINE own  == direct[t][o]
             has  == holds[o][t]
             now  == holds'[o][t]
             n    == Times(o, w)
             gone == CountIn(Three \ c.todo, w, o)
             next == CountIn(Three \ d.todo, w, o)
             due  == Owed(f, own, o)
             hand == Handed(c, f, o)
  <2>1. has \in Nat /\ own \in Nat /\ due \in Nat  BY ThreadTypes
  <2>2. n \in Nat /\ hand \in Nat /\ n + hand <= due
    <3>1. c.next # c.guard  BY <1>2, <1>3 DEF Shape
    <3>2. QED  BY <1>1, <1>3, <2>1, <3>1, OwedToGuards
  <2>3. next = gone + (IF x = o THEN 1 ELSE 0) /\ gone \in Nat
    <3>1. Three \ d.todo = (Three \ c.todo) \cup {i} /\ i \in Three \ (Three \ c.todo)
      BY <1>4, <1>6
    <3> DEFINE S == Three \ c.todo
    <3>2. S \in SUBSET Three /\ i \in Three \ S  BY <3>1
    <3> HIDE DEF S
    <3>3. CountIn(S \cup {i}, w, o) = CountIn(S, w, o) + (IF w[i] = o THEN 1 ELSE 0)
      BY <3>2, CountAdd
    <3>4. CountIn(S, w, o) \in Nat  BY <3>2, CountFinite
    <3>5. QED  BY <3>1, <3>3, <3>4 DEF S
  <2>4. next <= n
    <3>1. w \in Groups /\ DOMAIN w = Three  BY <1>3, TripleIsGroup
    <3>2. QED  BY <3>1, CountBound
  <2>5. now = IF o = x /\ has > 0 THEN has - 1 ELSE has  BY <1>8
  <2>6. hand = Handed(d, f, o)  BY <1>6 DEF Handed
  <2>7. Alone(c, f, own, o) /\ Dropping(c, f, has, own, o)
    BY <1>1, <1>2, <1>3 DEF Balanced, Balance, Guarding
  <2>8. Alone(d, f, own, o)  BY <1>6, <2>7 DEF Alone
  <2>9. \/ has + gone + hand = due
        \/ has + n + hand = due /\ (n > 0 => has = 0)
    BY <2>7 DEF Dropping
  <2>10. d.guard = c.guard  BY <1>6
  <2> HIDE DEF own, has, now, n, gone, next, due, hand, c, f, i
  <2>11. \/ now + next + hand = due
         \/ now + n + hand = due /\ (n > 0 => now = 0)
    <3>1. CASE o # x  BY <2>1, <2>2, <2>3, <2>5, <2>9, <3>1
    <3>2. CASE o = x  BY <2>1, <2>2, <2>3, <2>4, <2>5, <2>9, <3>2
    <3>3. QED  BY <3>1, <3>2
  <2>12. Dropping(d, f, now, own, o)
    BY <2>6, <2>10, <2>11 DEF Dropping, own, now, n, next, due, hand, c, f, i
  <2>13. QED  BY <1>3, <1>6, <2>8, <2>12 DEF Balance, Guarding, own, now, c, f
<1>11. Balanced(t)'  BY <1>7, <1>8, <1>9, <1>10 DEF Balanced
<1>12. QED  BY <1>8, <1>11 DEF Kept

\* What the balance says once everything is unlocked.
LEMMA Dropped ==
  ASSUME GuardTypes, BalanceInv, NEW t \in Threads, Finished(t, "drop"), NEW o \in Objects \ destroyed
  PROVE  holds[o][t] + Times(o, slots[t][call[t].guard]) + Handed(call[t], slots[t], o)
           = Owed(slots[t], direct[t][o], o)
<1> DEFINE c == call[t]
           f == slots[t]
           w == f[c.guard]
<1>1. c \in Calls /\ f \in [Guards -> Triples] /\ c.at = "drop" /\ c.todo = {}
  BY ThreadTypes DEF Finished, At
<1>2. Balanced(t) /\ Shape(c, f)  BY DEF BalanceInv, Balanced
<1>3. c.guard # NoGuard /\ w \in Triples  BY <1>1, <1>2 DEF Shape, Calls
<1>4. w \in Groups /\ DOMAIN w = Three /\ Three \ c.todo = DOMAIN w  BY <1>1, <1>3, TripleIsGroup
<1>5. CountIn(Three \ c.todo, w, o) = Times(o, w)  BY <1>4, TimesIsCount
<1>6. Dropping(c, f, holds[o][t], direct[t][o], o)
  BY <1>1, <1>2, <1>3 DEF Balanced, Balance, Guarding
<1>7. QED  BY <1>5, <1>6 DEF Dropping

\* The guard gets another group.
Given(t, g, w) == [slots EXCEPT ![t][g] = w]

LEMMA SlotsMove ==
  ASSUME GuardTypes, NEW t \in Threads, NEW g \in Guards, NEW w \in Triples, NEW c \in Calls,
         Enter(t, c), slots' = Given(t, g, w), UNCHANGED <<holds, destroyed, direct>>
  PROVE  /\ GuardTypes' /\ OnlyOf(t) /\ call'[t] = c
         /\ slots'[t] \in [Guards -> Triples] /\ slots'[t][g] = w
         /\ \A h \in Guards \ {g} : slots'[t][h] = slots[t][h]
<1>1. call' \in [Threads -> Calls] /\ call'[t] = c /\ \A u \in Threads \ {t} : call'[u] = call[u]
  BY CallMoves
<1>2. /\ slots' \in [Threads -> [Guards -> Triples]]
      /\ slots'[t] = [slots[t] EXCEPT ![g] = w]
      /\ \A u \in Threads \ {t} : slots'[u] = slots[u]
  BY DEF GuardTypes, Given
<1>3. /\ slots'[t] \in [Guards -> Triples] /\ slots'[t][g] = w
      /\ \A h \in Guards \ {g} : slots'[t][h] = slots[t][h]
  BY <1>2 DEF GuardTypes
<1>4. GuardTypes' /\ OnlyOf(t)  BY <1>1, <1>2 DEF GuardTypes, OnlyOf
<1>5. QED  BY <1>1, <1>2, <1>3, <1>4

LEMMA OwedChange ==
  ASSUME NEW f \in [Guards -> Triples], NEW h \in [Guards -> Triples], NEW g \in Guards, NEW o,
         \A k \in Guards \ {g} : h[k] = f[k], NEW own \in Nat
  PROVE  /\ Owed(h, own, o) + Times(o, f[g]) = Owed(f, own, o) + Times(o, h[g])
         /\ Times(o, f[g]) \in Nat /\ Times(o, h[g]) \in Nat
         /\ Owed(f, own, o) \in Nat /\ Owed(h, own, o) \in Nat
<1> DEFINE s == Sum(Guards, f, o)
           r == Sum(Guards, h, o)
           a == Times(o, f[g])
           b == Times(o, h[g])
           p == Owed(f, own, o)
           q == Owed(h, own, o)
<1>1. r + a = s + b /\ a \in Nat /\ b \in Nat /\ s \in Nat /\ r \in Nat  BY SumChange
<1>2. p = own + s /\ q = own + r  BY DEF Owed
<1> HIDE DEF s, r, a, b, p, q
<1>3. q + a = p + b /\ a \in Nat /\ b \in Nat /\ p \in Nat /\ q \in Nat  BY <1>1, <1>2
<1>4. QED  BY <1>3 DEF a, b, p, q

\* The guard takes note of its new objects and begins to try for them.
LEMMA RememberKept ==
  ASSUME GuardTypes, BalanceInv, NEW t \in Threads, Remember(t)
  PROVE  Kept(t)
<1> DEFINE c == call[t]
           f == slots[t]
           g == c.guard
           h == slots'[t]
           d == Attempt(c.want, c)
<1>1. c \in Calls /\ f \in [Guards -> Triples] /\ c.at = "drop" /\ Finished(t, "drop")
  BY ThreadTypes DEF Remember, Finished, At
<1>2. Balanced(t) /\ Shape(c, f)  BY DEF BalanceInv, Balanced
<1>3. g # NoGuard /\ g \in Guards /\ c.want \in Triples /\ c.want \in Groups /\ DOMAIN c.want = Three
  BY <1>1, <1>2, TripleIsGroup DEF Shape, Calls
<1>4. /\ d \in Calls /\ d.at = "try" /\ d.guard = g /\ d.want = c.want
      /\ d.todo = Places(c.want) /\ d.got = {} /\ d.next = c.next
  BY <1>1, <1>3, AttemptIs
<1>5. slots' = [slots EXCEPT ![t][g] = c.want] /\ Enter(t, d) /\ UNCHANGED <<holds, destroyed, direct>>
  BY DEF Remember
<1> HIDE DEF d
<1>6. /\ GuardTypes' /\ OnlyOf(t) /\ call'[t] = d /\ h \in [Guards -> Triples] /\ h[g] = c.want
      /\ \A k \in Guards \ {g} : h[k] = f[k]
  <2>1. slots' = Given(t, g, c.want)  BY <1>5 DEF Given
  <2>2. QED  BY <1>3, <1>4, <1>5, <2>1, SlotsMove
<1>7. Shape(d, h)  BY <1>1, <1>2, <1>3, <1>4, <1>6 DEF Shape
<1>8. ASSUME NEW o \in Objects \ destroyed
      PROVE  Alone(d, h, direct[t][o], o) /\ Balance(d, h, holds[o][t], direct[t][o], o)
  <2> DEFINE own  == direct[t][o]
             has  == holds[o][t]
             old  == Times(o, f[g])
             new  == Times(o, c.want)
             due  == Owed(f, own, o)
             then == Owed(h, own, o)
             hand == Handed(c, f, o)
  <2>1. has \in Nat /\ own \in Nat  BY ThreadTypes
  <2>2. /\ then + old = due + new
        /\ old \in Nat /\ new \in Nat /\ due \in Nat /\ then \in Nat
    <3>1. g \in Guards /\ new = Times(o, h[g])  BY <1>3, <1>6
    <3> HIDE DEF f, g, h, c, new, own
    <3>2. /\ Owed(h, own, o) + Times(o, f[g]) = Owed(f, own, o) + Times(o, h[g])
          /\ Times(o, f[g]) \in Nat /\ Times(o, h[g]) \in Nat
          /\ Owed(f, own, o) \in Nat /\ Owed(h, own, o) \in Nat
      BY <1>1, <1>6, <2>1, <3>1, OwedChange
    <3>3. QED  BY <3>1, <3>2
  <2>3. has + old + hand = due  BY <1>1, Dropped
  <2>4. hand = Handed(d, h, o) /\ hand \in Nat
    <3>1. CASE c.next = NoGuard  BY <1>4, <3>1 DEF Handed
    <3>2. CASE c.next # NoGuard
      <4>1. c.next \in Guards \ {g}  BY <1>1, <1>2, <3>2 DEF Shape, Calls
      <4>2. h[c.next] = f[c.next] /\ f[c.next] \in Triples  BY <1>1, <1>6, <4>1
      <4>3. QED  BY <1>4, <3>2, <4>2, TimesType DEF Handed
    <3>3. QED  BY <3>1, <3>2
  <2>5. CountIn(Three \ d.got, d.want, o) = new
    <3>1. Three \ d.got = DOMAIN c.want  BY <1>3, <1>4
    <3>2. QED  BY <1>3, <1>4, <3>1, TimesIsCount
  <2>6. Alone(d, h, own, o)
    <3>1. SUFFICES ASSUME d.next # NoGuard, Times(o, h[d.next]) > 0
                   PROVE  then = Times(o, h[d.next]) + Times(o, h[g])
      BY <1>4 DEF Alone
    <3>2. c.next \in Guards \ {g} /\ c.want = Empty  BY <1>1, <1>2, <1>4, <3>1 DEF Shape, Calls
    <3>3. h[c.next] = f[c.next] /\ new = 0  BY <1>6, <3>2, EmptyTriple
    <3>4. Times(o, f[c.next]) > 0 => due = Times(o, f[c.next]) + old
      BY <1>2, <1>4, <3>1 DEF Balanced, Alone
    <3>5. due = Times(o, h[d.next]) + old /\ Times(o, f[c.next]) \in Nat
      BY <1>1, <1>4, <3>1, <3>2, <3>3, <3>4, TimesType
    <3>6. Times(o, h[g]) = 0  BY <1>6, <3>3
    <3> HIDE DEF then, due, old, new
    <3>7. then = due - old  BY <2>2, <3>3
    <3>8. QED  BY <1>4, <2>2, <3>3, <3>5, <3>6, <3>7
  <2> HIDE DEF has, old, due, hand, own
  <2>7. has + new + hand = then  BY <2>1, <2>2, <2>3, <2>4
  <2>8. QED  BY <1>3, <1>4, <2>4, <2>5, <2>6, <2>7 DEF Balance, Guarding, has, own
<1>9. Balanced(t)'  BY <1>5, <1>6, <1>7, <1>8 DEF Balanced
<1>10. QED  BY <1>6, <1>9 DEF Kept

\* Of objects that are not in destruction the guard lets none go.
LEMMA ForgetKept ==
  ASSUME GuardTypes, BalanceInv, NEW t \in Threads, Forget(t)
  PROVE  Kept(t)
<1> DEFINE c == call[t]
           f == slots[t]
           g == c.guard
           w == [i \in 1 .. 3 |-> IF f[g][i] \in destroyed THEN Null ELSE f[g][i]]
           h == slots'[t]
           d == Attempt(w, c)
<1>1. c \in Calls /\ f \in [Guards -> Triples] /\ c.at = "yield"
  BY ThreadTypes DEF Forget, At
<1>2. Balanced(t) /\ Shape(c, f)  BY DEF BalanceInv, Balanced
<1>3. g # NoGuard /\ g \in Guards /\ c.next = NoGuard /\ f[g] = c.want /\ f[g] \in Triples
  BY <1>1, <1>2 DEF Shape, Calls
<1>4. w \in Triples  BY <1>3 DEF Triples, Three
<1>5. slots' = [slots EXCEPT ![t][g] = w] /\ Enter(t, d) /\ UNCHANGED <<holds, destroyed, direct>>
  BY DEF Forget
<1>6. \A o \in Objects \ destroyed : Times(o, w) = Times(o, f[g])
  <2>1. SUFFICES ASSUME NEW o \in Objects \ destroyed PROVE Times(o, w) = Times(o, f[g])  OBVIOUS
  <2>2. o # Null  BY GroupAssumption DEF GroupAssumption
  <2>3. DOMAIN w = Three /\ DOMAIN f[g] = Three  BY <1>3, <1>4, TripleIsGroup
  <2>4. \A i \in Three : w[i] = o <=> f[g][i] = o  BY <2>2 DEF Three
  <2> HIDE DEF w, f, g
  <2>5. {i \in DOMAIN w : w[i] = o} = {i \in DOMAIN f[g] : f[g][i] = o}  BY <2>3, <2>4
  <2>6. QED  BY <2>5 DEF Times
<1> HIDE DEF w
<1>7. w \in Groups /\ DOMAIN w = Three  BY <1>4, TripleIsGroup
<1>8. /\ d \in Calls /\ d.at = "try" /\ d.guard = g /\ d.want = w
      /\ d.todo = Places(w) /\ d.got = {} /\ d.next = NoGuard
  BY <1>1, <1>3, <1>7, AttemptIs
<1> HIDE DEF d
<1>9. /\ GuardTypes' /\ OnlyOf(t) /\ call'[t] = d /\ h \in [Guards -> Triples] /\ h[g] = w
      /\ \A k \in Guards \ {g} : h[k] = f[k]
  <2>1. slots' = Given(t, g, w)  BY <1>5 DEF Given
  <2>2. QED  BY <1>3, <1>4, <1>5, <1>8, <2>1, SlotsMove
<1>10. Shape(d, h)  BY <1>3, <1>4, <1>8, <1>9 DEF Shape
<1>11. ASSUME NEW o \in Objects \ destroyed
       PROVE  Alone(d, h, direct[t][o], o) /\ Balance(d, h, holds[o][t], direct[t][o], o)
  <2> DEFINE own  == direct[t][o]
             has  == holds[o][t]
             old  == Times(o, f[g])
             new  == Times(o, w)
             due  == Owed(f, own, o)
             then == Owed(h, own, o)
  <2>1. has \in Nat /\ own \in Nat  BY ThreadTypes
  <2>2. /\ then + old = due + new
        /\ old \in Nat /\ new \in Nat /\ due \in Nat /\ then \in Nat
    BY <1>1, <1>3, <1>9, <2>1, OwedChange
  <2>3. old = new  BY <1>6
  <2>4. has + old = due  BY <1>1, <1>2, <1>3 DEF Balanced, Balance, Guarding
  <2>5. CountIn(Three \ d.got, d.want, o) = new
    <3>1. Three \ d.got = DOMAIN w  BY <1>7, <1>8
    <3>2. QED  BY <1>7, <1>8, <3>1, TimesIsCount
  <2>6. Handed(d, h, o) = 0 /\ Alone(d, h, own, o)  BY <1>8 DEF Handed, Alone
  <2> HIDE DEF has, old, due, own, new
  <2>7. has + new + 0 = then  BY <2>1, <2>2, <2>3, <2>4
  <2>8. QED  BY <1>3, <1>8, <2>5, <2>6, <2>7 DEF Balance, Guarding, has, own, new
<1>12. Balanced(t)'  BY <1>5, <1>9, <1>10, <1>11 DEF Balanced
<1>13. QED  BY <1>9, <1>12 DEF Kept

\* try_lock() for one object: it is locked and counted as got, or neither.
LEMMA TryOneKept ==
  ASSUME GuardTypes, BalanceInv, NEW t \in Threads, TryOne(t)
  PROVE  Kept(t)
<1> DEFINE c == call[t]
           f == slots[t]
           i == Place(t)
           w == c.want
           x == w[i]
           d == Onward(t)
           e == [d EXCEPT !.got = @ \cup {i}]
<1>1. c \in Calls /\ f \in [Guards -> Triples] /\ c.at = "try" /\ c.todo # {}
  BY ThreadTypes DEF TryOne, Working, At
<1>2. Balanced(t) /\ Shape(c, f)  BY DEF BalanceInv, Balanced
<1>3. /\ c.todo \subseteq Places(w) /\ c.got \subseteq Places(w) /\ c.got \cap c.todo = {}
      /\ w \in Groups /\ c.guard \in Guards \cup {NoGuard}
  BY <1>1, <1>2 DEF Shape, Calls
<1>4. i \in c.todo /\ i \in Three /\ i \notin c.got  BY <1>1, <1>3, PlaceIn
<1>5. x \in Objects
  <2>1. PICK n \in Three : w \in [1 .. n -> Objects \cup {Null}]  BY <1>3 DEF Groups
  <2>2. QED  BY <1>3, <1>4, <2>1 DEF Places
<1>6. /\ d \in Calls /\ d.at = "try" /\ d.guard = c.guard /\ d.want = w
      /\ d.todo = c.todo \ {i} /\ d.got = c.got /\ d.next = c.next
  BY <1>1, OnwardIs
<1>7. UNCHANGED <<destroyed, slots, direct>>  BY DEF TryOne
<1>8. \/ CanLock(x, t) /\ holds' = [holds EXCEPT ![x][t] = @ + 1] /\ Enter(t, e)
      \/ Enter(t, d) /\ UNCHANGED holds
  BY DEF TryOne, Wanted
<1>9. CASE Enter(t, d) /\ UNCHANGED holds
  <2> HIDE DEF d
  <2>1. GuardTypes' /\ OnlyOf(t) /\ call'[t] = d  BY <1>6, <1>7, <1>9, OnlyTheCall
  <2>2. Shape(d, f)  BY <1>1, <1>2, <1>6 DEF Shape
  <2>3. ASSUME NEW o \in Objects \ destroyed
        PROVE  Alone(d, f, direct[t][o], o) /\ Balance(d, f, holds[o][t], direct[t][o], o)
    <3>1. Alone(c, f, direct[t][o], o) /\ Balance(c, f, holds[o][t], direct[t][o], o)
      BY <1>2 DEF Balanced
    <3>2. Alone(d, f, direct[t][o], o)  BY <1>6, <3>1 DEF Alone
    <3>3. Handed(d, f, o) = Handed(c, f, o)  BY <1>6 DEF Handed
    <3> HIDE DEF c, f, i
    <3>4. QED  BY <1>1, <1>6, <3>1, <3>2, <3>3 DEF Balance, Using, Guarding
  <2>4. Balanced(t)'  BY <1>7, <1>9, <2>1, <2>2, <2>3 DEF Balanced
  <2>5. QED  BY <2>1, <2>4 DEF Kept
<1>10. CASE CanLock(x, t) /\ holds' = [holds EXCEPT ![x][t] = @ + 1] /\ Enter(t, e)
  <2>1. /\ e \in Calls /\ e.at = "try" /\ e.guard = c.guard /\ e.want = w
        /\ e.todo = c.todo \ {i} /\ e.got = c.got \cup {i} /\ e.next = c.next
    <3> HIDE DEF d, i
    <3>1. d.got \cup {i} \in SUBSET Three  BY <1>4, <1>6 DEF Calls
    <3>2. QED  BY <1>6, <3>1 DEF Calls
  <2> HIDE DEF e, d
  <2>2. call' \in [Threads -> Calls] /\ call'[t] = e /\ \A u \in Threads \ {t} : call'[u] = call[u]
    BY <1>10, <2>1, CallMoves
  <2>3. /\ holds' \in [Objects -> [Threads -> Nat]]
        /\ \A o \in Objects : /\ holds'[o][t] = IF o = x THEN holds[o][t] + 1 ELSE holds[o][t]
                              /\ \A u \in Threads \ {t} : holds'[o][u] = holds[o][u]
    <3> HIDE DEF x
    <3>1. QED  BY <1>5, <1>10 DEF GuardTypes
  <2>4. GuardTypes' /\ OnlyOf(t)  BY <1>7, <2>2, <2>3 DEF GuardTypes, OnlyOf
  <2>5. Shape(e, f)
    <3>1. i \in Places(w)  BY <1>3, <1>4
    <3>2. e.got \subseteq Places(w) /\ e.got \cap e.todo = {}  BY <1>3, <2>1, <3>1
    <3> HIDE DEF c, f, i, w
    <3>3. QED  BY <1>1, <1>2, <1>3, <2>1, <3>2 DEF Shape, w
  <2>6. ASSUME NEW o \in Objects \ destroyed
        PROVE  Alone(e, f, direct[t][o], o) /\ Balance(e, f, holds'[o][t], direct[t][o], o)
    <3> DEFINE own  == direct[t][o]
               has  == holds[o][t]
               now  == holds'[o][t]
               one  == IF x = o THEN 1 ELSE 0
               due  == Owed(f, own, o)
               hand == Handed(c, f, o)
               left == CountIn(Three \ c.got, w, o)
               rest == CountIn(Three \ e.got, w, o)
    <3>1. has \in Nat /\ own \in Nat /\ due \in Nat /\ now = has + one /\ one \in Nat
      BY <2>3, ThreadTypes
    <3>2. Alone(c, f, own, o) /\ Balance(c, f, has, own, o)  BY <1>2 DEF Balanced
    <3>3. Alone(e, f, own, o)  BY <2>1, <3>2 DEF Alone
    <3>4. Handed(e, f, o) = hand  BY <2>1 DEF Handed
    <3>5. CASE c.guard = NoGuard
      <4>1. CountIn(e.got, w, o) = CountIn(c.got, w, o) + one /\ CountIn(c.got, w, o) \in Nat
        <5> DEFINE S == c.got
        <5>1. S \in SUBSET Three /\ i \in Three \ S  BY <1>1, <1>4 DEF Calls
        <5> HIDE DEF i, S, w
        <5>2. CountIn(S \cup {i}, w, o) = CountIn(S, w, o) + (IF w[i] = o THEN 1 ELSE 0)
          BY <5>1, CountAdd
        <5>3. CountIn(S, w, o) \in Nat  BY <5>1, CountFinite
        <5>4. QED  BY <2>1, <5>2, <5>3 DEF S
      <4>2. has = due + CountIn(c.got, w, o)  BY <1>1, <3>2, <3>5 DEF Balance, Using
      <4> DEFINE m == CountIn(c.got, w, o)
                 n == CountIn(e.got, w, o)
      <4> HIDE DEF m, n, has, now, due, one, own, f
      <4>3. now = due + n  BY <3>1, <4>1, <4>2 DEF m, n
      <4>4. QED  BY <2>1, <3>3, <3>5, <4>3 DEF Balance, Using, n, now, due, own
    <3>6. CASE c.guard # NoGuard
      <4>1. left = rest + one /\ rest \in Nat
        <5> DEFINE S == Three \ e.got
        <5>1. S \in SUBSET Three /\ i \in Three \ S /\ S \cup {i} = Three \ c.got  BY <1>4, <2>1
        <5> HIDE DEF S, i, w
        <5>2. CountIn(S \cup {i}, w, o) = CountIn(S, w, o) + (IF w[i] = o THEN 1 ELSE 0)
          BY <5>1, CountAdd
        <5>3. CountIn(S, w, o) \in Nat  BY <5>1, CountFinite
        <5>4. QED  BY <5>1, <5>2, <5>3 DEF S
      <4>2. has + left + hand = due  BY <1>1, <3>2, <3>6 DEF Balance, Guarding
      <4>3. hand \in Nat
        <5>1. c.next # c.guard  BY <1>2, <3>6 DEF Shape
        <5>2. QED  BY <1>1, <3>1, <3>6, <5>1, OwedToGuards
      <4> HIDE DEF has, now, due, one, own, hand, left, rest, f, c
      <4>4. now + rest + hand = due  BY <3>1, <4>1, <4>2, <4>3
      <4>5. QED  BY <2>1, <3>3, <3>4, <3>6, <4>4 DEF Balance, Guarding, now, due, own, rest
    <3>7. QED  BY <3>5, <3>6
  <2>7. Balanced(t)'  BY <1>7, <2>2, <2>5, <2>6 DEF Balanced
  <2>8. QED  BY <2>4, <2>7 DEF Kept
<1>11. QED  BY <1>8, <1>9, <1>10

\* A call that keeps the slots and the locks, and is in balance with them.
LEMMA CallKept ==
  ASSUME GuardTypes, NEW t \in Threads, NEW d \in Calls, Enter(t, d),
         UNCHANGED <<holds, destroyed, slots, direct>>,
         Shape(d, slots[t]),
         \A o \in Objects \ destroyed : /\ Alone(d, slots[t], direct[t][o], o)
                                        /\ Balance(d, slots[t], holds[o][t], direct[t][o], o)
  PROVE  Kept(t)
<1>1. GuardTypes' /\ OnlyOf(t) /\ call'[t] = d  BY OnlyTheCall
<1>2. Balanced(t)'  BY <1>1 DEF Balanced
<1>3. QED  BY <1>1, <1>2 DEF Kept

\* Not everything is locked: what is, is to be given back.
LEMMA TryFailedKept ==
  ASSUME GuardTypes, BalanceInv, NEW t \in Threads, TryFailed(t)
  PROVE  Kept(t)
<1> DEFINE c == call[t]
           f == slots[t]
           w == c.want
           T == Places(w) \cap c.got
           d == [c EXCEPT !.at = "back", !.todo = T]
<1>1. c \in Calls /\ f \in [Guards -> Triples] /\ c.at = "try" /\ c.todo = {}
  BY ThreadTypes DEF TryFailed, Finished, At
<1>2. Balanced(t) /\ Shape(c, f)  BY DEF BalanceInv, Balanced
<1>3. c.got \subseteq Places(w) /\ w \in Groups /\ T = c.got /\ T \in SUBSET Three
  BY <1>1, <1>2 DEF Shape, Calls
<1>4. ~GotAll(t) /\ Enter(t, d) /\ UNCHANGED <<holds, destroyed, slots, direct>>
  BY DEF TryFailed
<1>5. c.next = NoGuard
  <2>1. SUFFICES ASSUME c.next # NoGuard PROVE GotAll(t)  BY <1>4
  <2>2. w = Empty  BY <1>2, <2>1 DEF Shape
  <2>3. \A i \in DOMAIN w : w[i] = Null  BY <2>2 DEF Empty
  <2>4. QED  BY <2>3 DEF GotAll
<1>6. /\ d \in Calls /\ d.at = "back" /\ d.guard = c.guard /\ d.want = w
      /\ d.todo = c.got /\ d.got = c.got /\ d.next = c.next
  <2> HIDE DEF T
  <2>1. QED  BY <1>1, <1>3 DEF Calls, CallPlaces
<1> HIDE DEF d, T
<1>7. Shape(d, f)  BY <1>1, <1>2, <1>3, <1>5, <1>6 DEF Shape
<1>8. ASSUME NEW o \in Objects \ destroyed
      PROVE  Alone(d, f, direct[t][o], o) /\ Balance(d, f, holds[o][t], direct[t][o], o)
  <2>1. Balance(c, f, holds[o][t], direct[t][o], o) /\ holds[o][t] \in Nat  BY <1>2, ThreadTypes DEF Balanced
  <2>2. Alone(d, f, direct[t][o], o)  BY <1>5, <1>6 DEF Alone
  <2>3. CASE c.guard = NoGuard
    <3>1. holds[o][t] = Owed(f, direct[t][o], o) + CountIn(d.todo, d.want, o)
      BY <1>1, <1>6, <2>1, <2>3 DEF Balance, Using
    <3>2. QED  BY <1>6, <2>2, <2>3, <3>1 DEF Balance, Using
  <2>4. CASE c.guard # NoGuard
    <3> DEFINE n == CountIn(Three \ c.got, w, o)
    <3>1. holds[o][t] + n + 0 = Owed(f, direct[t][o], o)
      BY <1>1, <1>5, <2>1, <2>4 DEF Balance, Guarding, Handed
    <3>2. n \in Nat
      <4>1. Three \ c.got \in SUBSET Three  OBVIOUS
      <4>2. QED  BY <4>1, CountFinite
    <3> HIDE DEF n
    <3>3. holds[o][t] + n = Owed(f, direct[t][o], o)  BY <2>1, <3>1, <3>2
    <3>4. QED  BY <1>6, <2>2, <2>4, <3>3 DEF Balance, Guarding, n
  <2>5. QED  BY <2>3, <2>4
<1>9. QED  BY <1>4, <1>6, <1>7, <1>8, CallKept

\* try_locks() returns false, with nothing locked by it.
LEMMA TryAgainKept ==
  ASSUME GuardTypes, BalanceInv, NEW t \in Threads, TryAgain(t)
  PROVE  Kept(t)
<1> DEFINE c == call[t]
           f == slots[t]
           w == c.want
           d == [c EXCEPT !.at = "yield"]
<1>1. c \in Calls /\ f \in [Guards -> Triples] /\ c.at = "back" /\ c.todo = {}
  BY ThreadTypes DEF TryAgain, Finished, At
<1>2. Balanced(t) /\ Shape(c, f) /\ c.next = NoGuard  BY <1>1 DEF BalanceInv, Balanced, Shape
<1>3. UNCHANGED <<holds, destroyed, slots, direct>>  BY DEF TryAgain
<1>4. CASE c.guard = NoGuard
  <2>1. Enter(t, Idle)  BY <1>4 DEF TryAgain
  <2>2. GuardTypes' /\ OnlyOf(t) /\ call'[t] = Idle  BY <1>3, <2>1, IdleCall, OnlyTheCall
  <2>3. ASSUME NEW o \in Objects \ destroyed PROVE holds[o][t] = Owed(f, direct[t][o], o)
    <3>1. holds[o][t] = Owed(f, direct[t][o], o) + CountIn({}, w, o)
      BY <1>1, <1>2, <1>4 DEF Balanced, Balance, Using
    <3>2. CountIn({}, w, o) = 0  BY CountNone
    <3>3. Owed(f, direct[t][o], o) \in Nat  BY ThreadTypes
    <3>4. QED  BY <3>1, <3>2, <3>3
  <2>4. Balanced(t)'  BY <1>3, <2>2, <2>3, BalancedIdle
  <2>5. QED  BY <2>2, <2>4 DEF Kept
<1>5. CASE c.guard # NoGuard
  <2>1. Enter(t, d)  BY <1>5 DEF TryAgain
  <2>2. /\ d \in Calls /\ d.at = "yield" /\ d.guard = c.guard /\ d.want = w
        /\ d.todo = c.todo /\ d.got = c.got /\ d.next = c.next
    BY <1>1 DEF Calls, CallPlaces
  <2>3. w \in Triples /\ w \in Groups /\ DOMAIN w = Three  BY <1>2, <1>5, TripleIsGroup DEF Shape
  <2> HIDE DEF d
  <2>4. Shape(d, f)  BY <1>1, <1>2, <1>5, <2>2 DEF Shape
  <2>5. ASSUME NEW o \in Objects \ destroyed
        PROVE  Alone(d, f, direct[t][o], o) /\ Balance(d, f, holds[o][t], direct[t][o], o)
    <3>1. holds[o][t] + CountIn(Three \ c.todo, w, o) = Owed(f, direct[t][o], o)
      BY <1>1, <1>2, <1>5 DEF Balanced, Balance, Guarding
    <3>2. Three \ c.todo = DOMAIN w  BY <1>1, <2>3
    <3>3. CountIn(Three \ c.todo, w, o) = Times(o, w)  BY <2>3, <3>2, TimesIsCount
    <3>4. QED  BY <1>2, <1>5, <2>2, <3>1, <3>3 DEF Alone, Balance, Guarding
  <2>6. QED  BY <1>3, <2>1, <2>2, <2>4, <2>5, CallKept
<1>6. QED  BY <1>4, <1>5

\* What failed try_locks() give back is locked.
LEMMA GiveBackKept ==
  ASSUME GuardTypes, BalanceInv, NEW t \in Threads, GiveBack(t)
  PROVE  Kept(t)
<1> DEFINE c == call[t]
           f == slots[t]
           i == Place(t)
           w == c.want
           x == w[i]
           d == Onward(t)
<1>1. c \in Calls /\ f \in [Guards -> Triples] /\ c.at = "back" /\ c.todo # {}
  BY ThreadTypes DEF GiveBack, Working, At
<1>2. Balanced(t) /\ Shape(c, f)  BY DEF BalanceInv, Balanced
<1>3. c.todo \subseteq Places(w) /\ w \in Groups /\ c.next = NoGuard /\ c.todo \in SUBSET Three
  BY <1>1, <1>2 DEF Shape, Calls
<1>4. i \in c.todo /\ i \in Three  BY <1>1, PlaceIn
<1>5. x \in Objects /\ i \in DOMAIN w
  <2>1. PICK n \in Three : w \in [1 .. n -> Objects \cup {Null}]  BY <1>3 DEF Groups
  <2>2. QED  BY <1>3, <1>4, <2>1 DEF Places
<1>6. /\ d \in Calls /\ d.at = "back" /\ d.guard = c.guard /\ d.want = w
      /\ d.todo = c.todo \ {i} /\ d.got = c.got /\ d.next = NoGuard
  BY <1>1, <1>3, OnwardIs
<1>7. holds' = Unlocked(x, t) /\ Enter(t, d) /\ UNCHANGED <<destroyed, slots, direct>>
  BY DEF GiveBack, Wanted
<1> HIDE DEF d
<1>8. /\ GuardTypes' /\ OnlyOf(t) /\ call'[t] = d
      /\ \A o \in Objects :
           holds'[o][t] = IF o = x /\ holds[o][t] > 0 THEN holds[o][t] - 1 ELSE holds[o][t]
  BY <1>5, <1>6, <1>7, LocksMove
<1>9. Shape(d, f)  BY <1>1, <1>2, <1>3, <1>6 DEF Shape
<1>10. ASSUME NEW o \in Objects \ destroyed
       PROVE  Alone(d, f, direct[t][o], o) /\ Balance(d, f, holds'[o][t], direct[t][o], o)
  <2> DEFINE own  == direct[t][o]
             has  == holds[o][t]
             now  == holds'[o][t]
             one  == IF x = o THEN 1 ELSE 0
             due  == Owed(f, own, o)
  <2>1. has \in Nat /\ own \in Nat /\ due \in Nat /\ one \in Nat  BY ThreadTypes
  <2>2. now = IF one = 1 /\ has > 0 THEN has - 1 ELSE has  BY <1>8
  <2>3. Alone(d, f, own, o) /\ Balance(c, f, has, own, o)  BY <1>2, <1>6 DEF Alone, Balanced
  <2>4. CASE c.guard = NoGuard
    <3> DEFINE S == c.todo \ {i}
               n == CountIn(S, w, o)
               m == CountIn(c.todo, w, o)
    <3>1. S \in SUBSET Three /\ i \in Three \ S /\ S \cup {i} = c.todo  BY <1>3, <1>4
    <3>2. m = n + one /\ n \in Nat
      <4> HIDE DEF S, i, w
      <4>1. CountIn(S \cup {i}, w, o) = CountIn(S, w, o) + (IF w[i] = o THEN 1 ELSE 0)
        BY <3>1, CountAdd
      <4>2. CountIn(S, w, o) \in Nat  BY <3>1, CountFinite
      <4>3. QED  BY <3>1, <4>1, <4>2
    <3>3. has = due + m  BY <1>1, <2>3, <2>4 DEF Balance, Using
    <3>4. one = 0 \/ one = 1  OBVIOUS
    <3>5. now = due + n
      <4> HIDE DEF now, has, one, due, n, m
      <4>1. QED  BY <2>1, <2>2, <3>2, <3>3, <3>4
    <3>6. QED  BY <1>6, <2>3, <2>4, <3>5 DEF Balance, Using
  <2>5. CASE c.guard # NoGuard
    <3> DEFINE S == Three \ c.todo
               m == CountIn(S, w, o)
               n == CountIn(Three \ d.todo, w, o)
               all == Times(o, w)
    <3>1. S \in SUBSET Three /\ i \in Three \ S /\ S \cup {i} = Three \ d.todo  BY <1>4, <1>6
    <3>2. n = m + one /\ m \in Nat
      <4> HIDE DEF S, i, w
      <4>1. CountIn(S \cup {i}, w, o) = CountIn(S, w, o) + (IF w[i] = o THEN 1 ELSE 0)
        BY <3>1, CountAdd
      <4>2. CountIn(S, w, o) \in Nat  BY <3>1, CountFinite
      <4>3. QED  BY <3>1, <4>1, <4>2
    <3>3. has + m = due  BY <1>1, <2>3, <2>5 DEF Balance, Guarding
    <3>4. one = 0 \/ one = 1  OBVIOUS
    <3>5. n <= all /\ all <= due /\ all \in Nat
      <4>1. w \in Triples /\ DOMAIN w = Three /\ f[c.guard] = w
        BY <1>1, <1>2, <2>5, TripleIsGroup DEF Shape
      <4>2. n <= all
        <5>1. Three \ d.todo \subseteq DOMAIN w  BY <4>1
        <5>2. QED  BY <1>3, <5>1, CountBound
      <4>3. c.next # c.guard  BY <1>3, <2>5
      <4>4. /\ Times(o, f[c.guard]) + Handed(c, f, o) <= due
            /\ Times(o, f[c.guard]) \in Nat /\ Handed(c, f, o) = 0
        BY <1>1, <1>3, <2>1, <2>5, <4>3, OwedToGuards DEF Handed
      <4>5. all \in Nat /\ all + 0 <= due  BY <4>1, <4>4
      <4> HIDE DEF all, due, n
      <4>6. QED  BY <2>1, <4>2, <4>5
    <3>6. now + n = due
      <4> HIDE DEF now, has, one, due, n, m, all
      <4>1. QED  BY <2>1, <2>2, <3>2, <3>3, <3>4, <3>5
    <3>7. QED  BY <1>6, <2>3, <2>5, <3>6 DEF Balance, Guarding
  <2>6. QED  BY <2>4, <2>5
<1>11. Balanced(t)'  BY <1>7, <1>8, <1>9, <1>10 DEF Balanced
<1>12. QED  BY <1>8, <1>11 DEF Kept

\* Everything is locked.
LEMMA GotAllCount ==
  ASSUME NEW c \in Calls, NEW o \in Objects, c.got \subseteq Places(c.want),
         \A i \in DOMAIN c.want : c.want[i] = Null \/ i \in c.got
  PROVE  /\ CountIn(c.got, c.want, o) = Times(o, c.want) /\ Times(o, c.want) \in Nat
         /\ c.want \in Triples => CountIn(Three \ c.got, c.want, o) = 0
<1>1. c.want \in Groups  BY DEF Calls
<1>2. Places(c.want) \subseteq c.got /\ c.got \subseteq DOMAIN c.want  BY DEF Places
<1> DEFINE w == c.want
           S == c.got
<1>3. w \in Groups /\ Places(w) \subseteq S /\ S \subseteq DOMAIN w  BY <1>1, <1>2
<1> HIDE DEF w, S
<1>4. CountIn(S, w, o) = Times(o, w) /\ Times(o, w) \in Nat  BY <1>3, CountPlaces, TimesIsCount
<1>5. ASSUME w \in Triples PROVE CountIn(Three \ S, w, o) = 0
  <2>1. (Three \ S) \cap Places(w) = {} /\ Three \ S \subseteq DOMAIN w  BY <1>3, <1>5, TripleIsGroup
  <2>2. QED  BY <2>1, CountOutside
<1>6. QED  BY <1>4, <1>5 DEF w, S

\* A user has its locks, a guard its objects, and the target of a take over begins its reset.
LEMMA TryAllKept ==
  ASSUME GuardTypes, BalanceInv, NEW t \in Threads, TryAll(t)
  PROVE  Kept(t)
<1> DEFINE c == call[t]
           f == slots[t]
           w == c.want
<1>1. c \in Calls /\ f \in [Guards -> Triples] /\ c.at = "try" /\ c.todo = {}
  BY ThreadTypes DEF TryAll, Finished, At
<1>2. Balanced(t) /\ Shape(c, f)  BY DEF BalanceInv, Balanced
<1>3. c.got \subseteq Places(w) /\ \A i \in DOMAIN w : w[i] = Null \/ i \in c.got
  BY <1>1, <1>2 DEF Shape, TryAll, GotAll
<1>4. UNCHANGED <<holds, destroyed, slots>>  BY DEF TryAll
<1>5. ASSUME NEW o \in Objects \ destroyed
      PROVE  /\ Alone(c, f, direct[t][o], o) /\ Balance(c, f, holds[o][t], direct[t][o], o)
             /\ CountIn(c.got, w, o) = Times(o, w) /\ Times(o, w) \in Nat
             /\ w \in Triples => CountIn(Three \ c.got, w, o) = 0
             /\ holds[o][t] \in Nat /\ direct[t][o] \in Nat /\ Owed(f, direct[t][o], o) \in Nat
  BY <1>1, <1>2, <1>3, GotAllCount, ThreadTypes DEF Balanced
<1>6. CASE c.guard = NoGuard
  <2>1. Enter(t, Idle) /\ direct' = [direct EXCEPT ![t] = [o \in Objects |-> @[o] + Times(o, w)]]
    BY <1>2, <1>6 DEF TryAll, Shape
  <2>2. \A o \in Objects : Times(o, w) \in Nat
    BY <1>1, <1>3, GotAllCount
  <2>3. /\ direct' \in [Threads -> [Objects -> Nat]]
        /\ \A o \in Objects : direct'[t][o] = direct[t][o] + Times(o, w)
        /\ \A u \in Threads \ {t} : direct'[u] = direct[u]
    <3> HIDE DEF w
    <3>1. QED  BY <2>1, <2>2 DEF GuardTypes
  <2>4. call' \in [Threads -> Calls] /\ call'[t] = Idle /\ \A u \in Threads \ {t} : call'[u] = call[u]
    BY <2>1, IdleCall, CallMoves
  <2>5. GuardTypes' /\ OnlyOf(t)  BY <1>4, <2>3, <2>4 DEF GuardTypes, OnlyOf
  <2>6. ASSUME NEW o \in Objects \ destroyed PROVE holds[o][t] = Owed(f, direct'[t][o], o)
    <3> DEFINE n == Times(o, w)
               s == Sum(Guards, f, o)
    <3>1. holds[o][t] = Owed(f, direct[t][o], o) + n
      BY <1>1, <1>5, <1>6 DEF Balance, Using
    <3>2. s \in Nat /\ n \in Nat /\ direct[t][o] \in Nat /\ direct'[t][o] = direct[t][o] + n
      BY <1>1, <1>5, <2>3, OwedType
    <3>3. Owed(f, direct[t][o], o) = direct[t][o] + s /\ Owed(f, direct'[t][o], o) = direct'[t][o] + s
      BY DEF Owed
    <3> HIDE DEF n, s, f
    <3>4. QED  BY <3>1, <3>2, <3>3
  <2>7. Balanced(t)'  BY <1>4, <2>4, <2>6, BalancedIdle
  <2>8. QED  BY <2>5, <2>7 DEF Kept
<1>7. CASE c.guard # NoGuard
  <2>1. direct' = direct  BY <1>7 DEF TryAll
  <2>2. w \in Triples /\ f[c.guard] = w  BY <1>1, <1>2, <1>7 DEF Shape
  <2>3. ASSUME NEW o \in Objects \ destroyed
        PROVE  holds[o][t] + Handed(c, f, o) = Owed(f, direct[t][o], o) /\ Handed(c, f, o) \in Nat
    <3>1. holds[o][t] + CountIn(Three \ c.got, w, o) + Handed(c, f, o) = Owed(f, direct[t][o], o)
      BY <1>1, <1>5, <1>7 DEF Balance, Guarding
    <3>2. CountIn(Three \ c.got, w, o) = 0 /\ holds[o][t] \in Nat  BY <1>5, <2>2
    <3>3. Handed(c, f, o) \in Nat
      <4>1. c.next # c.guard  BY <1>2, <1>7 DEF Shape
      <4>2. direct[t][o] \in Nat  BY <1>5
      <4>3. QED  BY <1>1, <1>7, <4>1, <4>2, OwedToGuards
    <3>4. QED  BY <3>1, <3>2, <3>3
  <2>4. CASE c.next = NoGuard
    <3>1. Enter(t, Idle)  BY <2>4 DEF TryAll
    <3>2. GuardTypes' /\ OnlyOf(t) /\ call'[t] = Idle  BY <1>4, <2>1, <3>1, IdleCall, OnlyTheCall
    <3>3. ASSUME NEW o \in Objects \ destroyed PROVE holds[o][t] = Owed(f, direct[t][o], o)
      <4>1. Handed(c, f, o) = 0  BY <2>4 DEF Handed
      <4>2. QED  BY <1>5, <2>3, <4>1
    <3>4. Balanced(t)'  BY <1>4, <2>1, <3>2, <3>3, BalancedIdle
    <3>5. QED  BY <3>2, <3>4 DEF Kept
  <2>5. CASE c.next # NoGuard
    <3> DEFINE d == ResetTo(t, c.next, f[c.next])
               g == c.next
    <3>1. g \in Guards /\ g # c.guard /\ w = Empty /\ f[g] \in Triples
      BY <1>1, <1>2, <2>5 DEF Shape, Calls
    <3>2. /\ d \in Calls /\ d.at = "drop" /\ d.guard = g /\ d.want = f[g]
          /\ d.todo = Places(f[g]) /\ d.got = {} /\ d.next = NoGuard
      BY <3>1, ResetToIs
    <3>3. Enter(t, d)  BY <2>5 DEF TryAll
    <3> HIDE DEF d
    <3>4. Shape(d, f)  BY <2>5, <3>1, <3>2 DEF Shape
    <3>5. ASSUME NEW o \in Objects \ destroyed
          PROVE  Alone(d, f, direct[t][o], o) /\ Balance(d, f, holds[o][t], direct[t][o], o)
      <4> DEFINE n   == Times(o, f[g])
                 has == holds[o][t]
                 due == Owed(f, direct[t][o], o)
      <4>1. n = Handed(c, f, o) /\ n \in Nat /\ has + n = due  BY <2>3, <2>5 DEF Handed
      <4>2. Times(o, f[c.guard]) = 0  BY <2>2, <3>1, EmptyTriple
      <4>3. n > 0 => due = n + Times(o, f[c.guard])  BY <1>5, <2>5 DEF Alone
      <4>4. has \in Nat /\ Handed(d, f, o) = 0  BY <1>5, <3>2 DEF Handed
      <4>5. Alone(d, f, direct[t][o], o)  BY <3>2 DEF Alone
      <4>6. has + n + 0 = due /\ (n > 0 => has = 0)
        <5> HIDE DEF n, has, due
        <5>1. QED  BY <4>1, <4>2, <4>3, <4>4
      <4>7. Dropping(d, f, has, direct[t][o], o)  BY <3>2, <4>4, <4>6 DEF Dropping
      <4>8. QED  BY <2>5, <3>2, <4>5, <4>7 DEF Balance, Guarding
    <3>6. QED  BY <1>4, <2>1, <3>2, <3>3, <3>4, <3>5, CallKept
  <2>6. QED  BY <2>4, <2>5
<1>8. QED  BY <1>6, <1>7

\* unlock_all() is called for objects the thread has locked often enough, or not at all.
LEMMA UnlockAllKept ==
  ASSUME GuardTypes, BalanceInv, CarefulUnlock, NEW t \in Threads, UnlockAll(t)
  PROVE  Kept(t)
<1> DEFINE f == slots[t]
<1>1. PICK group \in Requests :
        /\ At(t, "idle")
        /\ \A o \in Objects : holds[o][t] = 0 \/ direct[t][o] >= Times(o, group)
        /\ Enter(t, [Idle EXCEPT !.at = "ask", !.want = group, !.todo = Places(group)])
        /\ UNCHANGED <<holds, destroyed, slots, direct>>
  BY DEF UnlockAll
<1> DEFINE d == [Idle EXCEPT !.at = "ask", !.want = group, !.todo = Places(group)]
<1>2. group \in Groups /\ Places(group) \in SUBSET Three
  BY GroupAssumption, PlacesOfGroup DEF GroupAssumption, Groups, Three
<1>3. /\ d \in Calls /\ d.at = "ask" /\ d.guard = NoGuard /\ d.want = group
      /\ d.todo = Places(group) /\ d.next = NoGuard
  <2>1. Idle \in Calls /\ Idle.guard = NoGuard /\ Idle.next = NoGuard  BY IdleCall DEF Idle
  <2>2. QED  BY <1>2, <2>1 DEF Calls, CallPlaces
<1>4. Enter(t, d) /\ UNCHANGED <<holds, destroyed, slots, direct>>  BY <1>1
<1> HIDE DEF d
<1>5. Shape(d, f)  BY <1>3 DEF Shape
<1>6. ASSUME NEW o \in Objects \ destroyed
      PROVE  Alone(d, f, direct[t][o], o) /\ Balance(d, f, holds[o][t], direct[t][o], o)
  <2>1. holds[o][t] = Owed(f, direct[t][o], o)  BY <1>1, IdleBalanced
  <2>2. direct[t][o] \in Nat /\ Times(o, group) \in Nat  BY <1>2, ThreadTypes, TimesIsCount
  <2>3. holds[o][t] = 0 \/ Times(o, group) <= direct[t][o]  BY <1>1, <2>2
  <2>4. QED  BY <1>3, <2>1, <2>3 DEF Alone, Balance, Using
<1>7. QED  BY <1>3, <1>4, <1>5, <1>6, CallKept

\* are_locked() asks and answers; the locks stay as they are.
LEMMA AskKept ==
  ASSUME GuardTypes, BalanceInv, NEW t \in Threads, Ask(t)
  PROVE  Kept(t)
<1> DEFINE c == call[t]
           f == slots[t]
           i == Place(t)
           d == Onward(t)
           G == IF Locked(Wanted(t)) THEN d.got \cup {i} ELSE d.got
           e == [d EXCEPT !.got = G]
<1>1. c \in Calls /\ f \in [Guards -> Triples] /\ c.at = "ask" /\ c.todo # {}
  BY ThreadTypes DEF Ask, Working, At
<1>2. Balanced(t) /\ Shape(c, f) /\ c.guard = NoGuard /\ c.next = NoGuard /\ c.todo \subseteq Places(c.want)
  BY <1>1 DEF BalanceInv, Balanced, Shape
<1>3. i \in Three  BY <1>1, PlaceIn
<1>4. d \in Calls /\ d.at = c.at /\ d.guard = c.guard /\ d.want = c.want
      /\ d.todo = c.todo \ {i} /\ d.next = c.next
  BY OnwardIs
<1>5. Enter(t, e) /\ UNCHANGED <<holds, destroyed, slots, direct>>  BY DEF Ask
<1>6. G \in SUBSET Three
  <2> HIDE DEF d, i
  <2>1. d.got \in SUBSET Three  BY <1>4 DEF Calls
  <2>2. QED  BY <1>3, <2>1
<1> HIDE DEF G
<1>7. /\ e \in Calls /\ e.at = c.at /\ e.guard = c.guard /\ e.want = c.want
      /\ e.todo = c.todo \ {i} /\ e.next = c.next
  <2> HIDE DEF d, c, i
  <2>1. QED  BY <1>4, <1>6 DEF Calls
<1> HIDE DEF e, d, i
<1>8. Shape(e, f)  BY <1>1, <1>2, <1>7 DEF Shape
<1>9. ASSUME NEW o \in Objects \ destroyed
      PROVE  Alone(e, f, direct[t][o], o) /\ Balance(e, f, holds[o][t], direct[t][o], o)
  BY <1>1, <1>2, <1>7 DEF Alone, Balanced, Balance, Using
<1>10. QED  BY <1>5, <1>7, <1>8, <1>9, CallKept

LEMMA AnswerKept ==
  ASSUME GuardTypes, BalanceInv, NEW t \in Threads, Answer(t)
  PROVE  Kept(t)
<1> DEFINE c == call[t]
           f == slots[t]
           w == c.want
           T == Places(w)
           e == [c EXCEPT !.at = "unlock", !.todo = T]
<1>1. c \in Calls /\ f \in [Guards -> Triples] /\ c.at = "ask" /\ w \in Groups
  BY ThreadTypes DEF Answer, Finished, At, Calls
<1>2. Balanced(t) /\ Shape(c, f) /\ c.guard = NoGuard /\ c.next = NoGuard
  BY <1>1 DEF BalanceInv, Balanced, Shape
<1>3. \A o \in Objects \ destroyed :
        /\ holds[o][t] = Owed(f, direct[t][o], o)
        /\ holds[o][t] = 0 \/ Times(o, w) <= direct[t][o]
  BY <1>1, <1>2 DEF Balanced, Balance, Using
<1>4. UNCHANGED <<holds, destroyed, slots, direct>>  BY DEF Answer
<1>5. Enter(t, Idle) \/ Enter(t, e)  BY DEF Answer
<1>6. CASE Enter(t, Idle)
  <2>1. GuardTypes' /\ OnlyOf(t) /\ call'[t] = Idle  BY <1>4, <1>6, IdleCall, OnlyTheCall
  <2>2. Balanced(t)'  BY <1>3, <1>4, <2>1, BalancedIdle
  <2>3. QED  BY <2>1, <2>2 DEF Kept
<1>7. CASE Enter(t, e)
  <2>1. T \in SUBSET Three  BY <1>1, PlacesOfGroup
  <2>2. /\ e \in Calls /\ e.at = "unlock" /\ e.guard = NoGuard /\ e.want = w
        /\ e.todo = T /\ e.next = NoGuard
    <3> HIDE DEF T
    <3>1. QED  BY <1>1, <1>2, <2>1 DEF Calls, CallPlaces
  <2> HIDE DEF e
  <2>3. Shape(e, f)  BY <2>2 DEF Shape
  <2>4. ASSUME NEW o \in Objects \ destroyed
        PROVE  Alone(e, f, direct[t][o], o) /\ Balance(e, f, holds[o][t], direct[t][o], o)
    <3>1. CountIn(T, w, o) = Times(o, w)
      <4>1. Places(w) \subseteq T /\ T \subseteq DOMAIN w  BY DEF Places
      <4>2. QED  BY <1>1, <4>1, CountPlaces
    <3>2. QED  BY <1>3, <2>2, <3>1 DEF Alone, Balance, Using
  <2>5. QED  BY <1>4, <1>7, <2>2, <2>3, <2>4, CallKept
<1>8. QED  BY <1>5, <1>6, <1>7

\* unlock_all() unlocks what its thread has locked itself.
LEMMA UnlockKept ==
  ASSUME GuardTypes, BalanceInv, NEW t \in Threads, Unlock(t)
  PROVE  Kept(t)
<1> DEFINE c == call[t]
           f == slots[t]
           i == Place(t)
           w == c.want
           x == w[i]
           d == Onward(t)
<1>1. c \in Calls /\ f \in [Guards -> Triples] /\ c.at = "unlock" /\ c.todo # {}
  BY ThreadTypes DEF Unlock, Working, At
<1>2. Balanced(t) /\ Shape(c, f) /\ c.guard = NoGuard /\ c.next = NoGuard /\ c.todo \subseteq Places(w)
  BY <1>1 DEF BalanceInv, Balanced, Shape
<1>3. i \in c.todo /\ i \in Three /\ w \in Groups /\ c.todo \in SUBSET Three  BY <1>1, PlaceIn DEF Calls
<1>4. x \in Objects
  <2>1. PICK n \in Three : w \in [1 .. n -> Objects \cup {Null}]  BY <1>3 DEF Groups
  <2>2. QED  BY <1>2, <1>3, <2>1 DEF Places
<1>5. /\ d \in Calls /\ d.at = "unlock" /\ d.guard = NoGuard /\ d.want = w
      /\ d.todo = c.todo \ {i} /\ d.next = NoGuard
  BY <1>1, <1>2, OnwardIs
<1>6. /\ holds' = Unlocked(x, t) /\ UNCHANGED <<destroyed, slots>>
      /\ direct' = [direct EXCEPT ![t][x] = IF @ > 0 THEN @ - 1 ELSE 0]
      /\ Enter(t, Idle) \/ Enter(t, d)
  BY DEF Unlock, Wanted
<1>7. /\ holds' \in [Objects -> [Threads -> Nat]]
      /\ \A o \in Objects : \A u \in Threads :
           holds'[o][u] = IF o = x /\ u = t /\ holds[o][u] > 0 THEN holds[o][u] - 1 ELSE holds[o][u]
  BY <1>4, <1>6, UnlockedType
<1>8. /\ direct' \in [Threads -> [Objects -> Nat]]
      /\ \A o \in Objects :
           direct'[t][o] = IF o = x /\ direct[t][o] > 0 THEN direct[t][o] - 1 ELSE direct[t][o]
      /\ \A u \in Threads \ {t} : direct'[u] = direct[u]
  <2> HIDE DEF x
  <2>1. direct \in [Threads -> [Objects -> Nat]]  BY DEF GuardTypes
  <2>2. (IF direct[t][x] > 0 THEN direct[t][x] - 1 ELSE 0) \in Nat  BY <1>4, <2>1
  <2>3. QED  BY <1>4, <1>6, <2>1, <2>2
<1> HIDE DEF d
<1>9. ASSUME NEW e \in Calls, Enter(t, e) PROVE GuardTypes' /\ OnlyOf(t) /\ call'[t] = e
  <2>1. call' \in [Threads -> Calls] /\ call'[t] = e /\ \A u \in Threads \ {t} : call'[u] = call[u]
    BY <1>9, CallMoves
  <2>2. QED  BY <1>6, <1>7, <1>8, <2>1 DEF GuardTypes, OnlyOf
<1>10. ASSUME NEW o \in Objects \ destroyed
       PROVE  /\ holds'[o][t] = Owed(f, direct'[t][o], o)
              /\ holds'[o][t] = 0 \/ CountIn(d.todo, w, o) <= direct'[t][o]
  <2> DEFINE has == holds[o][t]
             own == direct[t][o]
             s   == Sum(Guards, f, o)
             S   == c.todo \ {i}
             n   == CountIn(S, w, o)
             m   == CountIn(c.todo, w, o)
             one == IF x = o THEN 1 ELSE 0
  <2>1. has \in Nat /\ own \in Nat /\ s \in Nat  BY <1>1, ThreadTypes, OwedType
  <2>2. has = own + s /\ (has = 0 \/ m <= own)
    BY <1>1, <1>2 DEF Balanced, Balance, Using, Owed
  <2>3. S \in SUBSET Three /\ i \in Three \ S /\ S \cup {i} = c.todo  BY <1>3
  <2>4. m = n + one /\ n \in Nat
    <3> HIDE DEF S, i, w
    <3>1. CountIn(S \cup {i}, w, o) = CountIn(S, w, o) + (IF w[i] = o THEN 1 ELSE 0)
      BY <2>3, CountAdd
    <3>2. CountIn(S, w, o) \in Nat  BY <2>3, CountFinite
    <3>3. QED  BY <2>3, <3>1, <3>2
  <2>5. /\ holds'[o][t] = IF x = o /\ has > 0 THEN has - 1 ELSE has
        /\ direct'[t][o] = IF x = o /\ own > 0 THEN own - 1 ELSE own
    BY <1>7, <1>8
  <2>6. x = o \/ x # o  OBVIOUS
  <2> HIDE DEF has, own, s, n, m
  <2>7. holds'[o][t] = direct'[t][o] + s /\ (holds'[o][t] = 0 \/ n <= direct'[t][o])
    BY <2>1, <2>2, <2>4, <2>5
  <2>8. QED  BY <1>5, <2>7 DEF Owed, n, s
<1>11. CASE Enter(t, Idle)
  <2>1. GuardTypes' /\ OnlyOf(t) /\ call'[t] = Idle  BY <1>9, <1>11, IdleCall
  <2>2. Balanced(t)'  BY <1>6, <1>10, <2>1, BalancedIdle
  <2>3. QED  BY <2>1, <2>2 DEF Kept
<1>12. CASE Enter(t, d)
  <2>1. GuardTypes' /\ OnlyOf(t) /\ call'[t] = d  BY <1>5, <1>9, <1>12
  <2>2. Shape(d, f)  BY <1>2, <1>5 DEF Shape
  <2>3. ASSUME NEW o \in Objects \ destroyed
        PROVE  Alone(d, f, direct'[t][o], o) /\ Balance(d, f, holds'[o][t], direct'[t][o], o)
    BY <1>5, <1>10 DEF Alone, Balance, Using
  <2>4. Balanced(t)'  BY <1>6, <2>1, <2>2, <2>3 DEF Balanced
  <2>5. QED  BY <2>1, <2>4 DEF Kept
<1>13. QED  BY <1>6, <1>11, <1>12

\* What is destroyed is not looked at any more; the rest stays as it is.
LEMMA DestroyKept ==
  ASSUME GuardTypes, BalanceInv, NEW t \in Threads, Destroy(t)
  PROVE  Kept(t)
<1>1. PICK x \in Objects \ destroyed :
        /\ destroyed' = destroyed \cup {x}
        /\ holds' = [holds EXCEPT ![x][t] = 0]
        /\ direct' = [direct EXCEPT ![t][x] = 0]
        /\ UNCHANGED <<slots, call>>
  BY DEF Destroy
<1>2. /\ holds' \in [Objects -> [Threads -> Nat]]
      /\ \A o \in Objects : \A u \in Threads : (o # x \/ u # t) => holds'[o][u] = holds[o][u]
  BY <1>1 DEF GuardTypes
<1>3. /\ direct' \in [Threads -> [Objects -> Nat]]
      /\ \A o \in Objects \ {x} : direct'[t][o] = direct[t][o]
      /\ \A u \in Threads \ {t} : direct'[u] = direct[u]
  BY <1>1 DEF GuardTypes
<1>4. GuardTypes' /\ OnlyOf(t)  BY <1>1, <1>2, <1>3 DEF GuardTypes, OnlyOf
<1>5. Balanced(t)  BY DEF BalanceInv
<1>6. \A o \in Objects \ destroyed' :
        o \in Objects \ destroyed /\ holds'[o][t] = holds[o][t] /\ direct'[t][o] = direct[t][o]
  BY <1>1, <1>2, <1>3
<1>7. call'[t] = call[t] /\ slots'[t] = slots[t]  BY <1>1
<1>8. Balanced(t)'  BY <1>5, <1>6, <1>7 DEF Balanced
<1>9. QED  BY <1>4, <1>8 DEF Kept

-----------------------------------------------------------------------------
(* The theorems *)

LEMMA GuardInit == Init => GuardTypes /\ BalanceInv
<1> SUFFICES ASSUME Init PROVE GuardTypes /\ BalanceInv  OBVIOUS
<1>1. GuardTypes
  <2>1. /\ holds = [o \in Objects |-> [t \in Threads |-> 0]]
        /\ direct = [t \in Threads |-> [o \in Objects |-> 0]]
        /\ destroyed = {}
    BY DEF Init
  <2>2. slots \in [Threads -> [Guards -> Triples]]  BY EmptyTriple DEF Init
  <2>3. call \in [Threads -> Calls]  BY IdleCall DEF Init
  <2>4. QED  BY <2>1, <2>2, <2>3 DEF GuardTypes
<1>2. ASSUME NEW t \in Threads PROVE Balanced(t)
  <2>1. call[t] = Idle /\ \A g \in Guards : slots[t][g] = Empty  BY DEF Init
  <2>2. /\ Idle.at = "idle" /\ Idle.guard = NoGuard /\ Idle.next = NoGuard
        /\ Idle.todo = {} /\ Idle.got = {}
    BY DEF Idle
  <2>3. Shape(Idle, slots[t])  BY <2>2 DEF Shape
  <2>4. ASSUME NEW o \in Objects \ destroyed PROVE holds[o][t] = Owed(slots[t], direct[t][o], o)
    <3>1. holds[o][t] = 0 /\ direct[t][o] = 0  BY DEF Init
    <3>2. Null # o  BY GroupAssumption DEF GroupAssumption
    <3>3. {slot \in Guards \X Three : slots[t][slot[1]][slot[2]] = o} = {}
      <4>1. \A i \in Three : Empty[i] = Null  BY DEF Empty, Three
      <4>2. QED  BY <2>1, <3>2, <4>1
    <3>4. Sum(Guards, slots[t], o) = 0  BY <3>3, FS_EmptySet DEF Sum
    <3>5. QED  BY <3>1, <3>4 DEF Owed
  <2>5. QED  BY <2>1, <2>2, <2>3, <2>4 DEF Balanced, Alone, Balance, Using
<1>3. QED  BY <1>1, <1>2 DEF BalanceInv

LEMMA GuardNext ==
  ASSUME GuardTypes, BalanceInv, CarefulTakeOver, CarefulUnlock, [Next]_vars
  PROVE  GuardTypes' /\ BalanceInv'
<1>1. ASSUME NEW t \in Threads, Step(t) \/ Call(t) PROVE GuardTypes' /\ BalanceInv'
  <2>1. Kept(t)
    <3>1. CASE Drop(t)       BY <3>1, DropKept
    <3>2. CASE Remember(t)   BY <3>2, RememberKept
    <3>3. CASE Forget(t)     BY <3>3, ForgetKept
    <3>4. CASE TryOne(t)     BY <3>4, TryOneKept
    <3>5. CASE TryAll(t)     BY <3>5, TryAllKept
    <3>6. CASE TryFailed(t)  BY <3>6, TryFailedKept
    <3>7. CASE GiveBack(t)   BY <3>7, GiveBackKept
    <3>8. CASE TryAgain(t)   BY <3>8, TryAgainKept
    <3>9. CASE Ask(t)        BY <3>9, AskKept
    <3>10. CASE Answer(t)    BY <3>10, AnswerKept
    <3>11. CASE Unlock(t)    BY <3>11, UnlockKept
    <3>12. CASE Reset(t)     BY <3>12, ResetKept
    <3>13. CASE Clear(t)     BY <3>13, ClearKept
    <3>14. CASE TakeOver(t)  BY <3>14, TakeOverKept
    <3>15. CASE TryLocks(t)  BY <3>15, TryLocksKept
    <3>16. CASE UnlockAll(t) BY <3>16, UnlockAllKept
    <3>17. CASE Destroy(t)   BY <3>17, DestroyKept
    <3>18. QED
      BY <1>1, <3>1, <3>2, <3>3, <3>4, <3>5, <3>6, <3>7, <3>8, <3>9, <3>10, <3>11,
         <3>12, <3>13, <3>14, <3>15, <3>16, <3>17
         DEF Step, Call
  <2>2. \A u \in Threads \ {t} : Balanced(u)'  BY <2>1, OthersBalanced DEF Kept
  <2>3. QED  BY <2>1, <2>2 DEF Kept, BalanceInv
<1>2. CASE UNCHANGED vars
  BY <1>2 DEF vars, GuardTypes, BalanceInv, Balanced
<1>3. QED  BY <1>1, <1>2 DEF Next

\* A thread outside of calls has exactly the locks its guards name and those it took itself,
\* if guards take over only when nothing is lost and unlock_all() is called for own locks.
THEOREM EveryLockIsDue ==
  ASSUME CarefulTakeOver, CarefulUnlock
  PROVE  Spec => []GuardsBalance
<1>1. GuardTypes /\ BalanceInv => GuardsBalance
  <2> SUFFICES ASSUME GuardTypes, BalanceInv, NEW t \in Threads, NEW o \in Objects,
                      At(t, "idle"), o \notin destroyed
               PROVE  holds[o][t] = Due(t, o)
    BY DEF GuardsBalance
  <2>1. holds[o][t] = Owed(slots[t], direct[t][o], o)  BY IdleBalanced
  <2>2. QED  BY <2>1, DueIsOwed
<1>2. QED  BY GuardInit, GuardNext, <1>1, PTL DEF Spec

\* A guard that waits between two attempts has none of its objects locked: what the thread
\* has is due to its other guards and to itself.
THEOREM WaitingHoldsNothing ==
  ASSUME CarefulTakeOver, CarefulUnlock
  PROVE  Spec => []NothingHeldWhileWaiting
<1>1. GuardTypes /\ BalanceInv => NothingHeldWhileWaiting
  <2> SUFFICES ASSUME GuardTypes, BalanceInv, NEW t \in Threads, NEW o \in Objects,
                      At(t, "yield"), o \notin destroyed
               PROVE  holds[o][t] = Due(t, o) - Times(o, slots[t][call[t].guard])
    BY DEF NothingHeldWhileWaiting
  <2> DEFINE n == Times(o, slots[t][call[t].guard])
             due == Owed(slots[t], direct[t][o], o)
  <2>1. call[t].at = "yield" /\ Balanced(t)  BY DEF At, BalanceInv
  <2>2. call[t].guard # NoGuard /\ slots[t][call[t].guard] = call[t].want /\ call[t].want \in Triples
    BY <2>1 DEF Balanced, Shape
  <2>3. holds[o][t] + n = due  BY <2>1, <2>2 DEF Balanced, Balance, Guarding
  <2>4. holds[o][t] \in Nat /\ n \in Nat /\ due \in Nat  BY <2>2, ThreadTypes, TimesType
  <2>5. Due(t, o) = due  BY DueIsOwed
  <2> HIDE DEF n, due
  <2>6. holds[o][t] = due - n  BY <2>3, <2>4
  <2>7. QED  BY <2>5, <2>6 DEF n
<1>2. QED  BY GuardInit, GuardNext, <1>1, PTL DEF Spec

\* What a thread should have is what its own locks and its other guards come to, and the
\* share of the guards its call works on.
Share(c, f, o) == IF c.guard = NoGuard THEN 0 ELSE Times(o, f[c.guard])

LEMMA OuterSum ==
  ASSUME GuardTypes, NEW t \in Threads, Balanced(t), NEW o \in Objects
  PROVE  /\ Owed(slots[t], direct[t][o], o)
              = direct[t][o] + Sum(OtherGuards(t), slots[t], o)
                + Share(call[t], slots[t], o) + Handed(call[t], slots[t], o)
         /\ Sum(OtherGuards(t), slots[t], o) \in Nat
         /\ Share(call[t], slots[t], o) \in Nat /\ Handed(call[t], slots[t], o) \in Nat
<1> DEFINE f == slots[t]
           g == call[t].guard
           n == call[t].next
           own == direct[t][o]
<1>1. f \in [Guards -> Triples] /\ own \in Nat  BY ThreadTypes
<1>2. g \in Guards \cup {NoGuard} /\ n \in Guards \cup {NoGuard} /\ NoGuard \notin Guards
  BY ThreadTypes, GroupAssumption DEF Calls, GroupAssumption
<1>3. g = NoGuard => n = NoGuard  BY DEF Balanced, Shape
<1>4. n # NoGuard => n # g  BY DEF Balanced, Shape
<1>5. OtherGuards(t) = Guards \ {g, n}  BY DEF OtherGuards
<1>6. Owed(f, own, o) = own + Sum(Guards, f, o)  BY DEF Owed
<1>7. Share(call[t], f, o) = IF g = NoGuard THEN 0 ELSE Times(o, f[g])  BY DEF Share
<1>8. Handed(call[t], f, o) = IF n = NoGuard THEN 0 ELSE Times(o, f[n])  BY DEF Handed
<1> HIDE DEF f, g, n, own
<1>9. CASE g = NoGuard
  <2>1. OtherGuards(t) = Guards  BY <1>2, <1>3, <1>5, <1>9
  <2>2. Sum(Guards, f, o) \in Nat  BY <1>1, OwedType
  <2>3. QED  BY <1>1, <1>3, <1>6, <1>7, <1>8, <1>9, <2>1, <2>2 DEF f, own
<1>10. CASE g # NoGuard
  <2>1. /\ Sum(Guards, f, o) = Sum(Guards \ {g}, f, o) + Times(o, f[g])
        /\ Sum(Guards \ {g}, f, o) \in Nat /\ Times(o, f[g]) \in Nat
    BY <1>1, <1>2, <1>10, SumSplit
  <2>2. CASE n = NoGuard
    <3>1. OtherGuards(t) = Guards \ {g}  BY <1>2, <1>5, <2>2
    <3>2. QED  BY <1>1, <1>6, <1>7, <1>8, <1>10, <2>1, <2>2, <3>1 DEF f, own
  <2>3. CASE n # NoGuard
    <3>1. n \in Guards \ {g} /\ Guards \ {g} \in SUBSET Guards  BY <1>2, <1>4, <2>3
    <3>2. /\ Sum(Guards \ {g}, f, o) = Sum((Guards \ {g}) \ {n}, f, o) + Times(o, f[n])
          /\ Sum((Guards \ {g}) \ {n}, f, o) \in Nat /\ Times(o, f[n]) \in Nat
      BY <1>1, <3>1, SumSplit
    <3>3. OtherGuards(t) = (Guards \ {g}) \ {n}  BY <1>5
    <3>4. QED  BY <1>1, <1>6, <1>7, <1>8, <1>10, <2>1, <2>3, <3>2, <3>3 DEF f, own
  <2>4. QED  BY <2>2, <2>3
<1>11. QED  BY <1>9, <1>10

\* The call has dropped, or not yet got, at most the share of the guards it works on.
LEMMA NoMoreThanShare ==
  ASSUME GuardTypes, NEW t \in Threads, Balanced(t), NEW o \in Objects \ destroyed
  PROVE  holds[o][t] + Share(call[t], slots[t], o) + Handed(call[t], slots[t], o)
           >= Owed(slots[t], direct[t][o], o)
<1> DEFINE c == call[t]
           f == slots[t]
           has == holds[o][t]
           owed == Owed(f, direct[t][o], o)
           share == Share(c, f, o)
           handed == Handed(c, f, o)
<1>1. /\ c \in Calls /\ f \in [Guards -> Triples] /\ has \in Nat /\ owed \in Nat
      /\ share \in Nat /\ handed \in Nat
  BY ThreadTypes, OuterSum
<1>2. Shape(c, f) /\ Balance(c, f, has, direct[t][o], o)  BY DEF Balanced
<1>3. c.at \in CallPlaces /\ c.todo \in SUBSET Three /\ c.got \in SUBSET Three /\ c.want \in Groups
  BY <1>1 DEF Calls
<1>4. CASE c.guard = NoGuard
  <2>1. Using(c, f, has, direct[t][o], o) /\ c.at \notin {"drop", "yield"}
    BY <1>2, <1>4 DEF Balance, Shape
  <2>2. CountIn(c.got, c.want, o) \in Nat /\ CountIn(c.todo, c.want, o) \in Nat
    BY <1>3, CountFinite
  <2>3. has >= owed  BY <1>1, <1>3, <2>1, <2>2 DEF Using, CallPlaces
  <2> HIDE DEF has, owed, share, handed
  <2>4. has + share + handed >= owed  BY <1>1, <2>3
  <2>5. QED  BY <2>4 DEF has, owed, share, handed
<1>5. CASE c.guard # NoGuard
  <2> DEFINE w == f[c.guard]
  <2>1. c.guard \in Guards /\ w \in Triples /\ share = Times(o, w)
    BY <1>1, <1>5 DEF Calls, Share
  <2>2. Guarding(c, f, has, direct[t][o], o) /\ c.at \in {"drop", "try", "back", "yield"}
    BY <1>2, <1>3, <1>5 DEF Balance, Shape, CallPlaces
  <2>3. ASSUME NEW S \in SUBSET Three
        PROVE  CountIn(S, w, o) <= Times(o, w) /\ CountIn(S, w, o) \in Nat
    <3>1. w \in Groups /\ DOMAIN w = Three  BY <2>1, TripleIsGroup
    <3> HIDE DEF w
    <3>2. QED  BY <3>1, CountBound
  <2>4. c.at # "drop" => c.want = w  BY <1>2, <1>5, <2>2 DEF Shape
  <2> DEFINE k1 == CountIn(Three \ c.todo, w, o)
             k2 == CountIn(Three \ c.got, w, o)
  <2>5. k1 <= share /\ k1 \in Nat /\ k2 <= share /\ k2 \in Nat
    <3>1. Three \ c.todo \in SUBSET Three /\ Three \ c.got \in SUBSET Three  OBVIOUS
    <3> HIDE DEF w
    <3>2. QED  BY <2>1, <2>3, <3>1
  <2>6. \/ has + k1 + handed = owed \/ has + share + handed = owed \/ has + k2 + handed = owed
        \/ has + k1 = owed \/ has + share = owed
    BY <2>1, <2>2, <2>4 DEF Guarding, Dropping
  <2> HIDE DEF has, owed, share, handed, k1, k2
  <2>7. has + share + handed >= owed  BY <1>1, <2>5, <2>6
  <2>8. QED  BY <2>7 DEF has, owed, share, handed
<1>6. QED  BY <1>4, <1>5

\* Whatever a call drops or gives back on its way, failed attempts and copies included, the
\* thread's own locks and those of its other guards stay.
THEOREM OuterLocksStay ==
  ASSUME CarefulTakeOver, CarefulUnlock
  PROVE  Spec => []OuterLocksKept
<1>1. GuardTypes /\ BalanceInv => OuterLocksKept
  <2> SUFFICES ASSUME GuardTypes, BalanceInv, NEW t \in Threads, NEW o \in Objects \ destroyed
               PROVE  holds[o][t] >= direct[t][o] + Sum(OtherGuards(t), slots[t], o)
    BY DEF OuterLocksKept, Sum, Three
  <2> DEFINE owed == Owed(slots[t], direct[t][o], o)
             rest == Sum(OtherGuards(t), slots[t], o)
             share == Share(call[t], slots[t], o)
             handed == Handed(call[t], slots[t], o)
  <2>1. Balanced(t)  BY DEF BalanceInv
  <2>2. /\ owed = direct[t][o] + rest + share + handed
        /\ rest \in Nat /\ share \in Nat /\ handed \in Nat
    BY <2>1, OuterSum
  <2>3. holds[o][t] + share + handed >= owed  BY <2>1, NoMoreThanShare
  <2>4. holds[o][t] \in Nat /\ direct[t][o] \in Nat  BY ThreadTypes
  <2> HIDE DEF owed, rest, share, handed
  <2>5. holds[o][t] >= direct[t][o] + rest  BY <2>2, <2>3, <2>4
  <2>6. QED  BY <2>5 DEF rest
<1>2. QED  BY GuardInit, GuardNext, <1>1, PTL DEF Spec

=============================================================================
