------------------------------- MODULE ListOps -------------------------------
(***************************************************************************)
(* The methods of TSingleList and TDoubleList, of the rings made of them   *)
(* and of TSet as functions from a list to a list, for one thread with     *)
(* thread safety on.  A list is a record of what its members and its       *)
(* elements' members hold:                                                 *)
(*   kind, ring       the class: "single", "double" or "set", closed or not*)
(*   next, prev       the neighbours of an element                         *)
(*   nr               its number                                           *)
(*   inside           the elements that are inserted and not removed       *)
(*   head, tail, count, renumber   head_, tail_, eCount, doRenumber        *)
(*   curr             what currStore holds for the thread                  *)
(*   status           "running", or how the program ended in a method      *)
(* An element stands for its data, too: two lists that hold copies of one  *)
(* element share it.  The neighbours that a removed element remembers are  *)
(* for other threads that stand on it, and left out.                       *)
(***************************************************************************)
EXTENDS Integers, FiniteSets, SequencesExt

CONSTANTS Elements,  \* the elements, and the data they hold
          NullPtr,       \* nullptr
          Value      \* what the data of an element compares as

ASSUME ElementsAssumption ==
  NullPtr \notin Elements /\ IsFiniteSet(Elements) /\ Value \in [Elements -> Nat]

Nowhere == [e \in Elements |-> NullPtr]

(* The constructors.                                                       *)
Empty(kind, ring) ==
  [kind |-> kind, ring |-> ring, next |-> Nowhere, prev |-> Nowhere,
   nr |-> [e \in Elements |-> 0],
   inside |-> {}, head |-> NullPtr, tail |-> NullPtr, count |-> 0,
   renumber |-> FALSE, curr |-> NullPtr, status |-> "running"]

Single(l) == l.kind = "single"
Running(l) == l.status = "running"
Crashed(l) == [l EXCEPT !.status = "crashed"]
Hanging(l) == [l EXCEPT !.status = "hangs"]

----------------------------------------------------------------------------
(* Elements.                                                               *)

GetNext(l, e) == l.next[e]
GetPrev(l, e) == l.prev[e]

SetNext(l, e, n) == [l EXCEPT !.next[e] = n]
SetPrev(l, e, p) == IF e = NullPtr THEN l ELSE [l EXCEPT !.prev[e] = p]

(* Mutant: the next element is read after the new one is in its place.     *)
InsertNextLate(l, e, new) ==
  LET placed == SetNext([l EXCEPT !.inside = @ \cup {new}], e, new)
      linked == SetNext(placed, new, GetNext(placed, e))
  IN IF Single(l) THEN linked ELSE SetPrev(linked, new, e)

InsertNext(l, e, new) ==
  LET behind == GetNext(l, e)
      placed == SetNext([l EXCEPT !.inside = @ \cup {new}], new, behind)
  IN IF Single(l) THEN SetNext(placed, e, new)
     ELSE SetPrev(SetNext(SetPrev(placed, new, e), e, new), behind, new)

(* TDoubleElement only; a single list puts the new one before by hand.     *)
InsertPrev(l, e, new) ==
  LET before == l.prev[e]
      placed == SetPrev(SetNext([l EXCEPT !.inside = @ \cup {new}], new, e),
                        new, before)
      linked == SetPrev(placed, e, new)
  IN IF before = NullPtr THEN linked ELSE SetNext(linked, before, new)

InsertBefore(l, e, new) ==
  IF Single(l) THEN SetNext([l EXCEPT !.inside = @ \cup {new}], new, e)
  ELSE InsertPrev(l, e, new)

(* Mutant: it stays the current one.                                       *)
RemovedStillCurrent(l, e) == [l EXCEPT !.inside = @ \ {e}]

(* A removed element is no thread's current one any more.                  *)
Removed(l, e) ==
  [l EXCEPT !.inside = @ \ {e}, !.curr = IF @ = e THEN NullPtr ELSE @]

(* Mutant: the neighbours are not joined when one of them is missing.      *)
DetachInner(l, e) ==
  LET gone == Removed(l, e)
      p == l.prev[e]
      n == l.next[e]
      joined == IF NullPtr \in {p, n} THEN gone
                ELSE SetPrev(SetNext(gone, p, n), n, p)
  IN IF Single(l) THEN SetNext(gone, e, NullPtr)
     ELSE SetNext(SetPrev(joined, e, NullPtr), e, NullPtr)

(* TSingleElement::remove() leaves the neighbours alone.                   *)
Detach(l, e) ==
  LET gone == Removed(l, e)
      p == l.prev[e]
      n == l.next[e]
      joined == IF p \in {NullPtr, e} THEN gone ELSE SetNext(gone, p, n)
      mirrored == IF n \in {NullPtr, e} THEN joined ELSE SetPrev(joined, n, p)
  IN IF Single(l) THEN SetNext(gone, e, NullPtr)
     ELSE SetNext(SetPrev(mirrored, e, NullPtr), e, NullPtr)

----------------------------------------------------------------------------
(* The list's own bookkeeping.                                             *)

(* The first n steps from e, if f leads from each element to another one   *)
(* or to nowhere, from where nothing leads back.                           *)
Iterate(f, e, n) ==
  LET onward == [x \in Elements \cup {NullPtr} |-> IF x = NullPtr THEN x ELSE f[x]]
      at[i \in 0 .. n] == IF i = 0 THEN e ELSE onward[at[i - 1]]
  IN at

(* What is met on the way from e, each element once.                       *)
Walk(f, e) ==
  LET at == Iterate(f, e, Cardinality(Elements))
      met == Range(at) \ {NullPtr}
  IN [i \in 1 .. Cardinality(met) |-> at[i - 1]]

From(l, e) == Walk(l.next, e)
Row(l) == From(l, l.head)

(* A walk from e that only a missing next element, or one that is its own  *)
(* next element, can end, does not.                                        *)
GoesOnForEver(l, e) ==
  LET last == From(l, e)[Len(From(l, e))]
  IN GetNext(l, last) \notin {NullPtr, last}

PlaceOf(s, e) == CHOOSE i \in DOMAIN s : s[i] = e

(* The loop gives each element the number of the one behind it, and one    *)
(* more, before that one gets its own: cur has moved on in between.  Only  *)
(* the second has been numbered by then.                                   *)
Renumbered(l) ==
  LET row == Row(l)
      before(i) == IF i = 2 THEN 1 ELSE l.nr[row[i]]
      given(i) == IF i < Len(row) THEN before(i + 1) + 1 ELSE before(i)
  IN [l EXCEPT !.nr = [e \in Elements |-> IF e \in Range(row) THEN given(PlaceOf(row, e))
                                           ELSE @[e]]]

(* head(new_head): there must be one.                                      *)
SetHead(l, e) ==
  IF e = NullPtr THEN Crashed(l)
  ELSE LET first == [l EXCEPT !.nr[e] = 0, !.head = e]
       IN IF GoesOnForEver(first, e) THEN Hanging(first)
          ELSE Renumbered(first)

SetTail(l, e) == [l EXCEPT !.tail = e]

Curr(l) == IF l.curr = NullPtr THEN l.head ELSE l.curr

(* protRenumber() hands the number of an element on to the next.           *)
ProtRenumber(l) ==
  IF ~l.renumber THEN l
  ELSE IF GoesOnForEver(l, l.head) THEN Hanging([l EXCEPT !.renumber = FALSE])
  ELSE [l EXCEPT !.renumber = FALSE,
                 !.nr = [e \in Elements |-> IF e \in Range(Row(l)) THEN 0 ELSE @[e]]]

(* privConnectEnds(), called at the end of what a ring's methods do.       *)
Connect(l) ==
  LET forth == IF GetNext(l, l.tail) = l.head THEN l
               ELSE SetNext(l, l.tail, l.head)
  IN IF ~l.ring \/ ~Running(l) \/ l.head = NullPtr \/ l.tail = NullPtr THEN l
     ELSE IF Single(l) \/ GetPrev(forth, l.head) = l.tail THEN forth
     ELSE SetPrev(forth, l.head, l.tail)

----------------------------------------------------------------------------
(* Searching.                                                              *)

(* From e up to the tail, or down to the head.                             *)
Through(l, e, last) == Walk([l.next EXCEPT ![last] = NullPtr], e)
Up(l, e) == Through(l, e, l.tail)
Down(l, e) == Walk([l.prev EXCEPT ![l.head] = NullPtr], e)

(* Mutant: a double list looks only upwards from the current element.      *)
VisitedUpwards(l, by) ==
  IF l.count <= 1 THEN (IF l.count = 0 THEN <<>> ELSE <<Curr(l)>>)
  ELSE <<Curr(l), l.head, l.tail>>
       \o Up(l, GetNext(l, IF Single(l) THEN l.head ELSE Curr(l)))

(* The elements protFind() and protFindData() look at, in this order; the  *)
(* latter does not start behind the tail or before the head.               *)
Visited(l, by) ==
  LET cur == Curr(l)
      whole == by = "data"
  IN IF l.count = 0 THEN <<>>
     ELSE IF l.count = 1 THEN <<cur>>
     ELSE <<cur, l.head, l.tail>> \o
          (IF Single(l) THEN Up(l, GetNext(l, l.head))
           ELSE (IF whole \/ cur # l.tail THEN Up(l, GetNext(l, cur)) ELSE <<>>)
                \o (IF whole \/ cur # l.head THEN Down(l, GetPrev(l, cur))
                    ELSE <<>>))

FirstOf(s, T) ==
  LET at == {i \in DOMAIN s : s[i] \in T}
  IN IF at = {} THEN NullPtr ELSE s[CHOOSE i \in at : \A j \in at : i <= j]

(* A set asks its hash table, and moves nothing.                           *)
Member(l, v) ==
  LET same == {e \in l.inside : Value[e] = v}
  IN IF same = {} THEN NullPtr ELSE CHOOSE e \in same : TRUE

Find(l, d) ==
  IF l.kind = "set" THEN IF Member(l, Value[d]) = d THEN d ELSE NullPtr
  ELSE FirstOf(Visited(l, "data"), {d})

FindData(l, v) ==
  IF l.kind = "set" THEN Member(l, v)
  ELSE FirstOf(Visited(l, "value"), {e \in Elements : Value[e] = v})

(* What is found is the current element from now on.                       *)
AfterFind(l, e) ==
  IF l.kind = "set" \/ e = NullPtr \/ e = Curr(l) THEN l ELSE [l EXCEPT !.curr = e]

(* The element in front of d, by protFind() in a set.  A double list looks *)
(* downwards from the current element when it has not found d upwards, and *)
(* then returns the one it came from.                                      *)
FindPrev(l, d) ==
  LET cur == Curr(l)
      up == Up(l, IF Single(l) THEN l.head ELSE cur)
      down == Down(l, cur)
      above == {i \in 1 .. Len(up) - 1 : up[i + 1] = d}
      below == {i \in 1 .. Len(down) : down[i] = d /\ down[i] # l.head}
      Found(p) == [at |-> p, list |-> [l EXCEPT !.curr = d]]
  IN IF l.kind = "set"
     THEN [at |-> IF Find(l, d) = NullPtr THEN NullPtr ELSE GetPrev(l, d), list |-> l]
     ELSE IF above # {} THEN Found(up[CHOOSE i \in above : TRUE])
     ELSE IF Single(l) \/ below = {} THEN [at |-> NullPtr, list |-> l]
     ELSE LET i == CHOOSE i \in below : TRUE
          IN Found(IF i = 1 THEN GetPrev(l, cur) ELSE down[i - 1])

(* Where a sorted insertion is to go, and the current element afterwards:  *)
(* protFindGreaterNext() returns the first element that is not less.       *)
GreaterNext(l, v) ==
  LET cur == Curr(l)
      nxt == GetNext(l, cur)
      prv == GetPrev(l, cur)
      Less(e) == Value[e] < v
      start == IF Single(l) THEN GetNext(l, l.head) ELSE prv
      up == Up(l, IF Less(cur) THEN cur ELSE start)
      down == Down(l, start)
      Is(e, less) == e # NullPtr /\ Less(e) = less
      goal == {i \in DOMAIN up : Is(GetNext(l, up[i]), FALSE)}
      floor == {i \in DOMAIN down : Is(GetPrev(l, down[i]), TRUE)}
      Least(I) == CHOOSE i \in I : \A j \in I : i <= j
      Answer(at, c) == [at |-> at, list |-> [l EXCEPT !.curr = c]]
  IN IF l.count = 0 THEN [at |-> NullPtr, list |-> l]
     ELSE IF Less(cur) /\ (nxt = NullPtr \/ ~Less(nxt)) THEN [at |-> nxt, list |-> l]
     ELSE IF ~Single(l) /\ ~Less(cur) /\ (prv = NullPtr \/ Less(prv))
     THEN [at |-> cur, list |-> l]
     ELSE IF ~Less(l.head) THEN Answer(l.head, l.head)
     ELSE IF Less(l.tail) THEN Answer(NullPtr, l.tail)
     ELSE IF ~Single(l) /\ ~Less(cur)
     THEN Answer(down[Least(floor)], GetPrev(l, down[Least(floor)]))
     ELSE IF nxt = NullPtr THEN [at |-> NullPtr, list |-> l]
     ELSE IF goal = {} THEN Answer(NullPtr, l.tail)
     ELSE Answer(GetNext(l, up[Least(goal)]), up[Least(goal)])

(* n steps from e, around the ends; a walk that starts nowhere stays there.*)
Steps(l, e, n, up) ==
  LET end == IF up THEN l.head ELSE l.tail
      onward(x) == IF up THEN (IF x = l.tail THEN l.head ELSE GetNext(l, x))
                   ELSE (IF x = l.head THEN l.tail ELSE GetPrev(l, x))
  IN Iterate([x \in Elements |-> IF onward(x) = NullPtr THEN end ELSE onward(x)], e, n)[n]

(* The element the walk of privGetElementByIndex() ends at, from the number*)
(* the current element is said to have.                                    *)
WalkTo(l, idx) ==
  LET cur == Curr(l)
      nr == l.nr[cur]
      dist == IF idx < nr THEN nr - idx ELSE idx - nr
  IN IF Single(l)
     THEN IF idx < nr THEN Steps(l, GetNext(l, l.head), idx - 1, TRUE)
          ELSE Steps(l, GetNext(l, cur), idx - nr - 1, TRUE)
     ELSE IF idx < dist THEN Steps(l, l.head, idx, TRUE)
     ELSE IF l.count - idx < dist
     THEN Steps(l, l.tail, l.count - 1 - idx, FALSE)
     ELSE IF idx < nr THEN Steps(l, GetPrev(l, cur), dist - 1, FALSE)
     ELSE Steps(l, GetNext(l, cur), dist - 1, TRUE)

(* privGetElementByIndex() once the elements are numbered.  With a wrong   *)
(* number the walk may find nothing, which an assertion forbids.           *)
AtNumber(r, idx) ==
  LET cur == Curr(r)
      Found(e) == [at |-> e, list |-> r]
      Moved(e) == [at |-> e, list |-> [r EXCEPT !.curr = e]]
      Walked(e) == IF e = NullPtr THEN [at |-> NullPtr, list |-> Crashed(r)] ELSE Moved(e)
  IN IF ~Running(r) THEN Found(NullPtr)
     ELSE IF idx = r.nr[cur] THEN Found(cur)
     ELSE IF idx = 0 THEN Found(r.head)
     ELSE IF idx = r.count - 1 THEN Found(r.tail)
     ELSE IF idx = r.nr[cur] + 1 THEN Moved(GetNext(r, cur))
     ELSE IF ~Single(r) /\ idx = r.nr[cur] - 1 THEN Moved(GetPrev(r, cur))
     ELSE Walked(WalkTo(r, idx))

(* The element with the index, and the list afterwards.                    *)
GetByIndex(l, index) ==
  LET idx == (IF index < 0 THEN l.count - (-index % l.count) ELSE index)
             % l.count
  IN IF l.count = 0 THEN [at |-> NullPtr, list |-> l]
     ELSE AtNumber(ProtRenumber(l), idx)

----------------------------------------------------------------------------
(* Insertion and removal.                                                  *)

Counted(l) == IF Running(l) THEN [l EXCEPT !.count = @ + 1] ELSE l

(* protInsert(): behind p, or at the front if there is no p.               *)
ProtInsert(l, p, e) ==
  LET n == IF l.kind = "set" THEN l ELSE [l EXCEPT !.curr = e]
      numbered == [n EXCEPT !.nr[e] = l.nr[l.tail] + 1]
      only == SetHead([n EXCEPT !.inside = @ \cup {e}], e)
  IN Counted(IF l.count = 0 THEN SetTail(only, e)
             ELSE IF p = NullPtr THEN SetHead(InsertBefore(n, l.head, e), e)
             ELSE IF p = l.tail THEN SetTail(InsertNext(numbered, p, e), e)
             ELSE InsertNext([n EXCEPT !.renumber = TRUE], p, e))

(* Mutant: a set takes everything.                                         *)
InsertTwins(l, p, e) == ProtInsert(l, p, e)

(* A set takes no data that compares equal to what it has.                 *)
Insert(l, p, e) ==
  IF l.kind = "set" /\ Member(l, Value[e]) # NullPtr THEN l ELSE ProtInsert(l, p, e)

(* Once the last element has gone, head(nullptr) and tail(nullptr).        *)
Uncounted(l) ==
  IF ~Running(l) THEN l
  ELSE IF l.count > 1 THEN [l EXCEPT !.count = @ - 1]
  ELSE SetTail(SetHead([l EXCEPT !.count = @ - 1, !.curr = NullPtr], NullPtr), NullPtr)

(* What is left to do once head_ or tail_ has moved on from e.             *)
Unlink(off, e) ==
  [at |-> e, list |-> IF Running(off) THEN Uncounted(Detach(off, e)) ELSE off]

(* privRemove() of the double list.                                        *)
PrivRemove(l, e) ==
  LET off == IF e = l.head THEN SetHead(l, GetNext(l, e))
             ELSE IF e = l.tail THEN SetTail(l, GetPrev(l, e))
             ELSE [l EXCEPT !.renumber = TRUE]
  IN IF e \notin l.inside THEN [at |-> NullPtr, list |-> l]
     ELSE Unlink(off, e)

(* removeNext() of an element in a single list, and the tail or the mark   *)
(* for renumbering after it.                                               *)
RemoveNext(l, p) ==
  LET e == l.next[p]
      unlinked == Detach(SetNext(l, p, GetNext(l, e)), e)
      last == GetNext(l, p) = l.tail
      marked == [l EXCEPT !.renumber = TRUE]
  IN IF e = NullPtr \/ e = p THEN [at |-> NullPtr, list |-> marked]
     ELSE [at |-> e,
           list |-> Uncounted(IF last /\ e = l.tail THEN SetTail(unlinked, p)
                              ELSE [unlinked EXCEPT !.renumber = TRUE])]

RemoveHead(l) ==
  LET off == SetHead(l, GetNext(l, l.head))
  IN IF l.head = NullPtr THEN [at |-> NullPtr, list |-> l]
     ELSE Unlink(off, l.head)

(* privRemoveAfterElement().                                               *)
RemoveAfter(l, p) ==
  IF Single(l) THEN (IF p = NullPtr THEN RemoveHead(l) ELSE RemoveNext(l, p))
  ELSE LET e == IF p = NullPtr THEN l.head ELSE GetNext(l, p)
       IN IF e = NullPtr THEN [at |-> NullPtr, list |-> l] ELSE PrivRemove(l, e)

(* pop_back(): a single list has to find the last but one by its number.   *)
PopBack(l) ==
  LET g == GetByIndex(l, -2)
  IN IF ~Single(l)
     THEN (IF l.tail = NullPtr THEN [at |-> NullPtr, list |-> l] ELSE PrivRemove(l, l.tail))
     ELSE IF l.count <= 1 THEN RemoveAfter(l, NullPtr)
     ELSE IF Running(g.list) THEN RemoveAfter(g.list, g.at) ELSE g

(* privClear() gives up the head first of all; that of a set, in the end.  *)
Clear(l) ==
  IF l.count = 0 THEN l
  ELSE SetHead([l EXCEPT !.count = 0, !.curr = NullPtr], NullPtr)

(* operator+= with those of the data in s that are in D.                   *)
AddThose(l, s, D) ==
  LET sum[i \in 0 .. Len(s)] ==
        IF i = 0 THEN l
        ELSE LET m == sum[i - 1]
             IN IF Running(m) /\ s[i] \in D THEN Insert(m, m.tail, s[i]) ELSE m
  IN sum[Len(s)]

AddAll(l, s) == AddThose(l, s, Elements)

(* operator-= looks for the element in front of each, and a ring connects  *)
(* its ends again after each.                                              *)
SubtractOne(l, d) ==
  LET p == FindPrev(l, d)
  IN IF l.head = NullPtr THEN Crashed(l)
     ELSE IF d = l.head THEN Connect(RemoveAfter(l, NullPtr).list)
     ELSE IF p.at = NullPtr THEN p.list
     ELSE Connect(RemoveAfter(p.list, p.at).list)

SubtractAll(l, s) ==
  LET less[i \in 0 .. Len(s)] ==
        IF i = 0 THEN l
        ELSE LET m == less[i - 1] IN IF Running(m) THEN SubtractOne(m, s[i]) ELSE m
  IN less[Len(s)]

----------------------------------------------------------------------------
(* Sets.                                                                   *)

SetOf(s) == AddAll(Empty("set", FALSE), s)

(* Lists with nothing in them are subsets of all, and have only such.      *)
IsSubsetOf(l, r) ==
  l.count = 0 \/ \A i \in DOMAIN Row(l) : Member(r, Value[Row(l)[i]]) # NullPtr

SetsEqual(l, r) == l.count = r.count /\ IsSubsetOf(l, r)

(* The functions go from the element with the index 0 to that with -1.     *)
Between(l) ==
  LET first == GetByIndex(l, 0)
      last == GetByIndex(first.list, -1)
  IN Through(last.list, first.at, last.at)

Has(l) == {e \in Elements : Member(l, Value[e]) # NullPtr}

SetDifference(l, r) ==
  IF l.count = 0 THEN SetOf(<<>>)
  ELSE IF r.count = 0 THEN SetOf(Row(l))
  ELSE AddThose(SetOf(<<>>), Between(l), Elements \ Has(r))

SetIntersection(l, r) ==
  IF l.count = 0 \/ r.count = 0 THEN SetOf(<<>>)
  ELSE AddThose(SetOf(<<>>), Between(l), Has(r))

SetUnion(l, r) == AddAll(SetOf(Row(l)), Row(r))
=============================================================================
