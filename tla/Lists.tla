-------------------------------- MODULE Lists --------------------------------
(***************************************************************************)
(* One thread calls the methods of a TSingleList, TDoubleList, TSet or of  *)
(* a ring, or those of a TStack (a single list) or a TQueue (a double      *)
(* list), in any order.  Every insertion makes a new element, so there are *)
(* no more insertions than Elements; the removed ones go to the caller.    *)
(***************************************************************************)
EXTENDS ListOps

CONSTANTS Uses,         \* the records [as, kind, ring] of the containers
          Indexes,      \* the indexes that are asked for
          OtherLists    \* the contents of the other list of an operator

ASSUME ListsAssumption ==
  /\ Uses \subseteq [as : {"list", "stack", "queue"}, kind : {"single", "double", "set"}, ring : BOOLEAN]
  /\ \A u \in Uses : u.kind = "set" => ~u.ring
  /\ Indexes \subseteq Int
  /\ \A s \in OtherLists : s \in Seq(Elements) /\ IsInjective(s)

VARIABLES list, as, used
listVars == <<list, as, used>>

Inside == list.inside
Fresh == Elements \ used
IsKind(K) == list.kind \in K

ListInit ==
  /\ \E u \in Uses : as = u.as /\ list = Empty(u.kind, u.ring)
  /\ used = {}

(* The end of a method that changed something: a ring closes itself again. *)
Changed(l) ==
  /\ list' = Connect(l)
  /\ used' = used \cup list'.inside
  /\ UNCHANGED as

(* The end of one that found nothing to change, or of a mere look, which   *)
(* moves the current element all the same.                                 *)
Looked(l) == list' = l /\ UNCHANGED <<as, used>>

TakenOut(r) == IF r.at = NullPtr THEN Looked(r.list) ELSE Changed(r.list)

----------------------------------------------------------------------------

PushBack(e) == Changed(Insert(list, list.tail, e))
PushFront(e) == Changed(Insert(list, NullPtr, e))

(* Beside the element that holds d; without one an exception is thrown.    *)
InsNext(d, e) ==
  LET f == Find(list, d)
  IN f # NullPtr /\ Changed(Insert(AfterFind(list, f), f, e))

InsPrev(d, e) ==
  LET f == Find(list, d)
  IN /\ IsKind({"double", "set"}) /\ f # NullPtr
     /\ Changed(Insert(AfterFind(list, f), GetPrev(list, f), e))

(* Before nothing is at the end of a double list, and at a set's start.    *)
InsLast(e) ==
  /\ IsKind({"double", "set"})
  /\ Changed(Insert(list, IF IsKind({"set"}) THEN NullPtr ELSE list.tail, e))

InsNextElem(p, e) == Changed(Insert(list, p, e))

InsPrevElem(p, e) ==
  /\ IsKind({"double", "set"})
  /\ Changed(Insert(list, GetPrev(list, p), e))

(* The rings do not override this: they stay open.                         *)
InsertSorted(e) ==
  LET g == GreaterNext(list, Value[e])
  IN /\ ~IsKind({"set"})
     /\ list' = ProtInsert(g.list, g.at, e)
     /\ used' = used \cup {e} /\ UNCHANGED as

PopFront == TakenOut(RemoveAfter(list, NullPtr))
PopLast == TakenOut(PopBack(list))
RemNextElem(p) == TakenOut(RemoveAfter(list, p))

(* What a set looks for need only be equal.                                *)
Sought(d) ==
  IF IsKind({"set"}) THEN FindData(list, Value[d]) ELSE Find(list, d)

RemNext(d) ==
  LET f == Sought(d)
  IN IF f = NullPtr THEN Looked(list) ELSE TakenOut(RemoveAfter(AfterFind(list, f), f))

Beside(l, e) == IF e = NullPtr THEN [at |-> NullPtr, list |-> l] ELSE PrivRemove(l, e)

RemPrevElem(p) ==
  IsKind({"double", "set"}) /\ TakenOut(Beside(list, GetPrev(list, p)))

RemElem(p) == IsKind({"double", "set"}) /\ TakenOut(Beside(list, p))

RemData(d) ==
  /\ IsKind({"double", "set"})
  /\ TakenOut(Beside(AfterFind(list, Sought(d)), Sought(d)))

ClearList == Looked(Clear(list))

FindPointer(d) == Looked(AfterFind(list, Find(list, d)))
FindEqual(d) == Looked(AfterFind(list, FindData(list, Value[d])))
GetIndex(i) == Looked(GetByIndex(list, i).list)

----------------------------------------------------------------------------

(* The other list has been filled in the same way.                         *)
Other(s) == IF IsKind({"set"}) THEN Row(SetOf(s)) ELSE s

AddList(s) == Changed(AddAll(list, Other(s)))
Assign(s) == Changed(AddAll(Clear(list), Other(s)))
Subtract(s) == Changed(SubtractAll(list, Other(s)))

(* The set functions make a new set, which is used instead from now on.    *)
Unite(s) == IsKind({"set"}) /\ Changed(SetUnion(list, SetOf(s)))
Intersect(s) == IsKind({"set"}) /\ Changed(SetIntersection(list, SetOf(s)))
Subtracted(s) == IsKind({"set"}) /\ Changed(SetDifference(list, SetOf(s)))

----------------------------------------------------------------------------

Insertions ==
  \E e \in Fresh :
    \/ PushBack(e) \/ PushFront(e) \/ InsertSorted(e) \/ InsLast(e)
    \/ \E d \in Elements : InsNext(d, e) \/ InsPrev(d, e)
    \/ \E p \in Inside : InsNextElem(p, e) \/ InsPrevElem(p, e)

Removals ==
  \/ PopFront \/ PopLast \/ ClearList
  \/ \E d \in Elements : RemNext(d) \/ RemData(d)
  \/ \E p \in Inside : RemNextElem(p) \/ RemPrevElem(p) \/ RemElem(p)

Queries ==
  \/ \E d \in Elements : FindPointer(d) \/ FindEqual(d)
  \/ \E i \in Indexes : GetIndex(i)

Operators ==
  \E s \in OtherLists :
    \/ Subtract(s) \/ Unite(s) \/ Intersect(s) \/ Subtracted(s)
    \/ Range(s) \cap used = {} /\ (AddList(s) \/ Assign(s))

StackPush(e) == PushBack(e)
StackPop == PopLast
StackShift == PopFront
StackUnshift(e) == PushFront(e)

QueuePop == PopFront
QueueShift == PopLast
QueueUnshift(e) == PushBack(e)

StackCalls == (\E e \in Fresh : StackPush(e) \/ StackUnshift(e)) \/ StackPop \/ StackShift
QueueCalls == (\E e \in Fresh : QueueUnshift(e)) \/ QueuePop \/ QueueShift

ListNext ==
  /\ Running(list)
  /\ \/ as = "list" /\ (Insertions \/ Removals \/ Queries \/ Operators)
     \/ as = "stack" /\ StackCalls
     \/ as = "queue" /\ QueueCalls

ListSpec == ListInit /\ [][ListNext]_listVars

----------------------------------------------------------------------------
(* What the methods keep, up to the call that crashes or hangs.  Closed    *)
(* single lists are left out: remNext() of the tail removes the head and   *)
(* leaves it the head.                                                     *)
Sound == Running(list) /\ ~(list.kind = "single" /\ list.ring)

Values(T) == {Value[e] : e \in T}

(* From the head, the elements that are inside follow one another, each    *)
(* once, up to the tail; the count is theirs; they point back the same     *)
(* way; the ends are loose, or joined; and no thread's current element is  *)
(* one that was removed.  Every method updates these members one by one.   *)
ListIntact ==
  LET row == Row(list)
      n == Len(row)
      Loose(e, end) == e \in {NullPtr} \cup (IF list.ring THEN {end} ELSE {})
  IN Sound =>
       /\ Range(row) = Inside /\ list.count = n
       /\ list.tail = IF n = 0 THEN NullPtr ELSE row[n]
       /\ n = 0 \/ Loose(list.next[list.tail], list.head)
       /\ ~Single(list) =>
            /\ \A i \in 2 .. n : list.prev[row[i]] = row[i - 1]
            /\ n = 0 \/ Loose(list.prev[list.head], list.tail)
       /\ list.curr \in Inside \cup {NullPtr}

(* find() meets what is there wherever earlier calls have left the current *)
(* element it starts from, and nothing that has been removed.              *)
SearchExact ==
  Sound =>
    /\ \A d \in Elements : Find(list, d) = IF d \in Inside THEN d ELSE NullPtr
    /\ \A v \in Values(Elements) :
         IF v \in Values(Inside)
         THEN FindData(list, v) \in Inside /\ Value[FindData(list, v)] = v
         ELSE FindData(list, v) = NullPtr

(* In whatever state, an element goes behind the one it is to be put       *)
(* behind, or to the front, and the others stay as they were.              *)
InsertedWhereAsked ==
  \A e \in Fresh, p \in Inside \cup {NullPtr} :
    LET after == Connect(Insert(list, p, e))
        spot == IF p = NullPtr THEN 1 ELSE PlaceOf(Row(list), p) + 1
        taken == ~IsKind({"set"}) \/ Value[e] \notin Values(Inside)
    IN Sound /\ Running(after) =>
         Row(after) = IF taken THEN InsertAt(Row(list), spot, e) ELSE Row(list)

(* In whatever state, pop_front(), pop_back() of a double list, the calls  *)
(* that name an element and those that name the one before it take out     *)
(* that element, and the others stay as they were.                         *)
RemovedAsAsked ==
  LET row == Row(list)
      Behind(p) ==
        IF p # list.tail THEN row[PlaceOf(row, p) + 1]
        ELSE IF list.ring THEN list.next[p] ELSE NullPtr
      Takes(r, e) ==
        LET after == Connect(r.list)
        IN Running(after) =>
             /\ r.at = e
             /\ Row(after) = IF e = NullPtr THEN row ELSE RemoveAt(row, PlaceOf(row, e))
  IN Sound /\ row # <<>> =>
       /\ Takes(RemoveAfter(list, NullPtr), list.head)
       /\ \A p \in Inside : Takes(RemoveAfter(list, p), Behind(p))
       /\ ~Single(list) =>
            /\ Takes(PopBack(list), list.tail)
            /\ \A p \in Inside : Takes(PrivRemove(list, p), p)

(* A set has nothing twice; is a subset of another, or equal to it, or     *)
(* joined with it, as the sets of their values are; and neither difference *)
(* nor intersection has anything that does not belong there.               *)
SetsLikeSets ==
  IsKind({"set"}) /\ Sound =>
    /\ \A d, e \in Inside : Value[d] = Value[e] => d = e
    /\ \A s \in OtherLists :
         LET r == SetOf(s)
             mine == Values(Inside)
             its == Values(r.inside)
         IN /\ Values(SetUnion(list, r).inside) = mine \cup its
            /\ IsSubsetOf(list, r) <=> mine \subseteq its
            /\ SetsEqual(list, r) <=> mine = its
            /\ Values(SetDifference(list, r).inside) \subseteq mine \ its
            /\ Values(SetIntersection(list, r).inside) \subseteq mine \cap its

(* The last element can be taken out: TSingleList.h:598 promises "a pointer*)
(* to the removed element or `nullptr` if the list is empty".  But the head*)
(* that comes next, none, is given the number 0.                           *)
LastComesOut == list.count = 1 => Running(RemoveAfter(list, NullPtr).list)
=============================================================================
