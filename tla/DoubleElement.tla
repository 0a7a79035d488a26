--------------------------- MODULE DoubleElement ---------------------------
(***************************************************************************)
(* pwx::TDoubleElement (src/src/container/TDoubleElement.h): the elements  *)
(* of the doubly linked lists and rings are inserted and removed by        *)
(* several threads. There is no lock for the whole list: each operation    *)
(* locks the elements whose pointers it changes, and looks again whether   *)
(* they are still neighbours.                                              *)
(*                                                                         *)
(* A guard takes its locks all at once or not at all (CLockGuard.tla).     *)
(***************************************************************************)
EXTENDS Naturals, FiniteSets, SequencesExt

CONSTANTS Threads, Elems,
          First,         \* the element all the others are in a row with
          InitRow,       \* the elements in the row when the threads start
          Nil,           \* nullptr, nobody
          Calls,         \* bound: the calls each thread makes
          RemoveTwice    \* may two threads remove the same element?

ASSUME ElementAssumption ==
  /\ IsFiniteSet(Elems) /\ First \in Elems /\ Nil \notin Elems \cup Threads
  /\ InitRow \in Seq(Elems) \ {<<>>} /\ IsInjective(InitRow) /\ InitRow[1] = First
  /\ Calls \in [Threads -> Nat] /\ RemoveTwice \in BOOLEAN

VARIABLES
  next, prev, isRemoved,   \* of each element
  holder,                  \* the thread that has an element locked
  pc, this, new,           \* of each thread: its step, the element, the one to insert
  xNext, xPrev,            \* the neighbours it has read
  calls                    \* how many calls it still makes

vars == <<next, prev, isRemoved, holder, pc, this, new, xNext, xPrev, calls>>
links == <<next, prev, isRemoved>>
local == <<this, new, xNext, xPrev, calls>>

\* A list ends with null pointers, in a ring the last element is next to the first.
Init ==
  /\ LET n == Len(InitRow)
         at(i) == CHOOSE e \in Elems : e = InitRow[i]
         index(e) == CHOOSE i \in 1 .. n : InitRow[i] = e
     IN \E ring \in BOOLEAN :
          /\ next = [e \in Elems |-> IF e \notin ToSet(InitRow) THEN Nil
                                     ELSE IF index(e) < n THEN at(index(e) + 1)
                                     ELSE IF ring THEN First ELSE Nil]
          /\ prev = [e \in Elems |-> IF e \notin ToSet(InitRow) THEN Nil
                                     ELSE IF e # First THEN at(index(e) - 1)
                                     ELSE IF ring THEN at(n) ELSE Nil]
  /\ isRemoved = [e \in Elems |-> e \notin ToSet(InitRow)]
  /\ holder = [e \in Elems |-> Nil]
  /\ pc = [t \in Threads |-> "idle"] /\ this = [t \in Threads |-> Nil]
  /\ new = [t \in Threads |-> Nil]
  /\ xNext = [t \in Threads |-> Nil] /\ xPrev = [t \in Threads |-> Nil]
  /\ calls = Calls

Goto(t, where) == pc' = [pc EXCEPT ![t] = where]

Return(t) ==
  /\ Goto(t, "idle")
  /\ this' = [this EXCEPT ![t] = Nil] /\ new' = [new EXCEPT ![t] = Nil]
  /\ xNext' = [xNext EXCEPT ![t] = Nil] /\ xPrev' = [xPrev EXCEPT ![t] = Nil]
  /\ UNCHANGED calls

\* The elements a guard is on, without null pointers.
Free(t, els) == \A e \in els \ {Nil} : holder[e] \in {Nil, t}
Lock(t, els) == holder' = [e \in Elems |-> IF e \in els THEN t ELSE holder[e]]
Unlock(els)  == holder' = [e \in Elems |-> IF e \in els THEN Nil ELSE holder[e]]

Working == {t \in Threads : pc[t] # "idle"}
Inserting == {t \in Working : new[t] # Nil}

-----------------------------------------------------------------------------
(* insertNext() and insertPrev(). New elements are those no thread has and *)
(* no other element points to. Nothing is inserted beside an element that  *)
(* is being removed, nor removed while another one is inserted beside it.  *)

Fresh == {e \in Elems : isRemoved[e] /\ \A t \in Threads : this[t] # e /\ new[t] # e}

Insert(t, step, e, x) ==
  /\ pc[t] = "idle" /\ calls[t] > 0
  /\ x \in Fresh /\ e # x
  /\ ~isRemoved[e] /\ \A s \in Working \ Inserting : this[s] # e
  /\ Free(t, {x})
  /\ Lock(t, {x})
  /\ this' = [this EXCEPT ![t] = e]
  /\ new' = [new EXCEPT ![t] = x]
  /\ calls' = [calls EXCEPT ![t] = @ - 1]
  /\ Goto(t, step)
  /\ UNCHANGED <<links, xNext, xPrev>>

InsertNext(t, e, x) == Insert(t, "next", e, x)
InsertPrev(t, e, x) == (e = First => prev[e] # Nil) /\ Insert(t, "prev", e, x)

\* The old neighbour is read first, then both are locked.
ReadNext(t) ==
  /\ pc[t] = "next"
  /\ xNext' = [xNext EXCEPT ![t] = next[this[t]]]
  /\ xPrev' = [xPrev EXCEPT ![t] = this[t]]
  /\ Goto(t, "lock next")
  /\ UNCHANGED <<links, holder, this, new, calls>>

ReadPrev(t) ==
  /\ pc[t] = "prev"
  /\ xPrev' = [xPrev EXCEPT ![t] = prev[this[t]]]
  /\ xNext' = [xNext EXCEPT ![t] = this[t]]
  /\ Goto(t, "lock prev")
  /\ UNCHANGED <<links, holder, this, new, calls>>

\* If they are not neighbours any more, the locks are given back, and it begins anew.
LockNext(t) ==
  /\ pc[t] = "lock next"
  /\ Free(t, {this[t], xNext[t]})
  /\ IF next[this[t]] = xNext[t]
     THEN Lock(t, {this[t], xNext[t]}) /\ Goto(t, "link")
     ELSE UNCHANGED holder /\ Goto(t, "next")
  /\ UNCHANGED <<links, local>>

LockPrev(t) ==
  /\ pc[t] = "lock prev"
  /\ Free(t, {this[t], xPrev[t]})
  /\ IF prev[this[t]] = xPrev[t]
     THEN Lock(t, {this[t], xPrev[t]}) /\ Goto(t, "link")
     ELSE UNCHANGED holder /\ Goto(t, "prev")
  /\ UNCHANGED <<links, local>>

\* The new element learns its neighbours before they learn of it.
Link(t) ==
  /\ pc[t] = "link"
  /\ next' = [next EXCEPT ![new[t]] = xNext[t]]
  /\ prev' = [prev EXCEPT ![new[t]] = xPrev[t]]
  /\ isRemoved' = [isRemoved EXCEPT ![new[t]] = FALSE]
  /\ Goto(t, "link one")
  /\ UNCHANGED <<holder, local>>

SetNext(e, f) == next' = IF e = Nil THEN next ELSE [next EXCEPT ![e] = f]
SetPrev(e, f) == prev' = IF e = Nil THEN prev ELSE [prev EXCEPT ![e] = f]

\* First the element the call is for, then its old neighbour.
LinkOne(t) ==
  /\ pc[t] = "link one"
  /\ IF this[t] = xPrev[t]
     THEN SetNext(xPrev[t], new[t]) /\ UNCHANGED prev
     ELSE SetPrev(xNext[t], new[t]) /\ UNCHANGED next
  /\ Goto(t, "link other")
  /\ UNCHANGED <<isRemoved, holder, local>>

\* Mutation: the old next does not learn of its new previous one.
LinkOtherNot(t) ==
  /\ pc[t] = "link other"
  /\ IF this[t] = xPrev[t]
     THEN UNCHANGED <<next, prev>>
     ELSE SetNext(xPrev[t], new[t]) /\ UNCHANGED prev
  /\ Unlock({this[t], xPrev[t], xNext[t], new[t]})
  /\ Return(t)
  /\ UNCHANGED isRemoved

\* Mutation: the new element's lock is not given back.
LinkOtherLocked(t) ==
  /\ pc[t] = "link other"
  /\ IF this[t] = xPrev[t]
     THEN SetPrev(xNext[t], new[t]) /\ UNCHANGED next
     ELSE SetNext(xPrev[t], new[t]) /\ UNCHANGED prev
  /\ Unlock({this[t], xPrev[t], xNext[t]})
  /\ Return(t)
  /\ UNCHANGED isRemoved

LinkOther(t) ==
  /\ pc[t] = "link other"
  /\ IF this[t] = xPrev[t]
     THEN SetPrev(xNext[t], new[t]) /\ UNCHANGED next
     ELSE SetNext(xPrev[t], new[t]) /\ UNCHANGED prev
  /\ Unlock({this[t], xPrev[t], xNext[t], new[t]})
  /\ Return(t)
  /\ UNCHANGED isRemoved

-----------------------------------------------------------------------------
(* remove() *)

\* It counts as removed at once.
RemoveCall(t, e) ==
  /\ pc[t] = "idle" /\ calls[t] > 0
  /\ e # First /\ ~isRemoved[e]
  /\ \A s \in Working : this[s] = e => RemoveTwice /\ s \notin Inserting
  /\ \A s \in Inserting : new[s] # e
  /\ this' = [this EXCEPT ![t] = e]
  /\ calls' = [calls EXCEPT ![t] = @ - 1]
  /\ Goto(t, "mark")
  /\ UNCHANGED <<links, holder, new, xNext, xPrev>>

Mark(t) ==
  /\ pc[t] = "mark"
  /\ isRemoved' = [isRemoved EXCEPT ![this[t]] = TRUE]
  /\ Goto(t, "read prev")
  /\ UNCHANGED <<next, prev, holder, local>>

ReadOldPrev(t) ==
  /\ pc[t] = "read prev"
  /\ xPrev' = [xPrev EXCEPT ![t] = prev[this[t]]]
  /\ Goto(t, "read next")
  /\ UNCHANGED <<links, holder, this, new, xNext, calls>>

ReadOldNext(t) ==
  /\ pc[t] = "read next"
  /\ xNext' = [xNext EXCEPT ![t] = next[this[t]]]
  /\ Goto(t, IF {xPrev[t], next[this[t]]} = {Nil} THEN "forget" ELSE "lock both")
  /\ UNCHANGED <<links, holder, this, new, xPrev, calls>>

\* Mutation: only the next neighbour is looked at again.
LockBothHalf(t) ==
  /\ pc[t] = "lock both"
  /\ Free(t, {this[t], xPrev[t], xNext[t]})
  /\ IF next[this[t]] = xNext[t]
     THEN Lock(t, {this[t], xPrev[t], xNext[t]}) /\ Goto(t, "unlink")
     ELSE UNCHANGED holder /\ Goto(t, "read prev")
  /\ UNCHANGED <<links, local>>

LockBoth(t) ==
  /\ pc[t] = "lock both"
  /\ Free(t, {this[t], xPrev[t], xNext[t]})
  /\ IF prev[this[t]] = xPrev[t] /\ next[this[t]] = xNext[t]
     THEN Lock(t, {this[t], xPrev[t], xNext[t]}) /\ Goto(t, "unlink")
     ELSE UNCHANGED holder /\ Goto(t, "read prev")
  /\ UNCHANGED <<links, local>>

\* The neighbours are told of each other, one after the other.
Unlink(t) ==
  /\ pc[t] = "unlink"
  /\ IF xPrev[t] # this[t] THEN SetNext(xPrev[t], xNext[t]) ELSE UNCHANGED next
  /\ Goto(t, "unlink other")
  /\ UNCHANGED <<prev, isRemoved, holder, local>>

UnlinkOther(t) ==
  /\ pc[t] = "unlink other"
  /\ IF xNext[t] # this[t] THEN SetPrev(xNext[t], xPrev[t]) ELSE UNCHANGED prev
  /\ Unlock({this[t], xPrev[t], xNext[t]})
  /\ Goto(t, "forget")
  /\ UNCHANGED <<next, isRemoved, local>>

\* The locks are given back before the element forgets its neighbours.
Forget(t) ==
  /\ pc[t] = "forget"
  /\ SetPrev(this[t], Nil) /\ SetNext(this[t], Nil)
  /\ Return(t)
  /\ UNCHANGED <<isRemoved, holder>>

-----------------------------------------------------------------------------
Step(t) ==
  \/ ReadNext(t) \/ ReadPrev(t) \/ LockNext(t) \/ LockPrev(t)
  \/ Link(t) \/ LinkOne(t) \/ LinkOther(t)
  \/ Mark(t) \/ ReadOldPrev(t) \/ ReadOldNext(t) \/ LockBoth(t)
  \/ Unlink(t) \/ UnlinkOther(t) \/ Forget(t)

Call(t) ==
  \E e \in Elems : RemoveCall(t, e) \/ \E x \in Elems : InsertNext(t, e, x) \/ InsertPrev(t, e, x)

Next == \E t \in Threads : Step(t) \/ Call(t)
Spec == Init /\ [][Next]_vars /\ \A t \in Threads : WF_vars(Step(t))

-----------------------------------------------------------------------------
(* Properties *)

\* The elements that come one after the other from e on, at most n of them: From[n][e].
From[n \in 0 .. Cardinality(Elems)] ==
  [e \in Elems |-> IF n = 0 THEN <<>>
                   ELSE IF next[e] \in {Nil, First} THEN <<e>> ELSE <<e>> \o From[n - 1][next[e]]]

Row == From[Cardinality(Elems)][First]

\* Neighbours agree on being neighbours, unless one of them is locked by a thread
\* that is about to change that, and nobody in the row is marked as removed but by
\* a thread that is still busy removing it.
NeighboursAgree ==
  /\ \A e \in ToSet(Row) : next[e] # Nil /\ {holder[e], holder[next[e]]} = {Nil} => prev[next[e]] = e
  /\ \A e \in ToSet(Row) : isRemoved[e] => \E t \in Working : this[t] = e

\* Inserted elements stay in the row until they are removed, and nobody gets lost
\* with one that is: whatever the interleaving of reads, locks and stores.
IsChain == INSTANCE Chain WITH row <- Row
ImplementsChain == IsChain!Spec

\* Every insertion and removal comes to an end, although three locks are taken by
\* some while others hold a lock and want two.
CallsReturn == \A t \in Threads : pc[t] # "idle" ~> pc[t] = "idle"
=============================================================================
