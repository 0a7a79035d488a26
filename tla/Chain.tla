-------------------------------- MODULE Chain --------------------------------
(***************************************************************************)
(* What the elements of a list or ring promise together: they are in a row *)
(* that starts with First, an element that is new gets a place behind      *)
(* another one, and one that is removed leaves the others in their order.  *)
(***************************************************************************)
EXTENDS SequencesExt

CONSTANTS Elems, First

VARIABLE row

Init ==
  /\ row \in Seq(Elems) \ {<<>>}
  /\ row[1] = First /\ IsInjective(row)

InsertBehind(i, new) ==
  /\ new \in Elems \ ToSet(row)
  /\ row' = InsertAt(row, i + 1, new)

TakeOut(i) ==
  /\ row[i] # First
  /\ row' = RemoveAt(row, i)

Next == \E i \in DOMAIN row : TakeOut(i) \/ \E new \in Elems : InsertBehind(i, new)
Spec == Init /\ [][Next]_row
=============================================================================
