------------------------------- MODULE MCLists -------------------------------
EXTENDS Lists

MCElements == 1 .. 4
MCValue == [e \in MCElements |-> IF e = 1 THEN 1 ELSE IF e = 4 THEN 3 ELSE 2]
MCIndexes == {-2, 1, 2}
MCOtherLists == {<<2>>, <<4, 1>>, <<3, 2>>}
MCUses ==
  {[as |-> "list", kind |-> k, ring |-> r] :
     k \in {"single", "double"}, r \in BOOLEAN}
  \cup {[as |-> "list", kind |-> "set", ring |-> FALSE],
        [as |-> "stack", kind |-> "single", ring |-> FALSE],
        [as |-> "queue", kind |-> "double", ring |-> FALSE]}
=============================================================================
