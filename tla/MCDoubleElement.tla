--------------------------- MODULE MCDoubleElement ---------------------------
\* Three elements in a row, two more to be inserted.
EXTENDS DoubleElement

CONSTANTS t1, t2, t3, e1, e2, e3

MCInitRow == <<e1, e2, e3>>
MCCalls == [t \in Threads |-> 1]
=============================================================================
