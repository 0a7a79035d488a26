---------------------------- MODULE MCChainHash ----------------------------
\* Two keys that share a place in a table of size 1 and do not in one of size 2.
EXTENDS ChainHash

CONSTANTS k1, k2, t1, t2

MCBucket == [s \in {1, 2} |-> [k \in {k1, k2} |-> IF s = 2 /\ k = k2 THEN 1 ELSE 0]]
MCInitKeys == <<k1, k2>>
MCCalls == [t \in {t1, t2} |-> IF t = t1 THEN 2 ELSE 1]
MCGrown == [s \in {1, 2} |-> 2]
=============================================================================
