--------------------------- MODULE RecursiveLock ---------------------------
(***************************************************************************)
(* What pwx::CLockable promises its users: a lock that one thread at a     *)
(* time may hold, any number of times, and a switch that turns the whole   *)
(* mechanism off and on again.                                             *)
(***************************************************************************)
EXTENDS Naturals

CONSTANT Threads

VARIABLES holds,    \* how many locks each thread holds
          locking   \* whether the locking mechanism is turned on

lockVars == <<holds, locking>>

FreeFor(t) == \A u \in Threads \ {t} : holds[u] = 0

Init == /\ holds = [t \in Threads |-> 0]
        /\ locking = TRUE

\* lock() or a successful try_lock(), the first one or a nested one.
Acquire(t) == /\ locking
              /\ FreeFor(t)
              /\ holds' = [holds EXCEPT ![t] = @ + 1]
              /\ UNCHANGED locking

\* unlock() gives back one lock.
Release(t) == /\ holds[t] > 0
              /\ holds' = [holds EXCEPT ![t] = @ - 1]
              /\ UNCHANGED locking

\* clear_locks(), the destructor and do_locking(false) give back all of them.
ReleaseAll(t) == /\ holds' = [holds EXCEPT ![t] = 0]
                 /\ UNCHANGED locking

\* do_locking(): nobody else may hold the lock. Only an owner that switches
\* the mechanism off may still hold locks, which it is about to lose.
Switch(t) == /\ FreeFor(t)
             /\ ~locking => holds[t] = 0
             /\ locking' = ~locking
             /\ UNCHANGED holds

Next == \E t \in Threads :
          Acquire(t) \/ Release(t) \/ ReleaseAll(t) \/ Switch(t)

Spec == Init /\ [][Next]_lockVars
=============================================================================
