----------------------------- MODULE CLockGuard -----------------------------
(***************************************************************************)
(* Several pwx::CLockable objects locked together: try_locks(),            *)
(* unlock_all() and are_locked() of src/src/basic/CLockable.cpp, and the   *)
(* RAII class CLockGuard of src/src/basic/CLockGuard.cpp.                  *)
(*                                                                         *)
(* Each object is the abstract lock of RecursiveLock; module CLockable     *)
(* shows that the class implements it. Every lock operation on one object  *)
(* is a step. An idle thread may reset, clear (that is also what a         *)
(* guard's destructor does), copy or assign any of its guards, lock and    *)
(* unlock objects without a guard, and destroy an object it has locked.    *)
(***************************************************************************)
EXTENDS Naturals, Sequences, FiniteSets, FiniteSetsExt

CONSTANTS Threads, Objects,
          Null,             \* nullptr
          Guards,           \* the names of a thread's guards
          NoGuard,          \* stands for "none of the guards"
          Requests,         \* the groups of objects the users ask for
          MaxInUse,         \* bound on the slots a thread's guards use
          CarefulTakeOver,  \* TRUE: guards take over locks only if nothing is lost
          CarefulUnlock     \* TRUE: unlock_all() spares what the caller's guards need

ASSUME GroupAssumption ==
  /\ Null \notin Objects
  /\ NoGuard \notin Guards /\ IsFiniteSet(Guards)
  /\ Requests \subseteq UNION {[1 .. n -> Objects \cup {Null}] : n \in 1 .. 3}
  /\ MaxInUse \in Nat
  /\ {CarefulTakeOver, CarefulUnlock} \subseteq BOOLEAN

VARIABLES holds,      \* how many locks each thread has on each object
          destroyed,  \* the objects in or behind their destructor
          slots,      \* l_a, l_b and l_c of each guard of each thread
          direct,     \* history: the locks each thread took without a guard
          call        \* the call each thread is in

vars == <<holds, destroyed, slots, direct, call>>

Empty == <<Null, Null, Null>>
Idle  == [at |-> "idle", guard |-> NoGuard, want |-> Empty, todo |-> {}, got |-> {}, next |-> NoGuard]

Free(o, t) == \A u \in Threads \ {t} : holds[o][u] = 0
Locked(o)  == \E u \in Threads : holds[o][u] > 0

\* CLockable::unlock() does nothing unless t is the owner.
Unlocked(o, t) == IF holds[o][t] = 0 THEN holds ELSE [holds EXCEPT ![o][t] = @ - 1]

\* CLockable::try_lock() fails for an object in destruction.
CanLock(o, t) == o \notin destroyed /\ Free(o, t)

\* The places of a group that are not nullptr.
Places(group)   == {i \in DOMAIN group : group[i] # Null}
Times(o, group) == Cardinality({i \in DOMAIN group : group[i] = o})

\* The locks t should have on o: its own and those of its guards.
Guarded(t, o) == Cardinality({slot \in Guards \X (1 .. 3) : slots[t][slot[1]][slot[2]] = o})
Due(t, o)     == direct[t][o] + Guarded(t, o)

\* The slots in use if the guard g of t is given this group.
InUse(t, g, group) ==
  Cardinality({slot \in Guards \X (1 .. 3) :
                 (IF slot[1] = g THEN group ELSE slots[t][slot[1]])[slot[2]] # Null})

Init ==
  /\ holds = [o \in Objects |-> [t \in Threads |-> 0]]
  /\ destroyed = {}
  /\ slots = [t \in Threads |-> [g \in Guards |-> Empty]]
  /\ direct = [t \in Threads |-> [o \in Objects |-> 0]]
  /\ call = [t \in Threads |-> Idle]

At(t, where) == call[t].at = where
Enter(t, c)  == call' = [call EXCEPT ![t] = c]
Working(t, where) == At(t, where) /\ call[t].todo # {}
Finished(t, where) == At(t, where) /\ call[t].todo = {}

\* The place the call works on, one after the other, what is there, and the
\* call once it is done.
Place(t)   == Min(call[t].todo)
Wanted(t)  == call[t].want[Place(t)]
Onward(t)  == [call[t] EXCEPT !.todo = @ \ {Place(t)}]

-----------------------------------------------------------------------------
(* CLockGuard::reset(): unlock the old objects, remember the new ones, and *)
(* try to lock all of them until that succeeds.                            *)

ResetTo(t, g, group) ==
  [at |-> "drop", guard |-> g, want |-> group, todo |-> Places(slots[t][g]), got |-> {}, next |-> NoGuard]

Attempt(group, c) ==
  [at |-> "try", guard |-> c.guard, want |-> group, todo |-> Places(group), got |-> {}, next |-> c.next]

\* reset(a), reset(a, b) and reset(a, b, c), which the constructors call too:
\* the slots that are not named keep their objects.
Reset(t) ==
  \E g \in Guards, group \in Requests :
    LET want == [i \in 1 .. 3 |-> IF i <= Len(group) THEN group[i] ELSE slots[t][g][i]]
    IN /\ At(t, "idle")
       /\ InUse(t, g, want) <= MaxInUse
       /\ Enter(t, ResetTo(t, g, want))
       /\ UNCHANGED <<holds, destroyed, slots, direct>>

\* The destructor and PWX_LOCK_GUARD_CLEAR.
Clear(t) ==
  \E g \in Guards :
    /\ At(t, "idle")
    /\ slots[t][g] # Empty
    /\ Enter(t, ResetTo(t, g, Empty))
    /\ UNCHANGED <<holds, destroyed, slots, direct>>

\* The copy constructor (an empty dst) and the assignment: dst overwrites its
\* slots with those of src, has src release its objects, then resets itself.
TakeOver(t) ==
  \E dst, src \in Guards :
    /\ At(t, "idle")
    /\ dst # src
    /\ CarefulTakeOver =>
         /\ slots[t][dst] = Empty
         /\ \A o \in Objects : Times(o, slots[t][src]) > 0 => Due(t, o) = Times(o, slots[t][src])
    /\ slots' = [slots EXCEPT ![t][dst] = slots[t][src]]
    /\ Enter(t, [ResetTo(t, src, Empty) EXCEPT !.next = dst])
    /\ UNCHANGED <<holds, destroyed, direct>>

Drop(t) ==
  /\ Working(t, "drop")
  /\ holds' = Unlocked(slots[t][call[t].guard][Place(t)], t)
  /\ Enter(t, Onward(t))
  /\ UNCHANGED <<destroyed, slots, direct>>

Remember(t) ==
  /\ Finished(t, "drop")
  /\ slots' = [slots EXCEPT ![t][call[t].guard] = call[t].want]
  /\ Enter(t, Attempt(call[t].want, call[t]))
  /\ UNCHANGED <<holds, destroyed, direct>>

\* Mutation: the guard insists on objects that are being destroyed.
ForgetNothing(t) ==
  /\ At(t, "yield")
  /\ Enter(t, Attempt(call[t].want, call[t]))
  /\ UNCHANGED <<holds, destroyed, slots, direct>>

\* Between two attempts the guard lets go of objects being destroyed.
Forget(t) ==
  LET g    == call[t].guard
      kept == [i \in 1 .. 3 |-> IF slots[t][g][i] \in destroyed THEN Null ELSE slots[t][g][i]]
  IN /\ At(t, "yield")
     /\ slots' = [slots EXCEPT ![t][g] = kept]
     /\ Enter(t, Attempt(kept, call[t]))
     /\ UNCHANGED <<holds, destroyed, direct>>

-----------------------------------------------------------------------------
(* try_locks(): one try_lock() after the other; nullptr counts as locked.  *)

TryLocks(t) ==
  \E group \in Requests :
    /\ At(t, "idle")
    /\ \A o \in Objects : direct[t][o] = 0
    /\ Enter(t, Attempt(group, Idle))
    /\ UNCHANGED <<holds, destroyed, slots, direct>>

TryOne(t) ==
  /\ Working(t, "try")
  /\ IF CanLock(Wanted(t), t)
     THEN /\ holds' = [holds EXCEPT ![Wanted(t)][t] = @ + 1]
          /\ Enter(t, [Onward(t) EXCEPT !.got = @ \cup {Place(t)}])
     ELSE /\ Enter(t, Onward(t))
          /\ UNCHANGED holds
  /\ UNCHANGED <<destroyed, slots, direct>>

GotAll(t) == \A i \in DOMAIN call[t].want : call[t].want[i] = Null \/ i \in call[t].got

\* Mutation: a guard takes over but does not lock the objects again.
TryAllNoTarget(t) ==
  /\ Finished(t, "try")
  /\ GotAll(t)
  /\ Enter(t, Idle)
  /\ direct' = IF call[t].guard # NoGuard THEN direct
               ELSE [direct EXCEPT ![t] = [o \in Objects |-> @[o] + Times(o, call[t].want)]]
  /\ UNCHANGED <<holds, destroyed, slots>>

\* All locked: a guard has what it wants, and if it was the source of a take
\* over it is now the target's turn to reset; or the user has what it wants.
TryAll(t) ==
  LET c == call[t]
  IN /\ Finished(t, "try")
     /\ GotAll(t)
     /\ Enter(t, IF c.next = NoGuard THEN Idle ELSE ResetTo(t, c.next, slots[t][c.next]))
     /\ direct' = IF c.guard # NoGuard THEN direct
                  ELSE [direct EXCEPT ![t] = [o \in Objects |-> @[o] + Times(o, c.want)]]
     /\ UNCHANGED <<holds, destroyed, slots>>

\* Mutation: a failed try_locks() keeps the locks it got.
TryFailedKeeps(t) ==
  /\ Finished(t, "try")
  /\ ~GotAll(t)
  /\ Enter(t, [call[t] EXCEPT !.at = "back"])
  /\ UNCHANGED <<holds, destroyed, slots, direct>>

\* At least one lock failed: the others are given back.
TryFailed(t) ==
  /\ Finished(t, "try")
  /\ ~GotAll(t)
  /\ Enter(t, [call[t] EXCEPT !.at = "back",
                              !.todo = Places(call[t].want) \cap call[t].got])
  /\ UNCHANGED <<holds, destroyed, slots, direct>>

\* Mutation: the locks are cleared, not counted.
GiveBackAll(t) ==
  /\ Working(t, "back")
  /\ holds' = [holds EXCEPT ![Wanted(t)][t] = 0]
  /\ Enter(t, Onward(t))
  /\ UNCHANGED <<destroyed, slots, direct>>

GiveBack(t) ==
  /\ Working(t, "back")
  /\ holds' = Unlocked(Wanted(t), t)
  /\ Enter(t, Onward(t))
  /\ UNCHANGED <<destroyed, slots, direct>>

\* try_locks() returns false, to reset()'s loop or to the user.
TryAgain(t) ==
  /\ Finished(t, "back")
  /\ Enter(t, IF call[t].guard = NoGuard THEN Idle ELSE [call[t] EXCEPT !.at = "yield"])
  /\ UNCHANGED <<holds, destroyed, slots, direct>>

-----------------------------------------------------------------------------
(* unlock_all(): are_locked() asks is_locked() of each object and says no  *)
(* if one is not or is nullptr; otherwise every object is unlocked, which  *)
(* does nothing to those another thread has locked.                        *)

UnlockAll(t) ==
  \E group \in Requests :
    /\ At(t, "idle")
    /\ Len(group) >= 2
    /\ CarefulUnlock => \A o \in Objects : holds[o][t] = 0 \/ direct[t][o] >= Times(o, group)
    /\ Enter(t, [Idle EXCEPT !.at = "ask", !.want = group, !.todo = Places(group)])
    /\ UNCHANGED <<holds, destroyed, slots, direct>>

Ask(t) ==
  /\ Working(t, "ask")
  /\ Enter(t, [Onward(t) EXCEPT !.got = IF Locked(Wanted(t)) THEN @ \cup {Place(t)} ELSE @])
  /\ UNCHANGED <<holds, destroyed, slots, direct>>

Answer(t) ==
  /\ Finished(t, "ask")
  /\ Enter(t, IF call[t].got # DOMAIN call[t].want THEN Idle
              ELSE [call[t] EXCEPT !.at = "unlock", !.todo = Places(call[t].want)])
  /\ UNCHANGED <<holds, destroyed, slots, direct>>

Unlock(t) ==
  /\ Working(t, "unlock")
  /\ holds' = Unlocked(Wanted(t), t)
  /\ direct' = [direct EXCEPT ![t][Wanted(t)] = IF @ > 0 THEN @ - 1 ELSE 0]
  /\ Enter(t, IF call[t].todo = {Place(t)} THEN Idle ELSE Onward(t))
  /\ UNCHANGED <<destroyed, slots>>

-----------------------------------------------------------------------------
\* The destructor of a class derived from CLockable, run by the only owner:
\* it sets isDestroyed, then clears the locks.
Destroy(t) ==
  \E o \in Objects \ destroyed :
    /\ At(t, "idle")
    /\ direct[t][o] > 0
    /\ Guarded(t, o) = 0
    /\ destroyed' = destroyed \cup {o}
    /\ holds' = [holds EXCEPT ![o][t] = 0]
    /\ direct' = [direct EXCEPT ![t][o] = 0]
    /\ UNCHANGED <<slots, call>>

\* The steps of a running call, and the calls a user may begin.
Step(t) == \/ Drop(t) \/ Remember(t) \/ Forget(t)
           \/ TryOne(t) \/ TryAll(t) \/ TryFailed(t) \/ GiveBack(t) \/ TryAgain(t)
           \/ Ask(t) \/ Answer(t) \/ Unlock(t)
Call(t) == Reset(t) \/ Clear(t) \/ TakeOver(t) \/ TryLocks(t) \/ UnlockAll(t) \/ Destroy(t)

Next == \E t \in Threads : Step(t) \/ Call(t)

Spec     == Init /\ [][Next]_vars
FairSpec == Spec /\ \A t \in Threads : WF_vars(Step(t))

-----------------------------------------------------------------------------
(* Properties *)

CallPlaces == {"idle", "drop", "try", "back", "yield", "ask", "unlock"}

TypeOK ==
  /\ \A o \in Objects, t \in Threads : holds[o][t] \in Nat /\ direct[t][o] \in Nat
  /\ destroyed \subseteq Objects
  /\ slots \in [Threads -> [Guards -> [1 .. 3 -> Objects \cup {Null}]]]
  /\ \A t \in Threads : /\ call[t].at \in CallPlaces
                        /\ call[t].guard \in Guards \cup {NoGuard}
                        /\ call[t].todo \subseteq 1 .. 3
                        /\ call[t].got \subseteq 1 .. 3

\* Outside of calls a thread has exactly the locks its guards name and those
\* it took itself: none lost on the way, none left behind, however the
\* guards were reset, copied, assigned or cleared.
GuardsBalance ==
  \A t \in Threads, o \in Objects :
    At(t, "idle") /\ o \notin destroyed => holds[o][t] = Due(t, o)

\* A guard that waits for its objects holds none of them meanwhile: what the
\* thread has then is due to its other guards and its own locks.
NothingHeldWhileWaiting ==
  \A t \in Threads, o \in Objects :
    At(t, "yield") /\ o \notin destroyed
      => holds[o][t] = Due(t, o) - Times(o, slots[t][call[t].guard])

\* Once are_locked() has answered yes, the calling thread is the one that has
\* locked the objects unlock_all() is about to unlock.
UnlockAllOwnLocks ==
  \A t \in Threads :
    At(t, "unlock") /\ Cardinality(call[t].todo) = Len(call[t].want)
      => \A i \in DOMAIN call[t].want : holds[call[t].want[i]][t] > 0

\* While a call works on one guard, on two that take over from each other, or
\* on a group, not one lock that the thread needs for its other guards and for
\* itself is given up, not even between two steps: what reset() drops and what
\* a failed try_locks() gives back is counted, place by place.
OtherGuards(t) == Guards \ {call[t].guard, call[t].next}
OuterLocksKept ==
  \A t \in Threads : \A o \in Objects \ destroyed :
    holds[o][t] >= direct[t][o]
      + Cardinality({slot \in OtherGuards(t) \X (1 .. 3) : slots[t][slot[1]][slot[2]] = o})

\* reset() returns once the other threads leave its objects alone for good.
ResetReturns ==
  \A t \in Threads :
    (<>[](\A u \in Threads \ {t}, o \in Objects : At(u, "idle") /\ holds[o][u] = 0))
      => (~At(t, "idle") ~> At(t, "idle"))
=============================================================================
