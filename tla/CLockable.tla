------------------------------ MODULE CLockable ------------------------------
(***************************************************************************)
(* One pwx::CLockable object (src/src/basic/CLockable.cpp, built with      *)
(* PWX_USE_FLAGSPIN) and the threads that use it. Every access to one of   *)
(* the object's atomic members is a step of its own, in the order of the   *)
(* code; the memory is sequentially consistent.                            *)
(*                                                                         *)
(* The threads are arbitrary users: an idle thread may call any method. A  *)
(* label in pc names what the thread's call does next.                     *)
(***************************************************************************)
EXTENDS Integers, FiniteSets

CONSTANTS Threads,      \* the threads using the object
          NoThread,     \* the value 0 of CL_Thread_ID
          MaxDepth,     \* bound on how deep a thread nests its locks
          CountMod,     \* CL_Lock_Count counts modulo this (2^32 in the code)
          RuleOfThumb   \* TRUE: do_locking() is used as CLockable.h advises

ASSUME ThreadsAssumption == IsFiniteSet(Threads) /\ NoThread \notin Threads
ASSUME DepthAssumption   == /\ MaxDepth \in Nat \ {0}
                            /\ CountMod \in Nat
                            /\ MaxDepth < CountMod
ASSUME RuleAssumption    == RuleOfThumb \in BOOLEAN

VARIABLES isDestroyed,  \* the object is in its destructor
          doLocking,    \* CL_Do_Locking
          isLocked,     \* CL_Is_Locked
          flag,         \* CL_Lock, the atomic_flag
          count,        \* CL_Lock_Count
          threadId,     \* CL_Thread_ID
          waiting,      \* CL_Waiting
          pc,           \* where each thread is
          held          \* history: the locks each thread has been given

object == <<isDestroyed, doLocking, isLocked, flag, count, threadId, waiting>>
vars   == <<object, pc, held>>

-----------------------------------------------------------------------------
\* Where a thread can be: inside the four kinds of calls, or in none.
Announced == {"spin", "try", "mark", "own", "one", "done", "failed"}
Taking    == Announced \cup {"lock", "lock_id", "nest", "try_lock", "try_id", "announce", "try_announce"}
Releasing == {"unlock", "unlock_id", "sub", "clear", "clear_id", "zero",
              "free_id", "free_mark", "free_flag"}
Switching == {"on", "off", "off_id", "off_spin", "off_own", "off_zero", "off_flag", "off_mark"}
Dying     == {"dead_id", "dead"}
Labels    == {"idle"} \cup Taking \cup Releasing \cup Switching \cup Dying

At(t, l)   == pc[t] = l
GoTo(t, l) == pc' = [pc EXCEPT ![t] = l]

\* Nobody but t uses the object or holds its lock.
Alone(t) == \A u \in Threads \ {t} : At(u, "idle") /\ held[u] = 0

\* A user of the rule of thumb does not touch an object being switched.
CanCall(t) ==
  /\ At(t, "idle")
  /\ RuleOfThumb => \A u \in Threads : pc[u] \notin Switching

Init ==
  /\ isDestroyed = FALSE
  /\ doLocking = TRUE
  /\ isLocked = FALSE
  /\ flag = FALSE
  /\ count = 0
  /\ threadId = NoThread
  /\ waiting = 0
  /\ pc = [t \in Threads |-> "idle"]
  /\ held = [t \in Threads |-> 0]

-----------------------------------------------------------------------------
(* Mutations: bugs the code could have had. No action of Next uses them;   *)
(* PROJECT.json says which definition each one stands in for.              *)

\* A failed try_lock() that forgets to leave CL_Waiting.
TryFailedStillWaiting(t) ==
  /\ At(t, "failed")
  /\ GoTo(t, "idle")
  /\ UNCHANGED <<object, held>>

\* unlock() without the test for the owner.
UnlockAnybodys(t) ==
  /\ At(t, "unlock_id")
  /\ GoTo(t, "sub")
  /\ UNCHANGED <<object, held>>

\* A nested lock() that is not counted.
NestUncounted(t) ==
  /\ At(t, "nest")
  /\ held' = [held EXCEPT ![t] = @ + 1]
  /\ GoTo(t, "idle")
  /\ UNCHANGED object

\* do_locking(false) that does not reset CL_Is_Locked.
OffStillMarked(t) ==
  /\ At(t, "off_mark")
  /\ GoTo(t, "idle")
  /\ UNCHANGED <<object, held>>

\* try_lock() with the result of test_and_set() the wrong way round.
TryFlagInverted(t) ==
  /\ At(t, "try")
  /\ flag' = TRUE
  /\ GoTo(t, IF flag THEN "mark" ELSE "failed")
  /\ UNCHANGED <<isDestroyed, doLocking, isLocked, count, threadId, waiting, held>>

\* An unlock() that leaves the flag set.
FreeAllButFlag(t) ==
  /\ At(t, "free_flag")
  /\ held' = [held EXCEPT ![t] = 0]
  /\ GoTo(t, "idle")
  /\ UNCHANGED object

\* do_locking(false) that waits for the flag even if its thread has it.
OffAlwaysSpins(t) ==
  /\ At(t, "off_id")
  /\ GoTo(t, "off_spin")
  /\ UNCHANGED <<object, held>>

-----------------------------------------------------------------------------
(* lock() *)

LockCall(t) ==
  /\ CanCall(t)
  /\ held[t] < MaxDepth
  /\ GoTo(t, "lock")
  /\ UNCHANGED <<object, held>>

\* The loads of isDestroyed and CL_Do_Locking.
LockTest(t) ==
  /\ At(t, "lock")
  /\ GoTo(t, IF isDestroyed \/ ~doLocking THEN "idle" ELSE "lock_id")
  /\ UNCHANGED <<object, held>>

LockReadId(t) ==
  /\ At(t, "lock_id")
  /\ GoTo(t, IF threadId = t THEN "nest" ELSE "announce")
  /\ UNCHANGED <<object, held>>

\* The owner locks again: the call is just counted.
Nest(t) ==
  /\ At(t, "nest")
  /\ count' = (count + 1) % CountMod
  /\ held' = [held EXCEPT ![t] = @ + 1]
  /\ GoTo(t, "idle")
  /\ UNCHANGED <<isDestroyed, doLocking, isLocked, flag, threadId, waiting>>

Announce(t) ==
  /\ At(t, "announce")
  /\ waiting' = waiting + 1
  /\ GoTo(t, "spin")
  /\ UNCHANGED <<isDestroyed, doLocking, isLocked, flag, count, threadId, held>>

\* A test_and_set() that finds the flag set changes nothing and is repeated.
Spin(t) ==
  /\ At(t, "spin")
  /\ ~flag
  /\ flag' = TRUE
  /\ GoTo(t, "mark")
  /\ UNCHANGED <<isDestroyed, doLocking, isLocked, count, threadId, waiting, held>>

\* What lock() and try_lock() note down once the flag is theirs.
MarkLocked(t) ==
  /\ At(t, "mark")
  /\ isLocked' = TRUE
  /\ GoTo(t, "own")
  /\ UNCHANGED <<isDestroyed, doLocking, flag, count, threadId, waiting, held>>

MarkOwner(t) ==
  /\ At(t, "own")
  /\ threadId' = t
  /\ GoTo(t, "one")
  /\ UNCHANGED <<isDestroyed, doLocking, isLocked, flag, count, waiting, held>>

CountOne(t) ==
  /\ At(t, "one")
  /\ count' = 1
  /\ GoTo(t, "done")
  /\ UNCHANGED <<isDestroyed, doLocking, isLocked, flag, threadId, waiting, held>>

LockDone(t) ==
  /\ At(t, "done")
  /\ waiting' = waiting - 1
  /\ held' = [held EXCEPT ![t] = @ + 1]
  /\ GoTo(t, "idle")
  /\ UNCHANGED <<isDestroyed, doLocking, isLocked, flag, count, threadId>>

-----------------------------------------------------------------------------
(* try_lock() *)

TryLockCall(t) ==
  /\ CanCall(t)
  /\ held[t] < MaxDepth
  /\ GoTo(t, "try_lock")
  /\ UNCHANGED <<object, held>>

TryLockTest(t) ==
  /\ At(t, "try_lock")
  /\ GoTo(t, IF isDestroyed \/ ~doLocking THEN "idle" ELSE "try_id")
  /\ UNCHANGED <<object, held>>

TryLockReadId(t) ==
  /\ At(t, "try_id")
  /\ GoTo(t, IF threadId = t THEN "nest" ELSE "try_announce")
  /\ UNCHANGED <<object, held>>

TryAnnounce(t) ==
  /\ At(t, "try_announce")
  /\ waiting' = waiting + 1
  /\ GoTo(t, "try")
  /\ UNCHANGED <<isDestroyed, doLocking, isLocked, flag, count, threadId, held>>

\* The single test_and_set().
TryFlag(t) ==
  /\ At(t, "try")
  /\ flag' = TRUE
  /\ GoTo(t, IF flag THEN "failed" ELSE "mark")
  /\ UNCHANGED <<isDestroyed, doLocking, isLocked, count, threadId, waiting, held>>

TryFailed(t) ==
  /\ At(t, "failed")
  /\ waiting' = waiting - 1
  /\ GoTo(t, "idle")
  /\ UNCHANGED <<isDestroyed, doLocking, isLocked, flag, count, threadId, held>>

-----------------------------------------------------------------------------
(* unlock() and clear_locks() *)

\* The caller of unlock() has one lock less to give back, whatever the call does.
OneLess(t) == [held EXCEPT ![t] = IF @ > 0 THEN @ - 1 ELSE 0]

UnlockCall(t) ==
  /\ CanCall(t)
  /\ GoTo(t, "unlock")
  /\ UNCHANGED <<object, held>>

UnlockTest(t) ==
  /\ At(t, "unlock")
  /\ GoTo(t, IF doLocking THEN "unlock_id" ELSE "idle")
  /\ held' = IF doLocking THEN held ELSE OneLess(t)
  /\ UNCHANGED object

UnlockReadId(t) ==
  /\ At(t, "unlock_id")
  /\ GoTo(t, IF threadId = t THEN "sub" ELSE "idle")
  /\ held' = IF threadId = t THEN held ELSE OneLess(t)
  /\ UNCHANGED object

\* fetch_sub() returns the old count: only the last unlock() frees the lock.
Subtract(t) ==
  /\ At(t, "sub")
  /\ count' = (count - 1) % CountMod
  /\ GoTo(t, IF count = 1 THEN "free_id" ELSE "idle")
  /\ held' = IF count = 1 THEN held ELSE OneLess(t)
  /\ UNCHANGED <<isDestroyed, doLocking, isLocked, flag, threadId, waiting>>

ClearCall(t) ==
  /\ CanCall(t)
  /\ GoTo(t, "clear")
  /\ UNCHANGED <<object, held>>

\* Without locking clear_locks() has nothing to do. It is also how the
\* destructor ends.
ClearTest(t) ==
  /\ pc[t] \in {"clear", "dead"}
  /\ GoTo(t, IF doLocking THEN "clear_id" ELSE "idle")
  /\ UNCHANGED <<object, held>>

ClearReadId(t) ==
  /\ At(t, "clear_id")
  /\ GoTo(t, IF threadId = t THEN "zero" ELSE "idle")
  /\ UNCHANGED <<object, held>>

Zero(t) ==
  /\ At(t, "zero")
  /\ count' = 0
  /\ GoTo(t, "free_id")
  /\ UNCHANGED <<isDestroyed, doLocking, isLocked, flag, threadId, waiting, held>>

\* The three stores that end both unlock() and clear_locks().
FreeId(t) ==
  /\ At(t, "free_id")
  /\ threadId' = NoThread
  /\ GoTo(t, "free_mark")
  /\ UNCHANGED <<isDestroyed, doLocking, isLocked, flag, count, waiting, held>>

FreeMark(t) ==
  /\ At(t, "free_mark")
  /\ isLocked' = FALSE
  /\ GoTo(t, "free_flag")
  /\ UNCHANGED <<isDestroyed, doLocking, flag, count, threadId, waiting, held>>

FreeFlag(t) ==
  /\ At(t, "free_flag")
  /\ flag' = FALSE
  /\ held' = [held EXCEPT ![t] = 0]
  /\ GoTo(t, "idle")
  /\ UNCHANGED <<isDestroyed, doLocking, isLocked, count, threadId, waiting>>

-----------------------------------------------------------------------------
(* do_locking(): a call that asks for the present mode has no effect. *)

SwitchCall(t) ==
  /\ CanCall(t)
  /\ ~isDestroyed
  /\ RuleOfThumb => Alone(t)
  /\ GoTo(t, IF doLocking THEN "off" ELSE "on")
  /\ UNCHANGED <<object, held>>

SwitchOn(t) ==
  /\ At(t, "on")
  /\ doLocking' = TRUE
  /\ GoTo(t, "idle")
  /\ UNCHANGED <<isDestroyed, isLocked, flag, count, threadId, waiting, held>>

\* From here on the other threads' calls do no locking any more.
SwitchOff(t) ==
  /\ At(t, "off")
  /\ doLocking' = FALSE
  /\ GoTo(t, "off_id")
  /\ UNCHANGED <<isDestroyed, isLocked, flag, count, threadId, waiting, held>>

OffReadId(t) ==
  /\ At(t, "off_id")
  /\ GoTo(t, IF threadId = t THEN "off_own" ELSE "off_spin")
  /\ UNCHANGED <<object, held>>

OffSpin(t) ==
  /\ At(t, "off_spin")
  /\ ~flag
  /\ flag' = TRUE
  /\ GoTo(t, "off_own")
  /\ UNCHANGED <<isDestroyed, doLocking, isLocked, count, threadId, waiting, held>>

OffOwner(t) ==
  /\ At(t, "off_own")
  /\ threadId' = NoThread
  /\ GoTo(t, "off_zero")
  /\ UNCHANGED <<isDestroyed, doLocking, isLocked, flag, count, waiting, held>>

OffZero(t) ==
  /\ At(t, "off_zero")
  /\ count' = 0
  /\ GoTo(t, "off_flag")
  /\ UNCHANGED <<isDestroyed, doLocking, isLocked, flag, threadId, waiting, held>>

OffFlag(t) ==
  /\ At(t, "off_flag")
  /\ flag' = FALSE
  /\ held' = [held EXCEPT ![t] = 0]
  /\ GoTo(t, "off_mark")
  /\ UNCHANGED <<isDestroyed, doLocking, isLocked, count, threadId, waiting>>

OffMark(t) ==
  /\ At(t, "off_mark")
  /\ isLocked' = FALSE
  /\ GoTo(t, "idle")
  /\ UNCHANGED <<isDestroyed, doLocking, flag, count, threadId, waiting, held>>

-----------------------------------------------------------------------------
(* The life of the object. Its documentation leaves a destructor undefined *)
(* that runs while another thread holds the lock or waits for it.          *)

DestructorCall(t) ==
  /\ CanCall(t)
  /\ ~isDestroyed
  /\ Alone(t)
  /\ isDestroyed' = TRUE
  /\ GoTo(t, "dead_id")
  /\ UNCHANGED <<doLocking, isLocked, flag, count, threadId, waiting, held>>

\* The destructor moves the lock to its thread, then clears it.
DestructorOwn(t) ==
  /\ At(t, "dead_id")
  /\ threadId' = t
  /\ GoTo(t, "dead")
  /\ UNCHANGED <<isDestroyed, doLocking, isLocked, flag, count, waiting, held>>

\* The next object: a copy takes over its source's mode, whatever that is.
Construct ==
  /\ isDestroyed
  /\ \A t \in Threads : At(t, "idle")
  /\ isDestroyed' = FALSE
  /\ doLocking' \in BOOLEAN
  /\ isLocked' = FALSE
  /\ flag' = FALSE
  /\ count' = 0
  /\ threadId' = NoThread
  /\ waiting' = 0
  /\ held' = [t \in Threads |-> 0]
  /\ UNCHANGED pc

-----------------------------------------------------------------------------
TakeStep(t) ==
  \/ LockTest(t) \/ LockReadId(t) \/ Nest(t) \/ Announce(t) \/ Spin(t)
  \/ MarkLocked(t) \/ MarkOwner(t) \/ CountOne(t) \/ LockDone(t)
  \/ TryLockTest(t) \/ TryLockReadId(t) \/ TryAnnounce(t) \/ TryFlag(t) \/ TryFailed(t)

ReleaseStep(t) ==
  \/ UnlockTest(t) \/ UnlockReadId(t) \/ Subtract(t)
  \/ ClearTest(t) \/ ClearReadId(t) \/ Zero(t)
  \/ FreeId(t) \/ FreeMark(t) \/ FreeFlag(t)

SwitchStep(t) ==
  \/ SwitchOn(t) \/ SwitchOff(t) \/ OffReadId(t) \/ OffSpin(t)
  \/ OffOwner(t) \/ OffZero(t) \/ OffFlag(t) \/ OffMark(t)

\* The steps a running call takes, and the calls a user may begin.
Step(t) == TakeStep(t) \/ ReleaseStep(t) \/ SwitchStep(t) \/ DestructorOwn(t)

Call(t) == \/ LockCall(t) \/ TryLockCall(t) \/ UnlockCall(t) \/ ClearCall(t)
           \/ SwitchCall(t) \/ DestructorCall(t)

Next == (\E t \in Threads : Step(t) \/ Call(t)) \/ Construct

Spec == Init /\ [][Next]_vars

\* A thread inside a call keeps running. A spinning thread that never sees
\* the flag clear is not helped: test_and_set() queues nobody.
Fairness == \A t \in Threads : WF_vars(Step(t))

FairSpec == Spec /\ Fairness

\* Users that hold locks call unlock() again and again until they have none.
Unlockers == \A t \in Threads : WF_vars(held[t] > 0 /\ UnlockCall(t))

UnlockingSpec == FairSpec /\ Unlockers

-----------------------------------------------------------------------------
(* Properties *)

TypeOK ==
  /\ isDestroyed \in BOOLEAN
  /\ doLocking \in BOOLEAN
  /\ isLocked \in BOOLEAN
  /\ flag \in BOOLEAN
  /\ count \in 0 .. (CountMod - 1)
  /\ threadId \in Threads \cup {NoThread}
  /\ waiting \in 0 .. Cardinality(Threads)
  /\ pc \in [Threads -> Labels]
  /\ held \in [Threads -> 0 .. MaxDepth]

\* lock() and try_lock() give the lock to one thread at a time, whatever the
\* other threads do meanwhile, unlock() calls without a lock included.
MutualExclusion ==
  \A t, u \in Threads : held[t] > 0 /\ held[u] > 0 => t = u

\* lock_count(), asked by t.
LockCount(t) == IF threadId = t THEN count ELSE 0

\* A thread asking lock_count() learns how many unlock() calls it still owes:
\* nested locks, failed tries, clear_locks() and switches taken into account.
LockCountExact ==
  \A t \in Threads : At(t, "idle") /\ ~isDestroyed => LockCount(t) = held[t]

\* When every call has returned and every lock was given back, nothing of
\* the lock is left: no set flag, no owner, "a lock from a long-gone thread".
NothingLeftBehind ==
  (/\ doLocking /\ ~isDestroyed
   /\ \A t \in Threads : At(t, "idle") /\ held[t] = 0)
    => ~flag /\ ~isLocked /\ threadId = NoThread /\ count = 0 /\ waiting = 0

\* waiting() is the number of threads that try to get the flag or have just
\* got it: the element destructors wait for it to become zero.
WaitingExact == waiting = Cardinality({t \in Threads : pc[t] \in Announced})

\* The object is the abstract recursive lock.
Abstract == INSTANCE RecursiveLock WITH holds <- held, locking <- doLocking
IsRecursiveLock == Abstract!Spec

\* t competes for the lock without end only if others take it without end:
\* once the other threads stay out, lock() returns.
LockReturns ==
  \A t \in Threads :
    (\A u \in Threads \ {t} : <>[](At(u, "idle") /\ held[u] = 0))
      => (At(t, "spin") ~> At(t, "idle"))

\* do_locking(false) and the destructor return.
SwitchReturns ==
  \A t \in Threads : pc[t] \in Switching \cup Dying ~> At(t, "idle")
=============================================================================
