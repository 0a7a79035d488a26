--------------------------- MODULE CLockableProofs ---------------------------
(***************************************************************************)
(* Proofs about CLockable, for any finite set of threads, any nesting      *)
(* depth and any use of do_locking(), the rule of thumb kept or not.       *)
(***************************************************************************)
EXTENDS CLockable, FiniteSetTheorems, TLAPS

-----------------------------------------------------------------------------
(* Types *)

\* TypeOK but for the bound of CL_Waiting.
Types ==
  /\ isDestroyed \in BOOLEAN /\ doLocking \in BOOLEAN /\ isLocked \in BOOLEAN /\ flag \in BOOLEAN
  /\ count \in 0 .. (CountMod - 1)
  /\ threadId \in Threads \cup {NoThread}
  /\ waiting \in Int
  /\ pc \in [Threads -> Labels]
  /\ held \in [Threads -> 0 .. MaxDepth]

\* A call that takes a lock has room for it.
DepthLeft == \A t \in Threads : pc[t] \in Taking => held[t] < MaxDepth

TypeInv == Types /\ DepthLeft

LEMMA ModRange == ASSUME NEW n \in Int, NEW m \in Nat \ {0} PROVE n % m \in 0 .. (m - 1)
  OBVIOUS

LEMMA TypeInit == Init => TypeInv
<1> SUFFICES ASSUME Init PROVE TypeInv  OBVIOUS
<1> USE DepthAssumption DEF DepthAssumption, Init
<1>1. "idle" \in Labels /\ "idle" \notin Taking  BY DEF Labels, Taking, Announced
<1>2. Types
  <2>1. pc \in [Threads -> Labels]  BY <1>1
  <2>2. held \in [Threads -> 0 .. MaxDepth]  OBVIOUS
  <2>3. count \in 0 .. (CountMod - 1)  OBVIOUS
  <2>4. /\ isDestroyed \in BOOLEAN /\ doLocking \in BOOLEAN
        /\ isLocked \in BOOLEAN /\ flag \in BOOLEAN
    OBVIOUS
  <2>5. waiting \in Int /\ threadId \in Threads \cup {NoThread}  OBVIOUS
  <2> HIDE DEF Init
  <2> QED  BY <2>1, <2>2, <2>3, <2>4, <2>5 DEF Types
<1>3. DepthLeft  BY <1>1 DEF DepthLeft
<1> QED  BY <1>2, <1>3 DEF TypeInv

LEMMA TypeTake ==
  ASSUME TypeInv, NEW t \in Threads, TakeStep(t) PROVE TypeInv'
<1> USE DepthAssumption
        DEF DepthAssumption, TypeInv, Types, DepthLeft, At, GoTo, object, Labels, Taking, Announced
<1>1. CASE LockTest(t)       BY <1>1 DEF LockTest
<1>2. CASE LockReadId(t)     BY <1>2 DEF LockReadId
<1>3. CASE Nest(t)
  <2>1. count' \in 0 .. (CountMod - 1)  BY <1>3, ModRange DEF Nest
  <2>2. QED  BY <1>3, <2>1 DEF Nest
<1>4. CASE Announce(t)       BY <1>4 DEF Announce
<1>5. CASE Spin(t)           BY <1>5 DEF Spin
<1>6. CASE MarkLocked(t)     BY <1>6 DEF MarkLocked
<1>7. CASE MarkOwner(t)      BY <1>7 DEF MarkOwner
<1>8. CASE CountOne(t)       BY <1>8 DEF CountOne
<1>9. CASE LockDone(t)       BY <1>9 DEF LockDone
<1>10. CASE TryLockTest(t)   BY <1>10 DEF TryLockTest
<1>11. CASE TryLockReadId(t) BY <1>11 DEF TryLockReadId
<1>12. CASE TryAnnounce(t)   BY <1>12 DEF TryAnnounce
<1>13. CASE TryFlag(t)       BY <1>13 DEF TryFlag
<1>14. CASE TryFailed(t)     BY <1>14 DEF TryFailed
<1>15. QED
  BY <1>1, <1>2, <1>3, <1>4, <1>5, <1>6, <1>7, <1>8, <1>9, <1>10, <1>11, <1>12, <1>13, <1>14
     DEF TakeStep

LEMMA TypeRelease ==
  ASSUME TypeInv, NEW t \in Threads, ReleaseStep(t) PROVE TypeInv'
<1> USE DepthAssumption
        DEF DepthAssumption, TypeInv, Types, DepthLeft, At, GoTo, object,
            Labels, Taking, Announced, Releasing, Switching, Dying, OneLess
<1>1. CASE UnlockTest(t)      BY <1>1 DEF UnlockTest
<1>2. CASE UnlockReadId(t)    BY <1>2 DEF UnlockReadId
<1>3. CASE Subtract(t)
  <2>1. count' \in 0 .. (CountMod - 1)  BY <1>3, ModRange DEF Subtract
  <2>2. QED  BY <1>3, <2>1 DEF Subtract
<1>4. CASE ClearTest(t)       BY <1>4 DEF ClearTest
<1>5. CASE ClearReadId(t)     BY <1>5 DEF ClearReadId
<1>6. CASE Zero(t)            BY <1>6 DEF Zero
<1>7. CASE FreeId(t)          BY <1>7 DEF FreeId
<1>8. CASE FreeMark(t)        BY <1>8 DEF FreeMark
<1>9. CASE FreeFlag(t)
  <2>1. held' \in [Threads -> 0 .. MaxDepth]  BY <1>9 DEF FreeFlag
  <2>2. flag' \in BOOLEAN  BY <1>9 DEF FreeFlag
  <2>3. QED  BY <1>9, <2>1, <2>2 DEF FreeFlag
<1>10. QED
  BY <1>1, <1>2, <1>3, <1>4, <1>5, <1>6, <1>7, <1>8, <1>9 DEF ReleaseStep

LEMMA TypeSwitch ==
  ASSUME TypeInv, NEW t \in Threads, SwitchStep(t) PROVE TypeInv'
<1> USE DepthAssumption
        DEF DepthAssumption, TypeInv, Types, DepthLeft, At, GoTo, object,
            Labels, Taking, Announced, Releasing, Switching, Dying
<1>1. CASE SwitchOn(t)     BY <1>1 DEF SwitchOn
<1>2. CASE SwitchOff(t)    BY <1>2 DEF SwitchOff
<1>3. CASE OffReadId(t)    BY <1>3 DEF OffReadId
<1>4. CASE OffSpin(t)      BY <1>4 DEF OffSpin
<1>5. CASE OffOwner(t)     BY <1>5 DEF OffOwner
<1>6. CASE OffZero(t)      BY <1>6 DEF OffZero
<1>7. CASE OffFlag(t)
  <2>1. held' \in [Threads -> 0 .. MaxDepth]  BY <1>7 DEF OffFlag
  <2>2. flag' \in BOOLEAN  BY <1>7 DEF OffFlag
  <2>3. QED  BY <1>7, <2>1, <2>2 DEF OffFlag
<1>8. CASE OffMark(t)      BY <1>8 DEF OffMark
<1>9. QED
  BY <1>1, <1>2, <1>3, <1>4, <1>5, <1>6, <1>7, <1>8 DEF SwitchStep

LEMMA TypeCall ==
  ASSUME TypeInv, NEW t \in Threads, Call(t) PROVE TypeInv'
<1> USE DepthAssumption
        DEF DepthAssumption, TypeInv, Types, DepthLeft, At, GoTo, object,
            Labels, Taking, Announced, Releasing, Switching, Dying, CanCall
<1>1. CASE LockCall(t)          BY <1>1 DEF LockCall
<1>2. CASE TryLockCall(t)       BY <1>2 DEF TryLockCall
<1>3. CASE UnlockCall(t)        BY <1>3 DEF UnlockCall
<1>4. CASE ClearCall(t)         BY <1>4 DEF ClearCall
<1>5. CASE SwitchCall(t)        BY <1>5 DEF SwitchCall
<1>6. CASE DestructorCall(t)    BY <1>6 DEF DestructorCall
<1>7. QED
  BY <1>1, <1>2, <1>3, <1>4, <1>5, <1>6 DEF Call

LEMMA TypeNext == TypeInv /\ [Next]_vars => TypeInv'
<1> SUFFICES ASSUME TypeInv, [Next]_vars PROVE TypeInv'  OBVIOUS
<1>1. ASSUME NEW t \in Threads, Step(t) PROVE TypeInv'
  <2>1. CASE TakeStep(t)     BY <2>1, TypeTake
  <2>2. CASE ReleaseStep(t)  BY <2>2, TypeRelease
  <2>3. CASE SwitchStep(t)   BY <2>3, TypeSwitch
  <2>4. CASE DestructorOwn(t)
    BY <2>4 DEF DestructorOwn, TypeInv, Types, DepthLeft, At, GoTo, Labels, Taking, Announced, Dying
  <2>5. QED  BY <1>1, <2>1, <2>2, <2>3, <2>4 DEF Step
<1>2. ASSUME NEW t \in Threads, Call(t) PROVE TypeInv'
  BY <1>2, TypeCall
<1>3. CASE Construct
  <2> USE <1>3, DepthAssumption DEF DepthAssumption, Construct
  <2>1. count' \in 0 .. (CountMod - 1) /\ held' \in [Threads -> 0 .. MaxDepth]  OBVIOUS
  <2>2. /\ isDestroyed' \in BOOLEAN /\ doLocking' \in BOOLEAN
        /\ isLocked' \in BOOLEAN /\ flag' \in BOOLEAN
    OBVIOUS
  <2>3. waiting' \in Int /\ threadId' \in Threads \cup {NoThread}  OBVIOUS
  <2>4. pc' \in [Threads -> Labels]  BY DEF TypeInv, Types
  <2>5. DepthLeft'  BY DEF DepthLeft, At, Taking, Announced
  <2> HIDE <1>3 DEF Construct
  <2> QED  BY <2>1, <2>2, <2>3, <2>4, <2>5 DEF TypeInv, Types
<1>4. CASE UNCHANGED vars
  BY <1>4 DEF vars, object, TypeInv, Types, DepthLeft
<1>5. QED  BY <1>1, <1>2, <1>3, <1>4 DEF Next

-----------------------------------------------------------------------------
(* CL_Waiting *)

Waiters == {t \in Threads : pc[t] \in Announced}

LEMMA WaitersFinite == IsFiniteSet(Waiters) /\ Cardinality(Waiters) \in Nat
<1>1. IsFiniteSet(Threads)  BY ThreadsAssumption DEF ThreadsAssumption
<1>2. Waiters \in SUBSET Threads  BY DEF Waiters
<1>3. IsFiniteSet(Waiters)  BY <1>1, <1>2, FS_Subset
<1>4. QED  BY <1>3, FS_CardinalityType

LEMMA WaiterComes ==
  ASSUME Types, NEW t \in Threads, NEW l \in Announced, pc[t] \notin Announced,
         pc' = [pc EXCEPT ![t] = l]
  PROVE  Cardinality(Waiters') = Cardinality(Waiters) + 1
<1>1. Waiters' = Waiters \cup {t}  BY DEF Waiters, Types
<1>2. t \notin Waiters  BY DEF Waiters
<1>3. QED  BY <1>1, <1>2, WaitersFinite, FS_AddElement

LEMMA WaiterGoes ==
  ASSUME Types, NEW t \in Threads, NEW l, l \notin Announced, pc[t] \in Announced,
         pc' = [pc EXCEPT ![t] = l]
  PROVE  Cardinality(Waiters') = Cardinality(Waiters) - 1
<1>1. Waiters' = Waiters \ {t}  BY DEF Waiters, Types
<1>2. t \in Waiters  BY DEF Waiters
<1>3. QED  BY <1>1, <1>2, WaitersFinite, FS_RemoveElement

LEMMA WaiterStays ==
  ASSUME Types, NEW t \in Threads, NEW l, l \in Announced <=> pc[t] \in Announced,
         pc' = [pc EXCEPT ![t] = l]
  PROVE  Waiters' = Waiters
  BY DEF Waiters, Types

LEMMA WaitingTake ==
  ASSUME Types, waiting = Cardinality(Waiters), NEW t \in Threads, TakeStep(t)
  PROVE  waiting' = Cardinality(Waiters')
<1> USE DEF At, GoTo, object, Announced
<1>1. CASE LockTest(t)       BY <1>1, WaiterStays DEF LockTest
<1>2. CASE LockReadId(t)     BY <1>2, WaiterStays DEF LockReadId
<1>3. CASE Nest(t)           BY <1>3, WaiterStays DEF Nest
<1>4. CASE Announce(t)       BY <1>4, WaiterComes DEF Announce
<1>5. CASE Spin(t)           BY <1>5, WaiterStays DEF Spin
<1>6. CASE MarkLocked(t)     BY <1>6, WaiterStays DEF MarkLocked
<1>7. CASE MarkOwner(t)      BY <1>7, WaiterStays DEF MarkOwner
<1>8. CASE CountOne(t)       BY <1>8, WaiterStays DEF CountOne
<1>9. CASE LockDone(t)       BY <1>9, WaiterGoes DEF LockDone
<1>10. CASE TryLockTest(t)   BY <1>10, WaiterStays DEF TryLockTest
<1>11. CASE TryLockReadId(t) BY <1>11, WaiterStays DEF TryLockReadId
<1>12. CASE TryAnnounce(t)   BY <1>12, WaiterComes DEF TryAnnounce
<1>13. CASE TryFlag(t)       BY <1>13, WaiterStays DEF TryFlag
<1>14. CASE TryFailed(t)     BY <1>14, WaiterGoes DEF TryFailed
<1>15. QED
  BY <1>1, <1>2, <1>3, <1>4, <1>5, <1>6, <1>7, <1>8, <1>9, <1>10, <1>11, <1>12, <1>13, <1>14
     DEF TakeStep

LEMMA WaitingOther ==
  ASSUME Types, NEW t \in Threads, ReleaseStep(t) \/ SwitchStep(t) \/ DestructorOwn(t) \/ Call(t)
  PROVE  waiting' = waiting /\ Waiters' = Waiters
<1> USE WaiterStays DEF At, GoTo, object, Announced
<1>1. CASE ReleaseStep(t)
  BY <1>1 DEF ReleaseStep, UnlockTest, UnlockReadId, Subtract, ClearTest, ClearReadId, Zero,
              FreeId, FreeMark, FreeFlag
<1>2. CASE SwitchStep(t)
  BY <1>2 DEF SwitchStep, SwitchOn, SwitchOff, OffReadId, OffSpin, OffOwner, OffZero, OffFlag,
              OffMark
<1>3. CASE DestructorOwn(t)
  BY <1>3 DEF DestructorOwn
<1>4. CASE Call(t)
  BY <1>4 DEF Call, CanCall, LockCall, TryLockCall, UnlockCall, ClearCall, SwitchCall,
              DestructorCall
<1>5. QED  BY <1>1, <1>2, <1>3, <1>4

LEMMA WaitingNext == Types /\ WaitingExact /\ [Next]_vars => WaitingExact'
<1> SUFFICES ASSUME Types, waiting = Cardinality(Waiters), [Next]_vars
             PROVE  waiting' = Cardinality(Waiters')
  BY DEF WaitingExact, Waiters
<1>1. ASSUME NEW t \in Threads, TakeStep(t) PROVE waiting' = Cardinality(Waiters')
  BY <1>1, WaitingTake
<1>2. ASSUME NEW t \in Threads, ReleaseStep(t) \/ SwitchStep(t) \/ DestructorOwn(t) \/ Call(t)
      PROVE  waiting' = Cardinality(Waiters')
  BY <1>2, WaitingOther
<1>3. CASE Construct
  <2>1. Waiters' = {}  BY <1>3 DEF Construct, Waiters, At, Announced
  <2>2. QED  BY <1>3, <2>1, FS_EmptySet DEF Construct
<1>4. CASE UNCHANGED vars
  BY <1>4 DEF vars, object, Waiters
<1>5. QED  BY <1>1, <1>2, <1>3, <1>4 DEF Next, Step

LEMMA WaitingInit == Init => WaitingExact
<1> SUFFICES ASSUME Init PROVE WaitingExact  OBVIOUS
<1>1. {t \in Threads : pc[t] \in Announced} = {}  BY DEF Init, Announced
<1>2. QED  BY <1>1, FS_EmptySet DEF Init, WaitingExact

LEMMA TypeAndWaiting == TypeInv /\ WaitingExact => TypeOK
<1> SUFFICES ASSUME TypeInv, WaitingExact PROVE TypeOK  OBVIOUS
<1>1. IsFiniteSet(Threads) /\ Waiters \in SUBSET Threads
  BY ThreadsAssumption DEF ThreadsAssumption, Waiters
<1>2. Cardinality(Waiters) <= Cardinality(Threads) /\ Cardinality(Threads) \in Nat
  BY <1>1, FS_Subset, FS_CardinalityType
<1>3. waiting \in 0 .. Cardinality(Threads)
  BY <1>2, WaitersFinite DEF WaitingExact, Waiters
<1>4. QED  BY <1>3 DEF TypeInv, Types, TypeOK

\* CL_Waiting is at all times the number of threads that want the flag, and
\* every other member keeps to its type: neither counter goes below zero.
THEOREM TypeCorrect == Spec => [](TypeOK /\ WaitingExact)
<1>1. Init => TypeInv /\ WaitingExact  BY TypeInit, WaitingInit
<1>2. TypeInv /\ WaitingExact /\ [Next]_vars => (TypeInv /\ WaitingExact)'
  BY TypeNext, WaitingNext DEF TypeInv
<1>3. TypeInv /\ WaitingExact => TypeOK /\ WaitingExact  BY TypeAndWaiting
<1>4. QED  BY <1>1, <1>2, <1>3, PTL DEF Spec

-----------------------------------------------------------------------------
(* The inductive invariant behind MutualExclusion *)

\* What gives t a claim to the flag: a call that has set it and not cleared it
\* yet, CL_Thread_ID naming t, or a lock t has been given.
WithFlag == {"mark", "own", "one", "done", "free_id", "free_mark", "free_flag",
             "off_own", "off_zero", "off_flag"}
HasClaim(t) == pc[t] \in WithFlag \/ threadId = t \/ held[t] > 0

\* As long as the object lives a claim means that the flag is set, and there is
\* one claim at most.
OneClaim ==
  /\ \A t \in Threads : HasClaim(t) => flag
  /\ \A t, u \in Threads : HasClaim(t) /\ HasClaim(u) => t = u

\* What the tests of CL_Thread_ID have established is still true later on, and
\* who gives the lock back first gives up its name on it.
OwnerTested ==
  /\ \A t \in Threads : pc[t] \in {"nest", "sub", "zero", "free_id"} => threadId = t
  /\ \A t \in Threads : pc[t] \in {"free_mark", "free_flag", "off_zero", "off_flag"} => threadId # t

\* In an object under destruction nobody gets past the test of isDestroyed.
AfterDestruction == {"idle", "lock", "try_lock"} \cup Releasing \cup Dying

ClaimInv ==
  /\ ~isDestroyed => OneClaim /\ OwnerTested
  /\ isDestroyed => MutualExclusion /\ \A t \in Threads : pc[t] \in AfterDestruction
  /\ \A t \in Threads : pc[t] \in Dying => isDestroyed

LEMMA ClaimTake ==
  ASSUME Types, ClaimInv, NEW t \in Threads, TakeStep(t) PROVE ClaimInv'
<1> USE ThreadsAssumption
        DEF ThreadsAssumption, Types, ClaimInv, OneClaim, OwnerTested, HasClaim, WithFlag,
            AfterDestruction, MutualExclusion, At, GoTo, object, Releasing, Dying
<1>1. CASE LockTest(t)          BY <1>1 DEF LockTest
<1>2. CASE LockReadId(t)        BY <1>2 DEF LockReadId
<1>3. CASE Nest(t)              BY <1>3 DEF Nest
<1>4. CASE Announce(t)          BY <1>4 DEF Announce
<1>5. CASE Spin(t)              BY <1>5 DEF Spin
<1>6. CASE MarkLocked(t)        BY <1>6 DEF MarkLocked
<1>7. CASE MarkOwner(t)         BY <1>7 DEF MarkOwner
<1>8. CASE CountOne(t)          BY <1>8 DEF CountOne
<1>9. CASE LockDone(t)          BY <1>9 DEF LockDone
<1>10. CASE TryLockTest(t)      BY <1>10 DEF TryLockTest
<1>11. CASE TryLockReadId(t)    BY <1>11 DEF TryLockReadId
<1>12. CASE TryAnnounce(t)      BY <1>12 DEF TryAnnounce
<1>13. CASE TryFlag(t)          BY <1>13 DEF TryFlag
<1>14. CASE TryFailed(t)        BY <1>14 DEF TryFailed
<1>15. QED
  BY <1>1, <1>2, <1>3, <1>4, <1>5, <1>6, <1>7, <1>8, <1>9, <1>10, <1>11, <1>12, <1>13, <1>14
     DEF TakeStep

LEMMA ClaimRelease ==
  ASSUME Types, ClaimInv, NEW t \in Threads, ReleaseStep(t) PROVE ClaimInv'
<1> USE ThreadsAssumption
        DEF ThreadsAssumption, Types, ClaimInv, OneClaim, OwnerTested, HasClaim, WithFlag,
            AfterDestruction, MutualExclusion, At, GoTo, object, Releasing, Dying, OneLess
<1>1. CASE UnlockTest(t)      BY <1>1 DEF UnlockTest
<1>2. CASE UnlockReadId(t)    BY <1>2 DEF UnlockReadId
<1>3. CASE Subtract(t)        BY <1>3 DEF Subtract
<1>4. CASE ClearTest(t)       BY <1>4 DEF ClearTest
<1>5. CASE ClearReadId(t)     BY <1>5 DEF ClearReadId
<1>6. CASE Zero(t)            BY <1>6 DEF Zero
<1>7. CASE FreeId(t)          BY <1>7 DEF FreeId
<1>8. CASE FreeMark(t)        BY <1>8 DEF FreeMark
<1>9. CASE FreeFlag(t)        BY <1>9 DEF FreeFlag
<1>10. QED
  BY <1>1, <1>2, <1>3, <1>4, <1>5, <1>6, <1>7, <1>8, <1>9
     DEF ReleaseStep

LEMMA ClaimSwitch ==
  ASSUME Types, ClaimInv, NEW t \in Threads, SwitchStep(t) PROVE ClaimInv'
<1> USE ThreadsAssumption
        DEF ThreadsAssumption, Types, ClaimInv, OneClaim, OwnerTested, HasClaim, WithFlag,
            AfterDestruction, MutualExclusion, At, GoTo, object, Releasing, Dying, Switching
<1>1. CASE SwitchOn(t)     BY <1>1 DEF SwitchOn
<1>2. CASE SwitchOff(t)    BY <1>2 DEF SwitchOff
<1>3. CASE OffReadId(t)    BY <1>3 DEF OffReadId
<1>4. CASE OffSpin(t)      BY <1>4 DEF OffSpin
<1>5. CASE OffOwner(t)     BY <1>5 DEF OffOwner
<1>6. CASE OffZero(t)      BY <1>6 DEF OffZero
<1>7. CASE OffFlag(t)      BY <1>7 DEF OffFlag
<1>8. CASE OffMark(t)      BY <1>8 DEF OffMark
<1>9. QED
  BY <1>1, <1>2, <1>3, <1>4, <1>5, <1>6, <1>7, <1>8
     DEF SwitchStep

LEMMA ClaimCall ==
  ASSUME Types, ClaimInv, NEW t \in Threads, Call(t) PROVE ClaimInv'
<1> USE ThreadsAssumption
        DEF ThreadsAssumption, Types, ClaimInv, OneClaim, OwnerTested, HasClaim, WithFlag,
            AfterDestruction, MutualExclusion, At, GoTo, object, Releasing, Dying, CanCall, Alone
<1>1. CASE LockCall(t)          BY <1>1 DEF LockCall
<1>2. CASE TryLockCall(t)       BY <1>2 DEF TryLockCall
<1>3. CASE UnlockCall(t)        BY <1>3 DEF UnlockCall
<1>4. CASE ClearCall(t)         BY <1>4 DEF ClearCall
<1>5. CASE SwitchCall(t)        BY <1>5 DEF SwitchCall
<1>6. CASE DestructorCall(t)    BY <1>6 DEF DestructorCall
<1>7. QED
  BY <1>1, <1>2, <1>3, <1>4, <1>5, <1>6
     DEF Call

LEMMA ClaimInit == Init => ClaimInv
  BY ThreadsAssumption
     DEF ThreadsAssumption, Init, ClaimInv, OneClaim, OwnerTested, HasClaim, WithFlag, Dying

LEMMA ClaimNext == Types /\ ClaimInv /\ [Next]_vars => ClaimInv'
<1> SUFFICES ASSUME Types, ClaimInv, [Next]_vars PROVE ClaimInv'  OBVIOUS
<1>1. ASSUME NEW t \in Threads, Step(t) PROVE ClaimInv'
  <2>1. CASE TakeStep(t)     BY <2>1, ClaimTake
  <2>2. CASE ReleaseStep(t)  BY <2>2, ClaimRelease
  <2>3. CASE SwitchStep(t)   BY <2>3, ClaimSwitch
  <2>4. CASE DestructorOwn(t)
    BY <2>4 DEF DestructorOwn, Types, ClaimInv, MutualExclusion, AfterDestruction, At, GoTo, Dying
  <2>5. QED  BY <1>1, <2>1, <2>2, <2>3, <2>4 DEF Step
<1>2. ASSUME NEW t \in Threads, Call(t) PROVE ClaimInv'
  BY <1>2, ClaimCall
<1>3. CASE Construct
  BY <1>3, ThreadsAssumption
     DEF ThreadsAssumption, Construct, ClaimInv, OneClaim, OwnerTested, HasClaim, WithFlag, At, Dying
<1>4. CASE UNCHANGED vars
  BY <1>4 DEF vars, object, ClaimInv, OneClaim, OwnerTested, HasClaim, MutualExclusion
<1>5. QED  BY <1>1, <1>2, <1>3, <1>4 DEF Next

\* However the calls of the threads interleave, and even if do_locking() is
\* used against its rule of thumb, no two threads have the lock at once.
THEOREM LockIsExclusive == Spec => []MutualExclusion
<1>1. Init => TypeInv /\ ClaimInv  BY TypeInit, ClaimInit
<1>2. TypeInv /\ ClaimInv /\ [Next]_vars => (TypeInv /\ ClaimInv)'
  BY TypeNext, ClaimNext DEF TypeInv
<1>3. TypeInv /\ ClaimInv => MutualExclusion
  BY DEF ClaimInv, OneClaim, HasClaim, MutualExclusion
<1>4. QED  BY <1>1, <1>2, <1>3, PTL DEF Spec

-----------------------------------------------------------------------------
(* For users who keep to the rule of thumb of do_locking(): the counter is *)
(* exact, nothing is left behind, and the object is the abstract recursive *)
(* lock. The inductive invariant of that.                                  *)

\* Who switches is alone with the object, so the mode a call has found at its
\* beginning is in force until its end, and nobody owns an object without locking.
Tested == Announced \cup {"lock_id", "nest", "try_id", "announce", "try_announce",
             "unlock_id", "sub", "clear_id", "zero", "free_id", "free_mark", "free_flag", "off"}
SwitchedOff == Switching \ {"off"}

ModeKept ==
  /\ \A t \in Threads : pc[t] \in Switching => Alone(t)
  /\ \A t \in Threads : pc[t] \in Tested => doLocking
  /\ \A t \in Threads : pc[t] \in SwitchedOff => ~doLocking
  /\ \A t \in Threads : ~doLocking /\ ~isDestroyed /\ threadId = t => pc[t] \in {"off_id", "off_own"}
  /\ \A t \in Threads : ~doLocking /\ held[t] > 0
        => pc[t] \in {"off_id", "off_own", "off_zero", "off_flag"}

\* CL_Lock_Count is the owner's number of locks, but while it takes the first one
\* or gives back the last; nobody else has any.
Freeing == {"free_mark", "free_flag", "off_zero", "off_flag"}
Starting == {"announce", "try_announce", "spin", "try", "failed", "mark", "own", "off_spin"}

CountKept ==
  /\ \A t \in Threads : threadId = t =>
        /\ pc[t] \in {"one", "done"} => held[t] = 0
        /\ pc[t] = "done" => count = 1
        /\ pc[t] = "free_id" => count = 0
        /\ pc[t] \notin {"one", "done", "zero", "free_id"} => count = held[t] /\ held[t] > 0
  /\ \A t \in Threads : pc[t] \in Starting => threadId # t
  /\ \A t \in Threads : pc[t] \in {"one", "done"} => threadId = t
  /\ \A t \in Threads : threadId # t /\ pc[t] \notin Freeing => held[t] = 0

\* In an object under destruction only the destructor's thread can still own
\* anything, until it gives it back.
Untested == {"idle", "lock", "try_lock", "unlock", "unlock_id", "clear", "clear_id"}

LastOwner ==
  /\ \A t \in Threads : doLocking /\ threadId = t
        => pc[t] \in {"dead_id", "dead", "clear_id", "zero", "free_id"}
  /\ \A t \in Threads : held[t] > 0 => threadId = t \/ pc[t] \in {"free_mark", "free_flag"}
  /\ \A t \in Threads : pc[t] \in {"sub", "zero", "free_id", "dead"} => threadId = t
  /\ \A t \in Threads : pc[t] = "dead_id" =>
        \A u \in Threads \ {t} : pc[u] \in Untested /\ threadId # u
  /\ Threads # {}

\* A flag, a mark or a count that is set belongs to a thread that owns the object
\* or is on its way to own it, or to give it up.
Belongs ==
  /\ flag => \E t \in Threads : pc[t] \in WithFlag \/ threadId = t
  /\ isLocked => \E t \in Threads :
        pc[t] \in (WithFlag \ {"mark", "free_flag"}) \cup {"off_mark"} \/ threadId = t
  /\ count # 0 => \E t \in Threads : pc[t] = "off_zero" \/ threadId = t

RuleInv ==
  /\ ModeKept
  /\ ~isDestroyed => CountKept /\ Belongs
  /\ isDestroyed => LastOwner

LEMMA RuleTake ==
  ASSUME RuleOfThumb, TypeInv, ClaimInv, RuleInv, NEW t \in Threads, TakeStep(t) PROVE RuleInv'
<1> USE ThreadsAssumption, DepthAssumption
        DEF ThreadsAssumption, DepthAssumption, TypeInv, Types, DepthLeft, ClaimInv, OneClaim, OwnerTested,
            HasClaim, WithFlag, AfterDestruction, MutualExclusion, RuleInv, ModeKept, CountKept, LastOwner,
            Belongs, Tested, SwitchedOff, Freeing, Starting, Untested, At, GoTo, object, Labels, Taking,
            Announced, Releasing, Dying, Switching, OneLess, Alone, CanCall
<1>1. CASE LockTest(t)  BY <1>1 DEF LockTest
<1>2. CASE LockReadId(t)  BY <1>2 DEF LockReadId
<1>3. CASE Nest(t)  BY <1>3 DEF Nest
<1>4. CASE Announce(t)  BY <1>4 DEF Announce
<1>5. CASE Spin(t)  BY <1>5 DEF Spin
<1>6. CASE MarkLocked(t)  BY <1>6 DEF MarkLocked
<1>7. CASE MarkOwner(t)  BY <1>7 DEF MarkOwner
<1>8. CASE CountOne(t)  BY <1>8 DEF CountOne
<1>9. CASE LockDone(t)  BY <1>9 DEF LockDone
<1>10. CASE TryLockTest(t)  BY <1>10 DEF TryLockTest
<1>11. CASE TryLockReadId(t)  BY <1>11 DEF TryLockReadId
<1>12. CASE TryAnnounce(t)  BY <1>12 DEF TryAnnounce
<1>13. CASE TryFlag(t)  BY <1>13 DEF TryFlag
<1>14. CASE TryFailed(t)  BY <1>14 DEF TryFailed
<1>15. QED  BY <1>1, <1>2, <1>3, <1>4, <1>5, <1>6, <1>7, <1>8, <1>9, <1>10, <1>11, <1>12, <1>13, <1>14
     DEF TakeStep

LEMMA RuleRelease ==
  ASSUME RuleOfThumb, TypeInv, ClaimInv, RuleInv, NEW t \in Threads, ReleaseStep(t) PROVE RuleInv'
<1> USE ThreadsAssumption, DepthAssumption
        DEF ThreadsAssumption, DepthAssumption, TypeInv, Types, DepthLeft, ClaimInv, OneClaim, OwnerTested,
            HasClaim, WithFlag, AfterDestruction, MutualExclusion, RuleInv, ModeKept, CountKept, LastOwner,
            Belongs, Tested, SwitchedOff, Freeing, Starting, Untested, At, GoTo, object, Labels, Taking,
            Announced, Releasing, Dying, Switching, OneLess, Alone, CanCall
<1>1. CASE UnlockTest(t)  BY <1>1 DEF UnlockTest
<1>2. CASE UnlockReadId(t)  BY <1>2 DEF UnlockReadId
<1>3. CASE Subtract(t)  BY <1>3 DEF Subtract
<1>4. CASE ClearTest(t)  BY <1>4 DEF ClearTest
<1>5. CASE ClearReadId(t)  BY <1>5 DEF ClearReadId
<1>6. CASE Zero(t)  BY <1>6 DEF Zero
<1>7. CASE FreeId(t)  BY <1>7 DEF FreeId
<1>8. CASE FreeMark(t)  BY <1>8 DEF FreeMark
<1>9. CASE FreeFlag(t)
  <2> USE <1>9 DEF FreeFlag
  <2>1. ModeKept'  OBVIOUS
  <2>2. ~isDestroyed => CountKept'  OBVIOUS
  <2>3. ~isDestroyed => Belongs'  OBVIOUS
  <2>4. isDestroyed => LastOwner'  OBVIOUS
  <2>5. isDestroyed' = isDestroyed  OBVIOUS
  <2>6. QED  BY <2>1, <2>2, <2>3, <2>4, <2>5 DEF RuleInv
<1>10. QED  BY <1>1, <1>2, <1>3, <1>4, <1>5, <1>6, <1>7, <1>8, <1>9
     DEF ReleaseStep

LEMMA RuleSwitch ==
  ASSUME RuleOfThumb, TypeInv, ClaimInv, RuleInv, NEW t \in Threads, SwitchStep(t) PROVE RuleInv'
<1> USE ThreadsAssumption, DepthAssumption
        DEF ThreadsAssumption, DepthAssumption, TypeInv, Types, DepthLeft, ClaimInv, OneClaim, OwnerTested,
            HasClaim, WithFlag, AfterDestruction, MutualExclusion, RuleInv, ModeKept, CountKept, LastOwner,
            Belongs, Tested, SwitchedOff, Freeing, Starting, Untested, At, GoTo, object, Labels, Taking,
            Announced, Releasing, Dying, Switching, OneLess, Alone, CanCall
<1>1. CASE SwitchOn(t)  BY <1>1 DEF SwitchOn
<1>2. CASE SwitchOff(t)  BY <1>2 DEF SwitchOff
<1>3. CASE OffReadId(t)  BY <1>3 DEF OffReadId
<1>4. CASE OffSpin(t)  BY <1>4 DEF OffSpin
<1>5. CASE OffOwner(t)  BY <1>5 DEF OffOwner
<1>6. CASE OffZero(t)  BY <1>6 DEF OffZero
<1>7. CASE OffFlag(t)  BY <1>7 DEF OffFlag
<1>8. CASE OffMark(t)  BY <1>8 DEF OffMark
<1>9. QED  BY <1>1, <1>2, <1>3, <1>4, <1>5, <1>6, <1>7, <1>8
     DEF SwitchStep

LEMMA RuleCall ==
  ASSUME RuleOfThumb, TypeInv, ClaimInv, RuleInv, NEW t \in Threads, Call(t) PROVE RuleInv'
<1> USE ThreadsAssumption, DepthAssumption
        DEF ThreadsAssumption, DepthAssumption, TypeInv, Types, DepthLeft, ClaimInv, OneClaim, OwnerTested,
            HasClaim, WithFlag, AfterDestruction, MutualExclusion, RuleInv, ModeKept, CountKept, LastOwner,
            Belongs, Tested, SwitchedOff, Freeing, Starting, Untested, At, GoTo, object, Labels, Taking,
            Announced, Releasing, Dying, Switching, OneLess, Alone, CanCall
<1>1. CASE LockCall(t)  BY <1>1 DEF LockCall
<1>2. CASE TryLockCall(t)  BY <1>2 DEF TryLockCall
<1>3. CASE UnlockCall(t)  BY <1>3 DEF UnlockCall
<1>4. CASE ClearCall(t)  BY <1>4 DEF ClearCall
<1>5. CASE SwitchCall(t)  BY <1>5 DEF SwitchCall
<1>6. CASE DestructorCall(t)  BY <1>6 DEF DestructorCall
<1>7. QED  BY <1>1, <1>2, <1>3, <1>4, <1>5, <1>6
     DEF Call

LEMMA RuleInit == Init => RuleInv
<1> SUFFICES ASSUME Init PROVE RuleInv  OBVIOUS
<1>1. ModeKept  BY DEF Init, ModeKept, Tested, SwitchedOff, Switching, Announced
<1>2. CountKept /\ Belongs
  BY ThreadsAssumption DEF ThreadsAssumption, Init, CountKept, Belongs, Starting
<1>3. QED  BY <1>1, <1>2 DEF Init, RuleInv

LEMMA RuleConstruct ==
  ASSUME TypeInv, ClaimInv, RuleInv, Construct PROVE RuleInv'
<1> USE DEF Construct, At
<1>1. ModeKept'
  BY ThreadsAssumption
     DEF ThreadsAssumption, ModeKept, Tested, SwitchedOff, Switching, Announced
<1>2. CountKept' /\ Belongs'
  BY ThreadsAssumption DEF ThreadsAssumption, CountKept, Belongs, Starting
<1>3. QED  BY <1>1, <1>2 DEF RuleInv

LEMMA RuleNext ==
  ASSUME RuleOfThumb, TypeInv, ClaimInv, RuleInv, [Next]_vars PROVE RuleInv'
<1>1. ASSUME NEW t \in Threads, Step(t) PROVE RuleInv'
  <2>1. CASE TakeStep(t)     BY <2>1, RuleTake
  <2>2. CASE ReleaseStep(t)  BY <2>2, RuleRelease
  <2>3. CASE SwitchStep(t)   BY <2>3, RuleSwitch
  <2>4. CASE DestructorOwn(t)
    <3> USE <2>4 DEF DestructorOwn, TypeInv, Types, ClaimInv, At, GoTo, Labels, Dying
    <3>1. isDestroyed /\ isDestroyed'  OBVIOUS
    <3>2. ModeKept'
      BY DEF RuleInv, ModeKept, Tested, SwitchedOff, Switching, Announced, Alone
    <3>3. LastOwner'
      BY <3>1 DEF RuleInv, LastOwner, Untested, ModeKept
    <3>4. QED  BY <3>1, <3>2, <3>3 DEF RuleInv
  <2>5. QED  BY <1>1, <2>1, <2>2, <2>3, <2>4 DEF Step
<1>2. ASSUME NEW t \in Threads, Call(t) PROVE RuleInv'
  BY <1>2, RuleCall
<1>3. CASE Construct  BY <1>3, RuleConstruct
<1>4. CASE UNCHANGED vars
  BY <1>4 DEF vars, object, RuleInv, ModeKept, CountKept, LastOwner, Belongs, Alone, At
<1>5. QED  BY <1>1, <1>2, <1>3, <1>4 DEF Next

LEMMA RuleAlways ==
  ASSUME RuleOfThumb PROVE Spec => [](TypeInv /\ ClaimInv /\ RuleInv)
<1>1. Init => TypeInv /\ ClaimInv /\ RuleInv  BY TypeInit, ClaimInit, RuleInit
<1>2. TypeInv /\ ClaimInv /\ RuleInv /\ [Next]_vars => (TypeInv /\ ClaimInv /\ RuleInv)'
  BY TypeNext, ClaimNext, RuleNext DEF TypeInv
<1>3. QED  BY <1>1, <1>2, PTL DEF Spec

-----------------------------------------------------------------------------
(* What follows *)

\* However the threads nest, try, unlock, clear and switch: between two calls
\* lock_count() is the number of unlock() calls its thread still owes.
THEOREM CountIsExact ==
  ASSUME RuleOfThumb PROVE Spec => []LockCountExact
<1>1. TypeInv /\ RuleInv => LockCountExact
  <2> SUFFICES ASSUME TypeInv, RuleInv, NEW t \in Threads, At(t, "idle"), ~isDestroyed
               PROVE  LockCount(t) = held[t]
    BY DEF LockCountExact
  <2>1. CASE threadId = t  BY <2>1 DEF RuleInv, CountKept, LockCount, At
  <2>2. CASE threadId # t  BY <2>2 DEF RuleInv, CountKept, LockCount, At, Freeing
  <2>3. QED  BY <2>1, <2>2
<1>2. QED  BY <1>1, RuleAlways, PTL

\* After the last unlock() flag, owner, mark and both counters are as they were
\* before the first lock().
THEOREM NothingIsLeft ==
  ASSUME RuleOfThumb PROVE Spec => []NothingLeftBehind
<1>1. TypeInv /\ RuleInv /\ WaitingExact => NothingLeftBehind
  <2> SUFFICES ASSUME TypeInv, RuleInv, WaitingExact, doLocking, ~isDestroyed,
                      \A t \in Threads : At(t, "idle") /\ held[t] = 0
               PROVE  ~flag /\ ~isLocked /\ threadId = NoThread /\ count = 0 /\ waiting = 0
    BY DEF NothingLeftBehind
  <2>1. \A t \in Threads : threadId # t  BY DEF RuleInv, CountKept, At
  <2>2. ~flag /\ ~isLocked /\ count = 0  BY <2>1 DEF RuleInv, Belongs, WithFlag, At
  <2>3. threadId = NoThread  BY <2>1 DEF TypeInv, Types
  <2>4. {t \in Threads : pc[t] \in Announced} = {}  BY DEF At, Announced
  <2>5. waiting = 0  BY <2>4, FS_EmptySet DEF WaitingExact
  <2>6. QED  BY <2>2, <2>3, <2>5
<1>2. Spec => []WaitingExact  BY TypeCorrect, PTL
<1>3. QED  BY <1>1, <1>2, RuleAlways, PTL

-----------------------------------------------------------------------------
(* The object is a recursive lock *)

\* A step that leaves the locks and the mode alone, or takes locks of t only, is a
\* stutter or gives locks back.
LEMMA GivesBack ==
  ASSUME Types, NEW t \in Threads, doLocking' = doLocking,
         held' = held \/ held' = OneLess(t) \/ held' = [held EXCEPT ![t] = 0]
  PROVE  [Abstract!Next]_(Abstract!lockVars)
<1>1. CASE held' = held  BY <1>1 DEF Abstract!lockVars
<1>2. CASE held' = OneLess(t) /\ held[t] > 0
  <2>1. Abstract!Release(t)  BY <1>2 DEF Abstract!Release, OneLess, Types
  <2>2. QED  BY <2>1 DEF Abstract!Next
<1>3. CASE held' = [held EXCEPT ![t] = 0]
  <2>1. Abstract!ReleaseAll(t)  BY <1>3 DEF Abstract!ReleaseAll
  <2>2. QED  BY <2>1 DEF Abstract!Next
<1>4. CASE held' = OneLess(t) /\ ~(held[t] > 0)
  <2>1. held' = [held EXCEPT ![t] = 0]  BY <1>4 DEF OneLess
  <2>2. QED  BY <1>3, <2>1
<1>5. QED  BY <1>1, <1>2, <1>3, <1>4

\* t is given one more lock, by a call that has found locking turned on.
LEMMA GivesOne ==
  ASSUME Types, ClaimInv, NEW t \in Threads, HasClaim(t), ~isDestroyed, doLocking,
         doLocking' = doLocking, held' = [held EXCEPT ![t] = @ + 1]
  PROVE  Abstract!Next
<1>1. Abstract!FreeFor(t)
  BY DEF Abstract!FreeFor, ClaimInv, OneClaim, HasClaim, Types
<1>2. Abstract!Acquire(t)  BY <1>1 DEF Abstract!Acquire
<1>3. QED  BY <1>2 DEF Abstract!Next

\* The mode changes while nobody else has a lock.
LEMMA Switches ==
  ASSUME NEW t \in Threads, \A u \in Threads \ {t} : held[u] = 0, ~doLocking => held[t] = 0,
         doLocking' = ~doLocking, held' = held
  PROVE  Abstract!Next
<1>1. Abstract!Switch(t)  BY DEF Abstract!Switch, Abstract!FreeFor
<1>2. QED  BY <1>1 DEF Abstract!Next

LEMMA RefineTake ==
  ASSUME TypeInv, ClaimInv, RuleInv, NEW t \in Threads, TakeStep(t)
  PROVE  [Abstract!Next]_(Abstract!lockVars)
<1>1. CASE Nest(t)
  <2>1. ~isDestroyed  BY <1>1 DEF Nest, At, ClaimInv, AfterDestruction, Releasing, Dying
  <2>2. doLocking  BY <1>1 DEF Nest, At, RuleInv, ModeKept, Tested
  <2>3. HasClaim(t)  BY <1>1, <2>1 DEF Nest, At, ClaimInv, OwnerTested, HasClaim
  <2>4. QED  BY <1>1, <2>1, <2>2, <2>3, GivesOne DEF Nest, TypeInv
<1>2. CASE LockDone(t)
  <2>1. ~isDestroyed  BY <1>2 DEF LockDone, At, ClaimInv, AfterDestruction, Releasing, Dying
  <2>2. doLocking  BY <1>2 DEF LockDone, At, RuleInv, ModeKept, Tested, Announced
  <2>3. HasClaim(t)  BY <1>2 DEF LockDone, At, WithFlag, HasClaim
  <2>4. QED  BY <1>2, <2>1, <2>2, <2>3, GivesOne DEF LockDone, TypeInv
<1>3. CASE ~Nest(t) /\ ~LockDone(t)
  <2>1. held' = held /\ doLocking' = doLocking
    BY <1>3 DEF TakeStep, LockTest, LockReadId, Announce, Spin, MarkLocked, MarkOwner, CountOne,
                TryLockTest, TryLockReadId, TryAnnounce, TryFlag, TryFailed, object
  <2>2. QED  BY <2>1 DEF Abstract!lockVars
<1>4. QED  BY <1>1, <1>2, <1>3

LEMMA RefineRelease ==
  ASSUME TypeInv, NEW t \in Threads, ReleaseStep(t)
  PROVE  [Abstract!Next]_(Abstract!lockVars)
<1>1. /\ doLocking' = doLocking
      /\ held' = held \/ held' = OneLess(t) \/ held' = [held EXCEPT ![t] = 0]
  BY DEF ReleaseStep, UnlockTest, UnlockReadId, Subtract, ClearTest, ClearReadId, Zero,
         FreeId, FreeMark, FreeFlag, object
<1>2. QED  BY <1>1, GivesBack DEF TypeInv

LEMMA RefineSwitch ==
  ASSUME TypeInv, RuleInv, NEW t \in Threads, SwitchStep(t)
  PROVE  [Abstract!Next]_(Abstract!lockVars)
<1>1. CASE SwitchOn(t) \/ SwitchOff(t)
  <2>1. \A u \in Threads \ {t} : held[u] = 0
    BY <1>1 DEF SwitchOn, SwitchOff, At, RuleInv, ModeKept, Switching, Alone
  <2>2. CASE SwitchOn(t)
    <3>1. ~doLocking  BY <2>2 DEF SwitchOn, At, RuleInv, ModeKept, SwitchedOff, Switching
    <3>2. held[t] = 0
      BY <2>2, <3>1 DEF SwitchOn, At, RuleInv, ModeKept, TypeInv, Types
    <3>3. QED  BY <2>1, <2>2, <3>1, <3>2, Switches DEF SwitchOn
  <2>3. CASE SwitchOff(t)
    <3>1. doLocking  BY <2>3 DEF SwitchOff, At, RuleInv, ModeKept, Tested
    <3>2. QED  BY <2>1, <2>3, <3>1, Switches DEF SwitchOff
  <2>4. QED  BY <1>1, <2>2, <2>3
<1>2. CASE ~SwitchOn(t) /\ ~SwitchOff(t)
  <2>1. /\ doLocking' = doLocking
        /\ held' = held \/ held' = [held EXCEPT ![t] = 0]
    BY <1>2 DEF SwitchStep, OffReadId, OffSpin, OffOwner, OffZero, OffFlag, OffMark, object
  <2>2. QED  BY <2>1, GivesBack DEF TypeInv
<1>3. QED  BY <1>1, <1>2

\* A new object may be created without locking: nothing is owned by then.
LEMMA RefineConstruct ==
  ASSUME TypeInv, RuleInv, Construct
  PROVE  [Abstract!Next]_(Abstract!lockVars)
<1>1. \A t \in Threads : held[t] = 0
  <2> SUFFICES ASSUME NEW t \in Threads, held[t] > 0 PROVE FALSE  BY DEF TypeInv, Types
  <2>1. pc[t] = "idle" /\ isDestroyed  BY DEF Construct, At
  <2>2. CASE doLocking   BY <2>1, <2>2 DEF RuleInv, LastOwner
  <2>3. CASE ~doLocking  BY <2>1, <2>3 DEF RuleInv, ModeKept
  <2>4. QED  BY <2>2, <2>3
<1>2. held' = held  BY <1>1 DEF Construct, TypeInv, Types
<1>3. CASE doLocking' = doLocking  BY <1>2, <1>3 DEF Abstract!lockVars
<1>4. CASE doLocking' # doLocking
  <2>1. PICK t \in Threads : TRUE  BY DEF Construct, RuleInv, LastOwner
  <2>2. doLocking' = ~doLocking  BY <1>4 DEF Construct, TypeInv, Types
  <2>3. QED  BY <1>1, <1>2, <2>1, <2>2, Switches
<1>5. QED  BY <1>3, <1>4

LEMMA RefineNext ==
  ASSUME TypeInv, ClaimInv, RuleInv, [Next]_vars
  PROVE  [Abstract!Next]_(Abstract!lockVars)
<1>1. ASSUME NEW t \in Threads, Step(t) PROVE [Abstract!Next]_(Abstract!lockVars)
  <2>1. CASE DestructorOwn(t)
    BY <2>1 DEF DestructorOwn, Abstract!lockVars
  <2>2. QED  BY <1>1, <2>1, RefineTake, RefineRelease, RefineSwitch DEF Step
<1>2. ASSUME NEW t \in Threads, Call(t) PROVE UNCHANGED Abstract!lockVars
  BY <1>2 DEF Call, LockCall, TryLockCall, UnlockCall, ClearCall, SwitchCall, DestructorCall,
              object, Abstract!lockVars
<1>3. CASE Construct  BY <1>3, RefineConstruct
<1>4. CASE UNCHANGED vars  BY <1>4 DEF vars, object, Abstract!lockVars
<1>5. QED  BY <1>1, <1>2, <1>3, <1>4 DEF Next

\* For users who keep to the rule of thumb the seven atomics, read and written
\* one by one, are a recursive lock with a switch: every step of a call either
\* takes a free lock, gives locks back, switches, or cannot be seen.
THEOREM IsALock ==
  ASSUME RuleOfThumb PROVE Spec => IsRecursiveLock
<1>1. Init => Abstract!Init  BY DEF Init, Abstract!Init
<1>2. TypeInv /\ ClaimInv /\ RuleInv /\ [Next]_vars => [Abstract!Next]_(Abstract!lockVars)
  BY RefineNext
<1>3. QED  BY <1>1, <1>2, RuleAlways, PTL DEF Spec, IsRecursiveLock, Abstract!Spec
=============================================================================
