--------------------------- MODULE ChainHashProofs ---------------------------
(***************************************************************************)
(* Proofs about ChainHash, for any finite set of threads, any operations   *)
(* they call in any order, and memory that may run out anywhere.           *)
(***************************************************************************)
EXTENDS ChainHash, FiniteSetTheorems, WellFoundedInduction, SequenceTheorems, TLAPS

-----------------------------------------------------------------------------
(* The inductive invariant *)

Labels == {"idle", "get", "index", "head", "walk", "size", "gate", "insert", "inserted", "load",
           "larger", "announce", "grow wait", "grow", "grown", "unlink", "cut", "tell", "delete",
           "removed", "clear", "clear wait", "sweep", "add all", "merge lock", "merge size", "merge"}

GateTypes ==
  /\ pc \in [Threads -> Labels] /\ op \in [Threads -> Ops \cup {Nil}]
  /\ owner \in Threads \cup {Nil} /\ depth \in Nat
  /\ growing \in Nat /\ inserting \in Nat /\ removing \in Nat /\ clearing \in Nat

InsertSteps == {"insert", "inserted"}
RemoveSteps == {"unlink", "cut", "tell", "delete", "removed"}
GrowSteps   == {"grow", "grown"}
Announcing  == {"grow wait", "grow", "grown"}
ClearSteps  == {"clear", "clear wait", "sweep"}
MergeSteps  == {"add all", "merge lock", "merge size", "merge"}
Unlocked    == {"idle", "add all", "merge lock"}

\* A thread that changes the table has the lock for that, and one in operator+= has it
\* for all that it calls.
Changing(t) == pc[t] \in InsertSteps \cup RemoveSteps \cup GrowSteps
Merging(t)  == op[t] = "+=" /\ pc[t] \notin Unlocked

LockInv ==
  /\ owner = Nil => depth = 0
  /\ \A t \in Threads : owner = t <=> Changing(t) \/ Merging(t)
  /\ \A t \in Threads : owner = t => depth = IF Changing(t) /\ Merging(t) THEN 2 ELSE 1

\* operator+= neither removes nor clears.
OpInv ==
  /\ \A t \in Threads : pc[t] \in RemoveSteps \cup ClearSteps => op[t] # "+="
  /\ \A t \in Threads : pc[t] \in MergeSteps => op[t] = "+="

Announced == {t \in Threads : pc[t] \in Announcing}

\* A counter is raised for everybody who is past it, if not only for them: exceptions
\* and pop_back() leave some raised. That of clear() is exact. Many may wait for a
\* grow() at the same time, and each of them has raised its counter once.
CountInv ==
  /\ clearing = Cardinality(Clearing)
  /\ growing >= Cardinality(Announced)
  /\ \A t \in Threads :
       /\ pc[t] \in InsertSteps => inserting > 0
       /\ pc[t] \in RemoveSteps => removing > 0
       /\ Changing(t) => clearing = 0

GateInv == GateTypes /\ LockInv /\ OpInv /\ CountInv

-----------------------------------------------------------------------------
(* Who is clearing, and who has announced a grow() *)

LEMMA ClearingFinite == IsFiniteSet(Clearing) /\ Cardinality(Clearing) \in Nat
<1>1. IsFiniteSet(Threads) /\ Clearing \in SUBSET Threads
  BY ThreadsAssumption DEF ThreadsAssumption, Clearing
<1>2. IsFiniteSet(Clearing)  BY <1>1, FS_Subset
<1>3. QED  BY <1>2, FS_CardinalityType

LEMMA AnnouncedFinite == IsFiniteSet(Announced) /\ Cardinality(Announced) \in Nat
<1>1. IsFiniteSet(Threads) /\ Announced \in SUBSET Threads
  BY ThreadsAssumption DEF ThreadsAssumption, Announced
<1>2. IsFiniteSet(Announced)  BY <1>1, FS_Subset
<1>3. QED  BY <1>2, FS_CardinalityType

LEMMA NoneClears == Cardinality(Clearing) = 0 <=> \A t \in Threads : pc[t] # "sweep"
  BY ClearingFinite, FS_EmptySet DEF Clearing

LEMMA ClearerStays ==
  ASSUME GateTypes, NEW t \in Threads, NEW l, l = "sweep" <=> pc[t] = "sweep",
         pc' = [pc EXCEPT ![t] = l]
  PROVE  Clearing' = Clearing
  BY DEF Clearing, GateTypes

LEMMA AnnouncerStays ==
  ASSUME GateTypes, NEW t \in Threads, NEW l, l \in Announcing <=> pc[t] \in Announcing,
         pc' = [pc EXCEPT ![t] = l]
  PROVE  Announced' = Announced
  BY DEF Announced, GateTypes

\* Who announces a grow() raises the counter, and who has done it may lower it.
LEMMA AnnouncerComes ==
  ASSUME GateTypes, NEW t \in Threads, NEW l \in Announcing, pc[t] \notin Announcing,
         pc' = [pc EXCEPT ![t] = l]
  PROVE  Cardinality(Announced') = Cardinality(Announced) + 1
<1>1. Announced' = Announced \cup {t} /\ t \notin Announced  BY DEF Announced, GateTypes
<1>2. QED  BY <1>1, AnnouncedFinite, FS_AddElement

LEMMA AnnouncerGoes ==
  ASSUME GateTypes, NEW t \in Threads, NEW l, l \notin Announcing, pc[t] \in Announcing,
         pc' = [pc EXCEPT ![t] = l]
  PROVE  /\ Cardinality(Announced') = Cardinality(Announced) - 1
         /\ Cardinality(Announced) > 0
<1>1. Announced' = Announced \ {t} /\ t \in Announced  BY DEF Announced, GateTypes
<1>2. Cardinality(Announced') = Cardinality(Announced) - 1  BY <1>1, AnnouncedFinite, FS_RemoveElement
<1>3. Cardinality(Announced) # 0  BY <1>1, AnnouncedFinite, FS_EmptySet
<1>4. QED  BY <1>2, <1>3, AnnouncedFinite

-----------------------------------------------------------------------------
(* The steps *)

Control == <<owner, depth, growing, inserting, removing, clearing, op>>

\* A step that leaves the gate as it is, and does not begin or end a change.
LEMMA Moves ==
  ASSUME GateInv, NEW t \in Threads, NEW l \in Labels,
         pc' = [pc EXCEPT ![t] = l], UNCHANGED Control,
         l = "sweep" <=> pc[t] = "sweep",
         l \in InsertSteps <=> pc[t] \in InsertSteps,
         l \in RemoveSteps <=> pc[t] \in RemoveSteps,
         l \in GrowSteps <=> pc[t] \in GrowSteps,
         l = "grow wait" <=> pc[t] = "grow wait",
         op[t] = "+=" => (l \in Unlocked <=> pc[t] \in Unlocked) /\ l \notin RemoveSteps \cup ClearSteps,
         l \in MergeSteps => op[t] = "+="
  PROVE  GateInv'
<1>0. Announced' = Announced  BY AnnouncerStays DEF GateInv, Announcing, GrowSteps
<1>1. Clearing' = Clearing  BY ClearerStays DEF GateInv
<1>2. GateTypes'  BY DEF GateInv, GateTypes, Control
<1>3. \A u \in Threads \ {t} : pc'[u] = pc[u]  BY DEF GateInv, GateTypes
<1>4. pc'[t] = l  BY DEF GateInv, GateTypes
<1>5. \A u \in Threads : (Changing(u)' <=> Changing(u)) /\ (Merging(u)' <=> Merging(u))
  BY <1>3, <1>4 DEF Changing, Merging, Control
<1>6. LockInv'  BY <1>5 DEF GateInv, LockInv, Control
<1>7. OpInv'  BY <1>3, <1>4 DEF GateInv, OpInv, Control
<1>8. CountInv'  BY <1>0, <1>1, <1>3, <1>4, <1>5 DEF GateInv, CountInv, Control
<1>9. QED  BY <1>2, <1>6, <1>7, <1>8 DEF GateInv

\* These are the steps of the searches, of waiting, and those within a change.
LEMMA GateMoves ==
  ASSUME GateInv, NEW t \in Threads,
         Get(t) \/ Index(t) \/ TableGet(t) \/ Walk(t) \/ Size(t) \/ Load(t) \/ Larger(t) \/ Insert(t) \/ Grow(t)
         \/ Unlink(t) \/ NotThere(t) \/ Cut(t) \/ Tell(t) \/ Delete(t) \/ TableSize(t) \/ Sweep(t) \/ Merge(t) \/ MergeSize(t)
  PROVE  GateInv'
<1> USE Moves DEF Goto, Return, lock, gate, data, local, history, Control,
            Labels, InsertSteps, RemoveSteps, GrowSteps, ClearSteps, MergeSteps, Unlocked
<1>1. CASE Get(t)
  BY <1>1 DEF Get, Begin, GateInv, GateTypes, OpInv
<1>2. CASE Index(t)
  BY <1>2 DEF Index, GateInv, GateTypes, OpInv
<1>3. CASE TableGet(t)
  BY <1>3 DEF TableGet, GateInv, GateTypes, OpInv
<1>4. CASE Walk(t)
  <2>1. \/ pc' = [pc EXCEPT ![t] = "walk"]
        \/ pc' = [pc EXCEPT ![t] = "gate"]
        \/ pc' = [pc EXCEPT ![t] = "size"]
        \/ op[t] = "get" /\ pc' = [pc EXCEPT ![t] = "idle"]
    BY <1>4 DEF Walk, GateInv, GateTypes
  <2>2. pc[t] = "walk" /\ UNCHANGED Control  BY <1>4 DEF Walk
  <2>3. QED  BY <2>1, <2>2 DEF GateInv, OpInv
<1>5. CASE Size(t)
  BY <1>5 DEF Size, GateInv, GateTypes, OpInv
<1>6. CASE Load(t)
  BY <1>6 DEF Load, GateInv, GateTypes, OpInv
<1>7. CASE Larger(t)
  BY <1>7 DEF Larger, GateInv, GateTypes, OpInv
<1>8. CASE Insert(t)
  BY <1>8 DEF Insert, GateInv, GateTypes, OpInv
<1>9. CASE Grow(t)
  BY <1>9 DEF Grow, GateInv, GateTypes, OpInv
<1>10. CASE Unlink(t)
  BY <1>10 DEF Unlink, GateInv, GateTypes, OpInv
<1>11. CASE NotThere(t)
  BY <1>11 DEF NotThere, GateInv, GateTypes, OpInv
<1>12. CASE Cut(t)
  BY <1>12 DEF Cut, GateInv, GateTypes, OpInv
<1>13. CASE Tell(t)
  BY <1>13 DEF Tell, GateInv, GateTypes, OpInv
<1>14. CASE Delete(t)
  BY <1>14 DEF Delete, GateInv, GateTypes, OpInv
<1>15. CASE TableSize(t)
  BY <1>15 DEF TableSize, GateInv, GateTypes, OpInv
<1>16. CASE Sweep(t)
  <2>1. pc' = [pc EXCEPT ![t] = "sweep"] /\ pc[t] = "sweep" /\ UNCHANGED Control
    BY <1>16 DEF Sweep, GateInv, GateTypes
  <2>2. QED  BY <2>1 DEF GateInv, OpInv
<1>17. CASE Merge(t)
  BY <1>17 DEF Merge, GateInv, GateTypes, OpInv
<1>18. CASE MergeSize(t)
  BY <1>18 DEF MergeSize, GateInv, GateTypes, OpInv
<1>19. QED  BY <1>1, <1>2, <1>3, <1>4, <1>5, <1>6, <1>7, <1>8, <1>9, <1>10,
           <1>11, <1>12, <1>13, <1>14, <1>15, <1>16, <1>17, <1>18

LEMMA Others ==
  ASSUME GateTypes, NEW t \in Threads, NEW l, pc' = [pc EXCEPT ![t] = l], op' = op
  PROVE  /\ pc'[t] = l
         /\ \A u \in Threads \ {t} :
              pc'[u] = pc[u] /\ (Changing(u)' <=> Changing(u)) /\ (Merging(u)' <=> Merging(u))
  BY DEF GateTypes, Changing, Merging

\* t takes the lock for a change, or for operator+=.
LEMMA LockTaken ==
  ASSUME GateTypes, LockInv, NEW t \in Threads, Free(t), Lock(t), ~Changing(t),
         \A u \in Threads \ {t} : (Changing(u)' <=> Changing(u)) /\ (Merging(u)' <=> Merging(u)),
         IF Changing(t)' THEN Merging(t)' <=> Merging(t) ELSE ~Merging(t) /\ Merging(t)'
  PROVE  LockInv' /\ owner' \in Threads \cup {Nil} /\ depth' \in Nat
  BY ThreadsAssumption DEF ThreadsAssumption, GateTypes, LockInv, Free, Lock

\* And gives it back.
LEMMA LockGiven ==
  ASSUME GateTypes, LockInv, NEW t \in Threads, Unlock, ~Changing(t)',
         \A u \in Threads \ {t} : (Changing(u)' <=> Changing(u)) /\ (Merging(u)' <=> Merging(u)),
         IF Changing(t) THEN Merging(t)' <=> Merging(t) ELSE Merging(t) /\ ~Merging(t)'
  PROVE  LockInv' /\ owner' \in Threads \cup {Nil} /\ depth' \in Nat
  BY ThreadsAssumption DEF ThreadsAssumption, GateTypes, LockInv, Unlock

\* Or all of it at once, when an exception leaves operator+=, too.
LEMMA LockThrown ==
  ASSUME GateTypes, LockInv, NEW t \in Threads, owner = t, owner' = Nil, depth' = 0,
         ~Changing(t)', ~Merging(t)',
         \A u \in Threads \ {t} : (Changing(u)' <=> Changing(u)) /\ (Merging(u)' <=> Merging(u))
  PROVE  LockInv'
  BY ThreadsAssumption DEF ThreadsAssumption, GateTypes, LockInv

\* The steps that raise or lower a counter other than that of clear(), or take or give
\* back the lock, when the rest is known.
LEMMA Changes ==
  ASSUME GateInv, NEW t \in Threads, NEW l \in Labels,
         pc' = [pc EXCEPT ![t] = l], UNCHANGED <<op, clearing>>,
         LockInv', owner' \in Threads \cup {Nil}, depth' \in Nat,
         growing' \in Nat, inserting' \in Nat, removing' \in Nat,
         pc[t] # "sweep", l # "sweep",
         op[t] = "+=" => l \notin RemoveSteps \cup ClearSteps,
         l \in MergeSteps => op[t] = "+=",
         l \in InsertSteps => inserting' > 0 /\ clearing = 0,
         l \in RemoveSteps => removing' > 0 /\ clearing = 0,
         l \in GrowSteps => clearing = 0, growing' >= Cardinality(Announced'),
         \A u \in Threads \ {t} :
           Changing(u) => inserting' >= inserting /\ removing' >= removing
  PROVE  GateInv'
<1>1. Clearing' = Clearing  BY ClearerStays DEF GateInv
<1>2. GateTypes'  BY DEF GateInv, GateTypes
<1>3. /\ pc'[t] = l
      /\ \A u \in Threads \ {t} : pc'[u] = pc[u] /\ (Changing(u)' <=> Changing(u))
  BY Others DEF GateInv
<1>4. OpInv'  BY <1>3 DEF GateInv, OpInv
<1>5. clearing' = Cardinality(Clearing')  BY <1>1 DEF GateInv, CountInv
<1>6. ASSUME NEW u \in Threads
      PROVE  /\ pc'[u] \in InsertSteps => inserting' > 0
             /\ pc'[u] \in RemoveSteps => removing' > 0
             /\ Changing(u)' => clearing' = 0
  <2>1. CASE u = t  BY <2>1, <1>3 DEF Changing
  <2>2. CASE u # t
    <3>1. /\ pc[u] \in InsertSteps => inserting > 0
          /\ pc[u] \in RemoveSteps => removing > 0
          /\ Changing(u) => clearing = 0
          /\ inserting \in Nat /\ removing \in Nat
      BY DEF GateInv, GateTypes, CountInv
    <3>2. pc'[u] = pc[u] /\ (Changing(u)' <=> Changing(u))  BY <2>2, <1>3
    <3>3. pc[u] \in InsertSteps \cup RemoveSteps \cup GrowSteps => Changing(u)  BY DEF Changing
    <3>4. QED  BY <2>2, <3>1, <3>2, <3>3
  <2>3. QED  BY <2>1, <2>2
<1>7. CountInv'  BY <1>5, <1>6 DEF CountInv
<1>8. QED  BY <1>2, <1>4, <1>7 DEF GateInv

\* A change begins.
LEMMA Enters ==
  ASSUME GateInv, NEW t \in Threads, NEW l \in InsertSteps \cup RemoveSteps \cup GrowSteps,
         pc[t] \in {"gate", "grow wait"}, pc' = [pc EXCEPT ![t] = l], UNCHANGED <<op, clearing>>,
         Free(t), Lock(t), clearing = 0,
         op[t] = "+=" => l \notin RemoveSteps,
         inserting' \in Nat, inserting' >= inserting, l \in InsertSteps => inserting' > 0,
         removing' \in Nat, removing' >= removing, l \in RemoveSteps => removing' > 0,
         growing' = growing, l \in GrowSteps <=> pc[t] = "grow wait"
  PROVE  GateInv'
<1>1. /\ pc'[t] = l
      /\ \A u \in Threads \ {t} : (Changing(u)' <=> Changing(u)) /\ (Merging(u)' <=> Merging(u))
  BY Others DEF GateInv
<1>2. ~Changing(t) /\ Changing(t)' /\ (Merging(t)' <=> Merging(t))
  BY <1>1 DEF Changing, Merging, InsertSteps, RemoveSteps, GrowSteps, Unlocked
<1>3. LockInv' /\ owner' \in Threads \cup {Nil} /\ depth' \in Nat
  BY <1>1, <1>2, LockTaken DEF GateInv
<1>4. l \in Labels /\ l \notin ClearSteps \cup MergeSteps
  BY DEF Labels, InsertSteps, RemoveSteps, GrowSteps, ClearSteps, MergeSteps
<1>5. pc[t] # "sweep" /\ l # "sweep"  BY <1>4 DEF ClearSteps
<1>6. Announced' = Announced  BY AnnouncerStays DEF GateInv, Announcing, InsertSteps, RemoveSteps, GrowSteps
<1>7. growing' \in Nat /\ growing' >= Cardinality(Announced')  BY <1>6 DEF GateInv, GateTypes, CountInv
<1>8. QED  BY <1>3, <1>4, <1>5, <1>7, Changes

\* It ends: whoever else is there is not changing anything.
LEMMA Leaves ==
  ASSUME GateInv, NEW t \in Threads, NEW l \in {"load", "size", "idle"},
         Changing(t), pc' = [pc EXCEPT ![t] = l], UNCHANGED <<op, clearing>>, Unlock,
         op[t] = "+=" => l # "idle",
         inserting' \in Nat, removing' \in Nat, growing' \in Nat,
         growing' >= Cardinality(Announced')
  PROVE  GateInv'
<1>1. /\ pc'[t] = l
      /\ \A u \in Threads \ {t} : (Changing(u)' <=> Changing(u)) /\ (Merging(u)' <=> Merging(u))
  BY Others DEF GateInv
<1>2. ~Changing(t)' /\ (Merging(t)' <=> Merging(t))
  BY <1>1 DEF Changing, Merging, InsertSteps, RemoveSteps, GrowSteps, Unlocked
<1>3. LockInv' /\ owner' \in Threads \cup {Nil} /\ depth' \in Nat
  BY <1>1, <1>2, LockGiven DEF GateInv
<1>4. \A u \in Threads \ {t} : ~Changing(u)  BY DEF GateInv, LockInv
<1>5. l \in Labels /\ l \notin InsertSteps \cup RemoveSteps \cup GrowSteps \cup ClearSteps \cup MergeSteps
  BY DEF Labels, InsertSteps, RemoveSteps, GrowSteps, ClearSteps, MergeSteps
<1>6. pc[t] # "sweep" /\ l # "sweep"
  BY <1>5 DEF Changing, InsertSteps, RemoveSteps, GrowSteps, ClearSteps
<1>7. QED  BY <1>3, <1>4, <1>5, <1>6, Changes

\* An exception ends it, and lowers nothing.
LEMMA Throws ==
  ASSUME GateInv, NEW t \in Threads, Changing(t), Throw(t), UNCHANGED <<op, gate>>
  PROVE  GateInv'
<1>1. pc' = [pc EXCEPT ![t] = "idle"]  BY DEF Throw, Goto
<1>2. owner = t  BY DEF GateInv, LockInv
<1>3. owner' = Nil /\ depth' = 0  BY <1>2 DEF Throw
<1>4. /\ pc'[t] = "idle"
      /\ \A u \in Threads \ {t} : (Changing(u)' <=> Changing(u)) /\ (Merging(u)' <=> Merging(u))
  BY <1>1, Others DEF GateInv
<1>5. ~Changing(t)' /\ ~Merging(t)'
  BY <1>4 DEF Changing, Merging, InsertSteps, RemoveSteps, GrowSteps, Unlocked
<1>6. LockInv'  BY <1>2, <1>3, <1>4, <1>5, LockThrown DEF GateInv
<1>7. \A u \in Threads \ {t} : ~Changing(u)  BY <1>2 DEF GateInv, LockInv
<1>8. pc[t] # "sweep"  BY DEF Changing, InsertSteps, RemoveSteps, GrowSteps
<1>9. /\ "idle" \in Labels
      /\ "idle" \notin InsertSteps \cup RemoveSteps \cup GrowSteps \cup ClearSteps \cup MergeSteps
  BY DEF Labels, InsertSteps, RemoveSteps, GrowSteps, ClearSteps, MergeSteps
<1>10. growing' \in Nat /\ inserting' \in Nat /\ removing' \in Nat /\ clearing' = clearing
  BY DEF gate, GateInv, GateTypes
<1>11. growing' >= Cardinality(Announced')
  <2>1. CASE pc[t] \in Announcing
    <3>1. Cardinality(Announced') = Cardinality(Announced) - 1
      BY <2>1, <1>1, AnnouncerGoes DEF GateInv, Announcing
    <3>2. QED  BY <3>1, AnnouncedFinite DEF GateInv, GateTypes, CountInv, gate
  <2>2. CASE pc[t] \notin Announcing
    <3>1. Announced' = Announced  BY <2>2, <1>1, AnnouncerStays DEF GateInv, Announcing
    <3>2. QED  BY <3>1 DEF GateInv, CountInv, gate
  <2>3. QED  BY <2>1, <2>2
<1>12. QED  BY <1>1, <1>3, <1>6, <1>7, <1>8, <1>9, <1>10, <1>11, Changes

LEMMA GateChanges ==
  ASSUME GateInv, NEW t \in Threads,
         \/ StartInsert(t) \/ StartRemove(t) \/ Announce(t) \/ StartGrow(t)
         \/ StopInsert(t) \/ StopRemove(t) \/ StopGrow(t) \/ InsertFails(t) \/ GrowFails(t)
  PROVE  GateInv'
<1> USE DEF local
<1>0. growing \in Nat /\ inserting \in Nat /\ removing \in Nat  BY DEF GateInv, GateTypes
<1>1. CASE StartInsert(t)
  <2>1. Free(t) /\ Lock(t) /\ clearing = 0  BY <1>1 DEF StartInsert, Passes
  <2>2. "insert" \in InsertSteps /\ "insert" \notin RemoveSteps \cup GrowSteps
    BY DEF InsertSteps, RemoveSteps, GrowSteps
  <2>3. /\ pc[t] = "gate" /\ pc' = [pc EXCEPT ![t] = "insert"] /\ UNCHANGED <<op, clearing>>
        /\ inserting' = inserting + 1 /\ UNCHANGED <<removing, growing>>
    BY <1>1 DEF StartInsert, Goto
  <2>4. inserting' \in Nat /\ inserting' >= inserting /\ inserting' > 0  BY <1>0, <2>3
  <2>5. removing' \in Nat /\ removing' >= removing /\ growing' = growing  BY <1>0, <2>3
  <2>6. QED  BY <2>1, <2>2, <2>3, <2>4, <2>5, Enters
<1>2. CASE StartRemove(t)
  <2>1. Free(t) /\ Lock(t) /\ clearing = 0  BY <1>2 DEF StartRemove, Passes
  <2>2. "unlink" \in RemoveSteps /\ "unlink" \notin InsertSteps \cup GrowSteps
    BY DEF InsertSteps, RemoveSteps, GrowSteps
  <2>3. /\ pc[t] = "gate" /\ pc' = [pc EXCEPT ![t] = "unlink"] /\ UNCHANGED <<op, clearing>>
        /\ removing' = removing + 1 /\ UNCHANGED <<inserting, growing>> /\ op[t] # "+="
    BY <1>2 DEF StartRemove, Goto
  <2>4. removing' \in Nat /\ removing' >= removing /\ removing' > 0  BY <1>0, <2>3
  <2>5. inserting' \in Nat /\ inserting' >= inserting /\ growing' = growing  BY <1>0, <2>3
  <2>6. QED  BY <2>1, <2>2, <2>3, <2>4, <2>5, Enters
<1>3. CASE StartGrow(t)
  <2>1. Free(t) /\ Lock(t) /\ clearing = 0  BY <1>3 DEF StartGrow
  <2>2. "grow" \in GrowSteps /\ "grow" \notin InsertSteps \cup RemoveSteps
    BY DEF InsertSteps, RemoveSteps, GrowSteps
  <2>3. /\ pc[t] = "grow wait" /\ pc' = [pc EXCEPT ![t] = "grow"]
        /\ UNCHANGED <<op, clearing, inserting, removing, growing>>
    BY <1>3 DEF StartGrow, Goto, gate
  <2>4. /\ inserting' \in Nat /\ inserting' >= inserting
        /\ removing' \in Nat /\ removing' >= removing
    <3>1. inserting' = inserting /\ removing' = removing  BY <2>3
    <3>2. QED  BY <1>0, <3>1
  <2>5. QED  BY <2>1, <2>2, <2>3, <2>4, Enters
<1>4. CASE Announce(t)
  <2>1. /\ pc[t] = "announce" /\ pc' = [pc EXCEPT ![t] = "grow wait"]
        /\ UNCHANGED <<op, owner, depth, inserting, removing, clearing>> /\ growing' = growing + 1
    BY <1>4 DEF Announce, Goto, lock
  <2>2. /\ pc'[t] = "grow wait"
        /\ \A u \in Threads \ {t} : (Changing(u)' <=> Changing(u)) /\ (Merging(u)' <=> Merging(u))
    BY <2>1, Others DEF GateInv
  <2>3. (Changing(t)' <=> Changing(t)) /\ (Merging(t)' <=> Merging(t))
    BY <2>1, <2>2 DEF Changing, Merging, InsertSteps, RemoveSteps, GrowSteps, Unlocked
  <2>4. LockInv'  BY <2>1, <2>2, <2>3 DEF GateInv, LockInv
  <2>5. owner' \in Threads \cup {Nil} /\ depth' \in Nat  BY <2>1 DEF GateInv, GateTypes
  <2>6. Cardinality(Announced') = Cardinality(Announced) + 1
    BY <2>1, AnnouncerComes DEF GateInv, Announcing
  <2>7. growing' \in Nat /\ growing' >= Cardinality(Announced')
    <3>1. growing' = growing + 1  BY <2>1
    <3>2. growing >= Cardinality(Announced)  BY DEF GateInv, CountInv
    <3>3. QED  BY <1>0, <2>6, <3>1, <3>2, AnnouncedFinite
  <2>8. /\ "grow wait" \in Labels
        /\ "grow wait" \notin InsertSteps \cup RemoveSteps \cup GrowSteps \cup ClearSteps \cup MergeSteps
    BY DEF Labels, InsertSteps, RemoveSteps, GrowSteps, ClearSteps, MergeSteps
  <2>9. inserting' \in Nat /\ removing' \in Nat /\ inserting' >= inserting /\ removing' >= removing
    <3>1. inserting' = inserting /\ removing' = removing  BY <2>1
    <3>2. QED  BY <1>0, <3>1
  <2>10. pc[t] # "sweep"  BY <2>1
  <2>11. pc' = [pc EXCEPT ![t] = "grow wait"] /\ UNCHANGED <<op, clearing>>  BY <2>1
  <2>12. "grow wait" # "sweep"  OBVIOUS
  <2>13. QED  BY <2>4, <2>5, <2>7, <2>8, <2>9, <2>10, <2>11, <2>12, Changes
<1>5. CASE StopInsert(t)
  <2>1. PICK l \in {"load", "size"} : pc' = [pc EXCEPT ![t] = l]  BY <1>5 DEF StopInsert, Goto
  <2>2. /\ pc[t] = "inserted" /\ UNCHANGED <<op, clearing, removing, growing>> /\ Unlock
        /\ inserting' = inserting - 1
    BY <1>5 DEF StopInsert
  <2>3. Changing(t) /\ inserting > 0
    BY <2>2 DEF Changing, InsertSteps, GateInv, CountInv
  <2>4. Announced' = Announced  BY <2>1, <2>2, AnnouncerStays DEF GateInv, Announcing
  <2>5. growing' >= Cardinality(Announced')  BY <2>2, <2>4 DEF GateInv, CountInv
  <2>6. inserting' \in Nat /\ removing' \in Nat /\ growing' \in Nat
    <3>1. inserting' = inserting - 1 /\ removing' = removing /\ growing' = growing  BY <2>2
    <3>2. QED  BY <1>0, <2>3, <3>1
  <2>7. l \in {"load", "size", "idle"} /\ l # "idle"  BY <2>1
  <2>8. UNCHANGED <<op, clearing>> /\ Unlock  BY <2>2
  <2>9. QED  BY <2>1, <2>3, <2>5, <2>6, <2>7, <2>8, Leaves
<1>6. CASE StopRemove(t)
  <2>1. /\ pc[t] = "removed" /\ pc' = [pc EXCEPT ![t] = "idle"]
        /\ UNCHANGED <<op, clearing, inserting, growing>> /\ Unlock
        /\ removing' \in {removing, removing - 1}
    BY <1>6 DEF StopRemove, Goto
  <2>2. Changing(t) /\ removing > 0 /\ op[t] # "+="
    BY <2>1 DEF Changing, RemoveSteps, GateInv, CountInv, OpInv
  <2>3. Announced' = Announced  BY <2>1, AnnouncerStays DEF GateInv, Announcing
  <2>4. growing' >= Cardinality(Announced')  BY <2>1, <2>3 DEF GateInv, CountInv
  <2>5. inserting' \in Nat /\ removing' \in Nat /\ growing' \in Nat
    <3>1. inserting' = inserting /\ removing' \in {removing, removing - 1} /\ growing' = growing  BY <2>1
    <3>2. QED  BY <1>0, <2>2, <3>1
  <2>6. /\ pc' = [pc EXCEPT ![t] = "idle"] /\ UNCHANGED <<op, clearing>> /\ Unlock
        /\ Changing(t) /\ op[t] # "+="
    BY <2>1, <2>2
  <2>7. QED  BY <2>4, <2>5, <2>6, Leaves
<1>7. CASE StopGrow(t)
  <2>1. /\ pc[t] = "grown" /\ pc' = [pc EXCEPT ![t] = "size"]
        /\ UNCHANGED <<op, clearing, inserting, removing>> /\ Unlock /\ growing' = growing - 1
    BY <1>7 DEF StopGrow, Goto
  <2>2. Changing(t)  BY <2>1 DEF Changing, GrowSteps
  <2>3. Cardinality(Announced') = Cardinality(Announced) - 1 /\ Cardinality(Announced) > 0
    BY <2>1, AnnouncerGoes DEF GateInv, Announcing
  <2>4. growing' \in Nat /\ growing' >= Cardinality(Announced')
    BY <1>0, <2>1, <2>3, AnnouncedFinite DEF GateInv, CountInv
  <2>5. QED  BY <1>0, <2>1, <2>2, <2>4, Leaves
<1>8. CASE InsertFails(t)
  <2>1. Throw(t) /\ UNCHANGED <<op, gate>> /\ Changing(t)
    BY <1>8 DEF InsertFails, Changing, InsertSteps
  <2>2. QED  BY <2>1, Throws
<1>9. CASE GrowFails(t)
  <2>1. Throw(t) /\ UNCHANGED <<op, gate>> /\ Changing(t)
    BY <1>9 DEF GrowFails, Changing, GrowSteps
  <2>2. QED  BY <2>1, Throws
<1>10. QED  BY <1>1, <1>2, <1>3, <1>4, <1>5, <1>6, <1>7, <1>8, <1>9

\* operator+= takes the lock, adds the next element, and gives the lock back.
LEMMA GateMerges ==
  ASSUME GateInv, NEW t \in Threads, MergeLock(t) \/ MergeNext(t)
  PROVE  GateInv'
<1>0. /\ growing \in Nat /\ inserting \in Nat /\ removing \in Nat
      /\ growing >= Cardinality(Announced)
  BY DEF GateInv, GateTypes, CountInv
<1>1. CASE MergeLock(t)
  <2>1. /\ pc[t] = "merge lock" /\ pc' = [pc EXCEPT ![t] = "merge size"] /\ Free(t) /\ Lock(t)
        /\ UNCHANGED <<op, clearing, inserting, removing, growing>>
    BY <1>1 DEF MergeLock, Goto, gate
  <2>2. op[t] = "+="  BY <2>1 DEF GateInv, OpInv, MergeSteps
  <2>3. /\ pc'[t] = "merge size"
        /\ \A u \in Threads \ {t} : (Changing(u)' <=> Changing(u)) /\ (Merging(u)' <=> Merging(u))
    BY <2>1, Others DEF GateInv
  <2>4. ~Changing(t) /\ ~Changing(t)' /\ ~Merging(t) /\ Merging(t)'
    BY <2>1, <2>2, <2>3 DEF Changing, Merging, InsertSteps, RemoveSteps, GrowSteps, Unlocked
  <2>5. LockInv' /\ owner' \in Threads \cup {Nil} /\ depth' \in Nat
    BY <2>1, <2>3, <2>4, LockTaken DEF GateInv
  <2>6. Announced' = Announced  BY <2>1, AnnouncerStays DEF GateInv, Announcing
  <2>7. /\ "merge size" \in Labels
        /\ "merge size" \notin InsertSteps \cup RemoveSteps \cup GrowSteps \cup ClearSteps
    BY DEF Labels, InsertSteps, RemoveSteps, GrowSteps, ClearSteps
  <2>8. /\ inserting' \in Nat /\ removing' \in Nat /\ growing' \in Nat
        /\ inserting' >= inserting /\ removing' >= removing
        /\ growing' >= Cardinality(Announced')
    <3>1. inserting' = inserting /\ removing' = removing /\ growing' = growing  BY <2>1
    <3>2. QED  BY <1>0, <2>6, <3>1
  <2>9. pc[t] # "sweep" /\ "merge size" # "sweep"  BY <2>1
  <2>10. pc' = [pc EXCEPT ![t] = "merge size"] /\ UNCHANGED <<op, clearing>>  BY <2>1
  <2>11. QED  BY <2>2, <2>5, <2>7, <2>8, <2>9, <2>10, Changes
<1>2. CASE MergeNext(t)
  <2>0. /\ pc[t] = "merge" /\ op[t] = "+="
        /\ UNCHANGED <<op, clearing, inserting, removing, growing>>
    BY <1>2 DEF MergeNext, gate, GateInv, OpInv, MergeSteps
  <2>1. \/ pc' = [pc EXCEPT ![t] = "index"] /\ UNCHANGED lock
        \/ pc' = [pc EXCEPT ![t] = "idle"] /\ Unlock
    BY <1>2 DEF MergeNext, Goto
  <2>2. CASE pc' = [pc EXCEPT ![t] = "index"] /\ UNCHANGED lock
    BY <2>0, <2>2, Moves DEF lock, Control, Labels, InsertSteps, RemoveSteps, GrowSteps, ClearSteps, MergeSteps, Unlocked
  <2>3. CASE pc' = [pc EXCEPT ![t] = "idle"] /\ Unlock
    <3>1. /\ pc'[t] = "idle"
          /\ \A u \in Threads \ {t} : (Changing(u)' <=> Changing(u)) /\ (Merging(u)' <=> Merging(u))
      BY <2>0, <2>3, Others DEF GateInv
    <3>2. ~Changing(t) /\ ~Changing(t)' /\ Merging(t) /\ ~Merging(t)'
      BY <2>0, <3>1 DEF Changing, Merging, InsertSteps, RemoveSteps, GrowSteps, Unlocked
    <3>3. LockInv' /\ owner' \in Threads \cup {Nil} /\ depth' \in Nat
      BY <2>3, <3>1, <3>2, LockGiven DEF GateInv
    <3>4. Announced' = Announced  BY <2>0, <2>3, AnnouncerStays DEF GateInv, Announcing
    <3>5. /\ "idle" \in Labels
          /\ "idle" \notin InsertSteps \cup RemoveSteps \cup GrowSteps \cup ClearSteps \cup MergeSteps
      BY DEF Labels, InsertSteps, RemoveSteps, GrowSteps, ClearSteps, MergeSteps
    <3>6. /\ inserting' \in Nat /\ removing' \in Nat /\ growing' \in Nat
          /\ inserting' >= inserting /\ removing' >= removing
          /\ growing' >= Cardinality(Announced')
      <4>1. inserting' = inserting /\ removing' = removing /\ growing' = growing  BY <2>0
      <4>2. QED  BY <1>0, <3>4, <4>1
    <3>7. pc[t] # "sweep" /\ "idle" # "sweep"  BY <2>0
    <3>8. pc' = [pc EXCEPT ![t] = "idle"] /\ UNCHANGED <<op, clearing>>  BY <2>0, <2>3
    <3>9. QED  BY <3>3, <3>5, <3>6, <3>7, <3>8, Changes
  <2>4. QED  BY <2>1, <2>2, <2>3
<1>3. QED  BY <1>1, <1>2

\* clear() begins and ends.
LEMMA GateClears ==
  ASSUME GateInv, NEW t \in Threads, StartClear(t) \/ StopClear(t)
  PROVE  GateInv'
<1>0. PICK l \in {"sweep", "idle"} :
        /\ pc' = [pc EXCEPT ![t] = l] /\ pc[t] = (IF l = "sweep" THEN "clear wait" ELSE "sweep")
        /\ UNCHANGED <<op, owner, depth, growing, inserting, removing>>
        /\ clearing' = IF l = "sweep" THEN clearing + 1 ELSE clearing - 1
        /\ l = "sweep" => removing = 0 /\ growing = 0 /\ inserting = 0
  BY DEF StartClear, StopClear, Goto, lock, local
<1>1. /\ pc'[t] = l
      /\ \A u \in Threads \ {t} :
           pc'[u] = pc[u] /\ (Changing(u)' <=> Changing(u)) /\ (Merging(u)' <=> Merging(u))
  BY <1>0, Others DEF GateInv
<1>2. op[t] # "+="  BY <1>0 DEF GateInv, OpInv, ClearSteps
<1>3. ~Changing(t) /\ ~Changing(t)' /\ ~Merging(t) /\ ~Merging(t)'
  BY <1>0, <1>1, <1>2 DEF Changing, Merging, InsertSteps, RemoveSteps, GrowSteps
<1>4. LockInv'  BY <1>0, <1>1, <1>3 DEF GateInv, LockInv
<1>5. OpInv'
  BY <1>0, <1>1, <1>2 DEF GateInv, OpInv, RemoveSteps, ClearSteps, MergeSteps
<1>6. Announced' = Announced  BY <1>0, AnnouncerStays DEF GateInv, Announcing
<1>7. clearing' \in Nat /\ clearing' = Cardinality(Clearing')
  <2>1. CASE l = "sweep"
    <3>1. Clearing' = Clearing \cup {t} /\ t \notin Clearing
      BY <2>1, <1>0 DEF Clearing, GateInv, GateTypes
    <3>2. Cardinality(Clearing') = Cardinality(Clearing) + 1  BY <3>1, ClearingFinite, FS_AddElement
    <3>3. clearing' = clearing + 1  BY <2>1, <1>0
    <3>4. clearing = Cardinality(Clearing)  BY DEF GateInv, CountInv
    <3>5. QED  BY <3>2, <3>3, <3>4, ClearingFinite
  <2>2. CASE l = "idle"
    <3>1. Clearing' = Clearing \ {t} /\ t \in Clearing
      BY <2>2, <1>0 DEF Clearing, GateInv, GateTypes
    <3>2. Cardinality(Clearing') = Cardinality(Clearing) - 1  BY <3>1, ClearingFinite, FS_RemoveElement
    <3>3. Cardinality(Clearing) # 0  BY <3>1, ClearingFinite, FS_EmptySet
    <3>4. clearing' = clearing - 1  BY <2>2, <1>0
    <3>5. clearing = Cardinality(Clearing)  BY DEF GateInv, CountInv
    <3>6. QED  BY <3>2, <3>3, <3>4, <3>5, ClearingFinite
  <2>3. QED  BY <2>1, <2>2
<1>8. GateTypes'  BY <1>0, <1>7 DEF GateInv, GateTypes, Labels
\* Nobody changes anything: with clear() beginning all counters are down, and with
\* clear() ending that of clear() is up.
<1>9. \A u \in Threads : ~Changing(u)
  <2>1. SUFFICES ASSUME NEW u \in Threads, Changing(u) PROVE FALSE  OBVIOUS
  <2>2. clearing = 0  BY <2>1 DEF GateInv, CountInv
  <2>3. pc[t] # "sweep"  BY <2>2, NoneClears DEF GateInv, CountInv
  <2>4. inserting = 0 /\ removing = 0 /\ growing = 0  BY <1>0, <2>3
  <2>5. pc[u] \in GrowSteps  BY <2>1, <2>4 DEF GateInv, CountInv, Changing
  <2>6. u \in Announced  BY <2>5 DEF Announced, Announcing, GrowSteps
  <2>7. Cardinality(Announced) # 0  BY <2>6, AnnouncedFinite, FS_EmptySet
  <2>8. QED  BY <2>4, <2>7, AnnouncedFinite DEF GateInv, CountInv
<1>10. \A u \in Threads : ~Changing(u)'  BY <1>1, <1>3, <1>9
<1>11. CountInv'
  <2>1. growing' >= Cardinality(Announced')  BY <1>0, <1>6 DEF GateInv, CountInv
  <2>2. \A u \in Threads : pc'[u] \notin InsertSteps \cup RemoveSteps  BY <1>10 DEF Changing
  <2>3. QED  BY <1>7, <1>10, <2>1, <2>2 DEF CountInv
<1>12. QED  BY <1>4, <1>5, <1>8, <1>11 DEF GateInv

\* A thread makes a call.
LEMMA GateCalls ==
  ASSUME GateInv, NEW t \in Threads, Call(t)
  PROVE  GateInv'
<1>1. PICK o \in Ops, l \in {"get", "index", "gate", "larger", "idle", "clear", "add all"} :
        /\ pc[t] = "idle" /\ pc' = [pc EXCEPT ![t] = l] /\ op' = [op EXCEPT ![t] = o]
        /\ UNCHANGED <<lock, gate>>
        /\ l = "clear" => o # "+="
        /\ l = "add all" => o = "+="
        /\ o = "+=" => l = "add all"
  <2>1. CASE \E o \in Ops \cap {"get", "add", "remKey", "delKey"}, k \in Keys : CallFor(t, o, k)
    BY <2>1 DEF CallFor, Calling, Goto
  <2>2. CASE \E o \in Ops \cap {"pop", "clear", "+="} : CallForAll(t, o)
    BY <2>2 DEF CallForAll, Calling, Goto
  <2>3. CASE "grow" \in Ops /\ \E target \in Sizes : CallGrow(t, target)
    BY <2>3 DEF CallGrow, Calling, Goto
  <2>4. QED  BY <2>1, <2>2, <2>3 DEF Call
<1>2. /\ pc'[t] = l /\ op'[t] = o
      /\ \A u \in Threads \ {t} : pc'[u] = pc[u] /\ op'[u] = op[u]
  BY <1>1 DEF GateInv, GateTypes
<1>3. l \in Labels /\ l \notin InsertSteps \cup RemoveSteps \cup GrowSteps \cup Announcing
  BY DEF Labels, InsertSteps, RemoveSteps, GrowSteps, Announcing
<1>4. \A u \in Threads : (Changing(u)' <=> Changing(u)) /\ (Merging(u)' <=> Merging(u))
  <2>1. ASSUME NEW u \in Threads \ {t}
        PROVE  (Changing(u)' <=> Changing(u)) /\ (Merging(u)' <=> Merging(u))
    BY <1>2 DEF Changing, Merging
  <2>2. ~Changing(t) /\ ~Changing(t)'
    BY <1>1, <1>2, <1>3 DEF Changing, InsertSteps, RemoveSteps, GrowSteps
  <2>3. ~Merging(t) /\ ~Merging(t)'  BY <1>1, <1>2 DEF Merging, Unlocked
  <2>4. QED  BY <2>1, <2>2, <2>3
<1>5. GateTypes'  BY <1>1, <1>3 DEF GateInv, GateTypes, lock, gate
<1>6. LockInv'  BY <1>1, <1>4 DEF GateInv, LockInv, lock
<1>7. OpInv'  BY <1>1, <1>2 DEF GateInv, OpInv, RemoveSteps, ClearSteps, MergeSteps
<1>8. Clearing' = Clearing /\ Announced' = Announced
  BY <1>1, <1>3, ClearerStays, AnnouncerStays DEF GateInv, Announcing
<1>9. CountInv'
  BY <1>1, <1>2, <1>3, <1>4, <1>8 DEF GateInv, CountInv, gate
<1>10. QED  BY <1>5, <1>6, <1>7, <1>9 DEF GateInv

LEMMA GateInit == Init => GateInv
<1> SUFFICES ASSUME Init PROVE GateInv  OBVIOUS
<1>1. /\ pc = [t \in Threads |-> "idle"] /\ op = [t \in Threads |-> Nil]
      /\ owner = Nil /\ depth = 0
      /\ growing = 0 /\ inserting = 0 /\ removing = 0 /\ clearing = 0
  BY DEF Init
<1>2. GateTypes  BY <1>1 DEF GateTypes, Labels
<1>3. \A t \in Threads : ~Changing(t) /\ ~Merging(t)
  BY <1>1 DEF Changing, Merging, InsertSteps, RemoveSteps, GrowSteps, Unlocked
<1>4. LockInv  BY <1>1, <1>3, ThreadsAssumption DEF LockInv, ThreadsAssumption
<1>5. OpInv  BY <1>1 DEF OpInv, RemoveSteps, ClearSteps, MergeSteps
<1>6. Clearing = {} /\ Announced = {}  BY <1>1 DEF Clearing, Announced, Announcing
<1>7. Cardinality(Clearing) = 0 /\ Cardinality(Announced) = 0  BY <1>6, FS_EmptySet
<1>8. \A t \in Threads : pc[t] \notin InsertSteps \cup RemoveSteps  BY <1>3 DEF Changing
<1>9. CountInv  BY <1>1, <1>3, <1>7, <1>8 DEF CountInv
<1>10. QED  BY <1>2, <1>4, <1>5, <1>9 DEF GateInv

LEMMA GateNext == GateInv /\ [Next]_vars => GateInv'
<1> SUFFICES ASSUME GateInv, [Next]_vars PROVE GateInv'  OBVIOUS
<1>1. ASSUME NEW t \in Threads, Step(t) PROVE GateInv'
  BY <1>1, GateMoves, GateChanges, GateMerges, GateClears DEF Step
<1>2. ASSUME NEW t \in Threads, Call(t) PROVE GateInv'
  BY <1>2, GateCalls
<1>3. CASE UNCHANGED vars
  <2>1. UNCHANGED <<pc, op, lock, gate>>  BY <1>3 DEF vars, lock, gate
  <2>2. Clearing' = Clearing /\ Announced' = Announced  BY <2>1 DEF Clearing, Announced
  <2>3. QED
    BY <2>1, <2>2 DEF GateInv, GateTypes, LockInv, OpInv, CountInv, Changing, Merging, lock, gate
<1>4. QED  BY <1>1, <1>2, <1>3 DEF Next

-----------------------------------------------------------------------------
\* One insertion, removal or grow() at a time, and none while the table is cleared: the
\* lock keeps the first three apart although a grow() announces itself without it, and
\* the counters keep them away from a clear(), which does not hold the lock. Counters
\* that stay raised, as those of an exception do, make calls wait, and never let two in.
THEOREM ChangersExclude == Spec => []ChangesExclude
<1>1. GateInv => ChangesExclude
  <2> SUFFICES ASSUME GateInv PROVE ChangesExclude  OBVIOUS
  <2> DEFINE Changers == Inserting \cup Removing \cup Growing
  <2>1. \A t \in Changers : t \in Threads /\ Changing(t)
    BY DEF Inserting, Removing, Growing, Changing, InsertSteps, RemoveSteps, GrowSteps
  <2>2. Changers \subseteq {owner}  BY <2>1 DEF GateInv, LockInv
  <2>3. Cardinality(Changers) <= 1
    <3>1. IsFiniteSet({owner}) /\ Cardinality({owner}) = 1  BY FS_Singleton
    <3>2. QED  BY <2>2, <3>1, FS_Subset
  <2>4. Clearing # {} => Changers = {}
    <3>1. Clearing # {} => clearing # 0  BY ClearingFinite, FS_EmptySet DEF GateInv, CountInv
    <3>2. QED  BY <2>1, <3>1 DEF GateInv, CountInv
  <2>5. QED  BY <2>3, <2>4 DEF ChangesExclude
<1>2. QED  BY <1>1, GateInit, GateNext, PTL DEF Spec

-----------------------------------------------------------------------------
(* The table: its inductive invariant *)

Statuses == {"in", "unlinked", "cut", "out", "deleted"}
ElemType == [key : Keys, status : Statuses, next : Nat \cup {Nil}, old : Nat \cup {Nil}]

DataTypes ==
  /\ size \in Sizes
  /\ Len(elems) \in Nat /\ elems \in [1 .. Len(elems) -> ElemType]
  /\ chain \in [Places -> SUBSET DOMAIN elems]

\* What is in the table is in the place its key belongs to, and nothing else is.
Placed ==
  \A e \in DOMAIN elems, p \in Places :
    e \in chain[p] <=> elems[e].status = "in" /\ Bucket[size][elems[e].key] = p

NoTwins == \A d, e \in Linked : elems[d].key = elems[e].key => d = e

DataInv == DataTypes /\ Placed /\ NoTwins

\* A thread that has taken an element out of its chain, but not yet from the count.
Uncounted == \E t \in Threads : pc[t] \in {"cut", "tell"}
Counted   == count = Cardinality(Linked) + IF Uncounted THEN 1 ELSE 0

LocalTypes ==
  /\ key \in [Threads -> Keys \cup {Nil}] /\ todo \in [Threads -> SUBSET RhsKeys]
  /\ num \in [Threads -> Nat] /\ DOMAIN cur = Threads

\* What a thread has in hand: the element it removes, the size a table is to get, the
\* next place of a table it clears, which may have got larger, and the key.
HoldsElem(t, status) == cur[t] \in DOMAIN elems /\ elems[cur[t]].status = status
SizeKnown   == {"larger", "announce", "grow wait", "grow"}
Sweeping    == {"clear wait", "sweep"}
SearchSteps == {"index", "head", "walk"}
KeyKnown(t) ==
  \/ pc[t] \in SearchSteps \cup {"get", "insert"}
  \/ pc[t] = "gate" /\ op[t] \in {"add", "+="}

LocalInv(t) ==
  /\ pc[t] = "cut" => HoldsElem(t, "unlinked")
  /\ pc[t] = "tell" => HoldsElem(t, "cut")
  /\ pc[t] = "delete" => HoldsElem(t, "out")
  /\ pc[t] \in SizeKnown => num[t] \in Sizes
  /\ pc[t] \in Sweeping => num[t] \in 1 .. size /\ cur[t] \in 0 .. num[t] - 1
  /\ KeyKnown(t) => key[t] \in Keys

TableInv == DataInv /\ Counted /\ LocalTypes /\ \A t \in Threads : LocalInv(t)

-----------------------------------------------------------------------------
(* Chains *)

LEMMA Sized ==
  /\ Sizes \subseteq Nat \ {0} /\ Nil \notin Nat /\ Nil \notin Keys
  /\ \A s \in Sizes, k \in Keys : Bucket[s][k] \in 0 .. s - 1
  BY ChainHashAssumption DEF ChainHashAssumption

\* A set of numbers that is not empty has a least one.
LEMMA LeastNumber ==
  ASSUME NEW T, T \subseteq Nat, T # {}
  PROVE  Min(T) \in T /\ \A y \in T : Min(T) <= y
<1> DEFINE upTo(x) == {y \in T : y <= x}
           Parts   == {upTo(x) : x \in T}
<1>1. Parts # {} /\ Parts \subseteq FiniteSubsetsOf(Nat)
  <2>1. ASSUME NEW x \in T PROVE upTo(x) \in FiniteSubsetsOf(Nat)
    BY FS_BoundedSetOfNaturals DEF FiniteSubsetsOf
  <2>2. QED  BY <2>1
<1>2. \E U \in Parts : \A V \in Parts : <<V, U>> \notin StrictSubsetOrdering(Nat)
  <2>1. IsWellFoundedOn(StrictSubsetOrdering(Nat), FiniteSubsetsOf(Nat))
    BY FS_StrictSubsetOrderingWellFounded
  <2>2. QED  BY <1>1, <2>1, WFMin
<1>3. PICK x \in T : \A V \in Parts : <<V, upTo(x)>> \notin StrictSubsetOrdering(Nat)
  BY <1>2
<1>4. ASSUME NEW y \in T, y < x PROVE FALSE
  <2>1. \A z \in T : z <= y => z <= x  BY <1>4
  <2>2. x \in upTo(x) /\ x \notin upTo(y)  BY <1>4
  <2>3. upTo(y) \subseteq upTo(x)  BY <2>1
  <2>4. upTo(y) \in Parts /\ upTo(y) \in SUBSET Nat /\ upTo(x) \in SUBSET Nat  OBVIOUS
  <2> HIDE DEF upTo, Parts
  <2>5. <<upTo(y), upTo(x)>> \in StrictSubsetOrdering(Nat)
    BY <2>2, <2>3, <2>4 DEF StrictSubsetOrdering
  <2>6. QED  BY <1>3, <2>4, <2>5
<1>5. \E y \in T : \A z \in T : y <= z  BY <1>4
<1>6. QED  BY <1>5 DEF Min

LEMMA FirstIs ==
  ASSUME NEW T, T \subseteq Nat
  PROVE  /\ FirstOf(T) = Nil <=> T = {}
         /\ T # {} => FirstOf(T) \in T /\ \A y \in T : FirstOf(T) <= y
  BY LeastNumber, Sized DEF FirstOf

\* The elements in the table are those with the status "in", each in the place of its key.
LEMMA LinkedAre ==
  ASSUME DataTypes, Placed
  PROVE  /\ size \in Nat \ {0} /\ Places \subseteq Nat /\ DOMAIN elems = 1 .. Len(elems)
         /\ \A e \in DOMAIN elems : elems[e].key \in Keys /\ Bucket[size][elems[e].key] \in Places
         /\ Linked = {e \in DOMAIN elems : elems[e].status = "in"}
         /\ IsFiniteSet(Linked) /\ Cardinality(Linked) \in Nat
         /\ \A p \in Places : chain[p] \subseteq Linked
<1>1. size \in Sizes /\ size \in Nat \ {0} /\ Places \subseteq Nat /\ DOMAIN elems = 1 .. Len(elems)
  BY Sized DEF DataTypes, Places
<1>2. ASSUME NEW e \in DOMAIN elems
      PROVE  elems[e].key \in Keys /\ Bucket[size][elems[e].key] \in Places
  BY <1>1, Sized DEF DataTypes, ElemType, Places
<1>3. Linked = {e \in DOMAIN elems : elems[e].status = "in"}
  <2>1. ASSUME NEW e \in Linked PROVE e \in DOMAIN elems /\ elems[e].status = "in"
    <3>1. PICK p \in Places : e \in chain[p]  BY DEF Linked
    <3>2. e \in DOMAIN elems  BY <3>1 DEF DataTypes
    <3>3. QED  BY <3>1, <3>2 DEF Placed
  <2>2. ASSUME NEW e \in DOMAIN elems, elems[e].status = "in" PROVE e \in Linked
    BY <1>2, <2>2 DEF Placed, Linked
  <2>3. QED  BY <2>1, <2>2
<1>4. IsFiniteSet(Linked) /\ Cardinality(Linked) \in Nat
  <2>1. IsFiniteSet(1 .. Len(elems))  BY FS_Interval DEF DataTypes
  <2>2. Linked \in SUBSET (1 .. Len(elems))  BY <1>1, <1>3
  <2>3. IsFiniteSet(Linked)  BY <2>1, <2>2, FS_Subset
  <2>4. QED  BY <2>3, FS_CardinalityType
<1>5. QED  BY <1>1, <1>2, <1>3, <1>4 DEF Linked

\* The same after a step.
LEMMA LinkedThen ==
  ASSUME DataTypes', Placed'
  PROVE  Linked' = {e \in DOMAIN elems' : elems'[e].status = "in"}
<1>1. size' \in Sizes  BY DEF DataTypes
<1>2. ASSUME NEW e \in DOMAIN elems'
      PROVE  elems'[e].key \in Keys /\ Bucket[size'][elems'[e].key] \in Places'
  BY <1>1, Sized DEF DataTypes, ElemType, Places
<1>3. ASSUME NEW e \in Linked' PROVE e \in DOMAIN elems' /\ elems'[e].status = "in"
  <2>1. PICK p \in Places' : e \in chain'[p]  BY DEF Linked
  <2>2. e \in DOMAIN elems'  BY <2>1 DEF DataTypes
  <2>3. QED  BY <2>1, <2>2 DEF Placed
<1>4. ASSUME NEW e \in DOMAIN elems', elems'[e].status = "in" PROVE e \in Linked'
  BY <1>2, <1>4 DEF Placed, Linked
<1>5. QED  BY <1>3, <1>4

LEMMA PlaceIs ==
  ASSUME DataTypes, Placed, NEW e \in Linked
  PROVE  /\ PlaceOf(e) = Bucket[size][elems[e].key]
         /\ PlaceOf(e) \in Places /\ e \in chain[PlaceOf(e)]
<1>1. e \in DOMAIN elems /\ elems[e].status = "in" /\ Bucket[size][elems[e].key] \in Places
  BY LinkedAre
<1>2. \A p \in Places : e \in chain[p] <=> p = Bucket[size][elems[e].key]
  BY <1>1 DEF Placed
<1>3. QED  BY <1>1, <1>2 DEF PlaceOf

LEMMA ChainNumbers ==
  ASSUME DataTypes, Placed, NEW p \in Places
  PROVE  chain[p] \subseteq Nat
<1>1. chain[p] \subseteq 1 .. Len(elems)  BY LinkedAre DEF DataTypes
<1>2. QED  BY <1>1 DEF DataTypes

\* The successor is the next element with the same place.
LEMMA SuccessorIs ==
  ASSUME DataTypes, Placed, NEW e \in Linked
  PROVE  /\ Successor(e) \in Nat \cup {Nil}
         /\ Successor(e) # Nil =>
              /\ Successor(e) \in Linked /\ Successor(e) > e
              /\ Bucket[size][elems[Successor(e)].key] = Bucket[size][elems[e].key]
         /\ \A d \in Linked :
              d > e /\ Bucket[size][elems[d].key] = Bucket[size][elems[e].key] =>
                Successor(e) # Nil /\ Successor(e) <= d
<1> DEFINE after == {d \in chain[PlaceOf(e)] : d > e}
<1>1. /\ PlaceOf(e) = Bucket[size][elems[e].key] /\ PlaceOf(e) \in Places
      /\ chain[PlaceOf(e)] \subseteq Nat /\ chain[PlaceOf(e)] \subseteq Linked
  BY PlaceIs, ChainNumbers, LinkedAre
<1>2. Successor(e) = FirstOf(after) /\ after \subseteq Nat  BY <1>1 DEF Successor
<1>3. \A d \in after : d \in Linked /\ d > e /\ Bucket[size][elems[d].key] = PlaceOf(e)
  <2>1. ASSUME NEW d \in after PROVE Bucket[size][elems[d].key] = PlaceOf(e)
    <3>1. d \in DOMAIN elems /\ d \in chain[PlaceOf(e)]  BY <1>1, LinkedAre
    <3>2. QED  BY <1>1, <3>1 DEF Placed
  <2>2. QED  BY <1>1, <2>1
<1>4. ASSUME NEW d \in Linked, d > e, Bucket[size][elems[d].key] = Bucket[size][elems[e].key]
      PROVE  d \in after
  BY <1>1, <1>4, PlaceIs
<1> HIDE DEF after
<1>5. QED  BY <1>1, <1>2, <1>3, <1>4, FirstIs

-----------------------------------------------------------------------------
(* What the operations do to the table *)

\* A sequence is as long as its domain.
LEMMA LengthIs ==
  ASSUME NEW n \in Nat, NEW S, NEW f \in [1 .. n -> S]
  PROVE  f \in Seq(S) /\ Len(f) = n
  OBVIOUS

LEMMA Adds ==
  ASSUME DataInv, NEW k \in Keys, k \notin Stored, AddElem(k), size' = size
  PROVE  /\ DataInv'
         /\ Len(elems') = Len(elems) + 1
         /\ \A x \in DOMAIN elems : elems'[x] = elems[x]
         /\ elems'[Len(elems) + 1] = NewElem(k)
         /\ Linked' = Linked \cup {Len(elems) + 1}
         /\ Cardinality(Linked') = Cardinality(Linked) + 1
<1> DEFINE new == Len(elems) + 1
<1>0. DataTypes /\ Placed /\ NoTwins  BY DEF DataInv
<1>1. DOMAIN elems = 1 .. Len(elems) /\ Len(elems) \in Nat /\ size \in Sizes
  BY <1>0, LinkedAre DEF DataTypes
<1>2. NewElem(k) \in ElemType  BY DEF NewElem, ElemType, Statuses
<1>3. elems \in Seq(ElemType) /\ elems' = Append(elems, NewElem(k))
  BY <1>0, LengthIs DEF DataTypes, AddElem
<1>4. /\ Len(elems') = new /\ elems' \in [1 .. new -> ElemType] /\ DOMAIN elems' = 1 .. new
      /\ elems'[new] = NewElem(k) /\ \A x \in DOMAIN elems : elems'[x] = elems[x]
  <2>1. Append(elems, NewElem(k)) \in Seq(ElemType)  BY <1>2, <1>3
  <2>2. Len(Append(elems, NewElem(k))) = new  BY <1>2, <1>3
  <2>3. \A x \in 1 .. Len(elems) : Append(elems, NewElem(k))[x] = elems[x]  BY <1>2, <1>3
  <2>4. Append(elems, NewElem(k))[new] = NewElem(k)  BY <1>2, <1>3
  <2>5. elems' \in [1 .. new -> ElemType]  BY <1>3, <2>1, <2>2, LenProperties
  <2>6. QED  BY <1>1, <1>3, <2>2, <2>3, <2>4, <2>5
<1>5. Bucket[size][k] \in Places /\ Places' = Places  BY <1>1, Sized DEF Places
<1>6. chain' = [chain EXCEPT ![Bucket[size][k]] = @ \cup {new}]  BY DEF AddElem
<1>7. chain' \in [Places -> SUBSET DOMAIN elems']
  BY <1>0, <1>1, <1>4, <1>5, <1>6 DEF DataTypes
<1>8. DataTypes'  BY <1>1, <1>4, <1>5, <1>7 DEF DataTypes
<1>9. Placed'
  <2> SUFFICES ASSUME NEW e \in DOMAIN elems', NEW p \in Places
               PROVE  e \in chain'[p] <=> elems'[e].status = "in" /\ Bucket[size][elems'[e].key] = p
    BY <1>5 DEF Placed
  <2>1. CASE e = new
    <3>1. new \notin chain[p]  BY <1>0, <1>1 DEF DataTypes
    <3>2. e \in chain'[p] <=> p = Bucket[size][k]  BY <1>0, <1>5, <1>6, <2>1, <3>1 DEF DataTypes
    <3>3. elems'[e].status = "in" /\ elems'[e].key = k  BY <1>4, <2>1 DEF NewElem
    <3>4. QED  BY <3>2, <3>3
  <2>2. CASE e # new
    <3>1. e \in DOMAIN elems /\ elems'[e] = elems[e]  BY <1>1, <1>4, <2>2
    <3>2. e \in chain'[p] <=> e \in chain[p]  BY <1>0, <1>5, <1>6, <2>2 DEF DataTypes
    <3>3. QED  BY <1>0, <3>1, <3>2 DEF Placed
  <2>3. QED  BY <2>1, <2>2
<1>10. Linked' = Linked \cup {new} /\ new \notin Linked
  <2>1. Linked = {e \in DOMAIN elems : elems[e].status = "in"}  BY <1>0, LinkedAre
  <2>2. Linked' = {e \in DOMAIN elems' : elems'[e].status = "in"}  BY <1>8, <1>9, LinkedThen
  <2>3. DOMAIN elems' = DOMAIN elems \cup {new} /\ elems'[new].status = "in" /\ new \notin DOMAIN elems
    BY <1>1, <1>4 DEF NewElem
  <2> HIDE DEF new
  <2>4. QED  BY <1>4, <2>1, <2>2, <2>3
<1>11. NoTwins'
  <2>1. \A e \in Linked : elems'[e] = elems[e] /\ elems[e].key # k
    BY <1>0, <1>4, LinkedAre DEF Stored
  <2>2. elems'[new].key = k  BY <1>4 DEF NewElem
  <2> HIDE DEF new
  <2>3. QED  BY <1>0, <1>10, <2>1, <2>2 DEF NoTwins
<1>12. Cardinality(Linked') = Cardinality(Linked) + 1
  BY <1>0, <1>10, LinkedAre, FS_AddElement
<1>13. QED  BY <1>4, <1>8, <1>9, <1>10, <1>11, <1>12 DEF DataInv

\* The elements keep their keys, and none becomes one of the table.
LEMMA Shrinks ==
  ASSUME DataInv, size' = size, NEW gone \in SUBSET Linked,
         elems' \in [DOMAIN elems -> ElemType], chain' \in [Places -> SUBSET DOMAIN elems],
         \A e \in DOMAIN elems : elems'[e].key = elems[e].key,
         \A e \in DOMAIN elems : elems'[e].status = "in" <=> elems[e].status = "in" /\ e \notin gone,
         \A p \in Places : chain'[p] = chain[p] \ gone
  PROVE  /\ DataInv'
         /\ DOMAIN elems' = DOMAIN elems /\ Len(elems') = Len(elems)
         /\ Linked' = Linked \ gone
         /\ Cardinality(Linked') = Cardinality(Linked) - Cardinality(gone)
<1>0. DataTypes /\ Placed /\ NoTwins  BY DEF DataInv
<1>1. DOMAIN elems = 1 .. Len(elems) /\ Len(elems) \in Nat /\ Places' = Places
  BY <1>0, LinkedAre DEF DataTypes, Places
<1>2. Len(elems') = Len(elems)  BY <1>1, LengthIs
<1>3. DataTypes'  BY <1>0, <1>1, <1>2 DEF DataTypes
<1>4. Placed'  BY <1>0, <1>1 DEF Placed
<1>5. Linked' = Linked \ gone
  <2>1. Linked = {e \in DOMAIN elems : elems[e].status = "in"}  BY <1>0, LinkedAre
  <2>2. Linked' = {e \in DOMAIN elems' : elems'[e].status = "in"}  BY <1>3, <1>4, LinkedThen
  <2>3. QED  BY <2>1, <2>2
<1>6. NoTwins'
  <2>1. \A e \in Linked' : e \in Linked /\ elems'[e].key = elems[e].key  BY <1>0, <1>5, LinkedAre
  <2>2. QED  BY <1>0, <2>1 DEF NoTwins
<1>7. Cardinality(Linked \ gone) = Cardinality(Linked) - Cardinality(gone)
  <2>1. IsFiniteSet(Linked) /\ Linked \cap gone = gone  BY <1>0, LinkedAre
  <2>2. QED  BY <2>1, FS_Difference
<1>8. QED  BY <1>2, <1>3, <1>4, <1>5, <1>6, <1>7 DEF DataInv

\* An element's state changes that is not in the table.
LEMMA Marks ==
  ASSUME DataInv, UNCHANGED <<size, chain>>, NEW x \in DOMAIN elems, NEW r \in ElemType,
         elems[x].status # "in", r.status # "in", r.key = elems[x].key,
         elems' = [elems EXCEPT ![x] = r]
  PROVE  /\ DataInv' /\ DOMAIN elems' = DOMAIN elems /\ Len(elems') = Len(elems)
         /\ Linked' = Linked /\ Stored' = Stored
         /\ elems'[x] = r /\ \A d \in DOMAIN elems : d # x => elems'[d] = elems[d]
<1>1. DataTypes /\ Places' = Places  BY DEF DataInv, Places
<1>2. /\ elems' \in [DOMAIN elems -> ElemType]
      /\ elems'[x] = r /\ \A d \in DOMAIN elems : d # x => elems'[d] = elems[d]
  BY <1>1 DEF DataTypes
<1>3. /\ \A e \in DOMAIN elems : elems'[e].key = elems[e].key
      /\ \A e \in DOMAIN elems : elems'[e].status = "in" <=> elems[e].status = "in" /\ e \notin {}
      /\ \A p \in Places : chain'[p] = chain[p] \ {}
  BY <1>2
<1>4. chain' \in [Places -> SUBSET DOMAIN elems]  BY <1>1 DEF DataTypes
<1>5. /\ DataInv' /\ DOMAIN elems' = DOMAIN elems /\ Len(elems') = Len(elems)
      /\ Linked' = Linked \ {}
  BY <1>2, <1>3, <1>4, Shrinks
<1>6. Stored' = Stored
  <2>1. Linked \subseteq DOMAIN elems  BY <1>1, LinkedAre DEF DataInv
  <2>2. QED  BY <1>3, <1>5, <2>1 DEF Stored
<1>7. QED  BY <1>2, <1>5, <1>6

\* What Unlink does to the table, with the element it takes.
Takes(e) ==
  LET p    == PlaceOf(e)
      prev == {d \in chain[p] : Successor(d) = e}
  IN /\ chain' = [chain EXCEPT ![p] = @ \ {e}]
     /\ elems' = [d \in DOMAIN elems |->
          IF d = e THEN [elems[d] EXCEPT !.status = "unlinked", !.next = Successor(e)]
          ELSE IF d \in prev THEN [elems[d] EXCEPT !.old = e] ELSE elems[d]]

LEMMA TakesOut ==
  ASSUME DataInv, size' = size, NEW e \in Linked, Takes(e)
  PROVE  /\ DataInv' /\ DOMAIN elems' = DOMAIN elems /\ Len(elems') = Len(elems)
         /\ Linked' = Linked \ {e} /\ Cardinality(Linked') = Cardinality(Linked) - 1
         /\ \A d \in DOMAIN elems : elems'[d].key = elems[d].key
         /\ elems'[e].status = "unlinked" /\ elems'[e].next = Successor(e)
         /\ \A d \in DOMAIN elems \ {e} : elems'[d].status = elems[d].status
         /\ \A d \in DOMAIN elems \ Linked : elems'[d] = elems[d]
<1> DEFINE p    == PlaceOf(e)
           prev == {d \in chain[p] : Successor(d) = e}
<1>0. DataTypes /\ Placed  BY DEF DataInv
<1>1. /\ elems \in [DOMAIN elems -> ElemType] /\ DOMAIN elems = 1 .. Len(elems) /\ Len(elems) \in Nat
      /\ e \in DOMAIN elems /\ elems[e].status = "in" /\ p \in Places /\ e \in chain[p]
      /\ chain[p] \subseteq Linked /\ prev \subseteq Linked /\ Places' = Places
  BY <1>0, LinkedAre, PlaceIs DEF DataTypes, Places
<1>2. Successor(e) \in Nat \cup {Nil} /\ e \in Nat  BY <1>0, <1>1, SuccessorIs
<1>3. /\ chain' = [chain EXCEPT ![p] = @ \ {e}]
      /\ elems' = [d \in DOMAIN elems |->
           IF d = e THEN [elems[d] EXCEPT !.status = "unlinked", !.next = Successor(e)]
           ELSE IF d \in prev THEN [elems[d] EXCEPT !.old = e] ELSE elems[d]]
  BY DEF Takes
<1> HIDE DEF p, prev
<1>4. ASSUME NEW d \in DOMAIN elems
      PROVE  /\ elems'[d] \in ElemType /\ elems'[d].key = elems[d].key
             /\ d = e => elems'[d].status = "unlinked" /\ elems'[d].next = Successor(e)
             /\ d # e => elems'[d].status = elems[d].status
             /\ d \notin Linked => elems'[d] = elems[d]
  <2>1. elems[d] \in ElemType  BY <1>1
  <2>2. CASE d = e
    <3>1. elems'[d] = [elems[d] EXCEPT !.status = "unlinked", !.next = Successor(e)]  BY <1>3, <2>2
    <3>2. QED  BY <1>2, <2>1, <2>2, <3>1 DEF ElemType, Statuses
  <2>3. CASE d # e /\ d \in prev
    <3>1. elems'[d] = [elems[d] EXCEPT !.old = e] /\ d \in Linked  BY <1>1, <1>3, <2>3
    <3>2. QED  BY <1>2, <2>1, <2>3, <3>1 DEF ElemType, Statuses
  <2>4. CASE d # e /\ d \notin prev
    BY <1>3, <2>1, <2>4
  <2>5. QED  BY <2>2, <2>3, <2>4
<1>5. elems' \in [DOMAIN elems -> ElemType]  BY <1>3, <1>4
<1>6. \A d \in DOMAIN elems : elems'[d].status = "in" <=> elems[d].status = "in" /\ d \notin {e}
  BY <1>4
<1>7. chain' \in [Places -> SUBSET DOMAIN elems] /\ \A q \in Places : chain'[q] = chain[q] \ {e}
  <2>1. chain \in [Places -> SUBSET DOMAIN elems]  BY <1>0 DEF DataTypes
  <2>2. \A q \in Places : e \in chain[q] => q = p  BY <1>0, <1>1 DEF Placed
  <2>3. QED  BY <1>1, <1>3, <2>1, <2>2
<1>8. /\ DataInv' /\ DOMAIN elems' = DOMAIN elems /\ Len(elems') = Len(elems)
      /\ Linked' = Linked \ {e} /\ Cardinality(Linked') = Cardinality(Linked) - Cardinality({e})
  BY <1>4, <1>5, <1>6, <1>7, Shrinks
<1>9. QED  BY <1>1, <1>4, <1>8, FS_Singleton

\* What clear() does to one place.
LEMMA Empties ==
  ASSUME DataInv, size' = size, NEW p \in Places,
         chain' = [chain EXCEPT ![p] = {}],
         elems' = [e \in DOMAIN elems |-> IF e \in chain[p]
                                          THEN [elems[e] EXCEPT !.status = "deleted"]
                                          ELSE elems[e]]
  PROVE  /\ DataInv' /\ DOMAIN elems' = DOMAIN elems /\ Len(elems') = Len(elems)
         /\ Linked' = Linked \ chain[p]
         /\ Cardinality(Linked') = Cardinality(Linked) - Cardinality(chain[p])
         /\ \A e \in DOMAIN elems : elems'[e].key = elems[e].key
         /\ \A e \in chain[p] : elems'[e].status = "deleted"
         /\ \A e \in DOMAIN elems \ chain[p] : elems'[e] = elems[e]
<1>0. DataTypes /\ Placed  BY DEF DataInv
<1>1. /\ elems \in [DOMAIN elems -> ElemType] /\ DOMAIN elems = 1 .. Len(elems)
      /\ chain[p] \subseteq Linked /\ chain[p] \subseteq DOMAIN elems /\ Places' = Places
  BY <1>0, LinkedAre DEF DataTypes, Places
<1>2. ASSUME NEW e \in DOMAIN elems
      PROVE  /\ elems'[e] \in ElemType /\ elems'[e].key = elems[e].key
             /\ elems'[e].status = IF e \in chain[p] THEN "deleted" ELSE elems[e].status
             /\ e \notin chain[p] => elems'[e] = elems[e]
  <2>1. elems[e] \in ElemType  BY <1>1
  <2>2. QED  BY <2>1 DEF ElemType, Statuses
<1>3. elems' \in [DOMAIN elems -> ElemType]  BY <1>2
<1>4. chain' \in [Places -> SUBSET DOMAIN elems] /\ \A q \in Places : chain'[q] = chain[q] \ chain[p]
  <2>1. chain \in [Places -> SUBSET DOMAIN elems]  BY <1>0 DEF DataTypes
  <2>2. \A q \in Places, e \in chain[p] : e \in chain[q] => q = p  BY <1>0, <1>1 DEF Placed
  <2>3. QED  BY <2>1, <2>2
<1>5. /\ DataInv' /\ DOMAIN elems' = DOMAIN elems /\ Len(elems') = Len(elems)
      /\ Linked' = Linked \ chain[p]
      /\ Cardinality(Linked') = Cardinality(Linked) - Cardinality(chain[p])
  BY <1>1, <1>2, <1>3, <1>4, Shrinks
<1>6. QED  BY <1>1, <1>2, <1>5

-----------------------------------------------------------------------------
(* The order in which grow() copies *)

LEMMA BeforeIs ==
  ASSUME DataTypes, Placed
  PROVE  /\ \A d, e \in Linked : Before(d, e) \/ Before(e, d) \/ d = e
         /\ \A e \in Linked : ~Before(e, e)
         /\ \A c, d, e \in Linked : Before(c, d) /\ Before(d, e) => Before(c, e)
<1>1. \A e \in Linked : e \in Nat /\ PlaceOf(e) \in Nat
  BY PlaceIs, LinkedAre DEF DataTypes
<1>2. QED  BY <1>1 DEF Before

LEMMA TurnRange ==
  ASSUME DataTypes, Placed, NEW e \in Linked
  PROVE  Turn(e) \in 1 .. Cardinality(Linked)
<1> DEFINE ahead == {d \in Linked : Before(d, e)}
<1>1. IsFiniteSet(Linked) /\ Cardinality(Linked) \in Nat  BY LinkedAre
<1>2. ahead \in SUBSET (Linked \ {e})  BY BeforeIs
<1>3. IsFiniteSet(Linked \ {e}) /\ Cardinality(Linked \ {e}) = Cardinality(Linked) - 1
  BY <1>1, FS_RemoveElement
<1>4. IsFiniteSet(ahead) /\ Cardinality(ahead) <= Cardinality(Linked) - 1
  BY <1>2, <1>3, FS_Subset
<1>5. Cardinality(ahead) \in Nat  BY <1>4, FS_CardinalityType
<1>6. Turn(e) = Cardinality(ahead) + 1  BY DEF Turn
<1> HIDE DEF ahead
<1>7. QED  BY <1>1, <1>4, <1>5, <1>6

LEMMA TurnRises ==
  ASSUME DataTypes, Placed, NEW d \in Linked, NEW e \in Linked, Before(d, e)
  PROVE  Turn(d) # Turn(e)
<1> DEFINE ahead(x) == {c \in Linked : Before(c, x)}
<1>1. ahead(d) \in SUBSET ahead(e) /\ d \in ahead(e) /\ d \notin ahead(d)  BY BeforeIs
<1>2. IsFiniteSet(ahead(e)) /\ IsFiniteSet(ahead(d))  BY LinkedAre, FS_Subset
<1>3. Cardinality(ahead(e)) \in Nat /\ Cardinality(ahead(d)) \in Nat  BY <1>2, FS_CardinalityType
<1>4. Turn(d) = Cardinality(ahead(d)) + 1 /\ Turn(e) = Cardinality(ahead(e)) + 1  BY DEF Turn
<1> HIDE DEF ahead
<1>5. Cardinality(ahead(e)) # Cardinality(ahead(d))  BY <1>1, <1>2, FS_Subset
<1>6. QED  BY <1>3, <1>4, <1>5

\* Every element has a turn of its own.
LEMMA TurnsAre ==
  ASSUME DataTypes, Placed, NEW i \in 1 .. Cardinality(Linked)
  PROVE  TurnOf(i) \in Linked /\ Turn(TurnOf(i)) = i
<1> DEFINE N == Cardinality(Linked)
           f == [e \in Linked |-> Turn(e)]
<1>1. IsFiniteSet(1 .. N) /\ Cardinality(1 .. N) = N /\ IsFiniteSet(Linked) /\ N \in Nat
  <2>1. N \in Nat /\ IsFiniteSet(Linked)  BY LinkedAre
  <2>2. QED  BY <2>1, FS_Interval
<1>2. f \in [Linked -> 1 .. N]  BY TurnRange
<1>3. \A d, e \in Linked : Turn(d) = Turn(e) => d = e
  BY TurnRises, BeforeIs
<1>4. f \in Injection(Linked, 1 .. N)  BY <1>2, <1>3 DEF Injection, IsInjective
<1>5. f \in Surjection(Linked, 1 .. N)  BY <1>1, <1>4, FS_Injection
<1>6. \E e \in Linked : Turn(e) = i  BY <1>5 DEF Surjection
<1>7. QED  BY <1>6 DEF TurnOf

\* A table rebuilt from the first n elements: all that is in it is new.
LEMMA Rebuilds ==
  ASSUME DataInv, NEW target \in Sizes, NEW n \in 0 .. Cardinality(Linked), Rebuild(target, n)
  PROVE  /\ DataInv' /\ Len(elems') = Len(elems) + n
         /\ Linked' = Len(elems) + 1 .. Len(elems) + n
         /\ Cardinality(Linked') = n /\ count' = n
         /\ \A e \in DOMAIN elems : e \in DOMAIN elems' /\ elems'[e].key = elems[e].key
         /\ \A e \in Linked : elems'[e].status \in {"unlinked", "deleted"}
         /\ \A e \in DOMAIN elems \ Linked : elems'[e] = elems[e]
<1> DEFINE last == Len(elems)
           copy == [i \in 1 .. n |-> NewElem(elems[TurnOf(i)].key)]
<1>0. DataTypes /\ Placed /\ NoTwins  BY DEF DataInv
<1>1. /\ last \in Nat /\ n \in Nat /\ DOMAIN elems = 1 .. last
      /\ elems \in [DOMAIN elems -> ElemType] /\ Linked \subseteq DOMAIN elems
  BY <1>0, LinkedAre DEF DataTypes
<1>2. /\ size' = target /\ count' = n
      /\ chain' = [p \in 0 .. target - 1 |-> {last + i : i \in {j \in 1 .. n : Bucket[target][copy[j].key] = p}}]
      /\ elems' = [e \in 1 .. last + n |->
                   IF e > last THEN copy[e - last]
                   ELSE IF e \notin Linked THEN elems[e]
                   ELSE IF Turn(e) <= n THEN [elems[e] EXCEPT !.status = "deleted"]
                   ELSE [elems[e] EXCEPT !.status = "unlinked", !.next = Successor(e)]]
  BY DEF Rebuild
\* The copies have different keys, those of the originals.
<1>3. ASSUME NEW i \in 1 .. n
      PROVE  /\ TurnOf(i) \in Linked /\ Turn(TurnOf(i)) = i
             /\ copy[i] = NewElem(elems[TurnOf(i)].key) /\ copy[i] \in ElemType
             /\ copy[i].status = "in" /\ copy[i].key = elems[TurnOf(i)].key /\ copy[i].key \in Keys
  <2>1. i \in 1 .. Cardinality(Linked)  BY <1>0, LinkedAre
  <2>2. TurnOf(i) \in Linked /\ Turn(TurnOf(i)) = i  BY <1>0, <2>1, TurnsAre
  <2>3. elems[TurnOf(i)].key \in Keys  BY <1>0, <2>2, LinkedAre
  <2>4. QED  BY <2>2, <2>3 DEF NewElem, ElemType, Statuses
<1>4. ASSUME NEW i \in 1 .. n, NEW j \in 1 .. n, copy[i].key = copy[j].key
      PROVE  i = j
  <2>1. TurnOf(i) = TurnOf(j)  BY <1>0, <1>3, <1>4 DEF NoTwins
  <2>2. QED  BY <1>3, <2>1
<1> HIDE DEF copy
<1>5. ASSUME NEW e \in 1 .. last
      PROVE  /\ elems'[e] \in ElemType /\ elems'[e].key = elems[e].key
             /\ elems'[e].status # "in"
             /\ e \in Linked => elems'[e].status \in {"unlinked", "deleted"}
             /\ e \notin Linked => elems'[e] = elems[e]
  <2>1. e \in 1 .. last + n /\ ~(e > last) /\ elems[e] \in ElemType  BY <1>1
  <2>2. CASE e \notin Linked
    <3>1. elems'[e] = elems[e]  BY <1>2, <2>1, <2>2
    <3>2. elems[e].status # "in"  BY <1>0, <1>1, <2>2, LinkedAre
    <3>3. QED  BY <2>1, <2>2, <3>1, <3>2
  <2>3. CASE e \in Linked /\ Turn(e) <= n
    <3>1. elems'[e] = [elems[e] EXCEPT !.status = "deleted"]  BY <1>2, <2>1, <2>3
    <3>2. QED  BY <2>1, <2>3, <3>1 DEF ElemType, Statuses
  <2>4. CASE e \in Linked /\ ~(Turn(e) <= n)
    <3>1. elems'[e] = [elems[e] EXCEPT !.status = "unlinked", !.next = Successor(e)]
      BY <1>2, <2>1, <2>4
    <3>2. Successor(e) \in Nat \cup {Nil}  BY <1>0, <2>4, SuccessorIs
    <3>3. QED  BY <2>1, <2>4, <3>1, <3>2 DEF ElemType, Statuses
  <2>5. QED  BY <2>2, <2>3, <2>4
<1>6. ASSUME NEW e \in last + 1 .. last + n
      PROVE  e - last \in 1 .. n /\ elems'[e] = copy[e - last] /\ e \in 1 .. last + n
  <2>1. e - last \in 1 .. n /\ e > last /\ e \in 1 .. last + n  BY <1>1
  <2>2. elems'[e] = IF e > last THEN copy[e - last]
                    ELSE IF e \notin Linked THEN elems[e]
                    ELSE IF Turn(e) <= n THEN [elems[e] EXCEPT !.status = "deleted"]
                    ELSE [elems[e] EXCEPT !.status = "unlinked", !.next = Successor(e)]
    BY <1>2, <2>1
  <2>3. QED  BY <2>1, <2>2
<1>7. elems' \in [1 .. last + n -> ElemType]
  <2>1. ASSUME NEW e \in 1 .. last + n PROVE elems'[e] \in ElemType
    <3>1. e \in 1 .. last \/ e \in last + 1 .. last + n  BY <1>1
    <3>2. QED  BY <1>3, <1>5, <1>6, <3>1
  <2>2. DOMAIN elems' = 1 .. last + n /\ elems' = [e \in DOMAIN elems' |-> elems'[e]]  BY <1>2
  <2>3. QED  BY <2>1, <2>2
<1>8. Len(elems') = last + n /\ DOMAIN elems' = 1 .. last + n
  <2>1. last + n \in Nat  BY <1>1
  <2>2. QED  BY <1>7, <2>1, LengthIs
<1>9. DataTypes'
  <2>1. Places' = 0 .. target - 1  BY <1>2 DEF Places
  <2>2. ASSUME NEW p \in 0 .. target - 1 PROVE chain'[p] \in SUBSET (1 .. last + n)
    <3>1. chain'[p] = {last + i : i \in {j \in 1 .. n : Bucket[target][copy[j].key] = p}}  BY <1>2
    <3>2. \A i \in 1 .. n : last + i \in 1 .. last + n  BY <1>1
    <3>3. QED  BY <3>1, <3>2
  <2>3. chain' \in [Places' -> SUBSET DOMAIN elems']  BY <1>2, <1>8, <2>1, <2>2
  <2>4. size' \in Sizes  BY <1>2
  <2>5. Len(elems') \in Nat  BY <1>1, <1>8
  <2>6. elems' \in [1 .. Len(elems') -> ElemType]  BY <1>7, <1>8
  <2>7. QED  BY <2>3, <2>4, <2>5, <2>6 DEF DataTypes
<1>10. Placed'
  <2> SUFFICES ASSUME NEW e \in 1 .. last + n, NEW p \in 0 .. target - 1
               PROVE  e \in chain'[p] <=> elems'[e].status = "in" /\ Bucket[target][elems'[e].key] = p
    BY <1>2, <1>8 DEF Placed, Places
  <2>1. chain'[p] = {last + i : i \in {j \in 1 .. n : Bucket[target][copy[j].key] = p}}  BY <1>2
  <2>2. CASE e \in 1 .. last
    <3>1. \A i \in 1 .. n : last + i # e  BY <1>1, <2>2
    <3>2. QED  BY <1>5, <2>1, <2>2, <3>1
  <2>3. CASE e \in last + 1 .. last + n
    <3>1. \A i \in 1 .. n : last + i = e <=> i = e - last  BY <1>1, <2>3
    <3>2. e \in chain'[p] <=> Bucket[target][copy[e - last].key] = p  BY <1>6, <2>1, <2>3, <3>1
    <3>3. QED  BY <1>3, <1>6, <2>3, <3>2
  <2>4. QED  BY <1>1, <2>2, <2>3
<1>11. Linked' = last + 1 .. last + n
  <2>1. Linked' = {e \in 1 .. last + n : elems'[e].status = "in"}  BY <1>8, <1>9, <1>10, LinkedThen
  <2>2. \A e \in 1 .. last + n : elems'[e].status = "in" <=> e \in last + 1 .. last + n
    <3>1. \A e \in 1 .. last + n : e \in 1 .. last \/ e \in last + 1 .. last + n  BY <1>1
    <3>2. \A e \in 1 .. last : e \notin last + 1 .. last + n  BY <1>1
    <3>3. QED  BY <1>3, <1>5, <1>6, <3>1, <3>2
  <2>3. last + 1 .. last + n \subseteq 1 .. last + n  BY <1>1
  <2>4. QED  BY <2>1, <2>2, <2>3
<1>12. NoTwins'
  <2> SUFFICES ASSUME NEW d \in last + 1 .. last + n, NEW e \in last + 1 .. last + n,
                      elems'[d].key = elems'[e].key
               PROVE  d = e
    BY <1>11 DEF NoTwins
  <2>1. d - last = e - last  BY <1>4, <1>6
  <2>2. QED  BY <1>1, <2>1
<1>13. Cardinality(Linked') = n
  <2>1. last + 1 \in Int /\ last + n \in Int  BY <1>1
  <2>2. Cardinality(last + 1 .. last + n) =
          IF last + 1 > last + n THEN 0 ELSE (last + n) - (last + 1) + 1
    BY <2>1, FS_Interval
  <2>3. QED  BY <1>1, <1>11, <2>2
<1>14. \A e \in DOMAIN elems : e \in DOMAIN elems'  BY <1>1, <1>8
<1>15. QED  BY <1>1, <1>2, <1>5, <1>8, <1>9, <1>10, <1>11, <1>12, <1>13, <1>14 DEF DataInv

-----------------------------------------------------------------------------
(* The steps that leave the table as it is *)

\* Only t goes on.
Elsewhere(t) ==
  \A u \in Threads \ {t} :
    pc'[u] = pc[u] /\ op'[u] = op[u] /\ key'[u] = key[u] /\ cur'[u] = cur[u] /\ num'[u] = num[u]

LEMMA OtherLocals ==
  ASSUME NEW u \in Threads, LocalInv(u), size \in Nat, size' \in Nat, size' >= size,
         pc'[u] = pc[u], op'[u] = op[u], key'[u] = key[u], cur'[u] = cur[u], num'[u] = num[u],
         pc[u] \in {"cut", "tell", "delete"} =>
           \A x \in DOMAIN elems : elems[x].status # "in" =>
             x \in DOMAIN elems' /\ elems'[x].status = elems[x].status
  PROVE  LocalInv(u)'
<1>1. /\ pc'[u] = "cut" => HoldsElem(u, "unlinked")'
      /\ pc'[u] = "tell" => HoldsElem(u, "cut")'
      /\ pc'[u] = "delete" => HoldsElem(u, "out")'
  BY DEF LocalInv, HoldsElem
<1>2. pc'[u] \in Sweeping => num'[u] \in 1 .. size' /\ cur'[u] \in 0 .. num'[u] - 1
  BY DEF LocalInv
<1>3. KeyKnown(u)' => key'[u] \in Keys  BY DEF LocalInv, KeyKnown
<1>4. QED  BY <1>1, <1>2, <1>3 DEF LocalInv

\* Who changes the table does so alone.
LEMMA Alone ==
  ASSUME GateInv, NEW t \in Threads, Changing(t)
  PROVE  \A u \in Threads \ {t} : ~Changing(u)
  BY DEF GateInv, LockInv

LEMMA Quiet ==
  ASSUME TableInv, NEW t \in Threads, UNCHANGED data, Elsewhere(t),
         LocalTypes', LocalInv(t)',
         pc'[t] \in {"cut", "tell"} <=> pc[t] \in {"cut", "tell"}
  PROVE  TableInv'
<1>1. size \in Nat /\ size' = size /\ elems' = elems /\ chain' = chain /\ count' = count
  BY LinkedAre DEF TableInv, DataInv, data
<1>2. DataInv'
  BY <1>1 DEF TableInv, DataInv, DataTypes, Placed, NoTwins, Linked, Places
<1>3. \A u \in Threads : pc'[u] \in {"cut", "tell"} <=> pc[u] \in {"cut", "tell"}
  BY DEF Elsewhere
<1>4. Counted'
  BY <1>1, <1>3 DEF TableInv, Counted, Uncounted, Linked, Places
<1>5. ASSUME NEW u \in Threads PROVE LocalInv(u)'
  <2>1. CASE u # t  BY <1>1, <2>1, OtherLocals DEF TableInv, Elsewhere
  <2>2. QED  BY <2>1
<1>6. QED  BY <1>2, <1>4, <1>5 DEF TableInv

\* Steps of t that do not remove anything: what has to be shown of them.
Plain(t) ==
  /\ Elsewhere(t) /\ LocalTypes' /\ UNCHANGED data
  /\ pc[t] \notin {"cut", "tell"} /\ pc'[t] \notin {"cut", "tell", "delete"}
  /\ pc'[t] \in SizeKnown => num'[t] \in Sizes
  /\ pc'[t] \in Sweeping => num'[t] \in 1 .. size /\ cur'[t] \in 0 .. num'[t] - 1
  /\ KeyKnown(t)' => key'[t] \in Keys

LEMMA PlainStep ==
  ASSUME TableInv, NEW t \in Threads, Plain(t)
  PROVE  TableInv'
<1>1. LocalInv(t)'  BY DEF Plain, LocalInv, data
<1>2. QED  BY <1>1, Quiet DEF Plain

LEMMA PlainSearches ==
  ASSUME GateInv, TableInv, NEW t \in Threads,
         \/ Get(t) \/ Index(t) \/ TableGet(t) \/ Walk(t) \/ Size(t)
         \/ StartInsert(t) \/ InsertFails(t) \/ StopInsert(t) \/ Load(t) \/ Larger(t) \/ Announce(t)
         \/ StartGrow(t) \/ StopGrow(t)
  PROVE  Plain(t)
<1>0. /\ pc \in [Threads -> Labels] /\ op \in [Threads -> Ops \cup {Nil}] /\ LocalTypes /\ LocalInv(t)
      /\ size \in Sizes
  BY DEF GateInv, GateTypes, TableInv, DataInv, DataTypes
<1> USE <1>0 DEF Goto, data, local, history, Elsewhere, LocalTypes
<1>1. CASE Get(t)
  BY <1>1 DEF Get, Begin, Plain, LocalInv, KeyKnown, SizeKnown, Sweeping
<1>2. CASE Index(t)
  BY <1>2 DEF Index, Plain, LocalInv, KeyKnown, SizeKnown, Sweeping, SearchSteps
<1>3. CASE TableGet(t)
  BY <1>3 DEF TableGet, Plain, LocalInv, KeyKnown, SizeKnown, Sweeping, SearchSteps
<1>4. CASE Walk(t)
  <2>1. /\ pc[t] = "walk" /\ UNCHANGED data /\ UNCHANGED <<op, key, num, todo>>
        /\ pc'[t] \in {"walk", "idle", "gate", "size"} /\ Elsewhere(t) /\ DOMAIN cur' = Threads
    BY <1>4 DEF Walk
  <2>2. key[t] \in Keys  BY <2>1 DEF LocalInv, KeyKnown, SearchSteps
  <2>3. QED  BY <2>1, <2>2 DEF Plain, SizeKnown, Sweeping
<1>5. CASE Size(t)
  BY <1>5 DEF Size, Return, Plain, LocalInv, KeyKnown, SizeKnown, Sweeping, SearchSteps
<1>6. CASE StartInsert(t)
  BY <1>6 DEF StartInsert, Plain, LocalInv, KeyKnown, SizeKnown, Sweeping, SearchSteps
<1>7. CASE InsertFails(t)
  BY <1>7 DEF InsertFails, Throw, Plain, LocalInv, KeyKnown, SizeKnown, Sweeping, SearchSteps
<1>8. CASE StopInsert(t)
  BY <1>8 DEF StopInsert, Plain, LocalInv, KeyKnown, SizeKnown, Sweeping, SearchSteps
<1>9. CASE Load(t)
  <2>1. Grown[size] \in Sizes /\ Grown[size] \in Nat  BY Sized, ChainHashAssumption DEF ChainHashAssumption
  <2>2. QED  BY <1>9, <2>1 DEF Load, Plain, KeyKnown, SizeKnown, Sweeping, SearchSteps
<1>10. CASE Larger(t)
  BY <1>10 DEF Larger, Plain, LocalInv, KeyKnown, SizeKnown, Sweeping, SearchSteps
<1>11. CASE Announce(t)
  BY <1>11 DEF Announce, Plain, LocalInv, KeyKnown, SizeKnown, Sweeping, SearchSteps
<1>12. CASE StartGrow(t)
  BY <1>12 DEF StartGrow, Plain, LocalInv, KeyKnown, SizeKnown, Sweeping, SearchSteps
<1>13. CASE StopGrow(t)
  BY <1>13 DEF StopGrow, Plain, LocalInv, KeyKnown, SizeKnown, Sweeping, SearchSteps
<1>14. QED  BY <1>1, <1>2, <1>3, <1>4, <1>5, <1>6, <1>7, <1>8, <1>9, <1>10, <1>11, <1>12, <1>13

LEMMA PlainOthers ==
  ASSUME GateInv, TableInv, NEW t \in Threads,
         \/ StartRemove(t) \/ NotThere(t) \/ StopRemove(t) \/ TableSize(t) \/ StartClear(t) \/ StopClear(t)
         \/ Merge(t) \/ MergeLock(t) \/ MergeSize(t) \/ MergeNext(t)
  PROVE  Plain(t)
<1>0. /\ pc \in [Threads -> Labels] /\ op \in [Threads -> Ops \cup {Nil}] /\ LocalTypes /\ LocalInv(t)
      /\ size \in Sizes /\ size \in Nat \ {0}
  BY Sized DEF GateInv, GateTypes, TableInv, DataInv, DataTypes
<1> USE <1>0 DEF Goto, data, local, history, Elsewhere, LocalTypes
<1>1. CASE StartRemove(t)
  BY <1>1 DEF StartRemove, Plain, LocalInv, KeyKnown, SizeKnown, Sweeping, SearchSteps
<1>2. CASE NotThere(t)
  BY <1>2 DEF NotThere, Plain, LocalInv, KeyKnown, SizeKnown, Sweeping, SearchSteps
<1>3. CASE StopRemove(t)
  BY <1>3 DEF StopRemove, Plain, LocalInv, KeyKnown, SizeKnown, Sweeping, SearchSteps
<1>4. CASE TableSize(t)
  <2>1. /\ pc[t] = "clear" /\ pc'[t] = "clear wait" /\ num'[t] = size /\ cur'[t] = 0
        /\ Elsewhere(t) /\ LocalTypes' /\ UNCHANGED data
    BY <1>4 DEF TableSize
  <2>2. size \in 1 .. size /\ 0 \in 0 .. size - 1  OBVIOUS
  <2>3. QED  BY <2>1, <2>2 DEF Plain, KeyKnown, SizeKnown, Sweeping, SearchSteps
<1>5. CASE StartClear(t)
  BY <1>5 DEF StartClear, Plain, LocalInv, KeyKnown, SizeKnown, Sweeping, SearchSteps
<1>6. CASE StopClear(t)
  BY <1>6 DEF StopClear, Plain, LocalInv, KeyKnown, SizeKnown, Sweeping, SearchSteps
<1>7. CASE Merge(t)
  BY <1>7 DEF Merge, Plain, LocalInv, KeyKnown, SizeKnown, Sweeping, SearchSteps
<1>8. CASE MergeLock(t)
  BY <1>8 DEF MergeLock, Plain, LocalInv, KeyKnown, SizeKnown, Sweeping, SearchSteps
<1>9. CASE MergeSize(t)
  <2>1. RhsSize \in Sizes /\ RhsSize \in Nat  BY Sized, ChainHashAssumption DEF ChainHashAssumption
  <2>2. QED  BY <1>9, <2>1 DEF MergeSize, Plain, KeyKnown, SizeKnown, Sweeping, SearchSteps
<1>10. CASE MergeNext(t)
  <2>1. RhsKeys \subseteq Keys  BY ChainHashAssumption DEF ChainHashAssumption
  <2>2. CASE \E k \in todo[t] : key' = [key EXCEPT ![t] = k] /\ todo' = [todo EXCEPT ![t] = @ \ {k}] /\ pc' = [pc EXCEPT ![t] = "index"]
    BY <1>10, <2>1, <2>2 DEF MergeNext, Plain, SizeKnown, Sweeping
  <2>3. CASE pc' = [pc EXCEPT ![t] = "idle"] /\ UNCHANGED <<key, todo>>
    BY <1>10, <2>3 DEF MergeNext, Plain, KeyKnown, SizeKnown, Sweeping, SearchSteps
  <2>4. QED  BY <1>10, <2>2, <2>3 DEF MergeNext
<1>11. QED  BY <1>1, <1>2, <1>3, <1>4, <1>5, <1>6, <1>7, <1>8, <1>9, <1>10

LEMMA PlainCalls ==
  ASSUME GateInv, TableInv, NEW t \in Threads, Call(t)
  PROVE  Plain(t)
<1>0. /\ pc \in [Threads -> Labels] /\ op \in [Threads -> Ops \cup {Nil}] /\ LocalTypes /\ LocalInv(t)
      /\ Sizes \subseteq Nat
  BY Sized DEF GateInv, GateTypes, TableInv
<1> USE <1>0 DEF Goto, data, local, history, Elsewhere, LocalTypes, Calling
<1>1. ASSUME NEW o \in Ops \cap {"get", "add", "remKey", "delKey"}, NEW k \in Keys, CallFor(t, o, k)
      PROVE  Plain(t)
  <2>1. /\ pc'[t] \in {"get", "index", "gate"} /\ key'[t] = k /\ pc[t] = "idle"
        /\ Elsewhere(t) /\ LocalTypes' /\ UNCHANGED data
    BY <1>1 DEF CallFor
  <2>2. QED  BY <2>1 DEF Plain, SizeKnown, Sweeping
<1>2. ASSUME NEW o \in Ops \cap {"pop", "clear", "+="}, CallForAll(t, o)
      PROVE  Plain(t)
  <2>1. pc'[t] \in {"gate", "idle", "clear", "add all"} /\ (pc'[t] = "gate" => o = "pop") /\ op'[t] = o
    BY <1>2 DEF CallForAll
  <2>2. pc[t] = "idle" /\ Elsewhere(t) /\ LocalTypes' /\ UNCHANGED data
    BY <1>2 DEF CallForAll
  <2>3. ~KeyKnown(t)'  BY <2>1 DEF KeyKnown, SearchSteps
  <2>4. QED  BY <2>1, <2>2, <2>3 DEF Plain, SizeKnown, Sweeping
<1>3. ASSUME NEW target \in Sizes, CallGrow(t, target)
      PROVE  Plain(t)
  BY <1>3 DEF CallGrow, Plain, KeyKnown, SizeKnown, Sweeping, SearchSteps
<1>4. QED  BY <1>1, <1>2, <1>3 DEF Call

-----------------------------------------------------------------------------
(* The steps that change the table *)

LEMMA Noisy ==
  ASSUME GateInv, TableInv, NEW t \in Threads, Elsewhere(t), LocalTypes', LocalInv(t)',
         DataInv', Counted', size' >= size,
         \/ Changing(t)
         \/ \A x \in DOMAIN elems : elems[x].status # "in" =>
              x \in DOMAIN elems' /\ elems'[x].status = elems[x].status
  PROVE  TableInv'
<1>1. size \in Nat /\ size' \in Nat  BY Sized DEF TableInv, DataInv, DataTypes
<1>2. ASSUME NEW u \in Threads \ {t} PROVE LocalInv(u)'
  <2>1. CASE pc[u] \in {"cut", "tell", "delete"}
    <3>1. Changing(u)  BY <2>1 DEF Changing, RemoveSteps
    <3>2. ~Changing(t)  BY <3>1, Alone
    <3>3. QED  BY <1>1, <3>2, OtherLocals DEF TableInv, Elsewhere
  <2>2. CASE pc[u] \notin {"cut", "tell", "delete"}
    BY <1>1, <2>2, OtherLocals DEF TableInv, Elsewhere
  <2>3. QED  BY <2>1, <2>2
<1>3. QED  BY <1>2 DEF TableInv

\* Whether something is removed, but counted, is up to t while t changes the table.
LEMMA UncountedIs ==
  ASSUME GateInv, NEW t \in Threads, Changing(t), Elsewhere(t)
  PROVE  /\ Uncounted <=> pc[t] \in {"cut", "tell"}
         /\ Uncounted' <=> pc'[t] \in {"cut", "tell"}
<1>1. \A u \in Threads \ {t} : pc[u] \notin {"cut", "tell"}  BY Alone DEF Changing, RemoveSteps
<1>2. QED  BY <1>1 DEF Uncounted, Elsewhere

LEMMA TableInsert ==
  ASSUME GateInv, TableInv, NEW t \in Threads, Insert(t)
  PROVE  TableInv'
<1>0. /\ pc \in [Threads -> Labels] /\ LocalTypes /\ LocalInv(t) /\ DataInv /\ Counted
      /\ DataTypes /\ Placed /\ size \in Nat
  BY Sized DEF GateInv, GateTypes, TableInv, DataInv, DataTypes
<1>1. /\ pc[t] = "insert" /\ pc'[t] = "inserted" /\ key[t] \in Keys /\ size' = size
      /\ UNCHANGED <<op, key, cur, todo>>
  BY <1>0 DEF Insert, Goto, LocalInv, KeyKnown, data
<1>2. Changing(t)  BY <1>1 DEF Changing, InsertSteps
<1>3. count \in Nat /\ Cardinality(Linked) \in Nat  BY <1>0, LinkedAre DEF Counted
<1>4. Elsewhere(t) /\ LocalTypes'
  BY <1>0, <1>1, <1>3 DEF Insert, Goto, Elsewhere, LocalTypes
<1>5. LocalInv(t)'  BY <1>1 DEF LocalInv, KeyKnown, SizeKnown, Sweeping, SearchSteps
<1>6. CASE key[t] \in Stored
  <2>1. UNCHANGED data  BY <1>6 DEF Insert
  <2>2. QED  BY <1>1, <1>4, <1>5, <2>1, Quiet
<1>7. CASE key[t] \notin Stored
  <2>1. AddElem(key[t]) /\ count' = count + 1  BY <1>7 DEF Insert, AddElem
  <2>2. DataInv' /\ Cardinality(Linked') = Cardinality(Linked) + 1
    BY <1>0, <1>1, <1>7, <2>1, Adds
  <2>3. ~Uncounted /\ ~Uncounted'  BY <1>1, <1>2, <1>4, UncountedIs
  <2>4. Counted'  BY <1>0, <1>3, <2>1, <2>2, <2>3 DEF Counted
  <2>5. QED  BY <1>0, <1>1, <1>2, <1>4, <1>5, <2>2, <2>4, Noisy
<1>8. QED  BY <1>6, <1>7

LEMMA ToRemoveLinked ==
  ASSUME DataInv, NEW t \in Threads
  PROVE  ToRemove(t) \subseteq Linked
<1>1. ASSUME NEW p \in Places, chain[p] # {} PROVE First(p) \in Linked
  <2>1. First(p) \in chain[p]  BY <1>1, ChainNumbers, FirstIs DEF First, DataInv
  <2>2. QED  BY <2>1, LinkedAre DEF DataInv
<1>2. QED  BY <1>1 DEF ToRemove

LEMMA TableUnlink ==
  ASSUME GateInv, TableInv, NEW t \in Threads, Unlink(t)
  PROVE  TableInv'
<1>0. /\ pc \in [Threads -> Labels] /\ LocalTypes /\ LocalInv(t) /\ DataInv /\ Counted
      /\ DataTypes /\ Placed /\ size \in Nat
  BY Sized DEF GateInv, GateTypes, TableInv, DataInv, DataTypes
<1>1. PICK e \in ToRemove(t) : Takes(e) /\ cur' = [cur EXCEPT ![t] = e]
  BY DEF Unlink, Takes
<1>2. e \in Linked  BY <1>0, <1>1, ToRemoveLinked
<1>3. /\ pc[t] = "unlink" /\ pc' = [pc EXCEPT ![t] = "cut"] /\ size' = size /\ count' = count
      /\ UNCHANGED <<op, key, num, todo>>
  BY DEF Unlink, Goto
<1>4. Changing(t)  BY <1>3 DEF Changing, RemoveSteps
<1>5. /\ DataInv' /\ DOMAIN elems' = DOMAIN elems /\ elems'[e].status = "unlinked"
      /\ Cardinality(Linked') = Cardinality(Linked) - 1
  BY <1>0, <1>1, <1>2, <1>3, TakesOut
<1>6. Elsewhere(t) /\ LocalTypes' /\ pc'[t] = "cut" /\ cur'[t] = e
  BY <1>0, <1>1, <1>3 DEF Elsewhere, LocalTypes
<1>7. LocalInv(t)'
  <2>1. e \in DOMAIN elems  BY <1>0, <1>2, LinkedAre
  <2>2. QED
    BY <1>5, <1>6, <2>1 DEF LocalInv, HoldsElem, KeyKnown, SizeKnown, Sweeping, SearchSteps
<1>8. ~Uncounted /\ Uncounted'  BY <1>3, <1>4, <1>6, UncountedIs
<1>9. Counted'
  <2>1. Cardinality(Linked) \in Nat  BY <1>0, LinkedAre
  <2>2. QED  BY <1>0, <1>3, <1>5, <1>8, <2>1 DEF Counted
<1>10. QED  BY <1>0, <1>3, <1>4, <1>5, <1>6, <1>7, <1>9, Noisy

\* What the other steps of a removal change is the removed element.
LEMMA TableCuts ==
  ASSUME GateInv, TableInv, NEW t \in Threads, Cut(t) \/ Tell(t) \/ Delete(t)
  PROVE  TableInv'
<1> DEFINE x == cur[t]
<1>0. /\ pc \in [Threads -> Labels] /\ LocalTypes /\ LocalInv(t) /\ DataInv /\ Counted
      /\ DataTypes /\ Placed /\ size \in Nat
  BY Sized DEF GateInv, GateTypes, TableInv, DataInv, DataTypes
<1>1. /\ pc[t] \in {"cut", "tell", "delete"} /\ UNCHANGED <<size, chain, op, key, num, todo, cur>>
      /\ Changing(t) /\ x \in DOMAIN elems /\ elems[x] \in ElemType /\ elems[x].status # "in"
  BY <1>0 DEF Cut, Tell, Delete, local, Changing, RemoveSteps, LocalInv, HoldsElem, DataTypes
<1>2. PICK r \in ElemType :
        /\ elems' = [elems EXCEPT ![x] = r] /\ r.key = elems[x].key
        /\ \/ Cut(t) /\ r.status = "cut"
           \/ Tell(t) /\ r.status = "out"
           \/ Delete(t) /\ r.status = "deleted"
  <2>1. CASE Cut(t)
    <3>1. elems' = [elems EXCEPT ![x] = [elems[x] EXCEPT !.status = "cut"]]  BY <2>1 DEF Cut
    <3>2. [elems[x] EXCEPT !.status = "cut"] \in ElemType  BY <1>1 DEF ElemType, Statuses
    <3>3. QED  BY <1>1, <2>1, <3>1, <3>2 DEF ElemType
  <2>2. CASE Tell(t)
    <3> DEFINE r == [elems[x] EXCEPT !.status = "out",
                                 !.old = IF elems[x].next = Nil THEN elems[x].old ELSE elems[x].next]
    <3>1. elems' = [elems EXCEPT ![x] = r]  BY <2>2 DEF Tell
    <3>2. r \in ElemType /\ r.key = elems[x].key /\ r.status = "out"  BY <1>1 DEF ElemType, Statuses
    <3> HIDE DEF r
    <3>3. QED  BY <2>2, <3>1, <3>2
  <2>3. CASE Delete(t)
    <3>1. elems' = [elems EXCEPT ![x] = [elems[x] EXCEPT !.status = "deleted"]]  BY <2>3 DEF Delete
    <3>2. [elems[x] EXCEPT !.status = "deleted"] \in ElemType  BY <1>1 DEF ElemType, Statuses
    <3>3. QED  BY <1>1, <2>3, <3>1, <3>2 DEF ElemType
  <2>4. QED  BY <2>1, <2>2, <2>3
<1>3. /\ DataInv' /\ DOMAIN elems' = DOMAIN elems /\ Linked' = Linked /\ elems'[x] = r
  BY <1>0, <1>1, <1>2, Marks
<1>4. Elsewhere(t) /\ LocalTypes'
  BY <1>0, <1>1 DEF Cut, Tell, Delete, Goto, Elsewhere, LocalTypes
<1>5. \/ pc[t] = "cut" /\ pc'[t] = "tell" /\ r.status = "cut" /\ count' = count
      \/ pc[t] = "tell" /\ pc'[t] \in {"delete", "removed"} /\ r.status = "out" /\ count' = count - 1
      \/ pc[t] = "delete" /\ pc'[t] = "removed" /\ count' = count
  BY <1>0, <1>2 DEF Cut, Tell, Delete, Goto
<1>6. LocalInv(t)'
  BY <1>1, <1>3, <1>5 DEF LocalInv, HoldsElem, KeyKnown, SizeKnown, Sweeping, SearchSteps
<1>7. Counted'
  <2>1. Cardinality(Linked) \in Nat  BY <1>0, LinkedAre
  <2>2. (Uncounted <=> pc[t] \in {"cut", "tell"}) /\ (Uncounted' <=> pc'[t] \in {"cut", "tell"})
    BY <1>1, <1>4, UncountedIs
  <2>3. QED  BY <1>0, <1>3, <1>5, <2>1, <2>2 DEF Counted
<1>8. QED  BY <1>0, <1>1, <1>3, <1>4, <1>6, <1>7, Noisy

LEMMA TableSweep ==
  ASSUME GateInv, TableInv, NEW t \in Threads, Sweep(t)
  PROVE  TableInv'
<1> DEFINE p == cur[t]
<1>0. /\ pc \in [Threads -> Labels] /\ LocalTypes /\ LocalInv(t) /\ DataInv /\ Counted
      /\ DataTypes /\ Placed /\ size \in Nat
  BY Sized DEF GateInv, GateTypes, TableInv, DataInv, DataTypes
<1>1. pc[t] = "sweep" /\ UNCHANGED <<pc, op, key, num, todo, size>>  BY DEF Sweep
<1>2. num[t] \in 1 .. size /\ p \in 0 .. num[t] - 1  BY <1>0, <1>1 DEF LocalInv, Sweeping
<1>3. p \in Places  BY <1>0, <1>2 DEF Places
<1>4. /\ chain' = [chain EXCEPT ![p] = {}] /\ count' = count - Cardinality(chain[p])
      /\ elems' = [e \in DOMAIN elems |-> IF e \in chain[p]
                                          THEN [elems[e] EXCEPT !.status = "deleted"]
                                          ELSE elems[e]]
      /\ cur' = [cur EXCEPT ![t] = (p + 1) % num[t]]
  BY DEF Sweep
<1>5. /\ DataInv' /\ DOMAIN elems' = DOMAIN elems
      /\ Cardinality(Linked') = Cardinality(Linked) - Cardinality(chain[p])
      /\ \A e \in DOMAIN elems \ chain[p] : elems'[e] = elems[e]
  BY <1>0, <1>1, <1>3, <1>4, Empties
<1>6. Elsewhere(t) /\ LocalTypes' /\ cur'[t] = (p + 1) % num[t]
  BY <1>0, <1>1, <1>4 DEF Elsewhere, LocalTypes
<1>7. LocalInv(t)'
  <2>1. num[t] \in Nat \ {0} /\ p + 1 \in Nat  BY <1>0, <1>2
  <2>2. (p + 1) % num[t] \in 0 .. num[t] - 1  BY <2>1
  <2>3. QED
    BY <1>1, <1>2, <1>6, <2>2 DEF LocalInv, HoldsElem, KeyKnown, SizeKnown, Sweeping, SearchSteps
<1>8. Counted'
  <2>1. Cardinality(Linked) \in Nat /\ IsFiniteSet(Linked) /\ chain[p] \in SUBSET Linked
    BY <1>0, <1>3, LinkedAre
  <2>2. IsFiniteSet(chain[p])  BY <2>1, FS_Subset
  <2>3. Cardinality(chain[p]) \in Nat  BY <2>2, FS_CardinalityType
  <2>4. Uncounted' <=> Uncounted  BY <1>1 DEF Uncounted
  <2>5. QED  BY <1>0, <1>4, <1>5, <2>1, <2>3, <2>4 DEF Counted
<1>9. \A e \in DOMAIN elems : elems[e].status # "in" => elems'[e].status = elems[e].status
  <2>1. chain[p] \subseteq Linked /\ Linked = {e \in DOMAIN elems : elems[e].status = "in"}
    BY <1>0, <1>3, LinkedAre
  <2>2. QED  BY <1>5, <2>1
<1>10. QED  BY <1>0, <1>1, <1>5, <1>6, <1>7, <1>8, <1>9, Noisy

LEMMA TableRebuild ==
  ASSUME GateInv, TableInv, NEW t \in Threads, pc[t] = "grow", num[t] > size,
         NEW n \in 0 .. Cardinality(Linked), Rebuild(num[t], n),
         Elsewhere(t), LocalTypes', pc'[t] \in {"grown", "idle"}
  PROVE  TableInv'
<1>0. LocalInv(t) /\ DataInv /\ size \in Nat
  BY Sized DEF TableInv, DataInv, DataTypes
<1>1. num[t] \in Sizes /\ num[t] \in Nat  BY <1>0, Sized DEF LocalInv, SizeKnown
<1>2. DataInv' /\ Cardinality(Linked') = n /\ count' = n /\ size' = num[t]
  BY <1>0, <1>1, Rebuilds DEF Rebuild
<1>3. Changing(t)  BY DEF Changing, GrowSteps
<1>4. LocalInv(t)'  BY DEF LocalInv, KeyKnown, SizeKnown, Sweeping, SearchSteps
<1>5. ~Uncounted'  BY <1>3, UncountedIs
<1>6. Counted'
  <2>1. n \in Nat  BY LinkedAre, <1>0 DEF DataInv
  <2>2. QED  BY <1>2, <1>5, <2>1 DEF Counted
<1>7. size' >= size  BY <1>0, <1>1, <1>2
<1>8. QED  BY <1>2, <1>3, <1>4, <1>6, <1>7, Noisy

LEMMA TableGrow ==
  ASSUME GateInv, TableInv, NEW t \in Threads, Grow(t) \/ GrowFails(t)
  PROVE  TableInv'
<1>0. /\ pc \in [Threads -> Labels] /\ LocalTypes /\ Cardinality(Linked) \in Nat
  BY LinkedAre DEF GateInv, GateTypes, TableInv, DataInv
<1>1. /\ pc[t] = "grow" /\ pc'[t] \in {"grown", "idle"} /\ Elsewhere(t) /\ LocalTypes'
  BY <1>0 DEF Grow, GrowFails, Throw, Goto, local, Elsewhere, LocalTypes
<1>2. CASE UNCHANGED data
  <2>1. LocalInv(t)'  BY <1>1 DEF LocalInv, KeyKnown, SizeKnown, Sweeping, SearchSteps
  <2>2. QED  BY <1>1, <1>2, <2>1, Quiet
<1>3. ASSUME ~UNCHANGED data
      PROVE  num[t] > size /\ \E n \in 0 .. Cardinality(Linked) : Rebuild(num[t], n)
  <2>1. CASE Grow(t)
    BY <1>0, <1>3, <2>1 DEF Grow
  <2>2. CASE GrowFails(t)
    <3>1. PICK n \in 0 .. Cardinality(Linked) - 1 : Rebuild(num[t], n)
      BY <1>3, <2>2 DEF GrowFails
    <3>2. n \in 0 .. Cardinality(Linked)  BY <1>0
    <3>3. QED  BY <2>2, <3>1, <3>2 DEF GrowFails
  <2>3. QED  BY <2>1, <2>2
<1>4. QED  BY <1>1, <1>2, <1>3, TableRebuild

LEMMA TableInit == Init => TableInv
<1> SUFFICES ASSUME Init PROVE TableInv  OBVIOUS
<1> DEFINE n == Len(InitKeys)
<1>1. /\ InitKeys \in Seq(Keys) /\ n \in Nat /\ \A i \in 1 .. n : InitKeys[i] \in Keys
      /\ \A i, j \in 1 .. n : InitKeys[i] = InitKeys[j] => i = j
      /\ Sizes \subseteq Nat /\ Sizes # {}
  BY ChainHashAssumption DEF ChainHashAssumption, IsInjective
<1>2. size \in Sizes  BY <1>1, LeastNumber DEF Init
<1>3. elems = [e \in 1 .. n |-> NewElem(InitKeys[e])] /\ count = n  BY DEF Init
<1> HIDE DEF n
<1>4. \A e \in 1 .. n : elems[e] \in ElemType /\ elems[e].key = InitKeys[e] /\ elems[e].status = "in"
  BY <1>1, <1>3 DEF NewElem, ElemType, Statuses
<1>5. elems \in [1 .. n -> ElemType] /\ DOMAIN elems = 1 .. n /\ Len(elems) = n
  <2>1. elems \in [1 .. n -> ElemType]  BY <1>3, <1>4
  <2>2. QED  BY <1>1, <2>1, LengthIs
<1>6. chain = [p \in Places |-> {e \in DOMAIN elems : Bucket[size][elems[e].key] = p}]  BY DEF Init
<1>7. DataTypes
  <2>1. chain \in [Places -> SUBSET DOMAIN elems]  BY <1>6
  <2>2. QED  BY <1>1, <1>2, <1>5, <2>1 DEF DataTypes
<1>8. Placed  BY <1>4, <1>5, <1>6 DEF Placed
<1>9. Linked = 1 .. n  BY <1>4, <1>5, <1>7, <1>8, LinkedAre
<1>10. NoTwins  BY <1>1, <1>4, <1>9 DEF NoTwins
<1>11. \A t \in Threads : pc[t] = "idle"  BY DEF Init
<1>12. Counted
  <2>1. Cardinality(1 .. n) = n
    <3>1. Cardinality(1 .. n) = IF 1 > n THEN 0 ELSE n - 1 + 1  BY <1>1, FS_Interval
    <3>2. QED  BY <1>1, <3>1
  <2>2. ~Uncounted  BY <1>11 DEF Uncounted
  <2>3. QED  BY <1>1, <1>3, <1>9, <2>1, <2>2 DEF Counted
<1>13. LocalTypes  BY DEF Init, LocalTypes
<1>14. \A t \in Threads : LocalInv(t)
  BY <1>11 DEF LocalInv, KeyKnown, SizeKnown, Sweeping, SearchSteps
<1>15. QED  BY <1>7, <1>8, <1>10, <1>12, <1>13, <1>14 DEF TableInv, DataInv

LEMMA TableNext == GateInv /\ TableInv /\ [Next]_vars => TableInv'
<1> SUFFICES ASSUME GateInv, TableInv, [Next]_vars PROVE TableInv'  OBVIOUS
<1>1. ASSUME NEW t \in Threads, Step(t) PROVE TableInv'
  BY <1>1, PlainSearches, PlainOthers, PlainStep, TableInsert, TableUnlink, TableCuts, TableSweep, TableGrow
  DEF Step
<1>2. ASSUME NEW t \in Threads, Call(t) PROVE TableInv'
  BY <1>2, PlainCalls, PlainStep
<1>3. CASE UNCHANGED vars
  <2>1. UNCHANGED <<size, count, chain, elems, pc, op, key, cur, num, todo>>  BY <1>3 DEF vars
  <2>2. DataInv' /\ Counted'
    BY <2>1 DEF TableInv, DataInv, DataTypes, Placed, NoTwins, Linked, Places, Counted, Uncounted
  <2>3. LocalTypes'  BY <2>1 DEF TableInv, LocalTypes
  <2>4. \A t \in Threads : LocalInv(t)'
    BY <2>1 DEF TableInv, LocalInv, HoldsElem, KeyKnown
  <2>5. QED  BY <2>2, <2>3, <2>4 DEF TableInv
<1>4. QED  BY <1>1, <1>2, <1>3 DEF Next

LEMMA TableAlways == Spec => [](GateInv /\ TableInv)
  BY GateInit, GateNext, TableInit, TableNext, PTL DEF Spec

\* Whatever two threads do at the same time, and whenever memory runs out, no key is in the
\* table twice, every element is in the place that its key belongs to in the table there is
\* now, and is counted as soon as the removal of another one is over. An addition looks for
\* its key again once it is alone; a grow() has the lock while it moves everything; and a
\* clear(), which gives the lock back between two places, keeps the changes away.
THEOREM TablesAreExact == Spec => []TableExact
<1>1. GateInv /\ TableInv => TableExact
  <2> SUFFICES ASSUME TableInv PROVE TableExact  OBVIOUS
  <2>1. DataTypes /\ Placed /\ NoTwins /\ Counted  BY DEF TableInv, DataInv
  <2>2. \A e \in Linked : elems[e].status = "in"  BY <2>1, LinkedAre
  <2>3. Removing = {} => count = Cardinality(Linked)
    <3>1. Removing = {} => ~Uncounted  BY DEF Removing, Uncounted
    <3>2. Cardinality(Linked) \in Nat  BY <2>1, LinkedAre
    <3>3. QED  BY <2>1, <3>1, <3>2 DEF Counted
  <2>4. \A p \in Places : \A e \in chain[p] : Bucket[size][elems[e].key] = p
    BY <2>1 DEF DataTypes, Placed
  <2>5. QED  BY <2>1, <2>2, <2>3, <2>4 DEF TableExact, NoTwins
<1>2. QED  BY <1>1, TableAlways, PTL

-----------------------------------------------------------------------------
(* The searches: their inductive invariant *)

\* The number of elements there had been when x was removed is last[x]: whoever came
\* later can not be reached from x.
Removed(x) == elems[x].status \in {"unlinked", "cut", "out"}
LastType(last) == \A x \in DOMAIN elems : Removed(x) => last[x] <= Len(elems)

Leads(last, x, e) ==
  /\ x \in 1 .. e
  /\ Bucket[size][elems[x].key] = Bucket[size][elems[e].key]
  /\ Removed(x) => e <= last[x]

\* Where getNext() goes from a removed element once the removal is over: a removed element
\* that leads to one in the table leads there by the next one, removed or not.
Onward(x) == IF elems[x].status = "out" THEN elems[x].old ELSE elems[x].next
PathInv(last) ==
  \A x \in DOMAIN elems, e \in Linked :
    Removed(x) /\ x # e /\ Leads(last, x, e) => \E y \in 1 .. e : Onward(x) = y /\ Leads(last, y, e)

\* A search for a key that was there all the time, and that is not overtaken.
Sure(t) == pc[t] \in SearchSteps /\ steady[t] = "in" /\ ~overtaken[t]
OnTheWay(last, t) ==
  /\ key[t] \in Stored
  /\ pc[t] = "head" => cur[t] = Bucket[size][key[t]]
  /\ pc[t] = "walk" =>
       cur[t] # Nil /\ \A e \in Linked : elems[e].key = key[t] => Leads(last, cur[t], e)

HistoryTypes == overtaken \in [Threads -> BOOLEAN] /\ steady \in [Threads -> {"in", "out", "no"}]
Paths(last)  == LastType(last) /\ PathInv(last)
SearchInv ==
  /\ HistoryTypes
  /\ \E last \in [Nat -> Nat] : Paths(last) /\ \A t \in Threads : Sure(t) => OnTheWay(last, t)

-----------------------------------------------------------------------------
(* What the changes do to the ways of the searches *)

LEMMA Within ==
  ASSUME NEW n \in Nat, NEW D, D = 1 .. n, NEW e \in D
  PROVE  e \in Nat /\ \A x \in 1 .. e : x \in D /\ x \in Nat /\ (x # e => x < e)
  OBVIOUS

LEMMA Later ==
  ASSUME NEW n \in Nat, NEW new, new = n + 1
  PROVE  /\ 1 .. new = (1 .. n) \cup {new} /\ new \notin 1 .. n
         /\ \A a \in Nat : a <= n => a <= new /\ ~(new <= a)
  OBVIOUS

\* What is at most n is not among the m numbers that follow.
LEMMA NotAmongNext ==
  ASSUME NEW n \in Nat, NEW m \in Nat, NEW a \in Nat, a <= n
  PROVE  /\ a <= n + m /\ a \notin n + 1 .. n + m
         /\ \A e \in n + 1 .. n + m : ~(e <= a)
         /\ \A x \in 1 .. n + m : x \notin n + 1 .. n + m => x \in 1 .. n
  OBVIOUS

\* An element leads as before to all that stay in the table.
WaysKept(last, new) ==
  \A x \in DOMAIN elems, e \in Linked : e \in Linked' /\ Leads(last, x, e) => Leads(new, x, e)'

\* The next element on the way, wherever the search is.
LEMMA NextLeads ==
  ASSUME DataInv, NEW last \in [Nat -> Nat], Paths(last), NEW e \in Linked, NEW x, x # e,
         Leads(last, x, e), elems[x].status \notin {"cut", "deleted"}
  PROVE  GetNext(x) # Nil /\ Leads(last, GetNext(x), e)
<1>0. DataTypes /\ Placed  BY DEF DataInv
<1>1. x \in DOMAIN elems /\ e \in Nat /\ x \in Nat /\ x < e /\ e \in DOMAIN elems
  <2>1. e \in 1 .. Len(elems) /\ Len(elems) \in Nat /\ DOMAIN elems = 1 .. Len(elems)
    BY <1>0, LinkedAre DEF DataTypes
  <2>2. x \in 1 .. e  BY DEF Leads
  <2>3. e \in DOMAIN elems  BY <2>1
  <2>4. QED  BY <2>1, <2>2, <2>3, Within
<1>2. CASE elems[x].status = "in"
  <2>1. x \in Linked  BY <1>0, <1>1, <1>2, LinkedAre
  <2>2. GetNext(x) = Successor(x)  BY <1>2 DEF GetNext
  <2>3. /\ Successor(x) # Nil /\ Successor(x) <= e /\ Successor(x) \in Linked /\ Successor(x) > x
        /\ Successor(x) \in Nat
        /\ Bucket[size][elems[Successor(x)].key] = Bucket[size][elems[x].key]
    BY <1>0, <1>1, <2>1, SuccessorIs DEF Leads
  <2>4. elems[Successor(x)].status = "in"  BY <1>0, <2>3, LinkedAre
  <2>5. Successor(x) \in 1 .. e  BY <1>1, <2>3
  <2>6. QED  BY <2>2, <2>3, <2>4, <2>5 DEF Leads, Removed
<1>3. CASE elems[x].status # "in"
  <2>1. elems[x].status \in {"unlinked", "out"}  BY <1>0, <1>1, <1>3 DEF DataTypes, ElemType, Statuses
  <2>2. GetNext(x) = Onward(x) /\ Removed(x)  BY <2>1 DEF GetNext, Onward, Removed
  <2>3. QED  BY <1>1, <2>2, Sized DEF Paths, PathInv
<1>4. QED  BY <1>2, <1>3

LEMMA WaysInsert ==
  ASSUME DataInv, NEW k \in Keys, k \notin Stored, AddElem(k), size' = size,
         NEW last \in [Nat -> Nat], Paths(last)
  PROVE  Paths(last)' /\ WaysKept(last, last)
<1>0. DataTypes /\ Placed  BY DEF DataInv
<1>00. PICK new \in Nat : new = Len(elems) + 1  BY <1>0 DEF DataTypes
<1>1. /\ Len(elems') = new /\ elems'[new] = NewElem(k) /\ Linked' = Linked \cup {new}
      /\ \A x \in DOMAIN elems : elems'[x] = elems[x]
      /\ DataInv'
  BY <1>00, Adds
<1>2. /\ Len(elems) \in Nat /\ DOMAIN elems = 1 .. Len(elems) /\ DOMAIN elems' = DOMAIN elems \cup {new}
      /\ Linked \subseteq DOMAIN elems /\ new \notin DOMAIN elems
  <2>1. Len(elems) \in Nat /\ DOMAIN elems = 1 .. Len(elems) /\ Linked \subseteq DOMAIN elems
    BY <1>0, LinkedAre DEF DataTypes
  <2>2. DOMAIN elems' = 1 .. new  BY <1>1 DEF DataInv, DataTypes
  <2>3. 1 .. new = (1 .. Len(elems)) \cup {new} /\ new \notin 1 .. Len(elems)
    BY <1>00, <2>1, Later
  <2>4. QED  BY <2>1, <2>2, <2>3
<1>3. ASSUME NEW x \in DOMAIN elems
      PROVE  (Removed(x)' <=> Removed(x)) /\ Onward(x)' = Onward(x)
  BY <1>1 DEF Removed, Onward
<1>4. ~Removed(new)'  BY <1>1 DEF Removed, NewElem
<1>5. ASSUME NEW x \in DOMAIN elems, NEW e \in Linked
      PROVE  Leads(last, x, e)' <=> Leads(last, x, e)
  <2>1. elems'[x] = elems[x] /\ elems'[e] = elems[e]  BY <1>1, <1>2
  <2>2. QED  BY <1>3, <2>1 DEF Leads
<1>6. LastType(last)'
  <2> SUFFICES ASSUME NEW x \in DOMAIN elems', Removed(x)' PROVE last[x] <= Len(elems')
    BY DEF LastType
  <2>1. x \in DOMAIN elems /\ Removed(x)  BY <1>2, <1>3, <1>4
  <2>2. last[x] <= Len(elems) /\ last[x] \in Nat  BY <1>2, <2>1 DEF Paths, LastType
  <2>3. QED  BY <1>00, <1>1, <1>2, <2>2, Later
<1>7. PathInv(last)'
  <2> SUFFICES ASSUME NEW x \in DOMAIN elems', NEW e \in Linked',
                      Removed(x)', x # e, Leads(last, x, e)'
               PROVE  \E y \in 1 .. e : Onward(x)' = y /\ Leads(last, y, e)'
    BY DEF PathInv
  <2>1. x \in DOMAIN elems /\ Removed(x)  BY <1>2, <1>3, <1>4
  <2>2. last[x] <= Len(elems) /\ last[x] \in Nat  BY <1>2, <2>1 DEF Paths, LastType
  <2>3. e # new
    <3>1. e <= last[x]  BY DEF Leads
    <3>2. QED  BY <1>00, <1>2, <2>2, <3>1, Later
  <2>4. e \in Linked  BY <1>1, <2>3
  <2>5. PICK y \in 1 .. e : Onward(x) = y /\ Leads(last, y, e)
    BY <1>5, <2>1, <2>4 DEF Paths, PathInv
  <2>6. y \in DOMAIN elems
    <3>1. e \in DOMAIN elems  BY <1>2, <2>4
    <3>2. QED  BY <1>2, <3>1, Within
  <2>7. QED  BY <1>3, <1>5, <2>1, <2>4, <2>5, <2>6
<1>8. QED  BY <1>5, <1>6, <1>7 DEF Paths, WaysKept

\* Elements leave the table or change their state, and who was removed goes on to the same.
LEMMA WaysShrink ==
  ASSUME DataInv, NEW last \in [Nat -> Nat], Paths(last), size' = size,
         DOMAIN elems' = DOMAIN elems, Len(elems') = Len(elems), Linked' \subseteq Linked,
         \A x \in DOMAIN elems :
           /\ elems'[x].key = elems[x].key
           /\ Removed(x)' => Removed(x) /\ (Onward(x) # Nil => Onward(x)' = Onward(x))
  PROVE  Paths(last)' /\ WaysKept(last, last)
<1>1. /\ Len(elems) \in Nat /\ DOMAIN elems = 1 .. Len(elems) /\ Linked \subseteq DOMAIN elems
  BY LinkedAre DEF DataInv, DataTypes
<1>2. ASSUME NEW x \in DOMAIN elems, NEW e \in Linked, Leads(last, x, e)
      PROVE  Leads(last, x, e)'
  BY <1>1, <1>2 DEF Leads
<1>3. LastType(last)'  BY DEF Paths, LastType
<1>4. PathInv(last)'
  <2> SUFFICES ASSUME NEW x \in DOMAIN elems, NEW e \in Linked', Removed(x)', x # e, Leads(last, x, e)'
               PROVE  \E y \in 1 .. e : Onward(x)' = y /\ Leads(last, y, e)'
    BY DEF PathInv
  <2>1. Removed(x) /\ e \in Linked  OBVIOUS
  <2>2. Leads(last, x, e)
    <3>1. elems'[x].key = elems[x].key /\ elems'[e].key = elems[e].key  BY <1>1, <2>1
    <3>2. QED  BY <3>1 DEF Leads
  <2>3. PICK y \in 1 .. e : Onward(x) = y /\ Leads(last, y, e)
    BY <2>1, <2>2 DEF Paths, PathInv
  <2>4. y \in DOMAIN elems /\ y # Nil
    <3>1. e \in DOMAIN elems  BY <1>1, <2>1
    <3>2. QED  BY <1>1, <3>1, Within, Sized
  <2>5. Onward(x)' = Onward(x)  BY <2>3, <2>4
  <2>6. QED  BY <1>2, <2>1, <2>3, <2>4, <2>5
<1>5. QED  BY <1>2, <1>3, <1>4 DEF Paths, WaysKept

\* An element is taken out: all that are behind it now are still reached from it.
LEMMA WaysUnlink ==
  ASSUME DataInv, size' = size, NEW z \in Linked, Takes(z), NEW last \in [Nat -> Nat], Paths(last)
  PROVE  \E new \in [Nat -> Nat] : Paths(new)' /\ WaysKept(last, new)
<1>0. DataTypes /\ Placed  BY DEF DataInv
<1>1. /\ Len(elems) \in Nat /\ DOMAIN elems = 1 .. Len(elems) /\ Linked \subseteq DOMAIN elems
      /\ z \in Nat
  <2>1. Len(elems) \in Nat /\ DOMAIN elems = 1 .. Len(elems) /\ Linked \subseteq DOMAIN elems
    BY <1>0, LinkedAre DEF DataTypes
  <2>2. QED  BY <2>1, Within
<1>2. /\ DOMAIN elems' = DOMAIN elems /\ Len(elems') = Len(elems) /\ Linked' = Linked \ {z}
      /\ \A d \in DOMAIN elems : elems'[d].key = elems[d].key
      /\ elems'[z].status = "unlinked" /\ elems'[z].next = Successor(z)
      /\ \A d \in DOMAIN elems \ {z} : elems'[d].status = elems[d].status
      /\ \A d \in DOMAIN elems \ Linked : elems'[d] = elems[d]
  BY TakesOut
<1>3. PICK new \in [Nat -> Nat] : new[z] = Len(elems) /\ \A x \in Nat \ {z} : new[x] = last[x]
  <2>1. [last EXCEPT ![z] = Len(elems)] \in [Nat -> Nat]  BY <1>1
  <2>2. QED  BY <1>1, <2>1
<1>4. Removed(z)' /\ Onward(z)' = Successor(z) /\ \A x \in DOMAIN elems \ {z} : Removed(x)' <=> Removed(x)
  BY <1>2 DEF Removed, Onward
<1>5. ASSUME NEW x \in DOMAIN elems \ {z}, Removed(x)
      PROVE  x \notin Linked /\ Onward(x)' = Onward(x)
  <2>1. x \notin Linked  BY <1>0, <1>5, LinkedAre DEF Removed
  <2>2. QED  BY <1>2, <2>1 DEF Onward
<1>6. ASSUME NEW x \in DOMAIN elems, NEW e \in Linked, Leads(last, x, e)
      PROVE  Leads(new, x, e)'
  <2>1. /\ x \in 1 .. e /\ e \in DOMAIN elems
        /\ Bucket[size'][elems'[x].key] = Bucket[size'][elems'[e].key]
    BY <1>1, <1>2, <1>6 DEF Leads
  <2>2. CASE x = z
    <3>1. e <= new[x]  BY <1>1, <1>3, <2>1, <2>2
    <3>2. QED  BY <2>1, <3>1 DEF Leads
  <2>3. CASE x # z
    <3>1. x \in Nat  BY <1>1
    <3>2. Removed(x)' => e <= new[x]  BY <1>3, <1>4, <1>6, <2>3, <3>1 DEF Leads
    <3>3. QED  BY <2>1, <3>2 DEF Leads
  <2>4. QED  BY <2>2, <2>3
<1>7. LastType(new)'
  <2> SUFFICES ASSUME NEW x \in DOMAIN elems, Removed(x)' PROVE new[x] <= Len(elems)
    BY <1>2 DEF LastType
  <2>1. CASE x = z  BY <1>1, <1>3, <2>1
  <2>2. CASE x # z
    <3>1. new[x] = last[x] /\ Removed(x)  BY <1>1, <1>3, <1>4, <2>2
    <3>2. QED  BY <3>1 DEF Paths, LastType
  <2>3. QED  BY <2>1, <2>2
<1>8. PathInv(new)'
  <2> SUFFICES ASSUME NEW x \in DOMAIN elems, NEW e \in Linked \ {z},
                      Removed(x)', x # e, Leads(new, x, e)'
               PROVE  \E y \in 1 .. e : Onward(x)' = y /\ Leads(new, y, e)'
    BY <1>2 DEF PathInv
  <2>1. /\ x \in 1 .. e /\ e \in Nat /\ e \in DOMAIN elems /\ elems'[e].key = elems[e].key
        /\ elems'[x].key = elems[x].key
        /\ Bucket[size][elems[x].key] = Bucket[size][elems[e].key]
    <3>1. x \in 1 .. e /\ Bucket[size'][elems'[x].key] = Bucket[size'][elems'[e].key]  BY DEF Leads
    <3>2. e \in DOMAIN elems /\ e \in Nat  BY <1>1, Within
    <3>3. elems'[e].key = elems[e].key /\ elems'[x].key = elems[x].key  BY <1>2, <3>2
    <3>4. QED  BY <3>1, <3>2, <3>3
  <2>2. CASE x = z
    <3>1. PICK s \in Nat : s = Successor(z)
      BY <1>0, <2>1, <2>2, SuccessorIs
    <3>2. /\ s <= e /\ s \in Linked /\ s > z
          /\ Bucket[size][elems[s].key] = Bucket[size][elems[z].key]
      BY <1>0, <2>1, <2>2, <3>1, SuccessorIs, Sized
    <3>3. elems[s].status = "in" /\ s \in DOMAIN elems  BY <1>0, <3>2, LinkedAre
    <3>4. s \in 1 .. e  BY <1>1, <2>1, <3>2
    <3>5. Leads(last, s, e)  BY <2>1, <2>2, <3>2, <3>3, <3>4 DEF Leads, Removed
    <3>6. Leads(new, s, e)'  BY <1>6, <3>3, <3>5
    <3>7. Onward(x)' = s  BY <1>4, <2>2, <3>1
    <3>8. QED  BY <3>4, <3>6, <3>7
  <2>3. CASE x # z
    <3>1. Removed(x) /\ Onward(x)' = Onward(x) /\ new[x] = last[x]  BY <1>1, <1>3, <1>4, <1>5, <2>3
    <3>2. Leads(last, x, e)
      <4>1. e <= new[x]  BY DEF Leads
      <4>2. QED  BY <2>1, <3>1, <4>1 DEF Leads
    <3>3. PICK y \in 1 .. e : Onward(x) = y /\ Leads(last, y, e)
      BY <3>1, <3>2 DEF Paths, PathInv
    <3>4. y \in DOMAIN elems  BY <1>1, <2>1
    <3>5. QED  BY <1>6, <3>1, <3>3, <3>4
  <2>4. QED  BY <2>2, <2>3
<1>9. QED  BY <1>3, <1>6, <1>7, <1>8 DEF Paths, WaysKept

\* Nothing leads from the old table to the new one.
LEMMA WaysRebuild ==
  ASSUME DataInv, NEW target \in Sizes, NEW n \in 0 .. Cardinality(Linked), Rebuild(target, n),
         NEW last \in [Nat -> Nat], Paths(last)
  PROVE  \E new \in [Nat -> Nat] : Paths(new)'
<1>0. DataTypes /\ Placed  BY DEF DataInv
<1>1. /\ Len(elems) \in Nat /\ n \in Nat /\ DOMAIN elems = 1 .. Len(elems) /\ Linked \subseteq DOMAIN elems
  BY <1>0, LinkedAre DEF DataTypes
<1>2. /\ DataInv' /\ Len(elems') = Len(elems) + n /\ Linked' = Len(elems) + 1 .. Len(elems) + n
      /\ \A e \in DOMAIN elems \ Linked : elems'[e] = elems[e]
  BY Rebuilds
<1>3. PICK new \in [Nat -> Nat] : \A x \in Nat : new[x] = IF x \in Linked THEN 0 ELSE last[x]
  <2>1. [x \in Nat |-> IF x \in Linked THEN 0 ELSE last[x]] \in [Nat -> Nat]  OBVIOUS
  <2>2. QED  BY <2>1
<1>4. ASSUME NEW x \in DOMAIN elems', Removed(x)'
      PROVE  x \in DOMAIN elems /\ new[x] \in Nat /\ new[x] <= Len(elems)
  <2>1. Linked' = {e \in DOMAIN elems' : elems'[e].status = "in"}  BY <1>2, LinkedThen DEF DataInv
  <2>2. x \notin Linked'  BY <1>4, <2>1 DEF Removed
  <2>3. DOMAIN elems' = 1 .. Len(elems) + n  BY <1>2 DEF DataInv, DataTypes
  <2>4. x \in DOMAIN elems
    <3>1. x \in 1 .. Len(elems) + n /\ x \notin Len(elems) + 1 .. Len(elems) + n  BY <1>2, <1>4, <2>2, <2>3
    <3>2. QED  BY <1>1, <3>1
  <2>5. x \in Nat  BY <1>1, <2>4
  <2>6. CASE x \in Linked  BY <1>1, <1>3, <2>4, <2>5, <2>6
  <2>7. CASE x \notin Linked
    <3>1. Removed(x)  BY <1>2, <1>4, <2>4, <2>7 DEF Removed
    <3>2. last[x] <= Len(elems)  BY <2>4, <3>1 DEF Paths, LastType
    <3>3. QED  BY <1>3, <2>4, <2>5, <2>7, <3>2
  <2>8. QED  BY <2>6, <2>7
<1>5. LastType(new)'
  <2> SUFFICES ASSUME NEW x \in DOMAIN elems', Removed(x)' PROVE new[x] <= Len(elems')
    BY DEF LastType
  <2>1. new[x] \in Nat /\ new[x] <= Len(elems)  BY <1>4
  <2>2. new[x] <= Len(elems) + n  BY <1>1, <2>1, NotAmongNext
  <2>3. QED  BY <1>2, <2>2
<1>6. PathInv(new)'
  <2> SUFFICES ASSUME NEW x \in DOMAIN elems', NEW e \in Linked', Removed(x)', Leads(new, x, e)'
               PROVE  FALSE
    BY DEF PathInv
  <2>1. new[x] \in Nat /\ new[x] <= Len(elems)  BY <1>4
  <2>2. e <= new[x]  BY DEF Leads
  <2>3. e \in Len(elems) + 1 .. Len(elems) + n  BY <1>2
  <2>4. QED  BY <1>1, <2>1, <2>2, <2>3, NotAmongNext
<1>7. QED  BY <1>3, <1>5, <1>6 DEF Paths

-----------------------------------------------------------------------------
(* The searches keep their invariant *)

\* What has to be shown of a step of t: that the ways are kept, that t itself is still on
\* its way, and that the key of nobody else's sure search has gone.
LEMMA WaysStay ==
  ASSUME DataInv, NEW t \in Threads, Elsewhere(t), size' = size, HistoryTypes',
         NEW last \in [Nat -> Nat], NEW new \in [Nat -> Nat], Paths(new)', WaysKept(last, new),
         \A u \in Threads : Sure(u) => OnTheWay(last, u),
         \A x \in DOMAIN elems : elems'[x].key = elems[x].key,
         \A e \in Linked' \ Linked : elems'[e].key \notin Stored,
         \A u \in Threads \ {t} : Sure(u)' => Sure(u) /\ key[u] \in Stored',
         Sure(t)' => OnTheWay(new, t)'
  PROVE  SearchInv'
<1>1. /\ Len(elems) \in Nat /\ DOMAIN elems = 1 .. Len(elems) /\ Linked \subseteq DOMAIN elems
  BY LinkedAre DEF DataInv, DataTypes
<1>2. ASSUME NEW u \in Threads \ {t}, Sure(u)'
      PROVE  OnTheWay(new, u)'
  <2>1. Sure(u) /\ OnTheWay(last, u) /\ key[u] \in Stored'  BY <1>2
  <2>2. pc'[u] = pc[u] /\ key'[u] = key[u] /\ cur'[u] = cur[u]  BY DEF Elsewhere
  <2>3. pc'[u] = "head" => cur'[u] = Bucket[size'][key'[u]]  BY <2>1, <2>2 DEF OnTheWay
  <2>4. ASSUME pc'[u] = "walk"
        PROVE  /\ cur'[u] # Nil
               /\ \A e \in Linked' : elems'[e].key = key'[u] => Leads(new, cur[u], e)'
    <3>1. PICK x : x = cur[u]  OBVIOUS
    <3>2. x # Nil /\ \A e \in Linked : elems[e].key = key[u] => Leads(last, x, e)
      BY <2>1, <2>2, <2>4, <3>1 DEF OnTheWay
    <3>3. ASSUME NEW e \in Linked', elems'[e].key = key[u]
          PROVE  Leads(new, x, e)'
      <4>1. key[u] \in Stored  BY <2>1 DEF OnTheWay
      <4>2. e \in Linked  BY <3>3, <4>1
      <4>3. e \in DOMAIN elems /\ elems[e].key = key[u]  BY <1>1, <3>3, <4>2
      <4>4. Leads(last, x, e)  BY <3>2, <4>2, <4>3
      <4>5. x \in DOMAIN elems
        <5>1. x \in 1 .. e  BY <4>4 DEF Leads
        <5>2. QED  BY <1>1, <4>3, <5>1, Within
      <4>6. QED  BY <3>3, <4>2, <4>4, <4>5 DEF WaysKept
    <3>4. x = cur'[u]  BY <2>2, <3>1
    <3>5. QED  BY <2>2, <3>2, <3>3, <3>4
  <2>5. QED  BY <2>1, <2>2, <2>3, <2>4 DEF OnTheWay
<1>3. QED  BY <1>2 DEF SearchInv

LEMMA WaysSame ==
  ASSUME UNCHANGED data, NEW last \in [Nat -> Nat], Paths(last)
  PROVE  Paths(last)' /\ WaysKept(last, last)
<1>1. size' = size /\ elems' = elems /\ chain' = chain /\ Linked' = Linked
  BY DEF data, Linked, Places
<1>2. \A x, e : Leads(last, x, e)' <=> Leads(last, x, e)  BY <1>1 DEF Leads, Removed
<1>3. Paths(last)'
  BY <1>1, <1>2 DEF Paths, LastType, PathInv, Removed, Onward
<1>4. QED  BY <1>2, <1>3 DEF WaysKept

\* Steps that leave the table as it is, and the history of the others.
LEMMA WaysQuiet ==
  ASSUME DataInv, SearchInv, NEW t \in Threads, Elsewhere(t), UNCHANGED data, HistoryTypes',
         \A u \in Threads \ {t} : overtaken'[u] = overtaken[u] /\ steady'[u] = steady[u],
         \A last \in [Nat -> Nat] :
           Paths(last) /\ (Sure(t) => OnTheWay(last, t)) /\ Sure(t)' => OnTheWay(last, t)'
  PROVE  SearchInv'
<1>1. PICK last \in [Nat -> Nat] : Paths(last) /\ \A u \in Threads : Sure(u) => OnTheWay(last, u)
  BY DEF SearchInv
<1>2. size' = size /\ elems' = elems /\ chain' = chain /\ Linked' = Linked /\ Stored' = Stored
  BY DEF data, Linked, Stored, Places
<1>3. Paths(last)' /\ WaysKept(last, last)  BY <1>1, WaysSame
<1>4. \A u \in Threads \ {t} : Sure(u)' => Sure(u) /\ key[u] \in Stored'
  BY <1>1, <1>2 DEF Sure, Elsewhere, OnTheWay
<1>5. QED  BY <1>1, <1>2, <1>3, <1>4, WaysStay

LEMMA SearchBegins ==
  ASSUME DataInv, SearchInv, NEW t \in Threads, Elsewhere(t), UNCHANGED data,
         pc'[t] = "index",
         overtaken' = [overtaken EXCEPT ![t] = FALSE],
         steady' = [steady EXCEPT ![t] = In(key'[t], Stored)]
  PROVE  SearchInv'
<1>1. HistoryTypes /\ HistoryTypes'  BY DEF SearchInv, HistoryTypes, In
<1>2. Stored' = Stored  BY DEF data, Linked, Stored, Places
<1>3. Sure(t)' => key'[t] \in Stored'  BY <1>1, <1>2 DEF Sure, HistoryTypes, In
<1>4. \A last : Sure(t)' => OnTheWay(last, t)'  BY <1>3 DEF OnTheWay
<1>5. \A u \in Threads \ {t} : overtaken'[u] = overtaken[u] /\ steady'[u] = steady[u]
  BY <1>1 DEF HistoryTypes
<1>6. QED  BY <1>1, <1>4, <1>5, WaysQuiet

\* A step that does not belong to a search.
LEMMA SearchApart ==
  ASSUME DataInv, SearchInv, NEW t \in Threads, Elsewhere(t), UNCHANGED data, UNCHANGED history,
         pc'[t] \notin SearchSteps
  PROVE  SearchInv'
<1>1. HistoryTypes'  BY DEF SearchInv, HistoryTypes, history
<1>2. ~Sure(t)'  BY DEF Sure
<1>3. \A u \in Threads \ {t} : overtaken'[u] = overtaken[u] /\ steady'[u] = steady[u]
  BY DEF history
<1>4. QED  BY <1>1, <1>2, <1>3, WaysQuiet

LEMMA SearchIndex ==
  ASSUME GateInv, TableInv, SearchInv, NEW t \in Threads, Index(t)
  PROVE  SearchInv'
<1>1. /\ Elsewhere(t) /\ UNCHANGED data /\ UNCHANGED history /\ DataInv /\ HistoryTypes'
  BY PlainSearches DEF Plain, Index, TableInv, SearchInv, HistoryTypes, history
<1>2. pc \in [Threads -> Labels] /\ DOMAIN cur = Threads
  BY DEF GateInv, GateTypes, TableInv, LocalTypes
<1>3. /\ pc[t] = "index" /\ pc'[t] = "head" /\ key' = key /\ cur'[t] = Bucket[size][key[t]]
  BY <1>2 DEF Index, Goto
<1>4. size' = size /\ Stored' = Stored /\ overtaken' = overtaken /\ steady' = steady
  BY <1>1 DEF data, history, Linked, Stored, Places
<1>5. ASSUME NEW last \in [Nat -> Nat], Sure(t) => OnTheWay(last, t), Sure(t)'
      PROVE  OnTheWay(last, t)'
  BY <1>3, <1>4, <1>5 DEF Sure, SearchSteps, OnTheWay
<1>6. QED  BY <1>1, <1>4, <1>5, WaysQuiet

LEMMA SearchTableGet ==
  ASSUME GateInv, TableInv, SearchInv, NEW t \in Threads, TableGet(t)
  PROVE  SearchInv'
<1>1. /\ Elsewhere(t) /\ UNCHANGED data /\ UNCHANGED history /\ DataInv /\ HistoryTypes'
      /\ DataTypes /\ Placed
  BY PlainSearches DEF Plain, TableGet, TableInv, DataInv, SearchInv, HistoryTypes, history
<1>2. pc \in [Threads -> Labels] /\ DOMAIN cur = Threads
  BY DEF GateInv, GateTypes, TableInv, LocalTypes
<1>3. /\ pc[t] = "head" /\ pc'[t] = "walk" /\ key' = key /\ cur'[t] = First(cur[t])
  BY <1>2 DEF TableGet, Goto
<1>4. /\ size' = size /\ elems' = elems /\ Linked' = Linked /\ Stored' = Stored
      /\ overtaken' = overtaken /\ steady' = steady
  BY <1>1 DEF data, history, Linked, Stored, Places
<1>5. ASSUME NEW last \in [Nat -> Nat], Sure(t) => OnTheWay(last, t), Sure(t)'
      PROVE  OnTheWay(last, t)'
  <2>1. OnTheWay(last, t)  BY <1>3, <1>4, <1>5 DEF Sure, SearchSteps
  <2>2. key[t] \in Stored /\ cur[t] = Bucket[size][key[t]]  BY <1>3, <2>1 DEF OnTheWay
  <2>3. PICK x : x = First(Bucket[size][key[t]])  OBVIOUS
  <2>4. ASSUME NEW e \in Linked, elems[e].key = key[t]
        PROVE  x # Nil /\ Leads(last, x, e)
    <3> DEFINE p == Bucket[size][key[t]]
    <3>1. e \in DOMAIN elems /\ elems[e].status = "in" /\ p \in Places  BY <1>1, <2>4, LinkedAre
    <3>2. e \in chain[p] /\ chain[p] \subseteq Nat /\ chain[p] \subseteq Linked
      BY <1>1, <2>4, <3>1, ChainNumbers, LinkedAre DEF Placed
    <3>3. x \in chain[p] /\ x <= e /\ x # Nil
      BY <2>3, <3>2, FirstIs DEF First
    <3>4. x \in DOMAIN elems /\ elems[x].status = "in" /\ Bucket[size][elems[x].key] = p
      BY <1>1, <3>1, <3>2, <3>3, LinkedAre DEF Placed
    <3>5. x \in 1 .. e
      <4>1. x \in 1 .. Len(elems)  BY <1>1, <3>4 DEF DataTypes
      <4>2. x \in Nat /\ x >= 1 /\ e \in Nat  BY <3>2, <3>3, <4>1
      <4>3. QED  BY <3>3, <4>2
    <3>6. QED  BY <2>4, <3>3, <3>4, <3>5 DEF Leads, Removed
  <2>5. x # Nil  BY <2>2, <2>4 DEF Stored
  <2>6. cur'[t] = x  BY <1>3, <2>2, <2>3
  <2>7. \A e \in Linked' : elems'[e].key = key'[t] => Leads(last, x, e)'
    BY <1>3, <1>4, <2>4 DEF Leads, Removed
  <2>8. QED  BY <1>3, <1>4, <2>2, <2>5, <2>6, <2>7 DEF OnTheWay
<1>6. QED  BY <1>1, <1>4, <1>5, WaysQuiet

LEMMA SearchWalk ==
  ASSUME GateInv, TableInv, SearchInv, NEW t \in Threads, Walk(t)
  PROVE  SearchInv'
<1>1. /\ Elsewhere(t) /\ UNCHANGED data /\ DataInv /\ HistoryTypes
  BY PlainSearches DEF Plain, TableInv, SearchInv
<1>2. pc \in [Threads -> Labels] /\ DOMAIN cur = Threads
  BY DEF GateInv, GateTypes, TableInv, LocalTypes
<1>3. /\ pc[t] = "walk" /\ key' = key /\ steady' = steady
      /\ overtaken' = [overtaken EXCEPT ![t] =
                         overtaken[t] \/ (cur[t] # Nil /\ elems[cur[t]].status \in {"cut", "deleted"})]
      /\ \/ pc'[t] \in {"idle", "gate", "size"}
         \/ pc'[t] = "walk" /\ cur[t] # Nil /\ elems[cur[t]].key # key[t] /\ cur'[t] = GetNext(cur[t])
  <2>1. /\ pc[t] = "walk" /\ key' = key /\ steady' = steady
        /\ overtaken' = [overtaken EXCEPT ![t] =
                           overtaken[t] \/ (cur[t] # Nil /\ elems[cur[t]].status \in {"cut", "deleted"})]
    BY DEF Walk
  <2>2. \/ \E e : Goto(t, IF op[t] = "get" THEN "idle" ELSE IF e = Nil THEN "gate" ELSE "size")
        \/ /\ UNCHANGED pc /\ cur[t] # Nil /\ elems[cur[t]].key # key[t]
           /\ cur' = [cur EXCEPT ![t] = GetNext(cur[t])]
    BY DEF Walk
  <2>3. QED  BY <1>2, <2>1, <2>2 DEF Goto
<1>4. /\ size' = size /\ elems' = elems /\ Linked' = Linked /\ Stored' = Stored
  BY <1>1 DEF data, Linked, Stored, Places
<1>5. HistoryTypes' /\ \A u \in Threads \ {t} : overtaken'[u] = overtaken[u] /\ steady'[u] = steady[u]
  BY <1>1, <1>3 DEF HistoryTypes
<1>6. ASSUME NEW last \in [Nat -> Nat], Paths(last), Sure(t) => OnTheWay(last, t), Sure(t)'
      PROVE  OnTheWay(last, t)'
  <2>1. pc'[t] = "walk"  BY <1>3, <1>6 DEF Sure, SearchSteps
  <2>2. ~overtaken'[t] /\ steady'[t] = "in"  BY <1>6 DEF Sure
  <2>3. ~overtaken[t] /\ ~(cur[t] # Nil /\ elems[cur[t]].status \in {"cut", "deleted"})
    <3>1. DOMAIN overtaken = Threads  BY <1>1 DEF HistoryTypes
    <3>2. overtaken'[t] = (overtaken[t] \/ (cur[t] # Nil /\ elems[cur[t]].status \in {"cut", "deleted"}))
      BY <1>3, <3>1, Zenon
    <3>3. QED  BY <2>2, <3>2
  <2>4. OnTheWay(last, t)  BY <1>3, <1>6, <2>2, <2>3 DEF Sure, SearchSteps
  <2>5. PICK x : x = cur[t]  OBVIOUS
  <2>6. PICK y : y = GetNext(x)  OBVIOUS
  <2>7. x # Nil /\ elems[x].key # key[t] /\ elems[x].status \notin {"cut", "deleted"} /\ cur'[t] = y
    BY <1>3, <2>1, <2>3, <2>5, <2>6
  <2>8. ASSUME NEW e \in Linked, elems[e].key = key[t]
        PROVE  y # Nil /\ Leads(last, y, e)
    <3>1. Leads(last, x, e)  BY <1>3, <2>4, <2>5, <2>8 DEF OnTheWay
    <3>2. x # e  BY <2>7, <2>8
    <3>3. QED  BY <1>1, <1>6, <2>6, <2>7, <3>1, <3>2, NextLeads
  <2>9. key[t] \in Stored  BY <2>4 DEF OnTheWay
  <2>10. y # Nil  BY <2>8, <2>9 DEF Stored
  <2>11. \A e \in Linked' : elems'[e].key = key'[t] => Leads(last, y, e)'
    BY <1>3, <1>4, <2>8 DEF Leads, Removed
  <2>12. QED  BY <1>3, <1>4, <2>1, <2>7, <2>9, <2>10, <2>11 DEF OnTheWay
<1>7. QED  BY <1>1, <1>5, <1>6, WaysQuiet

-----------------------------------------------------------------------------
(* The changes under their eyes *)

\* A search is still for a key that was there all the time only if the key stays.
LEMMA WatchedStays ==
  ASSUME HistoryTypes, NEW stored, Watch(stored)
  PROVE  /\ steady' \in [Threads -> {"in", "out", "no"}]
         /\ \A u \in Threads : pc[u] \in SearchSteps /\ steady'[u] = "in" =>
              steady[u] = "in" /\ key[u] \in stored
<1>1. ASSUME NEW u \in Threads
      PROVE  /\ steady'[u] \in {"in", "out", "no"}
             /\ pc[u] \in SearchSteps /\ steady'[u] = "in" => steady[u] = "in" /\ key[u] \in stored
  <2>1. steady'[u] = IF u \in Searching /\ steady[u] # In(key[u], stored) THEN "no" ELSE steady[u]
    BY DEF Watch
  <2>2. u \in Searching <=> pc[u] \in SearchSteps  BY DEF Searching, SearchSteps
  <2>3. QED  BY <2>1, <2>2 DEF HistoryTypes, In
<1>2. DOMAIN steady' = Threads /\ steady' = [u \in DOMAIN steady' |-> steady'[u]]  BY DEF Watch
<1>3. QED  BY <1>1, <1>2

LEMMA SearchInsert ==
  ASSUME GateInv, TableInv, SearchInv, NEW t \in Threads, Insert(t)
  PROVE  SearchInv'
<1>0. /\ pc \in [Threads -> Labels] /\ LocalTypes /\ LocalInv(t) /\ DataInv /\ HistoryTypes
      /\ DataTypes /\ Placed
  BY DEF GateInv, GateTypes, TableInv, DataInv, SearchInv
<1>1. /\ pc[t] = "insert" /\ pc'[t] = "inserted" /\ key[t] \in Keys /\ size' = size
      /\ UNCHANGED <<op, key, cur, overtaken>> /\ Elsewhere(t)
  BY <1>0 DEF Insert, Goto, LocalInv, KeyKnown, data, Elsewhere, LocalTypes
<1>2. CASE key[t] \in Stored
  BY <1>0, <1>1, <1>2, SearchApart DEF Insert, history, SearchSteps
<1>3. CASE key[t] \notin Stored
  <2>1. AddElem(key[t]) /\ Watch(Stored \cup {key[t]})  BY <1>3 DEF Insert, AddElem
  <2>2. PICK k \in Keys : k = key[t]  BY <1>1
  <2>3. PICK last \in [Nat -> Nat] : Paths(last) /\ \A u \in Threads : Sure(u) => OnTheWay(last, u)
    BY DEF SearchInv
  <2>4. Paths(last)' /\ WaysKept(last, last)
    BY <1>0, <1>1, <1>3, <2>1, <2>2, <2>3, WaysInsert
  <2>5. PICK new : new = Len(elems) + 1  OBVIOUS
  <2>6. /\ \A x \in DOMAIN elems : elems'[x] = elems[x]
        /\ elems'[new] = NewElem(k) /\ Linked' = Linked \cup {new}
    BY <1>0, <1>1, <1>3, <2>1, <2>2, <2>5, Adds
  <2>7. \A e \in Linked' \ Linked : elems'[e].key \notin Stored
    BY <1>3, <2>2, <2>6 DEF NewElem
  <2>8. Stored \subseteq Stored'
    <3>1. \A e \in Linked : e \in Linked' /\ elems'[e] = elems[e]  BY <1>0, <2>6, LinkedAre
    <3>2. QED  BY <3>1 DEF Stored
  <2>9. HistoryTypes'  BY <1>0, <1>1, <2>1, WatchedStays DEF HistoryTypes
  <2>10. \A u \in Threads \ {t} : Sure(u)' => Sure(u) /\ key[u] \in Stored'
    <3>1. \A u \in Threads \ {t} : Sure(u)' => Sure(u)
      BY <1>0, <1>1, <2>1, WatchedStays DEF Sure, Elsewhere
    <3>2. QED  BY <2>3, <2>8, <3>1 DEF OnTheWay
  <2>11. ~Sure(t)'  BY <1>1 DEF Sure, SearchSteps
  <2>12. QED  BY <1>0, <1>1, <2>3, <2>4, <2>6, <2>7, <2>9, <2>10, <2>11, WaysStay
<1>4. QED  BY <1>2, <1>3

LEMMA SearchUnlink ==
  ASSUME GateInv, TableInv, SearchInv, NEW t \in Threads, Unlink(t)
  PROVE  SearchInv'
<1>0. /\ pc \in [Threads -> Labels] /\ LocalTypes /\ DataInv /\ HistoryTypes
      /\ DataTypes /\ Placed
  BY DEF GateInv, GateTypes, TableInv, DataInv, SearchInv
<1>1. PICK z \in ToRemove(t) : Takes(z) /\ cur' = [cur EXCEPT ![t] = z]
  BY DEF Unlink, Takes
<1>2. z \in Linked /\ Linked \subseteq DOMAIN elems  BY <1>0, <1>1, ToRemoveLinked, LinkedAre
<1>3. /\ pc[t] = "unlink" /\ pc' = [pc EXCEPT ![t] = "cut"] /\ size' = size
      /\ UNCHANGED <<op, key, num, todo, overtaken>>
      /\ Watch(Stored \ {elems[e].key : e \in ToRemove(t)})
  BY DEF Unlink, Goto
<1>4. Elsewhere(t) /\ pc'[t] = "cut"  BY <1>0, <1>1, <1>3 DEF Elsewhere, LocalTypes
<1>5. PICK last \in [Nat -> Nat] : Paths(last) /\ \A u \in Threads : Sure(u) => OnTheWay(last, u)
  BY DEF SearchInv
<1>6. PICK new \in [Nat -> Nat] : Paths(new)' /\ WaysKept(last, new)
  BY <1>0, <1>1, <1>2, <1>3, <1>5, WaysUnlink
<1>7. Linked' = Linked \ {z} /\ \A d \in DOMAIN elems : elems'[d].key = elems[d].key
  BY <1>0, <1>1, <1>2, <1>3, TakesOut
<1>8. HistoryTypes'  BY <1>0, <1>3, WatchedStays DEF HistoryTypes
<1>9. ASSUME NEW u \in Threads \ {t}, Sure(u)'
      PROVE  Sure(u) /\ key[u] \in Stored'
  <2>1. Sure(u) /\ key[u] \in Stored \ {elems[e].key : e \in ToRemove(t)}
    BY <1>0, <1>3, <1>4, <1>9, WatchedStays DEF Sure, Elsewhere
  <2>2. PICK e \in Linked : elems[e].key = key[u]  BY <2>1 DEF Stored
  <2>3. e # z  BY <1>1, <2>1, <2>2
  <2>4. e \in Linked' /\ elems'[e].key = key[u]  BY <1>2, <1>7, <2>2, <2>3
  <2>5. QED  BY <2>1, <2>4 DEF Stored
<1>10. ~Sure(t)'  BY <1>4 DEF Sure, SearchSteps
<1>11. QED  BY <1>0, <1>3, <1>4, <1>5, <1>6, <1>7, <1>8, <1>9, <1>10, WaysStay

LEMMA SearchSweep ==
  ASSUME GateInv, TableInv, SearchInv, NEW t \in Threads, Sweep(t)
  PROVE  SearchInv'
<1> DEFINE p == cur[t]
<1>0. /\ pc \in [Threads -> Labels] /\ LocalTypes /\ LocalInv(t) /\ DataInv /\ HistoryTypes
      /\ DataTypes /\ Placed
  BY DEF GateInv, GateTypes, TableInv, DataInv, SearchInv
<1>1. /\ pc[t] = "sweep" /\ UNCHANGED <<pc, op, key, num, todo, size, overtaken>>
      /\ Watch(Stored \ {elems[e].key : e \in chain[p]})
  BY DEF Sweep
<1>2. num[t] \in 1 .. size /\ p \in 0 .. num[t] - 1  BY <1>0, <1>1 DEF LocalInv, Sweeping
<1>3. p \in Places
  <2>1. size \in Nat  BY <1>0, LinkedAre
  <2>2. QED  BY <1>2, <2>1 DEF Places
<1>4. /\ DOMAIN elems' = DOMAIN elems /\ Len(elems') = Len(elems) /\ Linked' = Linked \ chain[p]
      /\ \A e \in DOMAIN elems : elems'[e].key = elems[e].key
      /\ \A e \in chain[p] : elems'[e].status = "deleted"
      /\ \A e \in DOMAIN elems \ chain[p] : elems'[e] = elems[e]
  BY <1>0, <1>1, <1>3, Empties DEF Sweep
<1>5. Elsewhere(t)  BY <1>0, <1>1 DEF Sweep, Elsewhere, LocalTypes
<1>6. PICK last \in [Nat -> Nat] : Paths(last) /\ \A u \in Threads : Sure(u) => OnTheWay(last, u)
  BY DEF SearchInv
<1>7. Paths(last)' /\ WaysKept(last, last)
  <2>1. ASSUME NEW x \in DOMAIN elems, Removed(x)'
        PROVE  Removed(x) /\ Onward(x)' = Onward(x)
    <3>1. x \notin chain[p]  BY <1>4, <2>1 DEF Removed
    <3>2. QED  BY <1>4, <2>1, <3>1 DEF Removed, Onward
  <2>2. Linked' \subseteq Linked  BY <1>4
  <2>3. QED  BY <1>0, <1>1, <1>4, <1>6, <2>1, <2>2, WaysShrink
<1>8. HistoryTypes'  BY <1>0, <1>1, WatchedStays DEF HistoryTypes
<1>9. ASSUME NEW u \in Threads \ {t}, Sure(u)'
      PROVE  Sure(u) /\ key[u] \in Stored'
  <2>1. Sure(u) /\ key[u] \in Stored \ {elems[e].key : e \in chain[p]}
    BY <1>0, <1>1, <1>5, <1>9, WatchedStays DEF Sure, Elsewhere
  <2>2. PICK e \in Linked : elems[e].key = key[u]  BY <2>1 DEF Stored
  <2>3. e \notin chain[p] /\ e \in DOMAIN elems  BY <1>0, <2>1, <2>2, LinkedAre
  <2>4. e \in Linked' /\ elems'[e].key = key[u]  BY <1>4, <2>2, <2>3
  <2>5. QED  BY <2>1, <2>4 DEF Stored
<1>10. ~Sure(t)'  BY <1>1 DEF Sure, SearchSteps
<1>11. QED  BY <1>0, <1>1, <1>4, <1>5, <1>6, <1>7, <1>8, <1>9, <1>10, WaysStay

LEMMA SearchCuts ==
  ASSUME GateInv, TableInv, SearchInv, NEW t \in Threads, Cut(t) \/ Tell(t) \/ Delete(t)
  PROVE  SearchInv'
<1> DEFINE x == cur[t]
<1>0. /\ pc \in [Threads -> Labels] /\ LocalTypes /\ LocalInv(t) /\ DataInv /\ HistoryTypes
      /\ DataTypes /\ Placed
  BY DEF GateInv, GateTypes, TableInv, DataInv, SearchInv
<1>1. /\ UNCHANGED <<size, chain, op, key, num, todo, cur, overtaken, steady>>
      /\ x \in DOMAIN elems /\ elems[x] \in ElemType
      /\ elems[x].status \in {"unlinked", "cut", "out"}
      /\ pc'[t] \in {"tell", "delete", "removed"} /\ Elsewhere(t)
  BY <1>0 DEF Cut, Tell, Delete, Goto, local, history, Elsewhere, LocalTypes, LocalInv, HoldsElem, DataTypes
<1>2. PICK r \in ElemType :
        /\ elems' = [elems EXCEPT ![x] = r] /\ r.key = elems[x].key
        /\ \/ r.status = "cut" /\ elems[x].status = "unlinked" /\ r.next = elems[x].next
           \/ r.status = "out" /\ elems[x].status = "cut" /\ (elems[x].next # Nil => r.old = elems[x].next)
           \/ r.status = "deleted"
  <2>1. CASE Cut(t)
    <3> DEFINE r == [elems[x] EXCEPT !.status = "cut"]
    <3>1. elems' = [elems EXCEPT ![x] = r] /\ elems[x].status = "unlinked"
      BY <1>0, <2>1 DEF Cut, LocalInv, HoldsElem
    <3>2. r \in ElemType /\ r.key = elems[x].key /\ r.status = "cut" /\ r.next = elems[x].next
      BY <1>1 DEF ElemType, Statuses
    <3> HIDE DEF r
    <3>3. QED  BY <3>1, <3>2
  <2>2. CASE Tell(t)
    <3> DEFINE r == [elems[x] EXCEPT !.status = "out",
                                 !.old = IF elems[x].next = Nil THEN elems[x].old ELSE elems[x].next]
    <3>1. elems' = [elems EXCEPT ![x] = r] /\ elems[x].status = "cut"
      BY <1>0, <2>2 DEF Tell, LocalInv, HoldsElem
    <3>2. /\ r \in ElemType /\ r.key = elems[x].key /\ r.status = "out"
          /\ elems[x].next # Nil => r.old = elems[x].next
      BY <1>1 DEF ElemType, Statuses
    <3> HIDE DEF r
    <3>3. QED  BY <3>1, <3>2
  <2>3. CASE Delete(t)
    <3> DEFINE r == [elems[x] EXCEPT !.status = "deleted"]
    <3>1. elems' = [elems EXCEPT ![x] = r]  BY <2>3 DEF Delete
    <3>2. r \in ElemType /\ r.key = elems[x].key /\ r.status = "deleted"
      BY <1>1 DEF ElemType, Statuses
    <3> HIDE DEF r
    <3>3. QED  BY <3>1, <3>2
  <2>4. QED  BY <2>1, <2>2, <2>3
<1>3. /\ DOMAIN elems' = DOMAIN elems /\ Len(elems') = Len(elems) /\ Linked' = Linked /\ Stored' = Stored
      /\ elems'[x] = r /\ \A d \in DOMAIN elems : d # x => elems'[d] = elems[d]
  <2>1. elems[x].status # "in" /\ r.status # "in"  BY <1>1, <1>2
  <2>2. QED  BY <1>0, <1>1, <1>2, <2>1, Marks
<1>4. PICK last \in [Nat -> Nat] : Paths(last) /\ \A u \in Threads : Sure(u) => OnTheWay(last, u)
  BY DEF SearchInv
<1>5. \A d \in DOMAIN elems : elems'[d].key = elems[d].key  BY <1>2, <1>3
<1>6. Paths(last)' /\ WaysKept(last, last)
  <2>1. PICK c : c = x  OBVIOUS
  <2>2. ASSUME NEW d \in DOMAIN elems, Removed(d)'
        PROVE  Removed(d) /\ (Onward(d) # Nil => Onward(d)' = Onward(d))
    <3>1. CASE d = c
      BY <1>1, <1>2, <1>3, <2>1, <2>2, <3>1 DEF Removed, Onward
    <3>2. CASE d # c
      BY <1>3, <2>1, <2>2, <3>2 DEF Removed, Onward
    <3>3. QED  BY <3>1, <3>2
  <2>3. QED  BY <1>0, <1>1, <1>3, <1>4, <1>5, <2>2, WaysShrink
<1>7. HistoryTypes'  BY <1>0, <1>1 DEF HistoryTypes
<1>8. \A u \in Threads \ {t} : Sure(u)' => Sure(u) /\ key[u] \in Stored'
  BY <1>1, <1>3, <1>4 DEF Sure, Elsewhere, OnTheWay
<1>9. ~Sure(t)'  BY <1>1 DEF Sure, SearchSteps
<1>10. QED  BY <1>0, <1>1, <1>3, <1>4, <1>5, <1>6, <1>7, <1>8, <1>9, WaysStay

LEMMA SearchGrow ==
  ASSUME GateInv, TableInv, SearchInv, NEW t \in Threads, Grow(t) \/ GrowFails(t)
  PROVE  SearchInv'
<1>0. /\ pc \in [Threads -> Labels] /\ LocalTypes /\ LocalInv(t) /\ DataInv /\ HistoryTypes
      /\ Cardinality(Linked) \in Nat
  BY LinkedAre DEF GateInv, GateTypes, TableInv, DataInv, SearchInv
<1>1. pc[t] = "grow" /\ pc'[t] \in {"grown", "idle"} /\ Elsewhere(t)
  BY <1>0 DEF Grow, GrowFails, Throw, Goto, local, Elsewhere, LocalTypes
<1>2. CASE UNCHANGED <<data, history>>
  BY <1>0, <1>1, <1>2, SearchApart DEF SearchSteps
<1>3. ASSUME NEW n \in 0 .. Cardinality(Linked), Rebuild(num[t], n)
      PROVE  SearchInv'
  <2>1. PICK target \in Sizes : target = num[t]  BY <1>0, <1>1 DEF LocalInv, SizeKnown
  <2>2. PICK last \in [Nat -> Nat] : Paths(last)  BY DEF SearchInv
  <2>3. PICK new \in [Nat -> Nat] : Paths(new)'  BY <1>0, <1>3, <2>1, <2>2, WaysRebuild
  <2>4. /\ \E stored : Watch(stored)
        /\ overtaken' = [u \in Threads |-> overtaken[u] \/ u \in Searching]
    BY <1>3 DEF Rebuild
  <2>5. HistoryTypes'  BY <1>0, <2>4, WatchedStays DEF HistoryTypes
  <2>6. ASSUME NEW u \in Threads PROVE ~Sure(u)'
    <3>1. CASE u = t  BY <1>1, <3>1 DEF Sure, SearchSteps
    <3>2. CASE u # t
      <4>1. pc'[u] = pc[u]  BY <1>1, <3>2 DEF Elsewhere
      <4>2. pc[u] \in SearchSteps => u \in Searching  BY DEF Searching, SearchSteps
      <4>3. overtaken'[u] = (overtaken[u] \/ u \in Searching)  BY <2>4, Zenon
      <4>4. QED  BY <4>1, <4>2, <4>3 DEF Sure
    <3>3. QED  BY <3>1, <3>2
  <2>7. QED  BY <2>3, <2>5, <2>6 DEF SearchInv
<1>4. UNCHANGED <<data, history>> \/ \E n \in 0 .. Cardinality(Linked) : Rebuild(num[t], n)
  <2>1. CASE Grow(t)  BY <1>0, <2>1 DEF Grow
  <2>2. CASE GrowFails(t)
    <3>1. \A n \in 0 .. Cardinality(Linked) - 1 : n \in 0 .. Cardinality(Linked)  BY <1>0
    <3>2. QED  BY <2>2, <3>1 DEF GrowFails
  <2>3. QED  BY <2>1, <2>2
<1>5. QED  BY <1>2, <1>3, <1>4

LEMMA SearchInit == Init => SearchInv
<1> SUFFICES ASSUME Init PROVE SearchInv  OBVIOUS
<1>1. TableInv  BY TableInit
<1>2. HistoryTypes  BY DEF Init, HistoryTypes
<1>3. \A t \in Threads : ~Sure(t)  BY DEF Init, Sure, SearchSteps
<1>4. \A x \in DOMAIN elems : ~Removed(x)
  <2>1. elems = [e \in 1 .. Len(InitKeys) |-> NewElem(InitKeys[e])]  BY DEF Init
  <2>2. QED  BY <2>1 DEF NewElem, Removed
<1>5. [x \in Nat |-> 0] \in [Nat -> Nat]  OBVIOUS
<1>6. \A last : Paths(last)  BY <1>4 DEF Paths, LastType, PathInv
<1>7. QED  BY <1>2, <1>3, <1>5, <1>6 DEF SearchInv

LEMMA SearchStep ==
  ASSUME GateInv, TableInv, SearchInv, NEW t \in Threads, Step(t)
  PROVE  SearchInv'
<1>0. pc \in [Threads -> Labels] /\ DataInv /\ DOMAIN op = Threads /\ DOMAIN key = Threads
  BY DEF GateInv, GateTypes, TableInv, LocalTypes
<1>1. CASE Get(t)
  <2>1. Plain(t)  BY <1>1, PlainSearches
  <2>2. QED  BY <1>0, <1>1, <2>1, SearchBegins DEF Get, Begin, Goto, Plain, local
<1>2. CASE \/ Size(t) \/ StartInsert(t) \/ InsertFails(t) \/ StopInsert(t) \/ Load(t) \/ Larger(t)
           \/ Announce(t) \/ StartGrow(t) \/ StopGrow(t)
  <2>1. Plain(t)  BY <1>2, PlainSearches
  <2>2. pc'[t] \notin SearchSteps /\ UNCHANGED history
    BY <1>0, <1>2 DEF Size, StartInsert, InsertFails, StopInsert, Load, Larger, Announce, StartGrow,
                      StopGrow, Return, Throw, Goto, SearchSteps
  <2>3. QED  BY <1>0, <2>1, <2>2, SearchApart DEF Plain
<1>3. CASE \/ StartRemove(t) \/ NotThere(t) \/ StopRemove(t) \/ TableSize(t) \/ StartClear(t)
           \/ StopClear(t) \/ Merge(t) \/ MergeLock(t) \/ MergeSize(t)
  <2>1. Plain(t)  BY <1>3, PlainOthers
  <2>2. pc'[t] \notin SearchSteps /\ UNCHANGED history
    BY <1>0, <1>3 DEF StartRemove, NotThere, StopRemove, TableSize, StartClear, StopClear, Merge,
                      MergeLock, MergeSize, Goto, SearchSteps
  <2>3. QED  BY <1>0, <2>1, <2>2, SearchApart DEF Plain
<1>4. CASE MergeNext(t)
  <2>1. Elsewhere(t) /\ UNCHANGED data  BY <1>4, PlainOthers DEF Plain
  <2>2. CASE pc' = [pc EXCEPT ![t] = "idle"] /\ UNCHANGED history
    BY <1>0, <2>1, <2>2, SearchApart DEF SearchSteps
  <2>3. ASSUME NEW k, key' = [key EXCEPT ![t] = k], pc' = [pc EXCEPT ![t] = "index"],
               overtaken' = [overtaken EXCEPT ![t] = FALSE],
               steady' = [steady EXCEPT ![t] = In(k, Stored)]
        PROVE  SearchInv'
    <3>1. k = key'[t] /\ pc'[t] = "index"  BY <1>0, <2>3
    <3>2. QED  BY <1>0, <2>1, <2>3, <3>1, SearchBegins
  <2>4. QED  BY <1>4, <2>2, <2>3 DEF MergeNext, Goto
<1>5. QED
  BY <1>1, <1>2, <1>3, <1>4, SearchIndex, SearchTableGet, SearchWalk, SearchInsert, SearchUnlink,
     SearchCuts, SearchSweep, SearchGrow DEF Step

LEMMA SearchCall ==
  ASSUME GateInv, TableInv, SearchInv, NEW t \in Threads, Call(t)
  PROVE  SearchInv'
<1>0. pc \in [Threads -> Labels] /\ DataInv /\ DOMAIN key = Threads /\ Elsewhere(t) /\ UNCHANGED data
  BY PlainCalls DEF GateInv, GateTypes, TableInv, LocalTypes, Plain
<1>1. ASSUME NEW o \in Ops \cap {"get", "add", "remKey", "delKey"}, NEW k \in Keys, CallFor(t, o, k)
      PROVE  SearchInv'
  <2>1. CASE o = "add"
    <3>1. key'[t] = k /\ pc'[t] = "index"  BY <1>0, <1>1, <2>1 DEF CallFor, Goto
    <3>2. /\ overtaken' = [overtaken EXCEPT ![t] = FALSE]
          /\ steady' = [steady EXCEPT ![t] = In(k, Stored)]
      BY <1>1, <2>1 DEF CallFor
    <3>3. QED  BY <1>0, <3>1, <3>2, SearchBegins
  <2>2. CASE o # "add"
    <3>1. pc'[t] \in {"get", "gate"}  BY <1>0, <1>1, <2>2 DEF CallFor, Goto
    <3>2. QED  BY <1>0, <1>1, <2>2, <3>1, SearchApart DEF CallFor, SearchSteps
  <2>3. QED  BY <2>1, <2>2
<1>2. ASSUME NEW o \in Ops \cap {"pop", "clear", "+="}, CallForAll(t, o)
      PROVE  SearchInv'
  <2>1. pc'[t] \in {"gate", "idle", "clear", "add all"}  BY <1>0, <1>2 DEF CallForAll, Goto
  <2>2. QED  BY <1>0, <1>2, <2>1, SearchApart DEF CallForAll, SearchSteps
<1>3. ASSUME NEW target \in Sizes, CallGrow(t, target)
      PROVE  SearchInv'
  <2>1. pc'[t] = "larger"  BY <1>0, <1>3 DEF CallGrow, Goto
  <2>2. QED  BY <1>0, <1>3, <2>1, SearchApart DEF CallGrow, SearchSteps
<1>4. QED  BY <1>1, <1>2, <1>3 DEF Call

LEMMA SearchNext == GateInv /\ TableInv /\ SearchInv /\ [Next]_vars => SearchInv'
<1> SUFFICES ASSUME GateInv, TableInv, SearchInv, [Next]_vars PROVE SearchInv'  OBVIOUS
<1>1. CASE UNCHANGED vars
  <2>1. PICK last \in [Nat -> Nat] : Paths(last) /\ \A t \in Threads : Sure(t) => OnTheWay(last, t)
    BY DEF SearchInv
  <2>2. UNCHANGED <<size, chain, elems, pc, key, cur, overtaken, steady>> /\ UNCHANGED data
    BY <1>1 DEF vars, data
  <2>3. Paths(last)'
    BY <2>1, <2>2, WaysSame
  <2>4. \A t \in Threads : Sure(t)' => OnTheWay(last, t)'
    BY <2>1, <2>2 DEF Sure, OnTheWay, Leads, Removed, Linked, Places, Stored
  <2>5. HistoryTypes'  BY <2>2 DEF SearchInv, HistoryTypes
  <2>6. QED  BY <2>3, <2>4, <2>5 DEF SearchInv
<1>2. QED  BY <1>1, SearchStep, SearchCall DEF Next

LEMMA SearchAlways == Spec => [](GateInv /\ TableInv /\ SearchInv)
  BY TableAlways, SearchInit, SearchNext, PTL DEF Spec

\* Nobody's search is over but by a step of its own.
LEMMA OwnSteps ==
  ASSUME GateInv, TableInv, NEW t \in Threads, Step(t) \/ Call(t), NEW u \in Threads,
         pc[u] = "walk", pc'[u] # "walk"
  PROVE  u = t /\ Walk(t)
<1>0. pc \in [Threads -> Labels]  BY DEF GateInv, GateTypes
<1>1. u = t
  <2>1. Plain(t) => Elsewhere(t)  BY DEF Plain
  <2>2. CASE \/ Insert(t) \/ Unlink(t) \/ Cut(t) \/ Tell(t) \/ Delete(t) \/ Sweep(t) \/ Grow(t) \/ GrowFails(t)
    BY <1>0, <2>2 DEF Insert, Unlink, Cut, Tell, Delete, Sweep, Grow, GrowFails, Throw, Goto
  <2>3. QED  BY <2>1, <2>2, PlainSearches, PlainOthers, PlainCalls DEF Step, Elsewhere
<1>2. ~Call(t)  BY <1>1 DEF Call, CallFor, CallForAll, CallGrow, Calling
<1>3. QED
  BY <1>1, <1>2 DEF Step, Get, Index, TableGet, Size, StartInsert, Insert, InsertFails, StopInsert, Load,
     Larger, Announce, StartGrow, Grow, GrowFails, StopGrow, StartRemove, Unlink, NotThere, Cut, Tell,
     Delete, StopRemove, TableSize, StartClear, Sweep, StopClear, Merge, MergeLock, MergeSize, MergeNext

\* get() finds what is there all the time, without a lock, past elements that others take out of
\* the chain under its eyes: a removed element leads on to all that were behind it when it was
\* taken out and are still there. Only these may lead it astray: a grow(), which gives the places
\* to new elements, an element that is deleted while it looks at it, and one whose next pointer
\* has been cut but that has not been told yet what came after it.
THEOREM SearchesFind == Spec => GetFindsUnlessOvertaken
<1> DEFINE Found(t) == pc[t] = "walk" /\ pc'[t] = "idle" /\ op[t] = "get" /\ steady[t] = "in" =>
                         overtaken'[t] \/ cur'[t] # Nil
<1>1. ASSUME GateInv, TableInv, SearchInv, [Next]_vars, NEW u \in Threads
      PROVE  Found(u)
  <2> SUFFICES ASSUME pc[u] = "walk", pc'[u] = "idle", steady[u] = "in", ~overtaken'[u]
               PROVE  cur'[u] # Nil
    OBVIOUS
  <2>1. Walk(u)
    <3>1. ~UNCHANGED vars  BY DEF vars
    <3>2. PICK t \in Threads : Step(t) \/ Call(t)  BY <1>1, <3>1 DEF Next
    <3>3. QED  BY <1>1, <3>2, OwnSteps
  <2>2. DOMAIN overtaken = Threads /\ DOMAIN cur = Threads
    BY <1>1 DEF SearchInv, HistoryTypes, TableInv, LocalTypes
  <2>3. ~overtaken[u] /\ ~(cur[u] # Nil /\ elems[cur[u]].status \in {"cut", "deleted"})
    <3>1. overtaken' = [overtaken EXCEPT ![u] =
                          overtaken[u] \/ (cur[u] # Nil /\ elems[cur[u]].status \in {"cut", "deleted"})]
      BY <2>1 DEF Walk
    <3>2. overtaken'[u] = (overtaken[u] \/ (cur[u] # Nil /\ elems[cur[u]].status \in {"cut", "deleted"}))
      BY <2>2, <3>1, Zenon
    <3>3. QED  BY <3>2
  <2>4. cur[u] # Nil
    <3>1. Sure(u)  BY <2>3 DEF Sure, SearchSteps
    <3>2. QED  BY <1>1, <3>1 DEF SearchInv, OnTheWay
  <2>5. PICK e : Ends(u, e) /\ cur' = [cur EXCEPT ![u] = e]
    BY <2>1 DEF Walk
  <2>6. e = cur[u]  BY <2>3, <2>4, <2>5 DEF Ends
  <2>7. QED  BY <2>2, <2>4, <2>5, <2>6
<1>2. GateInv /\ TableInv /\ SearchInv /\ [Next]_vars => \A t \in Threads : Found(t)
  BY <1>1
<1>3. QED  BY <1>2, SearchAlways, PTL DEF Spec, GetFindsUnlessOvertaken
=============================================================================
