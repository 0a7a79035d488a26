------------------------------ MODULE ChainHash ------------------------------
(***************************************************************************)
(* pwx::TChainHash (src/src/container/TChainHash.h) on VTHashBase, used by *)
(* several threads: the four counters 'growing', 'inserting', 'removing'   *)
(* and 'clearing' by which the calls keep out of each other's way, the     *)
(* container's lock, and the chains that are searched without any lock.    *)
(*                                                                         *)
(* A loop that takes the lock, finds a counter raised and releases the     *)
(* lock again changes nothing: it is an action that is not enabled yet.    *)
(***************************************************************************)
EXTENDS Naturals, FiniteSetsExt, SequencesExt

CONSTANTS Threads, Keys,
          Nil,               \* no element, no key, no thread
          Sizes,             \* the sizes a table may have
          Bucket,            \* privGetIndex() in a table of each size, of each key
          MaxLoad,           \* maxLoadFactor
          Grown,             \* what a table of each size is grown to
          InitKeys,          \* the keys in the table when the threads start
          RhsSize, RhsKeys,  \* the table that is added with operator+=
          Ops,               \* the operations the threads call
          MayFail,           \* TRUE: memory may run out
          Calls              \* bound: the calls of each thread

ASSUME ThreadsAssumption == IsFiniteSet(Threads) /\ Nil \notin Threads

ASSUME ChainHashAssumption ==
  /\ Nil \notin Nat \cup Keys
  /\ Sizes \subseteq Nat \ {0} /\ Sizes # {} /\ RhsSize \in Sizes /\ RhsKeys \subseteq Keys
  /\ InitKeys \in Seq(Keys) /\ IsInjective(InitKeys)
  /\ \A k \in Keys, s \in Sizes : Bucket[s][k] \in 0 .. s - 1
  /\ \A s \in Sizes : Grown[s] \in Sizes
  /\ MaxLoad \in Nat /\ Calls \in [Threads -> Nat] /\ MayFail \in BOOLEAN

VARIABLES
  owner, depth,   \* the container's lock, which is recursive
  growing, inserting, removing, clearing,
  size, count,    \* hashSize and eCount
  chain,          \* hashTable: the elements in each place; see First and Successor
  elems,          \* every element's key, status, next (if unlinked) and oldNext
  pc, op, key,    \* of each thread: the next step of which operation, for which key
  cur,            \* the element, or the place, it looks at
  num,            \* the number it read: the size of the table, or the new count
  todo,           \* the keys operator+= has still to add
  calls,          \* how many calls it still makes
  overtaken,      \* history: what it looks at was removed, or the table grew
  steady          \* history: was its key stored, or not stored, all the time

vars == <<owner, depth, growing, inserting, removing, clearing, size, count, chain,
          elems, pc, op, key, cur, num, todo, calls, overtaken, steady>>
lock    == <<owner, depth>>
gate    == <<growing, inserting, removing, clearing>>
data    == <<size, count, chain, elems>>
local   == <<op, key, cur, num, todo, calls>>
history == <<overtaken, steady>>

Places == 0 .. size - 1
Linked == UNION {chain[p] : p \in Places}
Stored == {elems[e].key : e \in Linked}
NewElem(k) == [key |-> k, status |-> "in", next |-> Nil, old |-> Nil]

Init ==
  /\ owner = Nil /\ depth = 0
  /\ growing = 0 /\ inserting = 0 /\ removing = 0 /\ clearing = 0
  /\ size = Min(Sizes) /\ count = Len(InitKeys)
  /\ elems = [e \in 1 .. Len(InitKeys) |-> NewElem(InitKeys[e])]
  /\ chain = [p \in Places |-> {e \in DOMAIN elems : Bucket[size][elems[e].key] = p}]
  /\ pc = [t \in Threads |-> "idle"] /\ op = [t \in Threads |-> Nil]
  /\ key = [t \in Threads |-> Nil] /\ cur = [t \in Threads |-> Nil]
  /\ num = [t \in Threads |-> 0] /\ todo = [t \in Threads |-> {}]
  /\ calls = Calls
  /\ overtaken = [t \in Threads |-> FALSE] /\ steady = [t \in Threads |-> "no"]

-----------------------------------------------------------------------------
(* The lock, the waiting loops and the history                             *)

Free(t) == owner \in {Nil, t}
Lock(t) == owner' = t /\ depth' = depth + 1
Unlock  == /\ depth' = depth - 1
           /\ owner' = IF depth = 1 THEN Nil ELSE owner

Goto(t, where) == pc' = [pc EXCEPT ![t] = where]

\* A call is over. An addition may have been one of those operator+= makes.
Return(t) == Goto(t, IF op[t] = "+=" THEN "merge" ELSE "idle")

\* An exception leaves the operation and every guard on the way is destroyed.
Throw(t) ==
  /\ Goto(t, "idle")
  /\ IF owner = t THEN owner' = Nil /\ depth' = 0 ELSE UNCHANGED lock
  /\ todo' = [todo EXCEPT ![t] = {}]

\* HASH_WAIT_FOR_CLEAR_AND_GROW. The lock is not kept.
Passes(t) == Free(t) /\ growing = 0 /\ clearing = 0

Searching == {t \in Threads : pc[t] \in {"index", "head", "walk"}}
In(k, stored) == IF k \in stored THEN "in" ELSE "out"

\* A search that was not over when the stored keys changed.
Watch(stored) ==
  steady' = [t \in Threads |->
    IF t \in Searching /\ steady[t] # In(key[t], stored) THEN "no" ELSE steady[t]]

-----------------------------------------------------------------------------
(* get() and exists(), and the search add() begins with                    *)

Begin(t) ==
  /\ Goto(t, "index")
  /\ overtaken' = [overtaken EXCEPT ![t] = FALSE]
  /\ steady' = [steady EXCEPT ![t] = In(key[t], Stored)]

Get(t) ==
  /\ pc[t] = "get" /\ Passes(t)
  /\ Begin(t)
  /\ UNCHANGED <<lock, gate, data, local>>

\* privGetIndex() reads the size of the table, table_get() what is there.
Index(t) ==
  /\ pc[t] = "index"
  /\ cur' = [cur EXCEPT ![t] = Bucket[size][key[t]]]
  /\ Goto(t, "head")
  /\ UNCHANGED <<lock, gate, data, op, key, num, todo, calls, history>>

\* A new element comes to the end of its chain and gets the next number, so a chain
\* is in the order of its elements' numbers.
FirstOf(s) == IF s = {} THEN Nil ELSE Min(s)
First(p)   == FirstOf(chain[p])

TableGet(t) ==
  /\ pc[t] = "head"
  /\ cur' = [cur EXCEPT ![t] = First(@)]
  /\ Goto(t, "walk")
  /\ UNCHANGED <<lock, gate, data, op, key, num, todo, calls, history>>

\* The next element in a chain, for one that is linked.
PlaceOf(e)   == CHOOSE p \in Places : e \in chain[p]
Successor(e) == FirstOf({d \in chain[PlaceOf(e)] : d > e})

\* getNext(): a removed element knows what came after it.
GetNext(e) ==
  IF elems[e].status = "in" THEN Successor(e)
  ELSE IF elems[e].status = "unlinked" THEN elems[e].next
  ELSE elems[e].old

\* What the search ends with: the element with the key, nothing, or anything if
\* the element it looks at has been deleted.
Ends(t, e) ==
  \/ e = Nil /\ cur[t] = Nil
  \/ /\ cur[t] # Nil
     /\ \/ elems[cur[t]].key = key[t] /\ e = cur[t]
        \/ elems[cur[t]].status = "deleted" /\ e \in {Nil, cur[t]}

Walk(t) ==
  /\ pc[t] = "walk"
  /\ \/ /\ cur[t] # Nil /\ elems[cur[t]].key # key[t] /\ elems[cur[t]].status # "deleted"
        /\ cur' = [cur EXCEPT ![t] = GetNext(@)]
        /\ UNCHANGED pc
     \/ \E e \in DOMAIN elems \cup {Nil} :
          /\ Ends(t, e)
          /\ cur' = [cur EXCEPT ![t] = e]
          /\ Goto(t, IF op[t] = "get" THEN "idle" ELSE IF e = Nil THEN "gate" ELSE "size")
  /\ overtaken' = [overtaken EXCEPT ![t] =
                     \/ @
                     \/ cur[t] # Nil /\ elems[cur[t]].status \in {"cut", "deleted"}]
  /\ UNCHANGED <<lock, gate, data, op, key, num, todo, calls, steady>>

\* size(), with which add() ends.
Size(t) ==
  /\ pc[t] = "size" /\ Passes(t)
  /\ Return(t)
  /\ UNCHANGED <<lock, gate, data, local, history>>

-----------------------------------------------------------------------------
(* add() *)

\* Mutation: the lock is kept while waiting.
StartInsertHolding(t) ==
  /\ pc[t] = "gate" /\ op[t] \in {"add", "+="} /\ Free(t)
  /\ Lock(t)
  /\ IF Passes(t)
     THEN inserting' = inserting + 1 /\ Goto(t, "insert")
     ELSE owner # t /\ UNCHANGED <<inserting, pc>>
  /\ UNCHANGED <<growing, removing, clearing, data, local, history>>

\* HASH_START_INSERT. The lock is kept.
StartInsert(t) ==
  /\ pc[t] = "gate" /\ op[t] \in {"add", "+="} /\ Passes(t)
  /\ Lock(t)
  /\ inserting' = inserting + 1
  /\ Goto(t, "insert")
  /\ UNCHANGED <<growing, removing, clearing, data, local, history>>

\* privAdd() and privInsert(): a new element at the end of its chain.
AddElem(k) ==
  LET p == Bucket[size][k] IN
  /\ elems' = Append(elems, NewElem(k))
  /\ chain' = [chain EXCEPT ![p] = @ \cup {Len(elems) + 1}]
  /\ count' = count + 1
  /\ Watch(Stored \cup {k})

\* Mutation: the second search is left out.
InsertUnchecked(t) ==
  /\ pc[t] = "insert"
  /\ AddElem(key[t])
  /\ num' = [num EXCEPT ![t] = count + 1]
  /\ Goto(t, "inserted")
  /\ UNCHANGED <<lock, gate, size, op, key, cur, todo, calls, overtaken>>

\* Only if a second search, under the lock, does not find the key either.
Insert(t) ==
  /\ pc[t] = "insert"
  /\ IF key[t] \in Stored
     THEN /\ num' = [num EXCEPT ![t] = 0]
          /\ UNCHANGED <<data, steady>>
     ELSE /\ AddElem(key[t])
          /\ num' = [num EXCEPT ![t] = count + 1]
          /\ UNCHANGED size
  /\ Goto(t, "inserted")
  /\ UNCHANGED <<lock, gate, op, key, cur, todo, calls, overtaken>>

InsertFails(t) ==
  /\ MayFail /\ pc[t] = "insert" /\ key[t] \notin Stored
  /\ Throw(t)
  /\ UNCHANGED <<gate, data, op, key, cur, num, calls, history>>

\* HASH_STOP_INSERT
StopInsert(t) ==
  /\ pc[t] = "inserted"
  /\ inserting' = inserting - 1
  /\ Unlock
  /\ Goto(t, IF num[t] > 0 THEN "load" ELSE "size")
  /\ UNCHANGED <<growing, removing, clearing, data, local, history>>

\* The table grows if the new count is too large for its size, which is read now.
Load(t) ==
  /\ pc[t] = "load" /\ Passes(t)
  /\ IF num[t] > MaxLoad * size
     THEN Goto(t, "larger") /\ num' = [num EXCEPT ![t] = Grown[size]]
     ELSE Goto(t, "size") /\ UNCHANGED num
  /\ UNCHANGED <<lock, gate, data, op, key, cur, todo, calls, history>>

-----------------------------------------------------------------------------
(* grow() *)

Larger(t) ==
  /\ pc[t] = "larger" /\ Passes(t)
  /\ Goto(t, IF num[t] > size THEN "announce" ELSE "size")
  /\ UNCHANGED <<lock, gate, data, local, history>>

\* HASH_START_GROW: the counter is raised before the lock is taken.
Announce(t) ==
  /\ pc[t] = "announce"
  /\ growing' = growing + 1
  /\ Goto(t, "grow wait")
  /\ UNCHANGED <<lock, inserting, removing, clearing, data, local, history>>

\* Mutation: nobody waits for a clear() to end.
StartGrowWhileClearing(t) ==
  /\ pc[t] = "grow wait" /\ Free(t)
  /\ removing = 0 /\ inserting = 0
  /\ Lock(t)
  /\ Goto(t, "grow")
  /\ UNCHANGED <<gate, data, local, history>>

StartGrow(t) ==
  /\ pc[t] = "grow wait" /\ Free(t)
  /\ removing = 0 /\ inserting = 0 /\ clearing = 0
  /\ Lock(t)
  /\ Goto(t, "grow")
  /\ UNCHANGED <<gate, data, local, history>>

\* The elements as grow() comes to them: place after place, first to last.
Before(d, e) == \/ PlaceOf(d) < PlaceOf(e)
                \/ PlaceOf(d) = PlaceOf(e) /\ d < e
Turn(e)      == Cardinality({d \in Linked : Before(d, e)}) + 1
TurnOf(i)    == CHOOSE e \in Linked : Turn(e) = i

\* A table of the new size with copies of the first n elements. The originals are
\* deleted; what is not copied stays behind in the old table, which is lost.
Rebuild(target, n) ==
  LET last == Len(elems)
      copy == [i \in 1 .. n |-> NewElem(elems[TurnOf(i)].key)]
  IN /\ size' = target
     /\ count' = n
     /\ chain' = [p \in 0 .. target - 1 |->
                   {last + i : i \in {j \in 1 .. n : Bucket[target][copy[j].key] = p}}]
     /\ elems' = [e \in 1 .. last + n |->
                   IF e > last THEN copy[e - last]
                   ELSE IF e \notin Linked THEN elems[e]
                   ELSE IF Turn(e) <= n THEN [elems[e] EXCEPT !.status = "deleted"]
                   ELSE [elems[e] EXCEPT !.status = "unlinked", !.next = Successor(e)]]
     /\ Watch({copy[i].key : i \in 1 .. n})
     /\ overtaken' = [t \in Threads |-> overtaken[t] \/ t \in Searching]

\* hashTableLock is held all the time, so nobody looks at the table meanwhile.
Grow(t) ==
  /\ pc[t] = "grow"
  /\ IF num[t] > size
     THEN Rebuild(num[t], Cardinality(Linked))
     ELSE UNCHANGED <<data, history>>
  /\ Goto(t, "grown")
  /\ UNCHANGED <<lock, gate, local>>

\* No memory for the new table, or for the copy of an element.
GrowFails(t) ==
  /\ MayFail /\ pc[t] = "grow" /\ num[t] > size
  /\ \/ UNCHANGED <<data, history>>
     \/ \E n \in 0 .. Cardinality(Linked) - 1 : Rebuild(num[t], n)
  /\ Throw(t)
  /\ UNCHANGED <<gate, op, key, cur, num, calls>>

\* HASH_STOP_GROW
StopGrow(t) ==
  /\ pc[t] = "grown"
  /\ growing' = growing - 1
  /\ Unlock
  /\ Goto(t, "size")
  /\ UNCHANGED <<inserting, removing, clearing, data, local, history>>

-----------------------------------------------------------------------------
(* remKey(), delKey() and pop_back()                                       *)

\* HASH_START_REMOVE. The lock is kept.
StartRemove(t) ==
  /\ pc[t] = "gate" /\ op[t] \in {"remKey", "delKey", "pop"} /\ Passes(t)
  /\ Lock(t)
  /\ removing' = removing + 1
  /\ Goto(t, "unlink")
  /\ UNCHANGED <<growing, inserting, clearing, data, local, history>>

\* The element to remove: the one with the key, or the first one in the last place
\* that is not empty.
ToRemove(t) ==
  IF op[t] = "pop"
  THEN {First(p) : p \in {q \in Places : chain[q] # {} /\ \A r \in q + 1 .. size - 1 : chain[r] = {}}}
  ELSE {e \in Linked : elems[e].key = key[t]}

\* It is taken out of its chain; what pointed to it remembers it.
Unlink(t) ==
  /\ pc[t] = "unlink"
  /\ \E e \in ToRemove(t) :
       LET p    == PlaceOf(e)
           prev == {d \in chain[p] : Successor(d) = e}
       IN /\ chain' = [chain EXCEPT ![p] = @ \ {e}]
          /\ elems' = [d \in DOMAIN elems |->
               IF d = e THEN [elems[d] EXCEPT !.status = "unlinked", !.next = Successor(e)]
               ELSE IF d \in prev THEN [elems[d] EXCEPT !.old = e] ELSE elems[d]]
          /\ cur' = [cur EXCEPT ![t] = e]
  /\ Watch(Stored \ {elems[e].key : e \in ToRemove(t)})
  /\ Goto(t, "cut")
  /\ UNCHANGED <<lock, gate, size, count, op, key, num, todo, calls, overtaken>>

NotThere(t) ==
  /\ pc[t] = "unlink" /\ ToRemove(t) = {}
  /\ Goto(t, "removed")
  /\ UNCHANGED <<lock, gate, data, local, history>>

\* Its next pointer is cut. It counts as removed, and it is not yet told what came
\* after it.
Cut(t) ==
  /\ pc[t] = "cut"
  /\ elems' = [elems EXCEPT ![cur[t]].status = "cut"]
  /\ Goto(t, "tell")
  /\ UNCHANGED <<lock, gate, size, count, chain, local, history>>

\* Mutation: a removed element forgets what came after it.
TellNothing(t) ==
  /\ pc[t] = "tell"
  /\ elems' = [elems EXCEPT ![cur[t]].status = "out"]
  /\ count' = count - 1
  /\ Goto(t, IF op[t] = "delKey" THEN "delete" ELSE "removed")
  /\ UNCHANGED <<lock, gate, size, chain, local, history>>

Tell(t) ==
  /\ pc[t] = "tell"
  /\ LET e == elems[cur[t]] IN
       elems' = [elems EXCEPT ![cur[t]] =
                   [e EXCEPT !.status = "out", !.old = IF e.next = Nil THEN e.old ELSE e.next]]
  /\ count' = count - 1
  /\ Goto(t, IF op[t] = "delKey" THEN "delete" ELSE "removed")
  /\ UNCHANGED <<lock, gate, size, chain, local, history>>

\* protDelete()
Delete(t) ==
  /\ pc[t] = "delete"
  /\ elems' = [elems EXCEPT ![cur[t]].status = "deleted"]
  /\ Goto(t, "removed")
  /\ UNCHANGED <<lock, gate, size, count, chain, local, history>>

\* HASH_STOP_REMOVE. pop_back() returns without it if it has removed something.
StopRemove(t) ==
  /\ pc[t] = "removed"
  /\ removing' = IF op[t] = "pop" /\ cur[t] # Nil THEN removing ELSE removing - 1
  /\ Unlock
  /\ Goto(t, "idle")
  /\ UNCHANGED <<growing, inserting, clearing, data, local, history>>

-----------------------------------------------------------------------------
(* clear() *)

TableSize(t) ==
  /\ pc[t] = "clear" /\ Passes(t)
  /\ num' = [num EXCEPT ![t] = size]
  /\ cur' = [cur EXCEPT ![t] = 0]
  /\ Goto(t, "clear wait")
  /\ UNCHANGED <<lock, gate, data, op, key, todo, calls, history>>

\* HASH_START_CLEAR. The lock is not kept.
StartClear(t) ==
  /\ pc[t] = "clear wait" /\ Free(t)
  /\ removing = 0 /\ growing = 0 /\ inserting = 0
  /\ clearing' = clearing + 1
  /\ Goto(t, "sweep")
  /\ UNCHANGED <<lock, growing, inserting, removing, data, local, history>>

\* The elements in one place are deleted. The places come in turn, as many of them
\* as there were before.
Sweep(t) ==
  /\ pc[t] = "sweep" /\ count > 0 /\ Free(t)
  /\ LET gone == chain[cur[t]] IN
       /\ chain' = [chain EXCEPT ![cur[t]] = {}]
       /\ elems' = [e \in DOMAIN elems |-> IF e \in gone
                                           THEN [elems[e] EXCEPT !.status = "deleted"]
                                           ELSE elems[e]]
       /\ count' = count - Cardinality(gone)
       /\ Watch(Stored \ {elems[e].key : e \in gone})
  /\ cur' = [cur EXCEPT ![t] = (@ + 1) % num[t]]
  /\ UNCHANGED <<lock, gate, size, pc, op, key, num, todo, calls, overtaken>>

\* HASH_STOP_CLEAR
StopClear(t) ==
  /\ pc[t] = "sweep" /\ count = 0
  /\ clearing' = clearing - 1
  /\ Goto(t, "idle")
  /\ UNCHANGED <<lock, growing, inserting, removing, data, local, history>>

-----------------------------------------------------------------------------
(* operator+= *)

\* It waits, then keeps the lock until it is done, through all that it calls.
Merge(t) ==
  /\ pc[t] = "add all" /\ Passes(t)
  /\ Goto(t, "merge lock")
  /\ UNCHANGED <<lock, gate, data, local, history>>

MergeLock(t) ==
  /\ pc[t] = "merge lock" /\ Free(t)
  /\ Lock(t)
  /\ todo' = [todo EXCEPT ![t] = RhsKeys]
  /\ Goto(t, "merge size")
  /\ UNCHANGED <<gate, data, op, key, cur, num, calls, history>>

MergeSize(t) ==
  /\ pc[t] = "merge size" /\ Passes(t)
  /\ num' = [num EXCEPT ![t] = RhsSize]
  /\ Goto(t, IF RhsSize > size THEN "larger" ELSE "merge")
  /\ UNCHANGED <<lock, gate, data, op, key, cur, todo, calls, history>>

\* The next element is added, or everything is done.
MergeNext(t) ==
  /\ pc[t] = "merge"
  /\ \/ \E k \in todo[t] :
          /\ key' = [key EXCEPT ![t] = k]
          /\ todo' = [todo EXCEPT ![t] = @ \ {k}]
          /\ Goto(t, "index")
          /\ overtaken' = [overtaken EXCEPT ![t] = FALSE]
          /\ steady' = [steady EXCEPT ![t] = In(k, Stored)]
          /\ UNCHANGED lock
     \/ /\ todo[t] = {}
        /\ Unlock
        /\ Goto(t, "idle")
        /\ UNCHANGED <<key, todo, history>>
  /\ UNCHANGED <<gate, data, op, cur, num, calls>>

-----------------------------------------------------------------------------
Step(t) ==
  \/ Get(t) \/ Index(t) \/ TableGet(t) \/ Walk(t) \/ Size(t)
  \/ StartInsert(t) \/ Insert(t) \/ InsertFails(t) \/ StopInsert(t) \/ Load(t)
  \/ Larger(t) \/ Announce(t) \/ StartGrow(t) \/ Grow(t) \/ GrowFails(t) \/ StopGrow(t)
  \/ StartRemove(t) \/ Unlink(t) \/ NotThere(t) \/ Cut(t) \/ Tell(t) \/ Delete(t) \/ StopRemove(t)
  \/ TableSize(t) \/ StartClear(t) \/ Sweep(t) \/ StopClear(t)
  \/ Merge(t) \/ MergeLock(t) \/ MergeSize(t) \/ MergeNext(t)

Calling(t, o) ==
  /\ pc[t] = "idle" /\ calls[t] > 0
  /\ calls' = [calls EXCEPT ![t] = @ - 1]
  /\ op' = [op EXCEPT ![t] = o]
  /\ cur' = [cur EXCEPT ![t] = Nil]

\* Calls for a key. The search of an addition begins without a wait.
CallFor(t, o, k) ==
  /\ Calling(t, o)
  /\ key' = [key EXCEPT ![t] = k]
  /\ Goto(t, CASE o = "get" -> "get" [] o = "add" -> "index" [] OTHER -> "gate")
  /\ IF o = "add"
     THEN /\ overtaken' = [overtaken EXCEPT ![t] = FALSE]
          /\ steady' = [steady EXCEPT ![t] = In(k, Stored)]
     ELSE UNCHANGED history
  /\ UNCHANGED <<lock, gate, data, num, todo>>

CallGrow(t, target) ==
  /\ Calling(t, "grow")
  /\ num' = [num EXCEPT ![t] = target]
  /\ Goto(t, "larger")
  /\ UNCHANGED <<lock, gate, data, key, todo, history>>

\* pop_back() looks at the count before it waits.
CallForAll(t, o) ==
  /\ Calling(t, o)
  /\ Goto(t, CASE o = "pop"   -> IF count > 0 THEN "gate" ELSE "idle"
               [] o = "clear" -> "clear"
               [] o = "+="    -> "add all")
  /\ UNCHANGED <<lock, gate, data, key, num, todo, history>>

Call(t) ==
  \/ \E o \in Ops \cap {"get", "add", "remKey", "delKey"}, k \in Keys : CallFor(t, o, k)
  \/ \E o \in Ops \cap {"pop", "clear", "+="} : CallForAll(t, o)
  \/ "grow" \in Ops /\ \E target \in Sizes : CallGrow(t, target)

Next == \E t \in Threads : Step(t) \/ Call(t)
Spec == Init /\ [][Next]_vars /\ \A t \in Threads : WF_vars(Step(t))

-----------------------------------------------------------------------------
(* Properties *)

Inserting == {t \in Threads : pc[t] \in {"insert", "inserted"}}
Removing  == {t \in Threads : pc[t] \in {"unlink", "cut", "tell", "delete", "removed"}}
Growing   == {t \in Threads : pc[t] \in {"grow", "grown"}}
Clearing  == {t \in Threads : pc[t] = "sweep"}

\* Who changes the table is alone: one insertion, removal or grow() at a time, and
\* none of them while it is being cleared, although a clear() gives the lock back
\* and a grow() announces itself before it has it.
ChangesExclude ==
  /\ Cardinality(Inserting \cup Removing \cup Growing) <= 1
  /\ Clearing # {} => Inserting \cup Removing \cup Growing = {}

\* Two threads that add the same key find each other out, and whenever nobody is at
\* the table every element is in the place its key belongs to and is counted.
TableExact ==
  /\ \A d, e \in Linked : elems[d].key = elems[e].key => d = e
  /\ \A e \in Linked : elems[e].status = "in"
  /\ Removing = {} => count = Cardinality(Linked)
  /\ \A p \in Places : \A e \in chain[p] : Bucket[size][elems[e].key] = p

\* get() searches without a lock. Still it finds a key that was there all the time,
\* past elements that are removed under its eyes, unless the table grows during the
\* search, it looks at a deleted element, or leaves one that has just been cut off.
GetFindsUnlessOvertaken ==
  [][\A t \in Threads :
       pc[t] = "walk" /\ pc'[t] = "idle" /\ op[t] = "get" /\ steady[t] = "in" =>
         overtaken'[t] \/ cur'[t] # Nil]_vars

\* VTHashBase.h:702: "return true if an element with @a key exists". As long as the
\* table does not grow and nobody deletes anything, get() could keep that promise.
GetFinds ==
  [][\A t \in Threads :
       pc[t] = "walk" /\ pc'[t] = "idle" /\ op[t] = "get" /\ steady[t] = "in" => cur'[t] # Nil]_vars

\* The ways to wait for ever: a counter that an exception or pop_back() has left
\* raised; operator+=, which keeps the lock others need to come to their end; and a
\* clear() that walks through fewer places than the table has got meanwhile.
Stuck ==
  \/ removing > Cardinality(Removing) \/ inserting > Cardinality(Inserting)
  \/ growing > Cardinality(Growing \cup {t \in Threads : pc[t] = "grow wait"})
  \/ \E t \in Threads : op[t] = "+=" /\ owner = t /\ growing + clearing > 0
  \/ \E t \in Clearing : count > 0 /\ \A p \in 0 .. num[t] - 1 : chain[p] = {}

\* There are no others: no two of the waiting loops wait for each other.
CallsReturn == \A t \in Threads : pc[t] # "idle" ~> pc[t] = "idle" \/ Stuck
=============================================================================
