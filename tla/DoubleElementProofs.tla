------------------------- MODULE DoubleElementProofs -------------------------
(***************************************************************************)
(* Theorems about DoubleElement, for any number of threads, elements and   *)
(* calls, lists and rings, if no two threads remove the same element.      *)
(***************************************************************************)
EXTENDS DoubleElement, FiniteSetTheorems, SequenceTheorems, WellFoundedInduction, TLAPS

-----------------------------------------------------------------------------
(* The inductive invariant *)

InsertSteps == {"next", "lock next", "prev", "lock prev", "link", "link one", "link other"}
RemoveSteps == {"mark", "read prev", "read next", "lock both", "unlink", "unlink other", "forget"}

ElementTypes ==
  /\ next \in [Elems -> Elems \cup {Nil}] /\ prev \in [Elems -> Elems \cup {Nil}]
  /\ isRemoved \in [Elems -> BOOLEAN] /\ holder \in [Elems -> Threads \cup {Nil}]

ThreadTypes ==
  /\ pc \in [Threads -> {"idle"} \cup InsertSteps \cup RemoveSteps]
  /\ this \in [Threads -> Elems \cup {Nil}] /\ new \in [Threads -> Elems \cup {Nil}]
  /\ xNext \in [Threads -> Elems \cup {Nil}] /\ xPrev \in [Threads -> Elems \cup {Nil}]

\* Whose element it is, and whether it counts as removed.
Idle(t) == this[t] = Nil /\ new[t] = Nil

Insertion(t) ==
  /\ this[t] # Nil /\ new[t] \notin {Nil, First, this[t]} /\ ~isRemoved[this[t]]
  /\ isRemoved[new[t]] <=> pc[t] \notin {"link one", "link other"}
  /\ pc[t] = "lock next" => xPrev[t] = this[t]
  /\ pc[t] = "lock prev" => xNext[t] = this[t]

Removal(t) ==
  /\ this[t] \notin {Nil, First} /\ new[t] = Nil
  /\ isRemoved[this[t]] <=> pc[t] # "mark"

Calling(t) ==
  /\ pc[t] = "idle" => Idle(t)
  /\ pc[t] \in InsertSteps => Insertion(t)
  /\ pc[t] \in RemoveSteps => Removal(t)
CallInv == \A t \in Threads : Calling(t)

\* A new element is in the hands of one thread, and one that leaves in those of one remover.
Apart(s, t) ==
  /\ new[s] # Nil => new[s] # new[t]
  /\ pc[s] \in RemoveSteps => this[s] \notin {this[t], new[t]}

ApartInv == \A s, t \in Threads : s # t => Apart(s, t)

\* What a thread has locked.
Held(t) ==
  CASE pc[t] \in {"next", "lock next", "prev", "lock prev"} -> {new[t]}
    [] pc[t] \in {"link", "link one", "link other"} -> {this[t], xPrev[t], xNext[t], new[t]} \ {Nil}
    [] pc[t] \in {"unlink", "unlink other"} -> {this[t], xPrev[t], xNext[t]} \ {Nil}
    [] OTHER -> {}

HolderInv == \A t \in Threads, e \in Elems : holder[e] = t <=> e \in Held(t)

\* The element is in the row: somebody's next one, or First. An insertion tells the
\* previous element first if that is the one it is for, and last otherwise.
Unlinked(t, e) ==
  /\ new[t] = e
  /\ \/ pc[t] = "link one"
     \/ pc[t] = "link other" /\ this[t] # xPrev[t]
Leaving(t, e) == this[t] = e /\ pc[t] \in {"read prev", "read next", "lock both", "unlink"}

Linked == {e \in Elems : IF isRemoved[e] THEN \E t \in Threads : Leaving(t, e)
                                         ELSE \A t \in Threads : ~Unlinked(t, e)}

\* Two elements of which only the first knows of the other, or of which it has just been told.
Half(t, e) ==
  \/ pc[t] = "link other" /\ e = IF this[t] = xPrev[t] THEN new[t] ELSE xPrev[t]
  \/ pc[t] = "unlink other" /\ e = xPrev[t]
Pending(t, f) == pc[t] \in {"link other", "unlink other"} /\ xNext[t] = f

NextInv ==
  \A e \in Linked : next[e] # Nil =>
    /\ next[e] \in Linked
    /\ prev[next[e]] = e \/ \E t \in Threads : Half(t, e) /\ Pending(t, next[e])

PrevInv ==
  \A f \in Linked :
    \/ IF prev[f] = Nil THEN f = First ELSE prev[f] \in Linked /\ next[prev[f]] = f
    \/ \E t \in Threads : Pending(t, f)

\* How far a thread has got that has the locks.
Neighbours(t) == xPrev[t] \in Linked /\ xNext[t] \in Linked \cup {Nil}

Linking(t) ==
  /\ Neighbours(t) /\ this[t] \in {xPrev[t], xNext[t]} /\ new[t] \notin {xPrev[t], xNext[t]}
  /\ IF pc[t] = "link other" /\ this[t] = xPrev[t]
     THEN next[xPrev[t]] = new[t]
     ELSE next[xPrev[t]] = xNext[t]
  /\ xNext[t] # Nil =>
       IF pc[t] = "link other" /\ this[t] # xPrev[t]
       THEN prev[xNext[t]] = new[t]
       ELSE prev[xNext[t]] = xPrev[t]
  /\ pc[t] # "link" => next[new[t]] = xNext[t] /\ prev[new[t]] = xPrev[t]

Unlinking(t) ==
  /\ pc[t] = "unlink" => /\ Neighbours(t)
                         /\ next[this[t]] = xNext[t] /\ prev[this[t]] = xPrev[t]
                         /\ next[xPrev[t]] = this[t]
                         /\ xNext[t] # Nil => prev[xNext[t]] = this[t]
  /\ pc[t] = "unlink other" =>
       \/ xPrev[t] = this[t] /\ xNext[t] = this[t]
       \/ /\ Neighbours(t) /\ next[xPrev[t]] = xNext[t]
          /\ xNext[t] # Nil => prev[xNext[t]] = this[t]

Work(t) ==
  /\ pc[t] \in {"link", "link one", "link other"} => Linking(t)
  /\ Unlinking(t)
WorkInv == \A t \in Threads : Work(t)

\* Only a ring has something before First, and none becomes a list.
Ring(t) ==
  /\ pc[t] \in {"prev", "lock prev"} /\ this[t] = First => prev[First] # Nil
  /\ pc[t] \in {"read next", "lock both"} => xPrev[t] # Nil
RingInv == \A t \in Threads : Ring(t)

FirstInv == First \in Linked

ThreadInv == ElementTypes /\ ThreadTypes /\ CallInv /\ ApartInv /\ HolderInv
RowInv    == ThreadInv /\ NextInv /\ PrevInv /\ WorkInv /\ RingInv /\ FirstInv

-----------------------------------------------------------------------------
(* What steps leave alone *)

Others(t) ==
  \A s \in Threads \ {t} :
    /\ pc'[s] = pc[s] /\ this'[s] = this[s] /\ new'[s] = new[s]
    /\ xNext'[s] = xNext[s] /\ xPrev'[s] = xPrev[s]

\* What a step does to the row: nothing, a new element behind another one, or one less.
Same == Linked' = Linked /\ \A e \in Linked : next'[e] = next[e]

Inserted(p, x) ==
  /\ p \in Linked /\ x \in Elems \ Linked /\ Linked' = Linked \cup {x}
  /\ next'[x] = next[p] /\ next'[p] = x
  /\ \A e \in Linked \ {p} : next'[e] = next[e]

TakenOut(p, m) ==
  /\ p \in Linked /\ m \in Linked \ {First} /\ next[p] = m /\ Linked' = Linked \ {m}
  /\ p # m => next'[p] = next[m]
  /\ \A e \in Linked \ {p, m} : next'[e] = next[e]

Changed == Same \/ \E p, x \in Elems : Inserted(p, x) \/ TakenOut(p, x)

Local == <<this, new, xNext, xPrev>>
Labels == {"idle"} \cup InsertSteps \cup RemoveSteps

\* A thread changes nothing that belongs to another one, and all keep their types.
LEMMA MovesKept ==
  ASSUME ThreadTypes, NEW t \in Threads, NEW l \in Labels, Goto(t, l), UNCHANGED Local
  PROVE  ThreadTypes' /\ Others(t) /\ pc'[t] = l
<1> USE DEF Goto, Local, ThreadTypes
<1>1. pc' \in [Threads -> Labels] /\ pc'[t] = l /\ \A s \in Threads \ {t} : pc'[s] = pc[s]
  BY DEF Labels
<1> HIDE DEF Goto
<1> QED
  BY <1>1 DEF Labels, Others

LEMMA ReturnKept ==
  ASSUME ThreadTypes, NEW t \in Threads, Return(t)
  PROVE  ThreadTypes' /\ Others(t) /\ pc'[t] = "idle" /\ this'[t] = Nil /\ new'[t] = Nil
<1>1. pc' \in [Threads -> Labels] /\ pc'[t] = "idle" /\ \A s \in Threads \ {t} : pc'[s] = pc[s]
  BY DEF Return, Goto, Labels, ThreadTypes
<1> QED
  BY <1>1 DEF Labels, Others, Return, ThreadTypes

LEMMA LockTypes ==
  ASSUME ElementTypes, NEW t \in Threads, NEW els, Lock(t, els) \/ Unlock(els), UNCHANGED links
  PROVE  ElementTypes'
BY DEF ElementTypes, Lock, Unlock, links

\* A guard is on elements nobody else has locked.
LEMMA LockKeeps ==
  ASSUME ElementTypes, ThreadTypes, HolderInv, NEW t \in Threads, Others(t),
         NEW els, Free(t, els), Lock(t, els), Held(t)' \cap Elems = (Held(t) \cup els) \cap Elems
  PROVE  HolderInv'
<1> SUFFICES ASSUME NEW s \in Threads, NEW e \in Elems
             PROVE  holder'[e] = s <=> e \in Held(s)'
  BY DEF HolderInv
<1>1. holder'[e] = IF e \in els THEN t ELSE holder[e]
  BY DEF Lock
<1>2. e \in els => holder[e] \in {Nil, t}
  BY ElementAssumption DEF Free
<1>3. holder[e] = s <=> e \in Held(s)
  BY DEF HolderInv
<1>4. s # t => Held(s)' = Held(s)
  BY DEF Others, Held
<1>5. s # Nil
  BY ElementAssumption
<1> QED
  BY <1>1, <1>2, <1>3, <1>4, <1>5

LEMMA UnlockKeeps ==
  ASSUME ElementTypes, ThreadTypes, HolderInv, NEW t \in Threads, Others(t),
         NEW els, Unlock(els), Held(t) \cap Elems = els \cap Elems, Held(t)' = {}
  PROVE  HolderInv'
<1> SUFFICES ASSUME NEW s \in Threads, NEW e \in Elems
             PROVE  holder'[e] = s <=> e \in Held(s)'
  BY DEF HolderInv
<1>1. holder'[e] = IF e \in els THEN Nil ELSE holder[e]
  BY DEF Unlock
<1>2. (holder[e] = s <=> e \in Held(s)) /\ (holder[e] = t <=> e \in Held(t))
  BY DEF HolderInv
<1>3. s # t => Held(s)' = Held(s)
  BY DEF Others, Held
<1>4. s # Nil
  BY ElementAssumption
<1> QED
  BY <1>1, <1>2, <1>3, <1>4

LEMMA HolderKeeps ==
  ASSUME ElementTypes, ThreadTypes, HolderInv, NEW t \in Threads, Others(t),
         UNCHANGED holder, Held(t)' = Held(t)
  PROVE  HolderInv'
<1>1. \A s \in Threads : Held(s)' = Held(s)
  BY DEF Others, Held
<1> QED
  BY <1>1 DEF HolderInv

\* What somebody has locked no other thread changes.
LEMMA HeldApart ==
  ASSUME HolderInv, NEW s \in Threads, NEW t \in Threads, s # t, NEW e \in Elems
  PROVE  ~(e \in Held(s) /\ e \in Held(t))
  BY DEF HolderInv

LEMMA WorkKept ==
  ASSUME ElementTypes, ThreadTypes, CallInv, NEW s \in Threads, Work(s),
         pc'[s] = pc[s] /\ this'[s] = this[s] /\ new'[s] = new[s],
         xNext'[s] = xNext[s] /\ xPrev'[s] = xPrev[s],
         \A e \in Held(s) \cap Elems : /\ next'[e] = next[e] /\ prev'[e] = prev[e]
                                       /\ e \in Linked => e \in Linked'
  PROVE  Work(s)'
<1>1. Linked \subseteq Elems /\ Nil \notin Elems
  BY ElementAssumption DEF Linked
<1>2. CASE pc[s] \in {"link", "link one", "link other"}
  <2>1. Held(s) = {this[s], xPrev[s], xNext[s], new[s]} \ {Nil}
    BY <1>2 DEF Held
  <2>2. new[s] # Nil /\ new[s] \in Elems
    BY <1>2 DEF CallInv, Calling, Insertion, InsertSteps, ThreadTypes
  <2>3. Linking(s)
    BY <1>2 DEF Work
  <2>4. /\ xPrev[s] \in Linked \cap Held(s) \cap Elems
        /\ xNext[s] # Nil => xNext[s] \in Linked \cap Held(s) \cap Elems
        /\ new[s] \in Held(s) \cap Elems
    BY <1>1, <2>1, <2>2, <2>3 DEF Linking, Neighbours
  <2>5. /\ xPrev'[s] \in Linked' /\ xNext'[s] \in Linked' \cup {Nil}
        /\ next'[xPrev[s]] = next[xPrev[s]] /\ next'[new[s]] = next[new[s]] /\ prev'[new[s]] = prev[new[s]]
        /\ xNext[s] # Nil => prev'[xNext[s]] = prev[xNext[s]]
    BY <2>4
  <2>6. Linking(s)'
    BY <2>3, <2>5 DEF Linking, Neighbours
  <2> QED
    BY <1>2, <2>6 DEF Work, Unlinking
<1>3. CASE pc[s] \in {"unlink", "unlink other"}
  <2>1. Held(s) = {this[s], xPrev[s], xNext[s]} \ {Nil}
    BY <1>3 DEF Held
  <2>2. this[s] # Nil /\ this[s] \in Elems
    BY <1>3 DEF CallInv, Calling, Removal, RemoveSteps, ThreadTypes
  <2> QED
    BY <1>1, <1>3, <2>1, <2>2 DEF Work, Unlinking, Neighbours, ThreadTypes
<1>4. CASE pc[s] \notin {"link", "link one", "link other", "unlink", "unlink other"}
  BY <1>4 DEF Work, Unlinking
<1> QED
  BY <1>2, <1>3, <1>4

LEMMA LinkedKept ==
  ASSUME NEW t \in Threads, Others(t), UNCHANGED isRemoved,
         \A e \in Elems : isRemoved[e] => (Leaving(t, e)' <=> Leaving(t, e)),
         \A e \in Elems : ~isRemoved[e] => (Unlinked(t, e)' <=> Unlinked(t, e))
  PROVE  Linked' = Linked
<1>1. \A s \in Threads \ {t}, e \in Elems : (Leaving(s, e)' <=> Leaving(s, e)) /\ (Unlinked(s, e)' <=> Unlinked(s, e))
  BY DEF Others, Leaving, Unlinked
<1>2. \A e \in Elems : IF isRemoved[e] THEN \A s \in Threads : Leaving(s, e)' <=> Leaving(s, e)
                                      ELSE \A s \in Threads : Unlinked(s, e)' <=> Unlinked(s, e)
  BY <1>1
<1> QED
  BY <1>2 DEF Linked

\* While the links and the row stay as they are, and nobody begins or ends to change them.
LEMMA LinksKept ==
  ASSUME RowInv, NEW t \in Threads, Others(t), UNCHANGED <<next, prev>>, Linked' = Linked,
         pc[t] \notin {"link other", "unlink other"}, pc'[t] \notin {"link other", "unlink other"},
         Work(t)', Ring(t)'
  PROVE  NextInv' /\ PrevInv' /\ WorkInv' /\ RingInv' /\ FirstInv'
<1> USE DEF RowInv, ThreadInv
<1>1. \A s \in Threads : \A e : (Half(s, e)' <=> Half(s, e)) /\ (Pending(s, e)' <=> Pending(s, e))
  BY DEF Others, Half, Pending
<1>2. NextInv'
  BY <1>1 DEF NextInv
<1>3. PrevInv'
  BY <1>1 DEF PrevInv
<1>4. WorkInv'
  <2> SUFFICES ASSUME NEW s \in Threads, s # t
               PROVE  Work(s)'
    BY DEF WorkInv
  <2> QED
    BY WorkKept DEF Others, WorkInv
<1>5. RingInv'
  BY DEF RingInv, Ring, Others
<1> QED
  BY <1>2, <1>3, <1>4, <1>5 DEF FirstInv

\* The steps before the locks are there, and the one that takes them.
Preparing == {"next", "lock next", "prev", "lock prev", "link"}
Searching == {"read prev", "read next", "lock both", "unlink"}

LEMMA CalmStep ==
  ASSUME RowInv, NEW t \in Threads, Others(t), ElementTypes', ThreadTypes', HolderInv',
         UNCHANGED <<links, this, new>>,
         \/ pc[t] \in Preparing /\ pc'[t] \in Preparing
         \/ pc[t] \in Searching /\ pc'[t] \in Searching,
         pc'[t] = "lock next" => xPrev'[t] = this[t],
         pc'[t] = "lock prev" => xNext'[t] = this[t],
         Work(t)', Ring(t)'
  PROVE  RowInv' /\ Same
<1> USE DEF RowInv, ThreadInv, links
<1>1. \A e \in Elems : (Leaving(t, e)' <=> Leaving(t, e)) /\ (Unlinked(t, e)' <=> Unlinked(t, e))
  BY DEF Leaving, Unlinked, Preparing, Searching
<1>2. Linked' = Linked
  BY <1>1, LinkedKept
<1>3. NextInv' /\ PrevInv' /\ WorkInv' /\ RingInv' /\ FirstInv'
  BY <1>2, LinksKept DEF Preparing, Searching
<1>4. Calling(t)'
  BY DEF CallInv, Calling, Insertion, Removal, Preparing, Searching, InsertSteps, RemoveSteps
<1>5. CallInv'
  <2> SUFFICES ASSUME NEW s \in Threads, s # t
               PROVE  Calling(s)'
    BY <1>4 DEF CallInv
  <2> QED
    BY DEF Others, CallInv, Calling, Idle, Insertion, Removal
<1>6. \A s \in Threads : pc'[s] \in RemoveSteps <=> pc[s] \in RemoveSteps
  BY DEF Others, Preparing, Searching, RemoveSteps
<1>7. ApartInv'
  BY <1>6 DEF ApartInv, Apart
<1> QED
  BY <1>2, <1>3, <1>5, <1>7 DEF Same

LEMMA ReadSteps ==
  ASSUME RowInv, NEW t \in Threads, ReadNext(t) \/ ReadPrev(t)
  PROVE  RowInv' /\ Same
<1> USE DEF RowInv, ThreadInv
<1> DEFINE l == IF pc[t] = "next" THEN "lock next" ELSE "lock prev"
<1>1. /\ pc[t] \in {"next", "prev"} /\ Goto(t, l) /\ UNCHANGED <<links, holder, this, new>>
      /\ pc[t] = "next" => xPrev' = [xPrev EXCEPT ![t] = this[t]] /\ xNext' = [xNext EXCEPT ![t] = next[this[t]]]
      /\ pc[t] = "prev" => xNext' = [xNext EXCEPT ![t] = this[t]] /\ xPrev' = [xPrev EXCEPT ![t] = prev[this[t]]]
  BY DEF ReadNext, ReadPrev
<1>2. this[t] \in Elems /\ next[this[t]] \in Elems \cup {Nil} /\ prev[this[t]] \in Elems \cup {Nil}
  BY <1>1 DEF CallInv, Calling, Insertion, InsertSteps, ThreadTypes, ElementTypes
<1>3. pc' \in [Threads -> Labels] /\ pc'[t] = l /\ \A s \in Threads \ {t} : pc'[s] = pc[s]
  BY <1>1 DEF Goto, Labels, ThreadTypes, InsertSteps
<1>4. /\ xPrev' \in [Threads -> Elems \cup {Nil}] /\ xNext' \in [Threads -> Elems \cup {Nil}]
      /\ \A s \in Threads \ {t} : xPrev'[s] = xPrev[s] /\ xNext'[s] = xNext[s]
      /\ pc[t] = "next" => xPrev'[t] = this[t]
      /\ pc[t] = "prev" => xNext'[t] = this[t]
  BY <1>1, <1>2 DEF ThreadTypes
<1>5. ThreadTypes' /\ ElementTypes' /\ Others(t)
  BY <1>1, <1>3, <1>4 DEF ThreadTypes, ElementTypes, Others, Labels, links
<1>6. HolderInv'
  BY <1>1, <1>3, <1>5, HolderKeeps DEF Held
<1>7. Work(t)' /\ Ring(t)'
  BY <1>1, <1>3 DEF Work, Unlinking, Ring, RingInv, links
<1> QED
  BY <1>1, <1>3, <1>4, <1>5, <1>6, <1>7, CalmStep DEF Preparing

\* Somebody reads a neighbour of an element that is in the row: there is one before it.
LEMMA SomePrevious ==
  ASSUME RowInv, NEW e \in Linked, e # First
  PROVE  prev[e] # Nil
<1> USE ElementAssumption DEF RowInv, ThreadInv
<1> SUFFICES ASSUME prev[e] = Nil
             PROVE  FALSE
  OBVIOUS
<1>1. PICK s \in Threads : Pending(s, e)
  BY DEF PrevInv
<1>2. e # Nil /\ Nil \notin Linked
  BY DEF Linked
<1>3. CASE pc[s] = "link other"
  <2>1. Linking(s) /\ new[s] # Nil
    BY <1>3 DEF WorkInv, Work, CallInv, Calling, Insertion, InsertSteps
  <2> QED
    BY <1>1, <1>2, <2>1 DEF Linking, Neighbours, Pending
<1>4. CASE pc[s] = "unlink other"
  <2>1. this[s] # Nil /\ Unlinking(s) /\ isRemoved[this[s]]
    BY <1>4 DEF WorkInv, Work, CallInv, Calling, Removal, RemoveSteps
  <2>2. this[s] \notin Linked
    BY <1>4, <2>1 DEF Linked, Leaving, ApartInv, Apart, RemoveSteps
  <2> QED
    BY <1>1, <1>2, <1>4, <2>1, <2>2 DEF Unlinking, Pending
<1> QED
  BY <1>1, <1>3, <1>4 DEF Pending

LEMMA RemovedLinked ==
  ASSUME RowInv, NEW t \in Threads, pc[t] \in {"mark"} \cup Searching
  PROVE  this[t] \in Linked /\ this[t] # First /\ this[t] \in Elems
<1> USE DEF RowInv, ThreadInv
<1>1. this[t] \in Elems \ {First} /\ (isRemoved[this[t]] <=> pc[t] # "mark")
  BY DEF Searching, CallInv, Calling, Removal, RemoveSteps, ThreadTypes
<1>2. ASSUME NEW s \in Threads
      PROVE  ~Unlinked(s, this[t])
  BY <1>1 DEF Searching, ApartInv, Apart, RemoveSteps, Unlinked, CallInv, Calling, Removal
<1> QED
  BY <1>1, <1>2 DEF Linked, Leaving, Searching

LEMMA ReadOldSteps ==
  ASSUME RowInv, NEW t \in Threads, ReadOldPrev(t) \/ ReadOldNext(t)
  PROVE  RowInv' /\ Same
<1> USE DEF RowInv, ThreadInv
<1> DEFINE l == IF pc[t] = "read prev" THEN "read next" ELSE "lock both"
<1>1. pc[t] \in {"read prev", "read next"} /\ UNCHANGED <<links, holder, this, new>>
  BY DEF ReadOldPrev, ReadOldNext
<1>2. this[t] \in Elems /\ next[this[t]] \in Elems \cup {Nil} /\ prev[this[t]] \in Elems
  BY <1>1, RemovedLinked, SomePrevious DEF ElementTypes, Searching
<1>3. pc[t] = "read next" => xPrev[t] # Nil
  BY DEF RingInv, Ring
<1>4. Goto(t, l)
  BY <1>3 DEF ReadOldPrev, ReadOldNext
<1>5. /\ pc[t] = "read prev" => UNCHANGED xNext /\ xPrev' = [xPrev EXCEPT ![t] = prev[this[t]]]
      /\ pc[t] = "read next" => UNCHANGED xPrev /\ xNext' = [xNext EXCEPT ![t] = next[this[t]]]
  BY DEF ReadOldPrev, ReadOldNext
<1>6. pc' \in [Threads -> Labels] /\ pc'[t] = l /\ \A s \in Threads \ {t} : pc'[s] = pc[s]
  BY <1>1, <1>4 DEF Goto, Labels, ThreadTypes, RemoveSteps
<1>7. /\ xPrev' \in [Threads -> Elems \cup {Nil}] /\ xNext' \in [Threads -> Elems \cup {Nil}]
      /\ \A s \in Threads \ {t} : xPrev'[s] = xPrev[s] /\ xNext'[s] = xNext[s]
      /\ xPrev'[t] # Nil
  BY <1>1, <1>2, <1>3, <1>5, ElementAssumption DEF ThreadTypes
<1>8. ThreadTypes' /\ ElementTypes' /\ Others(t)
  BY <1>1, <1>6, <1>7 DEF ThreadTypes, ElementTypes, Others, Labels, links
<1>9. HolderInv'
  BY <1>1, <1>6, <1>8, HolderKeeps DEF Held
<1>10. Work(t)' /\ Ring(t)'
  BY <1>1, <1>6, <1>7 DEF Work, Unlinking, Ring
<1> QED
  BY <1>1, <1>6, <1>8, <1>9, <1>10, CalmStep DEF Searching

-----------------------------------------------------------------------------
(* The locks *)

\* Nobody else is at work on what a thread gets its locks on.
LEMMA FreeApart ==
  ASSUME RowInv, NEW t \in Threads, NEW els, Free(t, els), NEW e \in els \cap Elems
  PROVE  \A s \in Threads \ {t} : e \notin Held(s) /\ ~Pending(s, e) /\ ~Half(s, e) /\ ~Unlinked(s, e)
<1> USE ElementAssumption DEF RowInv, ThreadInv
<1>1. \A s \in Threads \ {t} : e \notin Held(s)
  BY DEF Free, HolderInv
<1>2. ASSUME NEW s \in Threads
      PROVE  Pending(s, e) \/ Half(s, e) \/ Unlinked(s, e) => e \in Held(s)
  BY DEF Pending, Half, Unlinked, Held
<1> QED
  BY <1>1, <1>2

\* An element in the row that is free and its neighbours agree.
LEMMA FreeNext ==
  ASSUME RowInv, NEW t \in Threads, pc[t] \notin {"link other", "unlink other"},
         NEW els, Free(t, els), NEW e \in els \cap Linked
  PROVE  next[e] # Nil => next[e] \in Linked /\ prev[next[e]] = e
<1>1. e \in els \cap Elems
  BY DEF Linked
<1>2. \A s \in Threads \ {t} : ~Half(s, e)
  BY <1>1, FreeApart
<1>3. ~Half(t, e)
  BY DEF Half
<1> QED
  BY <1>2, <1>3 DEF RowInv, NextInv

LEMMA FreePrevious ==
  ASSUME RowInv, NEW t \in Threads, pc[t] \notin {"link other", "unlink other"},
         NEW els, Free(t, els), NEW e \in els \cap Linked
  PROVE  IF prev[e] = Nil THEN e = First ELSE prev[e] \in Linked /\ next[prev[e]] = e
<1>1. \A s \in Threads : ~Pending(s, e)
  BY FreeApart DEF Linked, Pending
<1> QED
  BY <1>1 DEF RowInv, PrevInv

\* If the neighbours are not what they were, everything is as before.
LEMMA LockFails ==
  ASSUME RowInv, NEW t \in Threads, UNCHANGED <<links, holder, Local>>,
         \/ pc[t] = "lock next" /\ Goto(t, "next")
         \/ pc[t] = "lock prev" /\ Goto(t, "prev")
         \/ pc[t] = "lock both" /\ Goto(t, "read prev")
  PROVE  RowInv' /\ Same
<1> USE DEF RowInv, ThreadInv
<1> DEFINE l == IF pc[t] = "lock next" THEN "next" ELSE IF pc[t] = "lock prev" THEN "prev" ELSE "read prev"
<1>1. Goto(t, l) /\ l \in Labels /\ pc[t] \in {"lock next", "lock prev", "lock both"}
  BY DEF Labels, InsertSteps, RemoveSteps
<1>2. ThreadTypes' /\ Others(t) /\ pc'[t] = l
  BY <1>1, MovesKept
<1>3. ElementTypes' /\ UNCHANGED <<links, this, new>>
  BY DEF ElementTypes, links, Local
<1>4. HolderInv'
  BY <1>1, <1>2, HolderKeeps DEF Held, Local
<1>5. Work(t)' /\ Ring(t)'
  BY <1>1, <1>2 DEF Work, Unlinking, Ring, RingInv, links, Local
<1> QED
  BY <1>1, <1>2, <1>3, <1>4, <1>5, CalmStep DEF Preparing, Searching

\* An element somebody inserts another one beside is in the row as soon as nobody has it locked.
LEMMA FreeLinked ==
  ASSUME RowInv, NEW t \in Threads, pc[t] \in InsertSteps, NEW els, Free(t, els), this[t] \in els
  PROVE  this[t] \in Linked
<1>1. this[t] \in Elems /\ ~isRemoved[this[t]] /\ new[t] # this[t]
  BY DEF RowInv, ThreadInv, CallInv, Calling, Insertion, ThreadTypes
<1>2. \A s \in Threads : ~Unlinked(s, this[t])
  BY <1>1, FreeApart DEF Unlinked
<1> QED
  BY <1>1, <1>2 DEF Linked

\* A new element is in the row only when its neighbours know of it.
LEMMA NewUnlinked ==
  ASSUME RowInv, NEW t \in Threads, pc[t] \in InsertSteps, pc[t] # "link other"
  PROVE  new[t] \notin Linked
<1> USE DEF RowInv, ThreadInv
<1>1. new[t] # Nil /\ new[t] \in Elems /\ (isRemoved[new[t]] <=> pc[t] # "link one")
  BY DEF CallInv, Calling, Insertion, ThreadTypes
<1>2. \A s \in Threads : ~Leaving(s, new[t])
  BY DEF Leaving, ApartInv, Apart, RemoveSteps, InsertSteps
<1> QED
  BY <1>1, <1>2 DEF Linked, Unlinked

\* An insertion gets its locks: the place is found.
LEMMA InsertLocked ==
  ASSUME RowInv, NEW t \in Threads, UNCHANGED <<links, Local>>,
         pc[t] \in {"lock next", "lock prev"}, Goto(t, "link"),
         Free(t, {this[t], xPrev[t], xNext[t]}), Lock(t, {this[t], xPrev[t], xNext[t]}),
         pc[t] = "lock next" => next[this[t]] = xNext[t],
         pc[t] = "lock prev" => prev[this[t]] = xPrev[t]
  PROVE  RowInv' /\ Same
<1> USE DEF RowInv, ThreadInv
<1> DEFINE els == {this[t], xPrev[t], xNext[t]}
<1>1. Insertion(t) /\ isRemoved[new[t]] /\ new[t] \in Elems
  BY DEF CallInv, Calling, Insertion, InsertSteps, ThreadTypes
<1>2. this[t] \in Linked
  BY FreeLinked DEF InsertSteps
<1>3. /\ pc[t] = "lock next" => xPrev[t] = this[t]
      /\ pc[t] = "lock prev" => xNext[t] = this[t]
  BY <1>1 DEF Insertion
<1>4. this[t] \in els \cap Linked /\ pc[t] \notin {"link other", "unlink other"} /\ Nil \notin Linked
  BY <1>2, ElementAssumption DEF Linked
<1>5. /\ Neighbours(t) /\ next[xPrev[t]] = xNext[t]
      /\ xNext[t] # Nil => prev[xNext[t]] = xPrev[t]
  <2>1. CASE pc[t] = "lock next"
    <3>1. next[this[t]] # Nil => next[this[t]] \in Linked /\ prev[next[this[t]]] = this[t]
      BY <1>4, FreeNext
    <3> QED
      BY <1>2, <1>3, <2>1, <3>1 DEF Neighbours
  <2>2. CASE pc[t] = "lock prev"
    <3>1. IF prev[this[t]] = Nil THEN this[t] = First
          ELSE prev[this[t]] \in Linked /\ next[prev[this[t]]] = this[t]
      BY <1>4, FreePrevious
    <3>2. prev[this[t]] # Nil
      BY <2>2, <3>1 DEF RingInv, Ring
    <3> QED
      BY <1>2, <1>3, <2>2, <3>1, <3>2 DEF Neighbours
  <2> QED
    BY <2>1, <2>2
<1>6. new[t] \notin Linked
  BY NewUnlinked DEF InsertSteps
<1>7. ThreadTypes' /\ Others(t) /\ pc'[t] = "link"
  BY MovesKept DEF Labels, InsertSteps
<1>8. ElementTypes'
  BY LockTypes
<1>9. this[t] \in {xPrev[t], xNext[t]} /\ new[t] \notin {xPrev[t], xNext[t]}
  BY <1>1, <1>3, <1>5, <1>6 DEF Neighbours, Insertion
<1>10. HolderInv'
  <2>1. Held(t)' \cap Elems = (Held(t) \cup els) \cap Elems
    BY <1>7, ElementAssumption DEF Held, Local
  <2> QED
    BY <1>7, <2>1, LockKeeps
<1>11. Linked' = Linked
  <2>1. \A e \in Elems : (Leaving(t, e)' <=> Leaving(t, e)) /\ (Unlinked(t, e)' <=> Unlinked(t, e))
    BY <1>7 DEF Leaving, Unlinked
  <2> QED
    BY <1>7, <2>1, LinkedKept DEF links
<1>12. Work(t)' /\ Ring(t)'
  <2>1. Linking(t)'
    BY <1>5, <1>7, <1>9, <1>11 DEF Linking, Neighbours, links, Local
  <2> QED
    BY <1>7, <2>1 DEF Work, Unlinking, Ring
<1> QED
  BY <1>7, <1>8, <1>10, <1>12, CalmStep DEF Preparing, Local

LEMMA LockSteps ==
  ASSUME RowInv, NEW t \in Threads, LockNext(t) \/ LockPrev(t)
  PROVE  RowInv' /\ Same
<1>1. UNCHANGED <<links, Local>>
  BY DEF LockNext, LockPrev, local, Local
<1>2. pc[t] \in {"lock next", "lock prev"}
  BY DEF LockNext, LockPrev
<1>3. /\ pc[t] = "lock next" => xPrev[t] = this[t]
      /\ pc[t] = "lock prev" => xNext[t] = this[t]
  BY <1>2 DEF RowInv, ThreadInv, CallInv, Calling, Insertion, InsertSteps
<1>4. /\ pc[t] = "lock next" => {this[t], xPrev[t], xNext[t]} = {this[t], xNext[t]}
      /\ pc[t] = "lock prev" => {this[t], xPrev[t], xNext[t]} = {this[t], xPrev[t]}
  BY <1>3
<1>5. CASE pc[t] = "lock next"
  <2>1. CASE next[this[t]] = xNext[t]
    BY <1>1, <1>4, <1>5, <2>1, InsertLocked DEF LockNext, LockPrev
  <2>2. CASE next[this[t]] # xNext[t]
    BY <1>1, <1>5, <2>2, LockFails DEF LockNext, LockPrev
  <2> QED
    BY <2>1, <2>2
<1>6. CASE pc[t] = "lock prev"
  <2>1. CASE prev[this[t]] = xPrev[t]
    BY <1>1, <1>4, <1>6, <2>1, InsertLocked DEF LockNext, LockPrev
  <2>2. CASE prev[this[t]] # xPrev[t]
    BY <1>1, <1>6, <2>2, LockFails DEF LockNext, LockPrev
  <2> QED
    BY <2>1, <2>2
<1> QED
  BY <1>2, <1>5, <1>6

LEMMA LockBothStep ==
  ASSUME RowInv, NEW t \in Threads, LockBoth(t)
  PROVE  RowInv' /\ Same
<1> USE DEF RowInv, ThreadInv
<1> DEFINE els == {this[t], xPrev[t], xNext[t]}
<1>1. pc[t] = "lock both" /\ UNCHANGED <<links, Local>> /\ Free(t, els)
  BY DEF LockBoth, local, Local
<1>2. CASE ~(prev[this[t]] = xPrev[t] /\ next[this[t]] = xNext[t])
  <2>1. UNCHANGED holder /\ Goto(t, "read prev")
    BY <1>2 DEF LockBoth
  <2> QED
    BY <1>1, <2>1, LockFails
<1>3. CASE prev[this[t]] = xPrev[t] /\ next[this[t]] = xNext[t]
  <2>1. Lock(t, els) /\ Goto(t, "unlink")
    BY <1>3 DEF LockBoth
  <2>2. this[t] \in Linked /\ this[t] # First /\ this[t] \in els \cap Linked
    BY <1>1, RemovedLinked DEF Searching
  <2>3. prev[this[t]] \in Linked /\ next[prev[this[t]]] = this[t]
    BY <1>1, <2>2, FreePrevious
  <2>4. next[this[t]] # Nil => next[this[t]] \in Linked /\ prev[next[this[t]]] = this[t]
    BY <1>1, <2>2, FreeNext
  <2>5. ThreadTypes' /\ Others(t) /\ pc'[t] = "unlink"
    BY <1>1, <2>1, MovesKept DEF Labels, RemoveSteps
  <2>6. ElementTypes'
    BY <1>1, <2>1, LockTypes
  <2>7. HolderInv'
    <3>1. Held(t)' \cap Elems = (Held(t) \cup els) \cap Elems
      BY <1>1, <2>5, ElementAssumption DEF Held, Local
    <3> QED
      BY <1>1, <2>1, <2>5, <3>1, LockKeeps
  <2>8. Linked' = Linked
    <3>1. \A e \in Elems : (Leaving(t, e)' <=> Leaving(t, e)) /\ (Unlinked(t, e)' <=> Unlinked(t, e))
      BY <1>1, <2>5 DEF Leaving, Unlinked, Local
    <3> QED
      BY <1>1, <2>5, <3>1, LinkedKept DEF links
  <2>9. Work(t)' /\ Ring(t)'
    BY <1>1, <1>3, <2>3, <2>4, <2>5, <2>8 DEF Work, Unlinking, Neighbours, Ring, links, Local
  <2> QED
    BY <1>1, <2>5, <2>6, <2>7, <2>9, CalmStep DEF Searching, Local
<1> QED
  BY <1>2, <1>3

-----------------------------------------------------------------------------
(* The calls, and an element that begins to leave *)

LEMMA FirstStays == ASSUME RowInv PROVE ~isRemoved[First]
BY DEF RowInv, ThreadInv, FirstInv, Linked, Leaving, CallInv, Calling, Removal, RemoveSteps

LEMMA CallTypes ==
  ASSUME ThreadTypes, NEW t \in Threads, NEW l \in Labels, Goto(t, l), UNCHANGED <<xNext, xPrev>>,
         NEW e \in Elems, NEW x \in Elems \cup {Nil},
         this' = [this EXCEPT ![t] = e], new' = [new EXCEPT ![t] = x]
  PROVE  ThreadTypes' /\ Others(t) /\ pc'[t] = l /\ this'[t] = e /\ new'[t] = x
<1>1. pc' \in [Threads -> Labels] /\ pc'[t] = l /\ \A s \in Threads \ {t} : pc'[s] = pc[s]
  BY DEF Goto, Labels, ThreadTypes
<1> QED
  BY <1>1 DEF Labels, Others, ThreadTypes

LEMMA InsertStep ==
  ASSUME RowInv, NEW t \in Threads, NEW step \in {"next", "prev"}, NEW e \in Elems, NEW x \in Elems,
         Insert(t, step, e, x), step = "prev" /\ e = First => prev[e] # Nil
  PROVE  RowInv' /\ Same
<1> USE ElementAssumption DEF RowInv, ThreadInv
<1>1. /\ pc[t] = "idle" /\ x \in Fresh /\ e # x /\ ~isRemoved[e]
      /\ (\A s \in Working \ Inserting : this[s] # e) /\ Free(t, {x}) /\ Lock(t, {x})
      /\ this' = [this EXCEPT ![t] = e] /\ new' = [new EXCEPT ![t] = x]
      /\ Goto(t, step) /\ UNCHANGED <<links, xNext, xPrev>>
  BY DEF Insert
<1>2. isRemoved[x] /\ (\A s \in Threads : this[s] # x /\ new[s] # x) /\ x # First
  BY <1>1, FirstStays DEF Fresh
<1>3. step \in Labels
  BY DEF Labels, InsertSteps
<1>4. ThreadTypes' /\ Others(t) /\ pc'[t] = step /\ this'[t] = e /\ new'[t] = x
  BY <1>1, <1>3, CallTypes
<1>5. ElementTypes'
  BY <1>1, LockTypes
<1>6. HolderInv'
  <2>1. Held(t)' \cap Elems = (Held(t) \cup {x}) \cap Elems
    BY <1>1, <1>4 DEF Held
  <2> QED
    BY <1>1, <1>4, <2>1, LockKeeps
<1>7. Linked' = Linked
  <2>1. \A f \in Elems : (Leaving(t, f)' <=> Leaving(t, f)) /\ (Unlinked(t, f)' <=> Unlinked(t, f))
    BY <1>1, <1>4 DEF Leaving, Unlinked
  <2> QED
    BY <1>1, <1>4, <2>1, LinkedKept DEF links
<1>8. Work(t)' /\ Ring(t)'
  BY <1>1, <1>4 DEF Work, Unlinking, Ring, links
<1>9. NextInv' /\ PrevInv' /\ WorkInv' /\ RingInv' /\ FirstInv'
  BY <1>1, <1>4, <1>7, <1>8, LinksKept DEF links
<1>10. CallInv'
  <2>1. Calling(t)'
    BY <1>1, <1>2, <1>4 DEF Calling, Insertion, InsertSteps, RemoveSteps, links
  <2>2. ASSUME NEW s \in Threads, s # t
        PROVE  Calling(s)'
    BY <1>1, <1>4, <2>2 DEF Others, CallInv, Calling, Idle, Insertion, Removal, links
  <2> QED
    BY <2>1, <2>2 DEF CallInv
<1>11. ASSUME NEW s \in Threads, s # t
       PROVE  Apart(s, t)' /\ Apart(t, s)'
  <2>1. pc[s] \in RemoveSteps => this[s] # e
    BY <1>1 DEF CallInv, Calling, Removal, Working, Inserting, RemoveSteps
  <2>2. pc'[s] = pc[s] /\ this'[s] = this[s] /\ new'[s] = new[s]
    BY <1>4, <1>11 DEF Others
  <2> QED
    BY <1>2, <1>4, <2>1, <2>2 DEF Apart, RemoveSteps
<1>12. ApartInv'
  <2>1. ASSUME NEW s \in Threads \ {t}, NEW r \in Threads \ {t}, s # r
        PROVE  Apart(s, r)'
    BY <1>4, <2>1 DEF Others, ApartInv, Apart
  <2> QED
    BY <1>11, <2>1 DEF ApartInv
<1> QED
  BY <1>1, <1>4, <1>5, <1>6, <1>7, <1>9, <1>10, <1>12 DEF Same, links

LEMMA RemoveCallStep ==
  ASSUME ~RemoveTwice, RowInv, NEW t \in Threads, NEW e \in Elems, RemoveCall(t, e)
  PROVE  RowInv' /\ Same
<1> USE ElementAssumption DEF RowInv, ThreadInv
<1>1. /\ pc[t] = "idle" /\ e # First /\ ~isRemoved[e]
      /\ (\A s \in Working : this[s] # e) /\ (\A s \in Inserting : new[s] # e)
      /\ this' = [this EXCEPT ![t] = e] /\ Goto(t, "mark") /\ UNCHANGED <<links, holder, new, xNext, xPrev>>
  BY DEF RemoveCall
<1>2. new[t] = Nil /\ new' = [new EXCEPT ![t] = Nil] /\ "mark" \in Labels
  BY <1>1 DEF CallInv, Calling, Idle, ThreadTypes, Labels, RemoveSteps
<1>3. ThreadTypes' /\ Others(t) /\ pc'[t] = "mark" /\ this'[t] = e /\ new'[t] = Nil
  <2> DEFINE l == "mark"
             x == Nil
  <2>1. l \in Labels /\ x \in Elems \cup {Nil} /\ Goto(t, l) /\ UNCHANGED <<xNext, xPrev>> /\ ThreadTypes
        /\ this' = [this EXCEPT ![t] = e] /\ new' = [new EXCEPT ![t] = x]
    BY <1>1, <1>2
  <2> HIDE DEF l, x
  <2>2. ThreadTypes' /\ Others(t) /\ pc'[t] = l /\ this'[t] = e /\ new'[t] = x
    BY <2>1, CallTypes
  <2> QED
    BY <2>2 DEF l, x
<1>4. ElementTypes'
  BY <1>1 DEF ElementTypes, links
<1>5. HolderInv'
  BY <1>1, <1>3, HolderKeeps DEF Held
<1>6. Linked' = Linked
  <2>1. \A f \in Elems : (Leaving(t, f)' <=> Leaving(t, f)) /\ (Unlinked(t, f)' <=> Unlinked(t, f))
    BY <1>1, <1>3 DEF Leaving, Unlinked
  <2> QED
    BY <1>1, <1>3, <2>1, LinkedKept DEF links
<1>7. Work(t)' /\ Ring(t)'
  BY <1>1, <1>3 DEF Work, Unlinking, Ring, links
<1>8. NextInv' /\ PrevInv' /\ WorkInv' /\ RingInv' /\ FirstInv'
  BY <1>1, <1>3, <1>6, <1>7, LinksKept DEF links
<1>9. CallInv'
  <2>1. Calling(t)'
    BY <1>1, <1>3 DEF Calling, Removal, InsertSteps, RemoveSteps, links
  <2>2. ASSUME NEW s \in Threads, s # t
        PROVE  Calling(s)'
    BY <1>1, <1>3, <2>2 DEF Others, CallInv, Calling, Idle, Insertion, Removal, links
  <2> QED
    BY <2>1, <2>2 DEF CallInv
<1>10. ASSUME NEW s \in Threads, s # t
       PROVE  Apart(s, t)' /\ Apart(t, s)'
  <2>1. CASE pc[s] = "idle"
    <3>1. this[s] = Nil /\ new[s] = Nil /\ e # Nil
      BY <2>1 DEF CallInv, Calling, Idle
    <3>2. pc'[s] = "idle" /\ this'[s] = Nil /\ new'[s] = Nil
      BY <1>3, <1>10, <2>1, <3>1 DEF Others
    <3>3. pc'[t] = "mark" /\ this'[t] = e /\ new'[t] = Nil
      BY <1>3
    <3> QED
      BY <3>1, <3>2, <3>3 DEF Apart, RemoveSteps
  <2>2. CASE pc[s] # "idle"
    <3>1. this[s] # e /\ new[s] # e
      BY <1>1, <2>2 DEF Working, Inserting
    <3>2. pc'[s] = pc[s] /\ this'[s] = this[s] /\ new'[s] = new[s]
      BY <1>3, <1>10 DEF Others
    <3>3. pc[s] \in RemoveSteps => this[s] # Nil
      BY DEF CallInv, Calling, Removal
    <3> QED
      BY <1>3, <3>1, <3>2, <3>3 DEF Apart
  <2> QED
    BY <2>1, <2>2
<1>11. ApartInv'
  <2>1. ASSUME NEW s \in Threads \ {t}, NEW r \in Threads \ {t}, s # r
        PROVE  Apart(s, r)'
    BY <1>3, <2>1 DEF Others, ApartInv, Apart
  <2> QED
    BY <1>10, <2>1 DEF ApartInv
<1> QED
  BY <1>1, <1>3, <1>4, <1>5, <1>6, <1>8, <1>9, <1>11 DEF Same, links

\* The element is marked, and still in the row.
LEMMA MarkStep ==
  ASSUME RowInv, NEW t \in Threads, Mark(t)
  PROVE  RowInv' /\ Same
<1> USE DEF RowInv, ThreadInv
<1>1. /\ pc[t] = "mark" /\ isRemoved' = [isRemoved EXCEPT ![this[t]] = TRUE]
      /\ Goto(t, "read prev") /\ UNCHANGED <<next, prev, holder, Local>>
  BY DEF Mark, local, Local
<1>2. this[t] \in Linked /\ this[t] \in Elems /\ this[t] \notin {First, Nil} /\ new[t] = Nil /\ ~isRemoved[this[t]]
  BY <1>1, RemovedLinked DEF CallInv, Calling, Removal, RemoveSteps
<1>3. ThreadTypes' /\ Others(t) /\ pc'[t] = "read prev"
  BY <1>1, MovesKept DEF Labels, RemoveSteps
<1>4. ElementTypes'
  BY <1>1, <1>2 DEF ElementTypes
<1>5. isRemoved'[this[t]] /\ \A e \in Elems \ {this[t]} : isRemoved'[e] = isRemoved[e]
  BY <1>1, <1>2 DEF ElementTypes
<1>6. HolderInv'
  BY <1>1, <1>3, HolderKeeps DEF Held
<1>7. Linked' = Linked
  <2>1. this[t] \in Linked'
    BY <1>1, <1>2, <1>3, <1>5 DEF Linked, Leaving, Local
  <2>2. ASSUME NEW e \in Elems, e # this[t]
        PROVE  e \in Linked' <=> e \in Linked
    <3>1. \A s \in Threads : (Leaving(s, e)' <=> Leaving(s, e)) /\ (Unlinked(s, e)' <=> Unlinked(s, e))
      BY <1>1, <1>3, <2>2 DEF Leaving, Unlinked, Others, Local
    <3> QED
      BY <1>5, <2>2, <3>1 DEF Linked
  <2>3. Linked \subseteq Elems /\ Linked' \subseteq Elems
    BY DEF Linked
  <2> QED
    BY <1>2, <2>1, <2>2, <2>3
<1>8. Work(t)' /\ Ring(t)'
  BY <1>3 DEF Work, Unlinking, Ring
<1>9. NextInv' /\ PrevInv' /\ WorkInv' /\ RingInv' /\ FirstInv'
  BY <1>1, <1>3, <1>7, <1>8, LinksKept
<1>10. CallInv'
  <2>1. Calling(t)'
    BY <1>1, <1>2, <1>3, <1>5 DEF Calling, Removal, InsertSteps, RemoveSteps, Local
  <2>2. ASSUME NEW s \in Threads, s # t
        PROVE  Calling(s)'
    <3>1. this[s] # this[t] /\ new[s] # this[t]
      BY <1>1, <1>2, <2>2 DEF ApartInv, Apart, RemoveSteps
    <3>2. pc'[s] = pc[s] /\ this'[s] = this[s] /\ new'[s] = new[s] /\ xPrev'[s] = xPrev[s] /\ xNext'[s] = xNext[s]
      BY <1>3, <2>2 DEF Others
    <3>3. /\ this[s] # Nil => isRemoved'[this[s]] = isRemoved[this[s]]
          /\ new[s] # Nil => isRemoved'[new[s]] = isRemoved[new[s]]
      BY <1>5, <3>1 DEF ThreadTypes
    <3> QED
      BY <3>2, <3>3 DEF CallInv, Calling, Idle, Insertion, Removal
  <2> QED
    BY <2>1, <2>2 DEF CallInv
<1>11. ApartInv'
  <2>1. \A s \in Threads : (pc'[s] \in RemoveSteps <=> pc[s] \in RemoveSteps) /\ this'[s] = this[s] /\ new'[s] = new[s]
    BY <1>1, <1>3 DEF Others, RemoveSteps, Local
  <2> QED
    BY <2>1 DEF ApartInv, Apart
<1> QED
  BY <1>1, <1>3, <1>4, <1>6, <1>7, <1>9, <1>10, <1>11 DEF Same

-----------------------------------------------------------------------------
(* The stores: what a thread that has its locks does to the row *)

LEMMA CallKept ==
  ASSUME RowInv, NEW t \in Threads, Others(t), Calling(t)', UNCHANGED isRemoved
  PROVE  CallInv'
<1> SUFFICES ASSUME NEW s \in Threads, s # t
             PROVE  Calling(s)'
  BY DEF CallInv
<1> QED
  BY DEF Others, RowInv, ThreadInv, CallInv, Calling, Idle, Insertion, Removal

LEMMA ApartKept ==
  ASSUME RowInv, NEW t \in Threads, Others(t),
         \/ UNCHANGED Local /\ (pc'[t] \in RemoveSteps <=> pc[t] \in RemoveSteps)
         \/ pc'[t] = "idle" /\ this'[t] = Nil /\ new'[t] = Nil
  PROVE  ApartInv'
<1> USE DEF RowInv, ThreadInv
<1>1. CASE UNCHANGED Local /\ (pc'[t] \in RemoveSteps <=> pc[t] \in RemoveSteps)
  <2>1. \A s \in Threads : (pc'[s] \in RemoveSteps <=> pc[s] \in RemoveSteps) /\ this'[s] = this[s] /\ new'[s] = new[s]
    BY <1>1 DEF Others, Local
  <2> QED
    BY <2>1 DEF ApartInv, Apart
<1>2. CASE pc'[t] = "idle" /\ this'[t] = Nil /\ new'[t] = Nil
  <2> SUFFICES ASSUME NEW s \in Threads, NEW r \in Threads, s # r
               PROVE  Apart(s, r)'
    BY DEF ApartInv
  <2>1. CASE s = t
    BY <1>2, <2>1 DEF Apart, RemoveSteps
  <2>2. CASE s # t
    <3>1. pc'[s] = pc[s] /\ this'[s] = this[s] /\ new'[s] = new[s] /\ Apart(s, r)
      BY <2>2 DEF Others, ApartInv
    <3>2. pc[s] \in RemoveSteps => this[s] # Nil
      BY DEF CallInv, Calling, Removal
    <3>3. CASE r = t
      BY <1>2, <3>1, <3>2, <3>3 DEF Apart
    <3>4. CASE r # t
      <4>1. this'[r] = this[r] /\ new'[r] = new[r]
        BY <3>4 DEF Others
      <4> QED
        BY <3>1, <4>1 DEF Apart
    <3> QED
      BY <3>3, <3>4
  <2> QED
    BY <2>1, <2>2
<1> QED
  BY <1>1, <1>2

\* What others are at work on is not what a thread stores in.
LEMMA WorkAround ==
  ASSUME RowInv, NEW t \in Threads, Others(t), NEW els,
         \A s \in Threads \ {t} : \A e \in els \cap Elems : e \notin Held(s),
         \A e \in Elems \ els : /\ next'[e] = next[e] /\ prev'[e] = prev[e]
                                /\ e \in Linked => e \in Linked',
         prev[First] # Nil => prev'[First] # Nil,
         Work(t)', Ring(t)'
  PROVE  WorkInv' /\ RingInv'
<1> USE DEF RowInv, ThreadInv
<1>1. WorkInv'
  <2> SUFFICES ASSUME NEW s \in Threads, s # t
               PROVE  Work(s)'
    BY DEF WorkInv
  <2>1. Work(s)
    BY DEF WorkInv
  <2>2. pc'[s] = pc[s] /\ this'[s] = this[s] /\ new'[s] = new[s] /\ xNext'[s] = xNext[s] /\ xPrev'[s] = xPrev[s]
    BY DEF Others
  <2>3. \A e \in Held(s) \cap Elems : /\ next'[e] = next[e] /\ prev'[e] = prev[e]
                                      /\ e \in Linked => e \in Linked'
    OBVIOUS
  <2> QED
    BY <2>1, <2>2, <2>3, WorkKept
<1>2. RingInv'
  BY DEF RingInv, Ring, Others
<1> QED
  BY <1>1, <1>2

LEMMA WorkAroundHeld ==
  ASSUME RowInv, NEW t \in Threads, Others(t),
         \A e \in Elems \ Held(t) : /\ next'[e] = next[e] /\ prev'[e] = prev[e]
                                    /\ e \in Linked => e \in Linked',
         prev[First] # Nil => prev'[First] # Nil,
         Work(t)', Ring(t)'
  PROVE  WorkInv' /\ RingInv'
<1>1. \A s \in Threads \ {t} : \A e \in Held(t) \cap Elems : e \notin Held(s)
  BY HeldApart DEF RowInv, ThreadInv
<1> QED
  BY <1>1, WorkAround

\* What is not in the row may change as it likes.
LEMMA OutsideKept ==
  ASSUME RowInv, NEW t \in Threads, Others(t), Linked' = Linked,
         \A e \in Linked : next'[e] = next[e] /\ prev'[e] = prev[e],
         pc[t] \notin {"link other", "unlink other"}, pc'[t] \notin {"link other", "unlink other"}
  PROVE  NextInv' /\ PrevInv' /\ FirstInv'
<1> USE DEF RowInv
<1>1. \A s \in Threads : \A e : (Half(s, e)' <=> Half(s, e)) /\ (Pending(s, e)' <=> Pending(s, e))
  BY DEF Others, Half, Pending
<1>2. NextInv'
  BY <1>1 DEF NextInv
<1>3. PrevInv'
  BY <1>1 DEF PrevInv
<1> QED
  BY <1>2, <1>3 DEF FirstInv

LEMMA LinkStep ==
  ASSUME RowInv, NEW t \in Threads, Link(t)
  PROVE  RowInv' /\ Same
<1> USE DEF RowInv, ThreadInv
<1> DEFINE x == new[t]
<1>1. /\ pc[t] = "link" /\ next' = [next EXCEPT ![x] = xNext[t]] /\ prev' = [prev EXCEPT ![x] = xPrev[t]]
      /\ isRemoved' = [isRemoved EXCEPT ![x] = FALSE] /\ Goto(t, "link one") /\ UNCHANGED <<holder, Local>>
  BY DEF Link, local, Local
<1>2. Insertion(t) /\ isRemoved[x] /\ x \in Elems /\ Linking(t)
  BY <1>1 DEF CallInv, Calling, Insertion, InsertSteps, ThreadTypes, WorkInv, Work
<1>3. x \notin Linked
  BY <1>1, NewUnlinked DEF InsertSteps
<1>4. ThreadTypes' /\ Others(t) /\ pc'[t] = "link one"
  BY <1>1, MovesKept DEF Labels, InsertSteps
<1>5. /\ next'[x] = xNext[t] /\ prev'[x] = xPrev[t] /\ ~isRemoved'[x]
      /\ \A e \in Elems \ {x} : next'[e] = next[e] /\ prev'[e] = prev[e] /\ isRemoved'[e] = isRemoved[e]
  BY <1>1, <1>2 DEF ElementTypes
<1>6. ElementTypes'
  BY <1>1, <1>2 DEF ElementTypes, ThreadTypes
<1>7. HolderInv'
  BY <1>1, <1>4, HolderKeeps DEF Held, Local
<1>8. Linked' = Linked
  <2>1. x \notin Linked'
    BY <1>1, <1>4, <1>5 DEF Linked, Unlinked, Local
  <2>2. ASSUME NEW e \in Elems, e # x
        PROVE  e \in Linked' <=> e \in Linked
    <3>1. \A s \in Threads : (Leaving(s, e)' <=> Leaving(s, e)) /\ (Unlinked(s, e)' <=> Unlinked(s, e))
      BY <1>1, <1>4, <2>2 DEF Leaving, Unlinked, Others, Local
    <3> QED
      BY <1>5, <2>2, <3>1 DEF Linked
  <2>3. Linked \subseteq Elems /\ Linked' \subseteq Elems
    BY DEF Linked
  <2> QED
    BY <1>3, <2>1, <2>2, <2>3
<1>9. \A e \in Linked : e # x /\ next'[e] = next[e] /\ prev'[e] = prev[e]
  BY <1>3, <1>5 DEF Linked
<1>10. NextInv' /\ PrevInv' /\ FirstInv'
  BY <1>1, <1>4, <1>8, <1>9, OutsideKept
<1>11. Work(t)' /\ Ring(t)'
  <2>1. Linking(t)'
    BY <1>1, <1>2, <1>4, <1>5, <1>8, <1>9 DEF Linking, Neighbours, Local
  <2> QED
    BY <1>4, <2>1 DEF Work, Unlinking, Ring
<1>12. WorkInv' /\ RingInv'
  <2>1. x \in Held(t)
    BY <1>1, <1>2 DEF Held, Insertion
  <2> QED
    BY <1>4, <1>5, <1>8, <1>9, <1>11, <2>1, WorkAroundHeld DEF FirstInv
<1>13. CallInv'
  <2>1. Calling(t)'
    BY <1>1, <1>2, <1>4, <1>5 DEF Calling, Insertion, InsertSteps, RemoveSteps, ThreadTypes, Local
  <2>2. ASSUME NEW s \in Threads, s # t
        PROVE  Calling(s)'
    <3>1. this[s] # x /\ new[s] # x
      BY <1>2, <2>2, ElementAssumption
         DEF ApartInv, Apart, CallInv, Calling, Idle, Insertion, ThreadTypes
    <3>2. pc'[s] = pc[s] /\ this'[s] = this[s] /\ new'[s] = new[s] /\ xPrev'[s] = xPrev[s] /\ xNext'[s] = xNext[s]
      BY <1>4, <2>2 DEF Others
    <3>3. /\ this[s] # Nil => isRemoved'[this[s]] = isRemoved[this[s]]
          /\ new[s] # Nil => isRemoved'[new[s]] = isRemoved[new[s]]
      BY <1>5, <3>1 DEF ThreadTypes
    <3> QED
      BY <3>2, <3>3 DEF CallInv, Calling, Idle, Insertion, Removal
  <2> QED
    BY <2>1, <2>2 DEF CallInv
<1>14. ApartInv'
  BY <1>1, <1>4, ApartKept DEF RemoveSteps
<1> QED
  BY <1>4, <1>6, <1>7, <1>8, <1>9, <1>10, <1>12, <1>13, <1>14 DEF Same

\* Only one thread is at the links of an element that it has locked.
LEMMA AtWork ==
  ASSUME RowInv, NEW t \in Threads, NEW e \in Held(t) \cap Elems
  PROVE  \A s \in Threads \ {t} : ~Half(s, e) /\ ~Pending(s, e)
<1> USE DEF RowInv, ThreadInv
<1>1. \A s \in Threads \ {t} : e \notin Held(s)
  BY HeldApart
<1>2. ASSUME NEW s \in Threads
      PROVE  Pending(s, e) \/ Half(s, e) => e \in Held(s)
  BY ElementAssumption DEF Pending, Half, Held
<1> QED
  BY <1>1, <1>2

\* What an insertion that has its locks knows.
LEMMA LinkFacts ==
  ASSUME RowInv, NEW t \in Threads, pc[t] \in {"link one", "link other"}
  PROVE  /\ Insertion(t) /\ Linking(t) /\ new[t] \in Elems \ {First} /\ ~isRemoved[new[t]]
         /\ xPrev[t] \in Elems \cap Held(t) /\ new[t] \in Held(t)
         /\ xNext[t] # Nil => xNext[t] \in Elems \cap Held(t)
         /\ \A s \in Threads : s # t => ~Unlinked(s, new[t])
<1> USE ElementAssumption DEF RowInv, ThreadInv
<1>1. Insertion(t) /\ Linking(t) /\ new[t] \in Elems /\ ~isRemoved[new[t]]
  BY DEF CallInv, Calling, Insertion, InsertSteps, ThreadTypes, WorkInv, Work
<1>2. xPrev[t] \in Elems /\ (xNext[t] # Nil => xNext[t] \in Elems)
  BY <1>1 DEF Linking, Neighbours, Linked
<1>3. Held(t) = {this[t], xPrev[t], xNext[t], new[t]} \ {Nil}
  BY DEF Held
<1>4. \A s \in Threads : s # t => ~Unlinked(s, new[t])
  BY <1>1 DEF Unlinked, ApartInv, Apart, Insertion
<1> QED
  BY <1>1, <1>2, <1>3, <1>4 DEF Insertion, Linking

\* What the two stores of an insertion leave alone.
LEMMA StoreKept ==
  ASSUME RowInv, NEW t \in Threads, Others(t)
  PROVE  \A s \in Threads \ {t} : \A e : /\ (Half(s, e)' <=> Half(s, e)) /\ (Pending(s, e)' <=> Pending(s, e))
                                     /\ (Leaving(s, e)' <=> Leaving(s, e)) /\ (Unlinked(s, e)' <=> Unlinked(s, e))
BY DEF Others, Half, Pending, Leaving, Unlinked

\* The previous element learns of the new one: it is in the row, the next one does not know it yet.
LEMMA LinkNextFirst ==
  ASSUME RowInv, NEW t \in Threads, Others(t), pc[t] = "link one", pc'[t] = "link other",
         UNCHANGED <<isRemoved, prev, Local>>, this[t] = xPrev[t],
         next' = [next EXCEPT ![xPrev[t]] = new[t]],
         NEW x, x = new[t], NEW p, p = xPrev[t], NEW n, n = xNext[t]
  PROVE  /\ NextInv' /\ PrevInv' /\ FirstInv' /\ Linking(t)'
         /\ Linked \subseteq Linked' /\ Inserted(p, x)
<1> USE ElementAssumption DEF RowInv, ThreadInv
<1>1. /\ Insertion(t) /\ Linking(t) /\ x \in Elems /\ ~isRemoved[x] /\ p \in Elems
      /\ \A s \in Threads : s # t => ~Unlinked(s, x)
  BY LinkFacts
<1>2. next'[p] = x /\ \A e \in Elems \ {p} : next'[e] = next[e]
  BY <1>1 DEF ElementTypes
<1>3. /\ p \in Linked /\ n \in Linked \cup {Nil} /\ next[p] = n /\ x \notin {p, n}
      /\ (n # Nil => prev[n] = p) /\ next[x] = n /\ prev[x] = p
  BY <1>1 DEF Linking, Neighbours
<1>4. new'[t] = x /\ xPrev'[t] = p /\ xNext'[t] = n /\ this'[t] = p
  BY DEF Local
<1>5. Linked' = Linked \cup {x}
  <2>1. x \in Linked'
    <3>1. \A s \in Threads : ~Unlinked(s, x)'
      BY <1>1, <1>4, StoreKept DEF Unlinked
    <3> QED
      BY <1>1, <3>1 DEF Linked
  <2>2. ASSUME NEW e \in Elems, e # x
        PROVE  e \in Linked' <=> e \in Linked
    <3>1. \A s \in Threads : (Leaving(s, e)' <=> Leaving(s, e)) /\ (Unlinked(s, e)' <=> Unlinked(s, e))
      BY <1>4, <2>2, StoreKept DEF Leaving, Unlinked
    <3> QED
      BY <2>2, <3>1 DEF Linked
  <2>3. Linked \subseteq Elems /\ Linked' \subseteq Elems
    BY DEF Linked
  <2> QED
    BY <1>1, <2>1, <2>2, <2>3
<1>6. \A s \in Threads : \A e : (Half(s, e) => Half(s, e)') /\ (Pending(s, e) => Pending(s, e)')
  BY StoreKept DEF Half, Pending
<1>7. Half(t, x)' /\ Pending(t, n)'
  BY <1>4 DEF Half, Pending
<1>8. NextInv'
  <2> SUFFICES ASSUME NEW e \in Linked', NEW f, f = next'[e], f # Nil
               PROVE  /\ f \in Linked'
                      /\ prev[f] = e \/ \E s \in Threads : Half(s, e)' /\ Pending(s, f)'
    BY DEF NextInv
  <2>1. CASE e = x
    <3>1. f = n /\ f \in Linked
      BY <1>1, <1>2, <1>3, <2>1
    <3> QED
      BY <1>5, <1>7, <2>1, <3>1
  <2>2. CASE e = p
    <3>1. f = x /\ prev[f] = e
      BY <1>2, <1>3, <2>2
    <3> QED
      BY <1>5, <3>1
  <2>3. CASE e \notin {x, p}
    <3>1. e \in Linked /\ next'[e] = next[e]
      BY <1>2, <1>5, <2>3 DEF Linked
    <3>2. f \in Linked /\ (prev[f] = e \/ \E s \in Threads : Half(s, e) /\ Pending(s, f))
      BY <3>1 DEF NextInv
    <3>3. f \in Linked'
      <4>1. f \in Linked
        BY <3>2
      <4>2. Linked' = Linked \cup {x}
        BY <1>5
      <4>3. Linked \subseteq Linked'
        BY <4>2
      <4> QED
        BY <4>1, <4>3
    <3>4. (\E s \in Threads : Half(s, e) /\ Pending(s, f)) => \E s \in Threads : Half(s, e)' /\ Pending(s, f)'
      BY <1>6
    <3> QED
      BY <3>2, <3>3, <3>4
  <2> QED
    BY <2>1, <2>2, <2>3
<1>9. PrevInv'
  <2> SUFFICES ASSUME NEW f \in Linked'
               PROVE  \/ IF prev[f] = Nil THEN f = First ELSE prev[f] \in Linked' /\ next'[prev[f]] = f
                      \/ \E s \in Threads : Pending(s, f)'
    BY DEF PrevInv
  <2>1. CASE f = x
    <3>1. prev[f] = p /\ next'[p] = f /\ p # Nil /\ p \in Linked
      BY <1>1, <1>2, <1>3, <2>1
    <3>2. p \in Linked'
      BY <1>5, <3>1
    <3> QED
      BY <3>1, <3>2
  <2>2. CASE f = n
    BY <1>7, <2>2
  <2>3. CASE f \notin {x, n}
    <3>1. f \in Linked
      BY <1>5, <2>3
    <3>2. prev[f] \in Linked => prev[f] \in Elems /\ (prev[f] = p => next[prev[f]] # f)
      BY <1>3, <2>3 DEF Linked
    <3>3. \/ IF prev[f] = Nil THEN f = First ELSE prev[f] \in Linked /\ next[prev[f]] = f
          \/ \E s \in Threads : Pending(s, f)
      BY <3>1 DEF PrevInv
    <3>4. prev[f] \in Linked /\ next[prev[f]] = f => next'[prev[f]] = f /\ prev[f] \in Linked'
      BY <1>2, <1>5, <3>2
    <3> QED
      BY <1>6, <3>3, <3>4
  <2> QED
    BY <2>1, <2>2, <2>3
<1>10. Linking(t)'
  BY <1>1, <1>2, <1>3, <1>4, <1>5 DEF Linking, Neighbours
<1>11. Inserted(p, x)
  <2>1. x \notin Linked
    BY NewUnlinked DEF InsertSteps
  <2>2. \A e \in Linked \ {p} : next'[e] = next[e]
    BY <1>2 DEF Linked
  <2> QED
    BY <1>1, <1>2, <1>3, <1>5, <2>1, <2>2 DEF Inserted
<1> QED
  BY <1>5, <1>8, <1>9, <1>10, <1>11 DEF FirstInv

\* The next element learns of the new one first: the previous one does not know it yet.
LEMMA LinkPrevFirst ==
  ASSUME RowInv, NEW t \in Threads, Others(t), pc[t] = "link one", pc'[t] = "link other",
         UNCHANGED <<isRemoved, next, Local>>, this[t] # xPrev[t],
         prev' = [prev EXCEPT ![xNext[t]] = new[t]],
         NEW x, x = new[t], NEW p, p = xPrev[t], NEW n, n = xNext[t]
  PROVE  /\ NextInv' /\ PrevInv' /\ FirstInv' /\ Linking(t)'
         /\ Linked \subseteq Linked' /\ Same
<1> USE ElementAssumption DEF RowInv, ThreadInv
<1>1. Insertion(t) /\ Linking(t) /\ x \in Elems /\ p \in Elems
  BY LinkFacts
<1>2. n = this[t] /\ n \in Elems /\ n # Nil
  BY <1>1, LinkFacts DEF Linking, Insertion
<1>3. /\ p \in Linked /\ n \in Linked /\ next[p] = n /\ x \notin {p, n}
      /\ prev[n] = p /\ next[x] = n /\ prev[x] = p
  BY <1>1, <1>2 DEF Linking, Neighbours
<1>4. prev'[n] = x /\ \A e \in Elems \ {n} : prev'[e] = prev[e]
  BY <1>2 DEF ElementTypes
<1>5. new'[t] = x /\ xPrev'[t] = p /\ xNext'[t] = n /\ this'[t] = n
  BY <1>2 DEF Local
<1>6. Linked' = Linked
  <2>1. \A e \in Elems : (Leaving(t, e)' <=> Leaving(t, e)) /\ (Unlinked(t, e)' <=> Unlinked(t, e))
    BY DEF Leaving, Unlinked, Local
  <2> QED
    BY <2>1, LinkedKept
<1>7. \A s \in Threads : \A e : (Half(s, e) => Half(s, e)') /\ (Pending(s, e) => Pending(s, e)')
  BY StoreKept DEF Half, Pending
<1>8. Half(t, p)' /\ Pending(t, n)'
  BY <1>2, <1>5 DEF Half, Pending
<1>9. NextInv'
  <2> SUFFICES ASSUME NEW e \in Linked, next[e] # Nil
               PROVE  /\ next[e] \in Linked
                      /\ prev'[next[e]] = e \/ \E s \in Threads : Half(s, e)' /\ Pending(s, next[e])'
    BY <1>6 DEF NextInv
  <2>1. CASE e = p
    BY <1>3, <1>8, <2>1
  <2>2. CASE e # p
    <3>1. next[e] \in Linked /\ (prev[next[e]] = e \/ \E s \in Threads : Half(s, e) /\ Pending(s, next[e]))
      BY DEF NextInv
    <3>2. next[e] # n => prev'[next[e]] = prev[next[e]]
      BY <1>4, <3>1 DEF Linked
    <3> QED
      BY <1>3, <1>7, <2>2, <3>1, <3>2
  <2> QED
    BY <2>1, <2>2
<1>10. PrevInv'
  <2> SUFFICES ASSUME NEW f \in Linked
               PROVE  \/ IF prev'[f] = Nil THEN f = First ELSE prev'[f] \in Linked /\ next[prev'[f]] = f
                      \/ \E s \in Threads : Pending(s, f)'
    BY <1>6 DEF PrevInv
  <2>1. CASE f = n
    BY <1>8, <2>1
  <2>2. CASE f # n
    <3>1. prev'[f] = prev[f]
      BY <1>4, <2>2 DEF Linked
    <3> QED
      BY <1>7, <3>1 DEF PrevInv
  <2> QED
    BY <2>1, <2>2
<1>11. Linking(t)'
  BY <1>1, <1>2, <1>3, <1>4, <1>5, <1>6 DEF Linking, Neighbours
<1> QED
  BY <1>6, <1>9, <1>10, <1>11 DEF FirstInv, Same

LEMMA LinkOneStep ==
  ASSUME RowInv, NEW t \in Threads, LinkOne(t)
  PROVE  RowInv' /\ Changed
<1> USE ElementAssumption DEF RowInv, ThreadInv
<1>1. pc[t] = "link one" /\ Goto(t, "link other") /\ UNCHANGED <<isRemoved, holder, Local>>
  BY DEF LinkOne, local, Local
<1>2. /\ Insertion(t) /\ Linking(t) /\ new[t] \in Elems /\ ~isRemoved[new[t]]
      /\ xPrev[t] \in Elems \cap Held(t) /\ (xNext[t] # Nil => xNext[t] \in Elems \cap Held(t))
  BY <1>1, LinkFacts
<1>3. ThreadTypes' /\ Others(t) /\ pc'[t] = "link other"
  BY <1>1, MovesKept DEF Labels, InsertSteps
<1>4. /\ this[t] = xPrev[t] => UNCHANGED prev /\ next' = [next EXCEPT ![xPrev[t]] = new[t]]
      /\ this[t] # xPrev[t] => UNCHANGED next /\ prev' = [prev EXCEPT ![xNext[t]] = new[t]] /\ xNext[t] # Nil
  BY <1>2 DEF LinkOne, SetNext, SetPrev, Linking, Insertion
<1>5. ElementTypes'
  BY <1>1, <1>2, <1>4 DEF ElementTypes
<1>6. HolderInv'
  BY <1>1, <1>3, HolderKeeps DEF Held, Local
<1>7. /\ NextInv' /\ PrevInv' /\ FirstInv' /\ Linking(t)' /\ Linked \subseteq Linked'
      /\ Same \/ Inserted(xPrev[t], new[t])
  BY <1>1, <1>3, <1>4, LinkNextFirst, LinkPrevFirst
<1>8. Work(t)' /\ Ring(t)'
  BY <1>3, <1>7 DEF Work, Unlinking, Ring
<1>9. \A e \in Elems : /\ e \notin Held(t) => next'[e] = next[e] /\ prev'[e] = prev[e]
                       /\ prev[e] # Nil => prev'[e] # Nil
  BY <1>2, <1>4 DEF ElementTypes
<1>10. WorkInv' /\ RingInv'
  BY <1>3, <1>7, <1>8, <1>9, WorkAroundHeld
<1>11. CallInv'
  <2>1. Calling(t)'
    BY <1>1, <1>2, <1>3 DEF Calling, Insertion, InsertSteps, RemoveSteps, Local
  <2> QED
    BY <1>1, <1>3, <2>1, CallKept
<1>12. ApartInv'
  BY <1>1, <1>3, ApartKept DEF RemoveSteps
<1> QED
  BY <1>2, <1>3, <1>5, <1>6, <1>7, <1>10, <1>11, <1>12 DEF Changed

\* The next element learns of the new one, which the previous one knows already.
LEMMA LinkNextLast ==
  ASSUME RowInv, NEW t \in Threads, Others(t), pc[t] = "link other", pc'[t] = "idle",
         UNCHANGED <<isRemoved, next>>, this[t] = xPrev[t],
         NEW x, x = new[t], NEW p, p = xPrev[t], NEW n, n = xNext[t],
         n = Nil => UNCHANGED prev, n # Nil => prev' = [prev EXCEPT ![n] = x]
  PROVE  NextInv' /\ PrevInv' /\ Same
<1> USE ElementAssumption DEF RowInv, ThreadInv
<1>1. /\ Insertion(t) /\ Linking(t) /\ x \in Elems /\ ~isRemoved[x] /\ p \in Elems \cap Held(t)
      /\ (n # Nil => n \in Elems \cap Held(t)) /\ x \in Held(t)
      /\ \A s \in Threads : s # t => ~Unlinked(s, x)
  BY LinkFacts
<1>2. /\ p \in Linked /\ n \in Linked \cup {Nil} /\ next[p] = x /\ x \notin {p, n}
      /\ (n # Nil => prev[n] = p) /\ next[x] = n /\ prev[x] = p
  BY <1>1 DEF Linking, Neighbours
<1>3. /\ \A e \in Elems \ {n} : prev'[e] = prev[e]
      /\ n # Nil => prev'[n] = x
  BY <1>1 DEF ElementTypes
<1>4. x \in Linked
  BY <1>1 DEF Linked, Unlinked
<1>5. Linked' = Linked
  <2>1. \A e \in Elems : ~Leaving(t, e) /\ ~Leaving(t, e)' /\ ~Unlinked(t, e) /\ ~Unlinked(t, e)'
    BY DEF Leaving, Unlinked
  <2> QED
    BY <2>1, LinkedKept
<1>6. \A s \in Threads : s # t => ~(Half(s, p) \/ Half(s, x) \/ (n # Nil /\ Pending(s, n)))
  BY <1>1, AtWork
<1>7. \A e : (Half(t, e) => e = x) /\ (Pending(t, e) => e = n)
  BY DEF Half, Pending
<1>8. \A s \in Threads \ {t} : \A e : (Half(s, e) => Half(s, e)') /\ (Pending(s, e) => Pending(s, e)')
  BY StoreKept
<1>9. NextInv'
  <2> SUFFICES ASSUME NEW e \in Linked, NEW f, f = next[e], f # Nil
               PROVE  f \in Linked /\ (prev'[f] = e \/ \E s \in Threads : Half(s, e)' /\ Pending(s, f)')
    BY <1>5 DEF NextInv
  <2>1. f \in Linked /\ (prev[f] = e \/ \E s \in Threads : Half(s, e) /\ Pending(s, f))
    BY DEF NextInv
  <2>2. CASE e = x
    BY <1>2, <1>3, <2>1, <2>2
  <2>3. CASE e # x
    <3>1. ASSUME NEW s \in Threads, Half(s, e), Pending(s, f)
          PROVE  Half(s, e)' /\ Pending(s, f)' /\ f # n
      BY <1>6, <1>7, <1>8, <2>3, <3>1
    <3>2. prev[f] = e => f # n
      BY <1>2, <2>3
    <3>3. f # n /\ f \in Elems
      BY <2>1, <3>1, <3>2 DEF Linked
    <3> QED
      BY <1>3, <2>1, <3>1, <3>3
  <2> QED
    BY <2>2, <2>3
<1>10. PrevInv'
  <2> SUFFICES ASSUME NEW f \in Linked
               PROVE  \/ IF prev'[f] = Nil THEN f = First ELSE prev'[f] \in Linked /\ next[prev'[f]] = f
                      \/ \E s \in Threads : Pending(s, f)'
    BY <1>5 DEF PrevInv
  <2>1. f \in Elems /\ f # Nil /\ x # Nil
    BY <1>1 DEF Linked
  <2>2. CASE f = n
    BY <1>2, <1>3, <1>4, <2>1, <2>2
  <2>3. CASE f # n
    <3>1. prev'[f] = prev[f]
      BY <1>3, <2>1, <2>3
    <3>2. (\E s \in Threads : Pending(s, f)) => \E s \in Threads : Pending(s, f)'
      BY <1>7, <1>8, <2>3
    <3>3. \/ IF prev[f] = Nil THEN f = First ELSE prev[f] \in Linked /\ next[prev[f]] = f
          \/ \E s \in Threads : Pending(s, f)
      BY DEF PrevInv
    <3> QED
      BY <3>1, <3>2, <3>3
  <2> QED
    BY <2>2, <2>3
<1> QED
  BY <1>5, <1>9, <1>10 DEF Same

\* The previous element learns of the new one, which the next one knows already: it is in the row.
LEMMA LinkPrevLast ==
  ASSUME RowInv, NEW t \in Threads, Others(t), pc[t] = "link other", pc'[t] = "idle",
         UNCHANGED <<isRemoved, prev>>, this[t] # xPrev[t],
         NEW x, x = new[t], NEW p, p = xPrev[t], NEW n, n = xNext[t],
         next' = [next EXCEPT ![p] = x]
  PROVE  NextInv' /\ PrevInv' /\ Linked \subseteq Linked' /\ Inserted(p, x)
<1> USE ElementAssumption DEF RowInv, ThreadInv
<1>1. /\ Insertion(t) /\ Linking(t) /\ x \in Elems /\ ~isRemoved[x] /\ p \in Elems
      /\ \A s \in Threads : s # t => ~Unlinked(s, x)
  BY LinkFacts
<1>2. /\ p \in Linked /\ n \in Linked /\ next[p] = n /\ x \notin {p, n}
      /\ prev[n] = x /\ next[x] = n /\ prev[x] = p
  BY <1>1 DEF Linking, Neighbours, Insertion
<1>3. next'[p] = x /\ \A e \in Elems \ {p} : next'[e] = next[e]
  BY <1>1 DEF ElementTypes
<1>4. Linked' = Linked \cup {x}
  <2>1. \A e \in Elems : ~Leaving(t, e) /\ ~Leaving(t, e)' /\ ~Unlinked(t, e)' /\ (Unlinked(t, e) => e = x)
    BY DEF Leaving, Unlinked
  <2>2. x \in Linked'
    <3>1. \A s \in Threads : ~Unlinked(s, x)'
      BY <1>1, <2>1, StoreKept
    <3> QED
      BY <1>1, <3>1 DEF Linked
  <2>3. ASSUME NEW e \in Elems, e # x
        PROVE  e \in Linked' <=> e \in Linked
    <3>1. \A s \in Threads : (Leaving(s, e)' <=> Leaving(s, e)) /\ (Unlinked(s, e)' <=> Unlinked(s, e))
      BY <2>1, <2>3, StoreKept
    <3> QED
      BY <2>3, <3>1 DEF Linked
  <2>4. Linked \subseteq Elems /\ Linked' \subseteq Elems
    BY DEF Linked
  <2> QED
    BY <1>1, <2>2, <2>3, <2>4
<1>5. x \in Linked' /\ Linked \subseteq Linked'
  BY <1>4
<1>6. \A e : (Half(t, e) => e = p) /\ (Pending(t, e) => e = n)
  BY DEF Half, Pending
<1>7. \A s \in Threads \ {t} : \A e : (Half(s, e) => Half(s, e)') /\ (Pending(s, e) => Pending(s, e)')
  BY StoreKept
<1>8. NextInv'
  <2> SUFFICES ASSUME NEW e \in Linked', NEW f, f = next'[e], f # Nil
               PROVE  f \in Linked' /\ (prev[f] = e \/ \E s \in Threads : Half(s, e)' /\ Pending(s, f)')
    BY DEF NextInv
  <2>1. CASE e = x
    <3>1. f = n /\ f \in Linked /\ prev[f] = e
      BY <1>1, <1>2, <1>3, <2>1
    <3> QED
      BY <1>5, <3>1
  <2>2. CASE e = p
    <3>1. f = x /\ prev[f] = e
      BY <1>2, <1>3, <2>2
    <3> QED
      BY <1>5, <3>1
  <2>3. CASE e \notin {x, p}
    <3>1. e \in Linked
      BY <1>4, <2>3
    <3>2. f = next[e]
      BY <1>3, <2>3, <3>1 DEF Linked
    <3>3. f \in Linked
      BY <3>1, <3>2 DEF NextInv
    <3>4. prev[f] = e \/ \E s \in Threads : Half(s, e) /\ Pending(s, f)
      BY <3>1, <3>2 DEF NextInv
    <3>5. (\E s \in Threads : Half(s, e) /\ Pending(s, f)) => \E s \in Threads : Half(s, e)' /\ Pending(s, f)'
      BY <1>6, <1>7, <2>3
    <3>6. f \in Linked'
      BY <1>5, <3>3
    <3> QED
      BY <3>4, <3>5, <3>6
  <2> QED
    BY <2>1, <2>2, <2>3
<1>9. PrevInv'
  <2> SUFFICES ASSUME NEW f \in Linked'
               PROVE  \/ IF prev[f] = Nil THEN f = First ELSE prev[f] \in Linked' /\ next'[prev[f]] = f
                      \/ \E s \in Threads : Pending(s, f)'
    BY DEF PrevInv
  <2>1. CASE f = x
    <3>1. prev[f] = p /\ next'[p] = f /\ p # Nil /\ p \in Linked
      BY <1>1, <1>2, <1>3, <2>1
    <3>2. p \in Linked'
      BY <1>5, <3>1
    <3> QED
      BY <3>1, <3>2
  <2>2. CASE f = n
    <3>1. prev[f] = x /\ next'[x] = f /\ x # Nil
      BY <1>1, <1>2, <1>3, <2>2
    <3> QED
      BY <1>5, <3>1
  <2>3. CASE f \notin {x, n}
    <3>1. f \in Linked
      BY <1>4, <2>3
    <3>2. prev[f] \in Linked => prev[f] \in Elems /\ (prev[f] = p => next[prev[f]] # f)
      BY <1>2, <2>3 DEF Linked
    <3>3. \/ IF prev[f] = Nil THEN f = First ELSE prev[f] \in Linked /\ next[prev[f]] = f
          \/ \E s \in Threads : Pending(s, f)
      BY <3>1 DEF PrevInv
    <3>4. prev[f] \in Linked /\ next[prev[f]] = f => next'[prev[f]] = f
      BY <1>3, <3>2
    <3>5. prev[f] \in Linked => prev[f] \in Linked'
      BY <1>5
    <3>6. (\E s \in Threads : Pending(s, f)) => \E s \in Threads : Pending(s, f)'
      BY <1>6, <1>7, <2>3
    <3> QED
      BY <3>3, <3>4, <3>5, <3>6
  <2> QED
    BY <2>1, <2>2, <2>3
<1>10. Inserted(p, x)
  <2>1. x \notin Linked
    BY <1>1, <1>2 DEF Linked, Unlinked
  <2>2. \A e \in Linked \ {p} : next'[e] = next[e]
    BY <1>3 DEF Linked
  <2> QED
    BY <1>1, <1>2, <1>3, <1>4, <2>1, <2>2 DEF Inserted
<1> QED
  BY <1>5, <1>8, <1>9, <1>10

LEMMA LinkOtherStep ==
  ASSUME RowInv, NEW t \in Threads, LinkOther(t)
  PROVE  RowInv' /\ Changed
<1> USE ElementAssumption DEF RowInv, ThreadInv
<1>1. /\ pc[t] = "link other" /\ Return(t) /\ UNCHANGED isRemoved
      /\ Unlock({this[t], xPrev[t], xNext[t], new[t]})
  BY DEF LinkOther
<1>2. /\ Insertion(t) /\ Linking(t) /\ new[t] \in Elems
      /\ xPrev[t] \in Elems \cap Held(t) /\ (xNext[t] # Nil => xNext[t] \in Elems \cap Held(t))
  BY <1>1, LinkFacts
<1>3. ThreadTypes' /\ Others(t) /\ pc'[t] = "idle" /\ this'[t] = Nil /\ new'[t] = Nil
  BY <1>1, ReturnKept
<1>4. /\ this[t] = xPrev[t] => UNCHANGED next /\ prev' = IF xNext[t] = Nil THEN prev ELSE [prev EXCEPT ![xNext[t]] = new[t]]
      /\ this[t] # xPrev[t] => UNCHANGED prev /\ next' = [next EXCEPT ![xPrev[t]] = new[t]]
  BY <1>2 DEF LinkOther, SetNext, SetPrev
<1>5. holder' \in [Elems -> Threads \cup {Nil}]
  BY <1>1 DEF Unlock, ElementTypes
<1>6. ElementTypes'
  BY <1>1, <1>2, <1>4, <1>5 DEF ElementTypes
<1>7. HolderInv'
  <2>1. Held(t) \cap Elems = {this[t], xPrev[t], xNext[t], new[t]} \cap Elems /\ Held(t)' = {}
    BY <1>1, <1>3 DEF Held
  <2> QED
    BY <1>1, <1>3, <2>1, UnlockKeeps
<1>8. NextInv' /\ PrevInv' /\ Linked \subseteq Linked' /\ (Same \/ Inserted(xPrev[t], new[t]))
  BY <1>1, <1>3, <1>4, LinkNextLast, LinkPrevLast DEF Same
<1>9. Work(t)' /\ Ring(t)'
  BY <1>3 DEF Work, Unlinking, Ring
<1>10. \A e \in Elems : /\ e \notin Held(t) => next'[e] = next[e] /\ prev'[e] = prev[e]
                        /\ prev[e] # Nil => prev'[e] # Nil
  BY <1>2, <1>4 DEF ElementTypes
<1>11. WorkInv' /\ RingInv'
  BY <1>3, <1>8, <1>9, <1>10, WorkAroundHeld
<1>12. CallInv'
  <2>1. Calling(t)'
    BY <1>3 DEF Calling, Idle, InsertSteps, RemoveSteps
  <2> QED
    BY <1>1, <1>3, <2>1, CallKept
<1>13. ApartInv'
  BY <1>3, ApartKept
<1> QED
  BY <1>2, <1>3, <1>6, <1>7, <1>8, <1>11, <1>12, <1>13 DEF FirstInv, Changed

\* The element leaves the row as soon as the one before it knows its next one.
LEMMA UnlinkStep ==
  ASSUME RowInv, NEW t \in Threads, Unlink(t)
  PROVE  RowInv' /\ Changed
<1> USE ElementAssumption DEF RowInv, ThreadInv
<1>0. pc[t] = "unlink" /\ Goto(t, "unlink other") /\ UNCHANGED <<prev, isRemoved, holder, Local>>
  BY DEF Unlink, local, Local
<1>1. PICK m \in Elems, p \in Elems, n \in Elems \cup {Nil} :
        /\ m = this[t] /\ p = xPrev[t] /\ n = xNext[t] /\ m # First /\ isRemoved[m] /\ Removal(t)
        /\ p \in Linked /\ n \in Linked \cup {Nil} /\ next[m] = n /\ prev[m] = p
        /\ next[p] = m /\ (n # Nil => prev[n] = m)
  <2>1. this[t] \in Elems /\ this[t] # First /\ isRemoved[this[t]] /\ Removal(t)
    BY <1>0 DEF CallInv, Calling, Removal, RemoveSteps, ThreadTypes
  <2>2. /\ xPrev[t] \in Linked /\ xNext[t] \in Linked \cup {Nil}
        /\ next[this[t]] = xNext[t] /\ prev[this[t]] = xPrev[t]
        /\ next[xPrev[t]] = this[t] /\ (xNext[t] # Nil => prev[xNext[t]] = this[t])
    BY <1>0 DEF WorkInv, Work, Unlinking, Neighbours
  <2>3. Linked \subseteq Elems
    BY DEF Linked
  <2> QED
    BY <2>1, <2>2, <2>3
<1>2. ThreadTypes' /\ Others(t) /\ pc'[t] = "unlink other"
  BY <1>0, MovesKept DEF Labels, RemoveSteps
<1>3. this'[t] = m /\ xPrev'[t] = p /\ xNext'[t] = n /\ UNCHANGED prev /\ UNCHANGED isRemoved
  BY <1>0, <1>1 DEF Local
<1>4. /\ p = m => n = m /\ UNCHANGED next
      /\ p # m => n # m /\ next' = [next EXCEPT ![p] = n]
  BY <1>1 DEF Unlink, SetNext
<1>5. /\ \A e \in Elems \ {p} : next'[e] = next[e]
      /\ p # m => next'[p] = n
      /\ next' \in [Elems -> Elems \cup {Nil}]
  BY <1>4 DEF ElementTypes
<1>6. ElementTypes'
  BY <1>0, <1>5 DEF ElementTypes
<1>7. HolderInv'
  BY <1>0, <1>2, HolderKeeps DEF Held, Local
<1>8. m \in Held(t) /\ p \in Held(t)
  BY <1>0, <1>1 DEF Held
<1>9. Linked' = Linked \ {m}
  <2>1. m \notin Linked'
    <3>1. \A s \in Threads \ {t} : ~Leaving(s, m)
      BY <1>0, <1>1 DEF Leaving, ApartInv, Apart, RemoveSteps
    <3>2. \A s \in Threads \ {t} : ~Leaving(s, m)'
      BY <1>2, <3>1, StoreKept
    <3>3. ~Leaving(t, m)'
      BY <1>2 DEF Leaving
    <3>4. \A s \in Threads : ~Leaving(s, m)'
      BY <3>2, <3>3
    <3> QED
      BY <1>1, <1>3, <3>4 DEF Linked
  <2>2. ASSUME NEW e \in Elems, e # m
        PROVE  e \in Linked' <=> e \in Linked
    <3>1. \A s \in Threads : (Leaving(s, e)' <=> Leaving(s, e)) /\ (Unlinked(s, e)' <=> Unlinked(s, e))
      <4>1. ~Leaving(t, e) /\ ~Leaving(t, e)' /\ ~Unlinked(t, e) /\ ~Unlinked(t, e)'
        BY <1>0, <1>1, <1>2, <2>2 DEF Leaving, Unlinked
      <4> QED
        BY <1>2, <4>1, StoreKept
    <3> QED
      BY <1>3, <2>2, <3>1 DEF Linked
  <2>3. Linked \subseteq Elems /\ Linked' \subseteq Elems
    BY DEF Linked
  <2> QED
    BY <2>1, <2>2, <2>3
<1>10. \A e \in Linked : e # m => e \in Linked'
  BY <1>9
<1>11. /\ \A s \in Threads \ {t} : ~Half(s, m) /\ ~Pending(s, m)
       /\ \A e : ~Half(t, e) /\ ~Pending(t, e)
  BY <1>0, <1>8, AtWork DEF Half, Pending
<1>12. Half(t, p)' /\ Pending(t, n)'
  BY <1>2, <1>3 DEF Half, Pending
<1>13. \A s \in Threads : \A e : (Half(s, e) => Half(s, e)') /\ (Pending(s, e) => Pending(s, e)')
  BY <1>2, <1>11, StoreKept
<1>14. NextInv'
  <2> SUFFICES ASSUME NEW e \in Linked', NEW f, f = next'[e], f # Nil
               PROVE  f \in Linked' /\ (prev[f] = e \/ \E s \in Threads : Half(s, e)' /\ Pending(s, f)')
    BY <1>3 DEF NextInv
  <2>1. e \in Linked /\ e # m /\ e \in Elems
    BY <1>9 DEF Linked
  <2>2. CASE e = p
    <3>1. f = n /\ f # m /\ f \in Linked
      BY <1>1, <1>4, <1>5, <2>1, <2>2
    <3>2. f \in Linked'
      BY <1>10, <3>1
    <3> QED
      BY <1>12, <2>2, <3>1, <3>2
  <2>3. CASE e # p
    <3>1. f = next[e]
      BY <1>5, <2>1, <2>3
    <3>2. f \in Linked
      BY <2>1, <3>1 DEF NextInv
    <3>3. prev[f] = e \/ \E s \in Threads : Half(s, e) /\ Pending(s, f)
      BY <2>1, <3>1 DEF NextInv
    <3>4. f # m
      BY <1>1, <1>11, <2>3, <3>3
    <3>5. f \in Linked'
      BY <1>10, <3>2, <3>4
    <3>6. (\E s \in Threads : Half(s, e) /\ Pending(s, f)) => \E s \in Threads : Half(s, e)' /\ Pending(s, f)'
      BY <1>13
    <3> QED
      BY <3>3, <3>5, <3>6
  <2> QED
    BY <2>2, <2>3
<1>15. PrevInv'
  <2> SUFFICES ASSUME NEW f \in Linked'
               PROVE  \/ IF prev[f] = Nil THEN f = First ELSE prev[f] \in Linked' /\ next'[prev[f]] = f
                      \/ \E s \in Threads : Pending(s, f)'
    BY <1>3 DEF PrevInv
  <2>1. f \in Linked /\ f # m
    BY <1>9
  <2>2. CASE f = n
    BY <1>12, <2>2
  <2>3. CASE f # n
    <3>1. \/ IF prev[f] = Nil THEN f = First ELSE prev[f] \in Linked /\ next[prev[f]] = f
          \/ \E s \in Threads : Pending(s, f)
      BY <2>1 DEF PrevInv
    <3>2. prev[f] \in Linked /\ next[prev[f]] = f => prev[f] \notin {m, p}
      BY <1>1, <2>1, <2>3
    <3>3. prev[f] \in Linked /\ next[prev[f]] = f => next'[prev[f]] = f
      BY <1>5, <3>2 DEF Linked
    <3>4. prev[f] \in Linked /\ next[prev[f]] = f => prev[f] \in Linked'
      BY <1>10, <3>2
    <3>5. (\E s \in Threads : Pending(s, f)) => \E s \in Threads : Pending(s, f)'
      BY <1>13
    <3> QED
      BY <3>1, <3>3, <3>4, <3>5
  <2> QED
    BY <2>2, <2>3
<1>16. Work(t)' /\ Ring(t)'
  <2>1. p # m => p \in Linked' /\ n \in Linked' \cup {Nil}
    BY <1>1, <1>4, <1>10
  <2> QED
    BY <1>1, <1>2, <1>3, <1>4, <1>5, <2>1 DEF Work, Unlinking, Neighbours, Ring
<1>17. WorkInv' /\ RingInv'
  <2>1. \A e \in Elems \ Held(t) : next'[e] = next[e] /\ prev'[e] = prev[e] /\ (e \in Linked => e \in Linked')
    BY <1>3, <1>5, <1>8, <1>10
  <2> QED
    BY <1>2, <1>3, <1>16, <2>1, WorkAroundHeld
<1>18. CallInv'
  <2>1. Calling(t)'
    BY <1>0, <1>1, <1>2 DEF Calling, Removal, InsertSteps, RemoveSteps, Local
  <2> QED
    BY <1>2, <1>3, <2>1, CallKept
<1>19. ApartInv'
  BY <1>0, <1>2, ApartKept DEF RemoveSteps
<1>20. FirstInv'
  BY <1>1, <1>10 DEF FirstInv
<1>21. TakenOut(p, m)
  <2>1. m \in Linked
    BY <1>0, <1>1, RemovedLinked DEF Searching
  <2>2. \A e \in Linked \ {p, m} : next'[e] = next[e]
    BY <1>5 DEF Linked
  <2> QED
    BY <1>1, <1>5, <1>9, <2>1, <2>2 DEF TakenOut
<1> QED
  BY <1>1, <1>2, <1>6, <1>7, <1>14, <1>15, <1>17, <1>18, <1>19, <1>20, <1>21 DEF Changed

\* An element that was removed is not in the row any more.
LEMMA UnlinkedGone ==
  ASSUME RowInv, NEW t \in Threads, pc[t] \in {"unlink other", "forget"}
  PROVE  this[t] \notin Linked /\ this[t] \in Elems /\ new[t] = Nil /\ isRemoved[this[t]]
<1> USE DEF RowInv, ThreadInv
<1>1. this[t] \in Elems /\ new[t] = Nil /\ isRemoved[this[t]]
  BY DEF CallInv, Calling, Removal, RemoveSteps, ThreadTypes
<1>2. \A s \in Threads : ~Leaving(s, this[t])
  BY DEF Leaving, ApartInv, Apart, RemoveSteps
<1> QED
  BY <1>1, <1>2 DEF Linked

\* The one after it learns of the one before it.
LEMMA UnlinkOtherStep ==
  ASSUME RowInv, NEW t \in Threads, UnlinkOther(t)
  PROVE  RowInv' /\ Same
<1> USE ElementAssumption DEF RowInv, ThreadInv
<1>0. /\ pc[t] = "unlink other" /\ Goto(t, "forget") /\ UNCHANGED <<next, isRemoved, Local>>
      /\ Unlock({this[t], xPrev[t], xNext[t]})
  BY DEF UnlinkOther, local, Local
<1>1. PICK m \in Elems, p \in Elems, n \in Elems \cup {Nil} :
        /\ m = this[t] /\ p = xPrev[t] /\ n = xNext[t] /\ m \notin Linked /\ Removal(t)
        /\ \/ p = m /\ n = m
           \/ p \in Linked /\ n \in Linked \cup {Nil} /\ next[p] = n /\ (n # Nil => prev[n] = m)
  <2>1. this[t] \in Elems /\ this[t] \notin Linked /\ Removal(t)
    BY <1>0, UnlinkedGone DEF CallInv, Calling, RemoveSteps
  <2>2. \/ xPrev[t] = this[t] /\ xNext[t] = this[t]
        \/ /\ xPrev[t] \in Linked /\ xNext[t] \in Linked \cup {Nil} /\ next[xPrev[t]] = xNext[t]
           /\ xNext[t] # Nil => prev[xNext[t]] = this[t]
    BY <1>0 DEF WorkInv, Work, Unlinking, Neighbours
  <2>3. Linked \subseteq Elems
    BY DEF Linked
  <2> QED
    BY <2>1, <2>2, <2>3
<1>2. ThreadTypes' /\ Others(t) /\ pc'[t] = "forget"
  BY <1>0, MovesKept DEF Labels, RemoveSteps
<1>3. n = Nil \/ n = m => UNCHANGED prev
  BY <1>1 DEF UnlinkOther, SetPrev
<1>4. n \notin {Nil, m} => prev' = [prev EXCEPT ![n] = p]
  BY <1>1 DEF UnlinkOther, SetPrev
<1>5. /\ \A e \in Elems \ {n} : prev'[e] = prev[e]
      /\ n \notin {Nil, m} => prev'[n] = p
      /\ prev' \in [Elems -> Elems \cup {Nil}]
  <2>1. prev \in [Elems -> Elems \cup {Nil}]
    BY DEF ElementTypes
  <2>2. CASE n = Nil \/ n = m
    BY <1>3, <2>1, <2>2
  <2>3. CASE n \notin {Nil, m}
    BY <1>4, <2>1, <2>3
  <2> QED
    BY <2>2, <2>3
<1>6. ElementTypes'
  <2>1. holder' \in [Elems -> Threads \cup {Nil}]
    BY <1>0 DEF Unlock, ElementTypes
  <2> QED
    BY <1>0, <1>5, <2>1 DEF ElementTypes
<1>7. HolderInv'
  <2>1. Held(t) \cap Elems = {this[t], xPrev[t], xNext[t]} \cap Elems /\ Held(t)' = {}
    BY <1>0, <1>2 DEF Held
  <2> QED
    BY <1>0, <1>2, <2>1, UnlockKeeps
<1>8. p \in Held(t) /\ (n # Nil => n \in Held(t))
  BY <1>0, <1>1 DEF Held
<1>9. Linked' = Linked
  <2>1. \A e \in Elems : ~Leaving(t, e) /\ ~Leaving(t, e)' /\ ~Unlinked(t, e) /\ ~Unlinked(t, e)'
    BY <1>0, <1>2 DEF Leaving, Unlinked
  <2> QED
    BY <1>0, <1>2, <2>1, LinkedKept
<1>10. \A s \in Threads : s # t => n = Nil \/ ~Pending(s, n)
  BY <1>8, AtWork
<1>11. \A e : (Half(t, e) => e = p) /\ (Pending(t, e) => e = n)
  BY <1>0, <1>1 DEF Half, Pending
<1>12. \A s \in Threads \ {t} : \A e : (Half(s, e) => Half(s, e)') /\ (Pending(s, e) => Pending(s, e)')
  BY <1>2, StoreKept
<1>13. NextInv'
  <2> SUFFICES ASSUME NEW e \in Linked, NEW f, f = next[e], f # Nil
               PROVE  f \in Linked /\ (prev'[f] = e \/ \E s \in Threads : Half(s, e)' /\ Pending(s, f)')
    BY <1>0, <1>9 DEF NextInv
  <2>1. f \in Linked
    BY DEF NextInv
  <2>2. prev[f] = e \/ \E s \in Threads : Half(s, e) /\ Pending(s, f)
    BY DEF NextInv
  <2>3. e # m /\ f # m /\ f \in Elems
    BY <1>1, <2>1 DEF Linked
  <2>4. CASE e = p
    BY <1>1, <1>5, <2>1, <2>3, <2>4
  <2>5. CASE e # p
    <3>1. ASSUME NEW s \in Threads, Half(s, e), Pending(s, f)
          PROVE  Half(s, e)' /\ Pending(s, f)' /\ f # n
      BY <1>10, <1>11, <1>12, <2>5, <3>1
    <3>2. prev[f] = e => f # n
      BY <1>1, <2>3
    <3>3. f # n
      BY <2>2, <3>1, <3>2
    <3>4. prev'[f] = prev[f]
      BY <1>5, <2>3, <3>3
    <3> QED
      BY <2>1, <2>2, <3>1, <3>4
  <2> QED
    BY <2>4, <2>5
<1>14. PrevInv'
  <2> SUFFICES ASSUME NEW f \in Linked
               PROVE  \/ IF prev'[f] = Nil THEN f = First ELSE prev'[f] \in Linked /\ next[prev'[f]] = f
                      \/ \E s \in Threads : Pending(s, f)'
    BY <1>0, <1>9 DEF PrevInv
  <2>1. f \in Elems /\ f # m
    BY <1>1 DEF Linked
  <2>2. CASE f = n
    BY <1>1, <1>5, <2>1, <2>2
  <2>3. CASE f # n
    <3>1. prev'[f] = prev[f]
      BY <1>5, <2>1, <2>3
    <3>2. (\E s \in Threads : Pending(s, f)) => \E s \in Threads : Pending(s, f)'
      BY <1>11, <1>12, <2>3
    <3>3. \/ IF prev[f] = Nil THEN f = First ELSE prev[f] \in Linked /\ next[prev[f]] = f
          \/ \E s \in Threads : Pending(s, f)
      BY DEF PrevInv
    <3> QED
      BY <3>1, <3>2, <3>3
  <2> QED
    BY <2>2, <2>3
<1>15. Work(t)' /\ Ring(t)'
  BY <1>2 DEF Work, Unlinking, Ring
<1>16. WorkInv' /\ RingInv'
  <2>1. \A e \in Elems \ Held(t) : next'[e] = next[e] /\ prev'[e] = prev[e] /\ (e \in Linked => e \in Linked')
    BY <1>0, <1>5, <1>8, <1>9
  <2>2. prev[First] # Nil => prev'[First] # Nil
    BY <1>3, <1>5
  <2> QED
    BY <1>2, <1>15, <2>1, <2>2, WorkAroundHeld
<1>17. CallInv'
  <2>1. Calling(t)'
    BY <1>0, <1>1, <1>2, UnlinkedGone DEF Calling, Removal, InsertSteps, RemoveSteps, Local
  <2> QED
    BY <1>0, <1>2, <2>1, CallKept
<1>18. ApartInv'
  BY <1>0, <1>2, ApartKept DEF RemoveSteps
<1> QED
  BY <1>0, <1>2, <1>6, <1>7, <1>9, <1>13, <1>14, <1>16, <1>17, <1>18 DEF FirstInv, Same

\* The removed element forgets its neighbours without a lock: nobody in the row knows it.
LEMMA ForgetStep ==
  ASSUME RowInv, NEW t \in Threads, Forget(t)
  PROVE  RowInv' /\ Same
<1> USE ElementAssumption DEF RowInv, ThreadInv
<1>1. /\ pc[t] = "forget" /\ Return(t) /\ UNCHANGED <<isRemoved, holder>>
      /\ this[t] \notin Linked /\ this[t] \in Elems /\ this[t] # Nil /\ isRemoved[this[t]]
  BY UnlinkedGone DEF Forget
<1>2. prev' = [prev EXCEPT ![this[t]] = Nil] /\ next' = [next EXCEPT ![this[t]] = Nil]
  BY <1>1 DEF Forget, SetNext, SetPrev
<1>3. ThreadTypes' /\ Others(t) /\ pc'[t] = "idle" /\ this'[t] = Nil /\ new'[t] = Nil
  BY <1>1, ReturnKept
<1>4. \A e \in Elems : e # this[t] => next'[e] = next[e] /\ prev'[e] = prev[e]
  BY <1>2 DEF ElementTypes
<1>5. ElementTypes'
  BY <1>1, <1>2 DEF ElementTypes
<1>6. HolderInv'
  BY <1>1, <1>3, HolderKeeps DEF Held
<1>7. Linked' = Linked
  <2>1. \A e \in Elems : ~Leaving(t, e) /\ ~Leaving(t, e)' /\ ~Unlinked(t, e) /\ ~Unlinked(t, e)'
    BY <1>1, <1>3 DEF Leaving, Unlinked
  <2> QED
    BY <1>1, <1>3, <2>1, LinkedKept
<1>8. \A e \in Linked : next'[e] = next[e] /\ prev'[e] = prev[e]
  BY <1>1, <1>4 DEF Linked
<1>9. NextInv' /\ PrevInv' /\ FirstInv'
  BY <1>1, <1>3, <1>7, <1>8, OutsideKept
<1>10. Work(t)' /\ Ring(t)'
  BY <1>3 DEF Work, Unlinking, Ring
<1>11. ASSUME NEW s \in Threads \ {t}
       PROVE  this[t] \notin Held(s)
  <2>1. this[t] \notin {this[s], new[s]}
    BY <1>1 DEF ApartInv, Apart, RemoveSteps
  <2>2. CASE pc[s] \in {"link", "link one", "link other"}
    <3>1. xPrev[s] \in Linked /\ xNext[s] \in Linked \cup {Nil}
      BY <2>2 DEF WorkInv, Work, Linking, Neighbours
    <3> QED
      BY <1>1, <2>1, <2>2, <3>1 DEF Held
  <2>3. CASE pc[s] \in {"unlink", "unlink other"}
    <3>1. xPrev[s] \in Linked \cup {this[s]} /\ xNext[s] \in Linked \cup {Nil, this[s]}
      BY <2>3 DEF WorkInv, Work, Unlinking, Neighbours
    <3> QED
      BY <1>1, <2>1, <2>3, <3>1 DEF Held
  <2>4. CASE pc[s] \notin {"link", "link one", "link other", "unlink", "unlink other"}
    BY <2>1, <2>4 DEF Held
  <2> QED
    BY <2>2, <2>3, <2>4
<1>12. WorkInv' /\ RingInv'
  <2>1. \A s \in Threads \ {t} : \A e \in {this[t]} \cap Elems : e \notin Held(s)
    BY <1>11
  <2>2. \A e \in Elems \ {this[t]} : next'[e] = next[e] /\ prev'[e] = prev[e] /\ (e \in Linked => e \in Linked')
    BY <1>4, <1>7
  <2>3. prev'[First] = prev[First]
    BY <1>8 DEF FirstInv
  <2> QED
    BY <1>3, <1>10, <2>1, <2>2, <2>3, WorkAround
<1>13. CallInv'
  <2>1. Calling(t)'
    BY <1>3 DEF Calling, Idle, InsertSteps, RemoveSteps
  <2> QED
    BY <1>1, <1>3, <2>1, CallKept
<1>14. ApartInv'
  BY <1>3, ApartKept
<1> QED
  BY <1>3, <1>5, <1>6, <1>7, <1>8, <1>9, <1>12, <1>13, <1>14 DEF Same

-----------------------------------------------------------------------------
(* The first state: the elements of InitRow are linked one after the other *)

InitElems == ToSet(InitRow)
Place(e)  == CHOOSE i \in 1 .. Len(InitRow) : InitRow[i] = e

LEMMA PlaceRight ==
  /\ InitElems \subseteq Elems /\ First \in InitElems /\ Place(First) = 1
  /\ Len(InitRow) \in Nat \ {0}
  /\ \A i \in 1 .. Len(InitRow) : InitRow[i] \in InitElems /\ Place(InitRow[i]) = i
  /\ \A e \in InitElems : Place(e) \in 1 .. Len(InitRow) /\ InitRow[Place(e)] = e
<1>1. InitRow \in Seq(Elems) /\ InitRow # <<>> /\ InitRow[1] = First
  BY ElementAssumption
<1>2. Len(InitRow) \in Nat \ {0} /\ DOMAIN InitRow = 1 .. Len(InitRow)
  BY <1>1
<1>3. InitElems = {InitRow[i] : i \in 1 .. Len(InitRow)}
  BY <1>2 DEF InitElems, ToSet
<1>4. \A i, j \in 1 .. Len(InitRow) : InitRow[i] = InitRow[j] => i = j
  BY <1>2, ElementAssumption DEF IsInjective
<1>5. \A i \in 1 .. Len(InitRow) : InitRow[i] \in Elems
  BY <1>1
<1>6. ASSUME NEW e \in InitElems
      PROVE  Place(e) \in 1 .. Len(InitRow) /\ InitRow[Place(e)] = e
  <2>1. \E i \in 1 .. Len(InitRow) : InitRow[i] = e
    BY <1>3
  <2> QED
    BY <2>1 DEF Place
<1>7. \A i \in 1 .. Len(InitRow) : InitRow[i] \in InitElems
  BY <1>3
<1>8. \A i \in 1 .. Len(InitRow) : Place(InitRow[i]) = i
  BY <1>4, <1>6, <1>7
<1>9. 1 \in 1 .. Len(InitRow)
  BY <1>2
<1> QED
  BY <1>1, <1>2, <1>3, <1>5, <1>6, <1>7, <1>8, <1>9

LEMMA InitLinks ==
  ASSUME Init
  PROVE  \E ring \in BOOLEAN : \A e \in Elems :
           /\ next[e] = IF e \notin InitElems THEN Nil
                        ELSE IF Place(e) < Len(InitRow) THEN InitRow[Place(e) + 1]
                        ELSE IF ring THEN First ELSE Nil
           /\ prev[e] = IF e \notin InitElems THEN Nil
                        ELSE IF e # First THEN InitRow[Place(e) - 1]
                        ELSE IF ring THEN InitRow[Len(InitRow)] ELSE Nil
<1> DEFINE at(i) == CHOOSE e \in Elems : e = InitRow[i]
<1>1. \E ring \in BOOLEAN :
        /\ next = [e \in Elems |-> IF e \notin InitElems THEN Nil
                                   ELSE IF Place(e) < Len(InitRow) THEN at(Place(e) + 1)
                                   ELSE IF ring THEN First ELSE Nil]
        /\ prev = [e \in Elems |-> IF e \notin InitElems THEN Nil
                                   ELSE IF e # First THEN at(Place(e) - 1)
                                   ELSE IF ring THEN at(Len(InitRow)) ELSE Nil]
  BY DEF Init, InitElems, Place
<1>2. \A i \in 1 .. Len(InitRow) : at(i) = InitRow[i]
  BY PlaceRight
<1> HIDE DEF at
<1>3. \A e \in InitElems : /\ Place(e) < Len(InitRow) => at(Place(e) + 1) = InitRow[Place(e) + 1]
                           /\ e # First => at(Place(e) - 1) = InitRow[Place(e) - 1]
  <2> SUFFICES ASSUME NEW e \in InitElems
               PROVE  /\ Place(e) < Len(InitRow) => Place(e) + 1 \in 1 .. Len(InitRow)
                      /\ e # First => Place(e) - 1 \in 1 .. Len(InitRow)
    BY <1>2
  <2>1. Place(e) \in 1 .. Len(InitRow) /\ InitRow[Place(e)] = e /\ Len(InitRow) \in Nat \ {0}
    BY PlaceRight
  <2>2. Place(e) = 1 => e = First
    BY <2>1, ElementAssumption
  <2> QED
    BY <2>1, <2>2
<1>4. at(Len(InitRow)) = InitRow[Len(InitRow)]
  BY <1>2, PlaceRight
<1> QED
  BY <1>1, <1>3, <1>4

LEMMA RowInit == Init => RowInv
<1> SUFFICES ASSUME Init PROVE RowInv
  OBVIOUS
<1> USE ElementAssumption
<1> DEFINE n == Len(InitRow)
<1>1. PICK ring \in BOOLEAN : \A e \in Elems :
           /\ next[e] = IF e \notin InitElems THEN Nil
                        ELSE IF Place(e) < n THEN InitRow[Place(e) + 1]
                        ELSE IF ring THEN First ELSE Nil
           /\ prev[e] = IF e \notin InitElems THEN Nil
                        ELSE IF e # First THEN InitRow[Place(e) - 1]
                        ELSE IF ring THEN InitRow[n] ELSE Nil
  BY InitLinks
<1>2. \A e \in Elems : isRemoved[e] = (e \notin InitElems)
  BY DEF Init, InitElems
<1>3. /\ isRemoved \in [Elems -> BOOLEAN] /\ holder = [e \in Elems |-> Nil]
      /\ pc = [t \in Threads |-> "idle"] /\ this = [t \in Threads |-> Nil] /\ new = [t \in Threads |-> Nil]
      /\ xNext = [t \in Threads |-> Nil] /\ xPrev = [t \in Threads |-> Nil]
  BY DEF Init
<1>4. /\ n \in Nat \ {0} /\ First \in InitElems /\ Place(First) = 1 /\ InitElems \subseteq Elems
      /\ \A i \in 1 .. n : InitRow[i] \in InitElems /\ Place(InitRow[i]) = i
      /\ \A e \in InitElems : Place(e) \in 1 .. n /\ InitRow[Place(e)] = e
  BY PlaceRight
<1> HIDE DEF n
<1>5. Linked = InitElems
  BY <1>2, <1>3, <1>4 DEF Linked, Leaving, Unlinked
\* The element after one, and the one before it.
<1>6. ASSUME NEW e \in InitElems
      PROVE  next[e] # Nil => next[e] \in InitElems /\ prev[next[e]] = e
  <2>1. CASE Place(e) < n
    <3> DEFINE i == Place(e) + 1
    <3>1. i \in 1 .. n /\ i # 1 /\ i - 1 = Place(e)
      BY <1>4, <2>1
    <3>2. next[e] = InitRow[i] /\ InitRow[i] \in InitElems /\ Place(InitRow[i]) = i
      BY <1>1, <1>4, <2>1, <3>1
    <3>3. InitRow[i] # First
      BY <1>4, <3>1, <3>2
    <3> HIDE DEF i
    <3> QED
      BY <1>1, <1>4, <3>1, <3>2, <3>3
  <2>2. CASE ~(Place(e) < n)
    <3>1. Place(e) = n
      BY <1>4, <2>2
    <3>2. next[e] = IF ring THEN First ELSE Nil
      BY <1>1, <1>4, <2>2
    <3>3. prev[First] = IF ring THEN InitRow[n] ELSE Nil
      BY <1>1, <1>4
    <3> QED
      BY <1>4, <3>1, <3>2, <3>3
  <2> QED
    BY <2>1, <2>2
<1>7. ASSUME NEW f \in InitElems
      PROVE  IF prev[f] = Nil THEN f = First ELSE prev[f] \in InitElems /\ next[prev[f]] = f
  <2>1. CASE f # First
    <3> DEFINE i == Place(f) - 1
    <3>1. Place(f) # 1
      BY <1>4, <2>1
    <3>2. i \in 1 .. n /\ i < n /\ i + 1 = Place(f)
      BY <1>4, <3>1
    <3>3. prev[f] = InitRow[i] /\ InitRow[i] \in InitElems /\ Place(InitRow[i]) = i
      BY <1>1, <1>4, <2>1, <3>2
    <3> HIDE DEF i
    <3>4. next[InitRow[i]] = InitRow[i + 1]
      BY <1>1, <1>4, <3>2, <3>3
    <3>5. next[prev[f]] = f
      BY <1>4, <3>2, <3>3, <3>4
    <3> QED
      BY <1>4, <3>3, <3>5
  <2>2. CASE f = First
    <3>1. prev[First] = IF ring THEN InitRow[n] ELSE Nil
      BY <1>1, <1>4
    <3>2. InitRow[n] \in InitElems /\ Place(InitRow[n]) = n
      BY <1>4
    <3>3. next[InitRow[n]] = IF ring THEN First ELSE Nil
      BY <1>1, <1>4, <3>2
    <3> QED
      BY <1>4, <2>2, <3>1, <3>2, <3>3
  <2> QED
    BY <2>1, <2>2
<1>8. ElementTypes
  <2>1. \A e \in Elems : next[e] \in Elems \cup {Nil} /\ prev[e] \in Elems \cup {Nil}
    <3> TAKE e \in Elems
    <3>1. CASE e \in InitElems
      BY <1>4, <1>6, <1>7, <3>1
    <3>2. CASE e \notin InitElems
      BY <1>1, <3>2
    <3> QED
      BY <3>1, <3>2
  <2>2. next = [e \in Elems |-> next[e]] /\ prev = [e \in Elems |-> prev[e]]
    BY DEF Init
  <2> QED
    BY <1>3, <2>1, <2>2 DEF ElementTypes
<1>9. ThreadTypes /\ CallInv /\ ApartInv /\ HolderInv /\ WorkInv /\ RingInv
  BY <1>3 DEF ThreadTypes, CallInv, Calling, Idle, ApartInv, Apart, HolderInv, Held, WorkInv, Work, Unlinking,
              RingInv, Ring, InsertSteps, RemoveSteps
<1>10. NextInv /\ PrevInv /\ FirstInv
  BY <1>4, <1>5, <1>6, <1>7 DEF NextInv, PrevInv, FirstInv
<1> QED
  BY <1>8, <1>9, <1>10 DEF RowInv, ThreadInv

LEMMA RowStep ==
  ASSUME ~RemoveTwice, RowInv, [Next]_vars
  PROVE  RowInv' /\ Changed
<1>1. CASE Next
  <2>1. PICK t \in Threads : Step(t) \/ Call(t)
    BY <1>1 DEF Next
  <2>2. CASE Step(t)
    BY <2>2, ReadSteps, LockSteps, LinkStep, LinkOneStep, LinkOtherStep, MarkStep, ReadOldSteps,
       LockBothStep, UnlinkStep, UnlinkOtherStep, ForgetStep DEF Step, Changed
  <2>3. CASE Call(t)
    <3>1. PICK e \in Elems : RemoveCall(t, e) \/ \E x \in Elems : InsertNext(t, e, x) \/ InsertPrev(t, e, x)
      BY <2>3 DEF Call
    <3>2. CASE RemoveCall(t, e)
      BY <3>2, RemoveCallStep DEF Changed
    <3>3. ASSUME NEW x \in Elems, InsertNext(t, e, x)
          PROVE  RowInv' /\ Changed
      BY <3>3, InsertStep DEF InsertNext, Changed
    <3>4. ASSUME NEW x \in Elems, InsertPrev(t, e, x)
          PROVE  RowInv' /\ Changed
      BY <3>4, InsertStep DEF InsertPrev, Changed
    <3> QED
      BY <3>1, <3>2, <3>3, <3>4
  <2> QED
    BY <2>1, <2>2, <2>3
<1>2. CASE UNCHANGED vars
  <2>1. UNCHANGED <<next, prev, isRemoved, holder, pc, this, new, xNext, xPrev>>
    BY <1>2 DEF vars
  <2>2. Linked' = Linked
    BY <2>1 DEF Linked, Leaving, Unlinked
  <2>3. ThreadInv' /\ FirstInv' /\ RingInv'
    BY <2>1, <2>2 DEF RowInv, ThreadInv, ElementTypes, ThreadTypes, CallInv, Calling, Idle, Insertion, Removal,
                      ApartInv, Apart, HolderInv, Held, FirstInv, RingInv, Ring
  <2>4. NextInv' /\ PrevInv'
    BY <2>1, <2>2 DEF RowInv, NextInv, PrevInv, Half, Pending
  <2>5. WorkInv'
    BY <2>1, <2>2 DEF RowInv, WorkInv, Work, Linking, Unlinking, Neighbours
  <2> QED
    BY <2>1, <2>2, <2>3, <2>4, <2>5 DEF RowInv, Changed, Same
<1> QED
  BY <1>1, <1>2

-----------------------------------------------------------------------------
(* The row: what is found from First on *)

\* A set of numbers that is not empty has a least one.
LEMMA LeastNumber ==
  ASSUME NEW T, T \subseteq Nat, T # {}
  PROVE  Min(T) \in T /\ \A y \in T : Min(T) <= y
<1> DEFINE upTo(x) == {y \in T : y <= x}
           Parts   == {upTo(x) : x \in T}
<1>1. Parts # {} /\ Parts \subseteq FiniteSubsetsOf(Nat)
  <2>1. ASSUME NEW x \in T
        PROVE  upTo(x) \in FiniteSubsetsOf(Nat)
    BY FS_BoundedSetOfNaturals DEF FiniteSubsetsOf
  <2> QED
    BY <2>1
<1>2. \E U \in Parts : \A V \in Parts : <<V, U>> \notin StrictSubsetOrdering(Nat)
  <2>1. IsWellFoundedOn(StrictSubsetOrdering(Nat), FiniteSubsetsOf(Nat))
    BY FS_StrictSubsetOrderingWellFounded
  <2> QED
    BY <1>1, <2>1, WFMin
<1>3. PICK x \in T : \A V \in Parts : <<V, upTo(x)>> \notin StrictSubsetOrdering(Nat)
  BY <1>2
<1>4. ASSUME NEW y \in T, y < x
      PROVE  FALSE
  <2>1. \A z \in T : z <= y => z <= x
    BY <1>4
  <2>2. x \in upTo(x) /\ x \notin upTo(y)
    BY <1>4
  <2>3. upTo(y) \subseteq upTo(x)
    BY <2>1
  <2>4. upTo(y) \in Parts /\ upTo(y) \in SUBSET Nat /\ upTo(x) \in SUBSET Nat
    OBVIOUS
  <2> HIDE DEF upTo, Parts
  <2>5. <<upTo(y), upTo(x)>> \in StrictSubsetOrdering(Nat)
    BY <2>2, <2>3, <2>4 DEF StrictSubsetOrdering
  <2> QED
    BY <1>3, <2>4, <2>5
<1>5. \E y \in T : \A z \in T : y <= z
  BY <1>4
<1> QED
  BY <1>5 DEF Min

Size == Cardinality(Elems)

Beyond(f, e, n) ==
  IF n = 0 THEN <<>>
  ELSE IF next[e] \in {Nil, First} THEN <<e>> ELSE <<e>> \o f[n - 1][next[e]]

\* The recursion is well-founded: there is a function From is to be.
LEMMA SomeFrom ==
  ASSUME next \in [Elems -> Elems \cup {Nil}], NEW n \in Nat
  PROVE  \E f : f = [k \in 0 .. n |-> [e \in Elems |-> Beyond(f, e, k)]]
<1> DEFINE Good(k) == \E f : f = [i \in 0 .. k |-> [e \in Elems |-> Beyond(f, e, i)]]
           bad == {k \in Nat : ~Good(k)}
<1> SUFFICES ASSUME bad # {}
             PROVE  FALSE
  OBVIOUS
<1>1. PICK k \in Nat : ~Good(k) /\ \A i \in bad : k <= i
  <2>1. bad \subseteq Nat
    OBVIOUS
  <2>2. Min(bad) \in bad /\ \A i \in bad : Min(bad) <= i
    BY <2>1, LeastNumber
  <2> QED
    BY <2>2
<1>2. k # 0
  <2> DEFINE f == [i \in 0 .. 0 |-> [e \in Elems |-> <<>>]]
  <2>1. \A i \in 0 .. 0, e \in Elems : Beyond(f, e, i) = <<>>
    BY DEF Beyond
  <2>2. f = [i \in 0 .. 0 |-> [e \in Elems |-> Beyond(f, e, i)]]
    BY <2>1
  <2>3. Good(0)
    BY <2>2
  <2> HIDE DEF Good
  <2> QED
    BY <1>1, <2>3
<1> HIDE DEF Good, bad
<1>3. k - 1 \in Nat /\ k - 1 \notin bad
  BY <1>1, <1>2
<1>4. PICK g : g = [i \in 0 .. k - 1 |-> [e \in Elems |-> Beyond(g, e, i)]]
  BY <1>3 DEF Good, bad
<1> DEFINE f == [i \in 0 .. k |-> [e \in Elems |-> Beyond(g, e, i)]]
<1>5. ASSUME NEW i \in 0 .. k, NEW e \in Elems
      PROVE  Beyond(f, e, i) = Beyond(g, e, i)
  <2>1. CASE i = 0
    BY <2>1 DEF Beyond
  <2>2. CASE i # 0
    <3>1. i - 1 \in 0 .. k - 1 /\ i - 1 \in 0 .. k
      BY <1>3, <2>2
    <3>2. g[i - 1] = [d \in Elems |-> Beyond(g, d, i - 1)]
      BY <1>4, <3>1
    <3>3. f[i - 1] = [d \in Elems |-> Beyond(g, d, i - 1)]
      BY <3>1
    <3> HIDE DEF f
    <3>4. f[i - 1] = g[i - 1]
      BY <3>2, <3>3
    <3> QED
      BY <3>4 DEF Beyond
  <2> QED
    BY <2>1, <2>2
<1>6. f = [i \in 0 .. k |-> [e \in Elems |-> Beyond(f, e, i)]]
  <2> DEFINE h == [i \in 0 .. k |-> [e \in Elems |-> Beyond(f, e, i)]]
  <2>1. ASSUME NEW i \in 0 .. k
        PROVE  f[i] = h[i]
    <3>1. f[i] = [e \in Elems |-> Beyond(g, e, i)] /\ h[i] = [e \in Elems |-> Beyond(f, e, i)]
      OBVIOUS
    <3> HIDE DEF f, h
    <3> QED
      BY <1>5, <3>1
  <2>2. f = [i \in 0 .. k |-> f[i]] /\ h = [i \in 0 .. k |-> h[i]]
    OBVIOUS
  <2> HIDE DEF f, h
  <2>3. f = h
    BY <2>1, <2>2
  <2> QED
    BY <2>3 DEF h
<1>7. Good(k)
  BY <1>6 DEF Good
<1> QED
  BY <1>1, <1>7

LEMMA FromIs ==
  ASSUME next \in [Elems -> Elems \cup {Nil}]
  PROVE  Size \in Nat /\ \A n \in 0 .. Size, e \in Elems : From[n][e] = Beyond(From, e, n)
<1>1. Size \in Nat
  BY ElementAssumption, FS_CardinalityType DEF Size
<1>2. From = CHOOSE f : f = [k \in 0 .. Size |-> [e \in Elems |-> Beyond(f, e, k)]]
  BY DEF From, Beyond, Size
<1>3. \E f : f = [k \in 0 .. Size |-> [e \in Elems |-> Beyond(f, e, k)]]
  BY <1>1, SomeFrom
<1>4. From = [k \in 0 .. Size |-> [e \in Elems |-> Beyond(From, e, k)]]
  BY <1>2, <1>3
<1>5. ASSUME NEW n \in 0 .. Size, NEW e \in Elems
      PROVE  From[n][e] = Beyond(From, e, n)
  <2>1. From[n] = [d \in Elems |-> Beyond(From, d, n)]
    BY <1>4
  <2> QED
    BY <2>1
<1> QED
  BY <1>1, <1>5

\* Whoever is found on the way is in the row.
LEMMA FromLinked ==
  ASSUME RowInv
  PROVE  \A n \in 0 .. Size, e \in Linked : From[n][e] \in Seq(Linked)
<1> DEFINE bad == {n \in 0 .. Size : \E e \in Linked : From[n][e] \notin Seq(Linked)}
<1> SUFFICES ASSUME bad # {}
             PROVE  FALSE
  OBVIOUS
<1>1. /\ Size \in Nat /\ \A n \in 0 .. Size, e \in Elems : From[n][e] = Beyond(From, e, n)
      /\ Linked \subseteq Elems
  BY FromIs DEF RowInv, ThreadInv, ElementTypes, Linked
<1>2. bad \subseteq Nat
  OBVIOUS
<1>3. Min(bad) \in bad /\ \A i \in bad : Min(bad) <= i
  BY <1>2, LeastNumber
<1>4. PICK n \in 0 .. Size, e \in Linked : From[n][e] \notin Seq(Linked) /\ \A i \in bad : n <= i
  BY <1>3
<1>5. From[n][e] = Beyond(From, e, n)
  BY <1>1
<1>6. <<>> \in Seq(Linked) /\ <<e>> \in Seq(Linked)
  OBVIOUS
<1>7. n # 0 /\ next[e] \notin {Nil, First} /\ From[n][e] = <<e>> \o From[n - 1][next[e]]
  BY <1>4, <1>5, <1>6 DEF Beyond
<1>8. next[e] \in Linked
  BY <1>7 DEF RowInv, NextInv
<1>9. n - 1 \in 0 .. Size /\ n - 1 \notin bad
  BY <1>1, <1>4, <1>7
<1>10. From[n - 1][next[e]] \in Seq(Linked)
  BY <1>8, <1>9
<1>11. <<e>> \o From[n - 1][next[e]] \in Seq(Linked)
  BY <1>6, <1>10, ConcatProperties
<1> QED
  BY <1>4, <1>7, <1>11

LEMMA RowLinked ==
  ASSUME RowInv
  PROVE  ToSet(Row) \subseteq Linked
<1>1. Size \in 0 .. Size
  BY FromIs DEF RowInv, ThreadInv, ElementTypes
<1>2. Row \in Seq(Linked)
  BY <1>1, FromLinked DEF Row, Size, RowInv, FirstInv
<1> QED
  BY <1>2 DEF ToSet

-----------------------------------------------------------------------------
(* Sequences with one more element, and with one less *)

LEMMA InsertedAt ==
  ASSUME NEW S, NEW r \in Seq(S), NEW x \in S, NEW k \in 1 .. Len(r), NEW h, h = k + 1,
         NEW q, q = InsertAt(r, h, x)
  PROVE  /\ q \in Seq(S) /\ Len(q) = Len(r) + 1
         /\ \A i \in 1 .. Len(r) + 1 : q[i] = IF i <= k THEN r[i] ELSE IF i = k + 1 THEN x ELSE r[i - 1]
<1> DEFINE n == Len(r)
           a == SubSeq(r, 1, k)
           b == <<x>>
           c == SubSeq(r, k + 1, n)
<1>1. n \in Nat /\ k \in Nat /\ k <= n /\ k >= 1 /\ \A i \in 1 .. n : r[i] \in S
  BY LenProperties
<1>2. h - 1 = k
  BY <1>1
<1>3. q = (a \o b) \o c
  <2>1. q = (SubSeq(r, 1, h - 1) \o <<x>>) \o SubSeq(r, h, Len(r))
    BY DEF InsertAt
  <2> QED
    BY <1>2, <2>1
<1>4. a \in Seq(S) /\ Len(a) = k /\ \A i \in 1 .. k : a[i] = r[i]
  <2>1. \A i \in 1 .. k : r[i] \in S
    BY <1>1
  <2>2. a \in Seq(S) /\ Len(a) = (IF 1 <= k THEN k - 1 + 1 ELSE 0) /\ \A i \in 1 .. k - 1 + 1 : a[i] = r[1 + i - 1]
    BY <1>1, <2>1, SubSeqProperties
  <2> HIDE DEF a
  <2> QED
    BY <1>1, <2>2
<1>5. c \in Seq(S) /\ Len(c) = n - k /\ \A i \in 1 .. n - k : c[i] = r[k + i]
  <2>1. (\A i \in k + 1 .. n : r[i] \in S) /\ k + 1 \in Int /\ n \in Int
    BY <1>1
  <2>2. /\ c \in Seq(S) /\ Len(c) = (IF k + 1 <= n THEN n - (k + 1) + 1 ELSE 0)
        /\ \A i \in 1 .. n - (k + 1) + 1 : c[i] = r[(k + 1) + i - 1]
    BY <2>1, SubSeqProperties
  <2> HIDE DEF c
  <2>3. n - (k + 1) + 1 = n - k /\ (~(k + 1 <= n) => n - k = 0) /\ \A i \in 1 .. n - k : (k + 1) + i - 1 = k + i
    BY <1>1
  <2> QED
    BY <2>2, <2>3
<1>6. b \in Seq(S) /\ Len(b) = 1 /\ b[1] = x
  OBVIOUS
<1> HIDE DEF n, a, b, c
<1>7. a \o b \in Seq(S) /\ Len(a \o b) = k + 1 /\ \A i \in 1 .. k + 1 : (a \o b)[i] = IF i <= k THEN r[i] ELSE x
  <2>1. /\ a \o b \in Seq(S) /\ Len(a \o b) = Len(a) + Len(b)
        /\ \A i \in 1 .. Len(a) + Len(b) : (a \o b)[i] = IF i <= Len(a) THEN a[i] ELSE b[i - Len(a)]
    BY <1>4, <1>6, ConcatProperties
  <2> QED
    BY <1>1, <1>4, <1>6, <2>1
<1> DEFINE d == a \o b
<1>8. d \in Seq(S) /\ Len(d) = k + 1 /\ (\A i \in 1 .. k + 1 : d[i] = IF i <= k THEN r[i] ELSE x) /\ q = d \o c
  BY <1>3, <1>7
<1> HIDE DEF d
<1>9. /\ q \in Seq(S) /\ Len(q) = Len(d) + Len(c)
      /\ \A i \in 1 .. Len(d) + Len(c) : q[i] = IF i <= Len(d) THEN d[i] ELSE c[i - Len(d)]
  <2>1. /\ d \o c \in Seq(S) /\ Len(d \o c) = Len(d) + Len(c)
        /\ \A i \in 1 .. Len(d) + Len(c) : (d \o c)[i] = IF i <= Len(d) THEN d[i] ELSE c[i - Len(d)]
    <3>1. d \in Seq(S) /\ c \in Seq(S)
      BY <1>5, <1>8
    <3> QED
      BY <3>1, ConcatProperties
  <2>2. q = d \o c
    BY <1>8
  <2> QED
    BY <2>1, <2>2, Zenon
<1>10. (k + 1) + (n - k) = n + 1
  BY <1>1
<1>11. /\ q \in Seq(S) /\ Len(q) = n + 1
       /\ \A i \in 1 .. n + 1 : q[i] = IF i <= k + 1 THEN d[i] ELSE c[i - (k + 1)]
  BY <1>5, <1>8, <1>9, <1>10
<1>12. ASSUME NEW i \in 1 .. n + 1
       PROVE  q[i] = IF i <= k THEN r[i] ELSE IF i = k + 1 THEN x ELSE r[i - 1]
  <2>1. CASE i <= k + 1
    BY <1>1, <1>8, <1>11, <2>1
  <2>2. CASE ~(i <= k + 1)
    <3>1. i - (k + 1) \in 1 .. n - k /\ k + (i - (k + 1)) = i - 1 /\ ~(i <= k) /\ i # k + 1
      BY <1>1, <2>2
    <3> QED
      BY <1>5, <1>11, <2>2, <3>1
  <2> QED
    BY <2>1, <2>2
<1> QED
  BY <1>11, <1>12 DEF n

LEMMA RemovedAt ==
  ASSUME NEW S, NEW r \in Seq(S), NEW k \in 1 .. Len(r),
         NEW q, q = RemoveAt(r, k)
  PROVE  /\ q \in Seq(S) /\ Len(q) = Len(r) - 1
         /\ \A i \in 1 .. Len(r) - 1 : q[i] = IF i < k THEN r[i] ELSE r[i + 1]
<1> DEFINE n == Len(r)
           a == SubSeq(r, 1, k - 1)
           c == SubSeq(r, k + 1, n)
<1>1. n \in Nat /\ k \in Nat /\ k <= n /\ k >= 1 /\ \A i \in 1 .. n : r[i] \in S
  BY LenProperties
<1>2. q = a \o c
  BY DEF RemoveAt
<1>3. a \in Seq(S) /\ Len(a) = k - 1 /\ \A i \in 1 .. k - 1 : a[i] = r[i]
  <2>1. (\A i \in 1 .. k - 1 : r[i] \in S) /\ k - 1 \in Int
    BY <1>1
  <2>2. /\ a \in Seq(S) /\ Len(a) = (IF 1 <= k - 1 THEN (k - 1) - 1 + 1 ELSE 0)
        /\ \A i \in 1 .. (k - 1) - 1 + 1 : a[i] = r[1 + i - 1]
    BY <2>1, SubSeqProperties
  <2> HIDE DEF a
  <2> QED
    BY <1>1, <2>2
<1>4. c \in Seq(S) /\ Len(c) = n - k /\ \A i \in 1 .. n - k : c[i] = r[k + i]
  <2>1. (\A i \in k + 1 .. n : r[i] \in S) /\ k + 1 \in Int /\ n \in Int
    BY <1>1
  <2>2. /\ c \in Seq(S) /\ Len(c) = (IF k + 1 <= n THEN n - (k + 1) + 1 ELSE 0)
        /\ \A i \in 1 .. n - (k + 1) + 1 : c[i] = r[(k + 1) + i - 1]
    BY <2>1, SubSeqProperties
  <2> HIDE DEF c
  <2>3. n - (k + 1) + 1 = n - k /\ (~(k + 1 <= n) => n - k = 0) /\ \A i \in 1 .. n - k : (k + 1) + i - 1 = k + i
    BY <1>1
  <2> QED
    BY <2>2, <2>3
<1> HIDE DEF n, a, c
<1>5. /\ q \in Seq(S) /\ Len(q) = Len(a) + Len(c)
      /\ \A i \in 1 .. Len(a) + Len(c) : q[i] = IF i <= Len(a) THEN a[i] ELSE c[i - Len(a)]
  <2>1. /\ a \o c \in Seq(S) /\ Len(a \o c) = Len(a) + Len(c)
        /\ \A i \in 1 .. Len(a) + Len(c) : (a \o c)[i] = IF i <= Len(a) THEN a[i] ELSE c[i - Len(a)]
    <3>1. a \in Seq(S) /\ c \in Seq(S)
      BY <1>3, <1>4
    <3> QED
      BY <3>1, ConcatProperties
  <2> QED
    BY <1>2, <2>1, Zenon
<1>6. (k - 1) + (n - k) = n - 1
  BY <1>1
<1>7. /\ q \in Seq(S) /\ Len(q) = n - 1
      /\ \A i \in 1 .. n - 1 : q[i] = IF i <= k - 1 THEN a[i] ELSE c[i - (k - 1)]
  BY <1>3, <1>4, <1>5, <1>6
<1>8. ASSUME NEW i \in 1 .. n - 1
      PROVE  q[i] = IF i < k THEN r[i] ELSE r[i + 1]
  <2>1. CASE i < k
    BY <1>1, <1>3, <1>7, <2>1
  <2>2. CASE ~(i < k)
    <3>1. i - (k - 1) \in 1 .. n - k /\ k + (i - (k - 1)) = i + 1 /\ ~(i <= k - 1)
      BY <1>1, <2>2
    <3> QED
      BY <1>4, <1>7, <2>2, <3>1
  <2> QED
    BY <2>1, <2>2
<1> QED
  BY <1>7, <1>8 DEF n

-----------------------------------------------------------------------------
(* The row is a chain: everybody who is linked is in it, one after the other *)

Chained(r) ==
  /\ r \in Seq(Elems) \ {<<>>} /\ r[1] = First /\ IsInjective(r) /\ ToSet(r) = Linked
  /\ \A i \in 1 .. Len(r) : IF i < Len(r) THEN next[r[i]] = r[i + 1] ELSE next[r[i]] \in {Nil, First}

LEMMA ChainedFacts ==
  ASSUME NEW r, Chained(r)
  PROVE  /\ Len(r) \in Nat \ {0} /\ DOMAIN r = 1 .. Len(r) /\ 1 \in 1 .. Len(r)
         /\ Linked = {r[i] : i \in 1 .. Len(r)} /\ Linked \subseteq Elems /\ First \in Linked
         /\ \A i \in 1 .. Len(r) : r[i] \in Linked /\ (i # 1 => r[i] # First)
         /\ \A i, j \in 1 .. Len(r) : r[i] = r[j] => i = j
<1>1. Len(r) \in Nat \ {0} /\ DOMAIN r = 1 .. Len(r) /\ 1 \in 1 .. Len(r)
  BY EmptySeq, LenProperties DEF Chained
<1>2. \A i, j \in 1 .. Len(r) : r[i] = r[j] => i = j
  BY <1>1 DEF Chained, IsInjective
<1>3. Linked = {r[i] : i \in 1 .. Len(r)}
  BY <1>1 DEF Chained, ToSet
<1>4. r[1] = First
  BY DEF Chained
<1> QED
  BY <1>1, <1>2, <1>3, <1>4 DEF Linked

\* No element is in it twice, so the way from First on does not end too early.
LEMMA ChainedFits ==
  ASSUME NEW r, Chained(r)
  PROVE  Size \in Nat /\ Len(r) <= Size
<1>1. Len(r) \in Nat /\ r \in [1 .. Len(r) -> Elems] /\ DOMAIN r = 1 .. Len(r)
  BY LenProperties DEF Chained
<1>2. r \in Injection(1 .. Len(r), Elems)
  BY <1>1 DEF Injection, Chained
<1>3. IsFiniteSet(Elems)
  BY ElementAssumption
<1>4. Cardinality(1 .. Len(r)) <= Size
  BY <1>2, <1>3, FS_Injection DEF Size
<1>5. Cardinality(1 .. Len(r)) = Len(r)
  BY <1>1, FS_Interval
<1> QED
  BY <1>3, <1>4, <1>5, FS_CardinalityType DEF Size

\* From each place on it is the rest of the chain that is found.
LEMMA RestOfChain ==
  ASSUME ElementTypes, NEW r, Chained(r), NEW d \in 0 .. Len(r) - 1, NEW k \in d + 1 .. Size
  PROVE  From[k][r[Len(r) - d]] = SubSeq(r, Len(r) - d, Len(r))
<1> DEFINE n == Len(r)
           right(c, j) == From[j][r[n - c]] = SubSeq(r, n - c, n)
           bad == {c \in 0 .. n - 1 : \E j \in c + 1 .. Size : ~right(c, j)}
<1>1. n \in Nat \ {0} /\ r \in Seq(Elems) /\ \A i \in 1 .. n : r[i] \in Elems /\ (i # 1 => r[i] # First)
  BY ChainedFacts DEF Chained
<1>2. Size \in Nat /\ \A j \in 0 .. Size, e \in Elems : From[j][e] = Beyond(From, e, j)
  BY FromIs DEF ElementTypes
<1> HIDE DEF n
<1> SUFFICES ASSUME bad # {}
             PROVE  FALSE
  BY DEF n
<1>3. bad \subseteq Nat
  BY <1>1
<1>4. Min(bad) \in bad /\ \A c \in bad : Min(bad) <= c
  BY <1>3, LeastNumber
<1>5. PICK c \in 0 .. n - 1 : c \in bad /\ \A b \in bad : c <= b
  BY <1>4
<1>6. PICK j \in c + 1 .. Size : ~right(c, j)
  BY <1>5
<1> DEFINE i == n - c
<1>7. /\ i \in 1 .. n /\ j \in 0 .. Size /\ j # 0 /\ i \in Nat /\ j \in Nat /\ (c = 0 => i = n)
      /\ c # 0 => /\ i < n /\ i + 1 \in 1 .. n /\ i + 1 # 1 /\ c - 1 \in 0 .. n - 1 /\ ~(c <= c - 1)
                  /\ j - 1 \in (c - 1) + 1 .. Size /\ n - (c - 1) = i + 1
  <2>1. n \in Nat \ {0} /\ Size \in Nat
    BY <1>1, <1>2
  <2> QED
    BY <2>1
<1>8. From[j][r[i]] = IF next[r[i]] \in {Nil, First} THEN <<r[i]>> ELSE <<r[i]>> \o From[j - 1][next[r[i]]]
  BY <1>1, <1>2, <1>7 DEF Beyond
<1>9. SubSeq(r, i, n) = <<r[i]>> \o SubSeq(r, i + 1, n)
  <2>1. i \in 1 .. Len(r) /\ n \in i .. Len(r)
    BY <1>1, <1>7 DEF n
  <2> HIDE DEF i
  <2> QED
    BY <1>1, <2>1, SubSeqRecursiveFirst
<1>10. CASE c = 0
  <2>1. i = n /\ n \in 1 .. n /\ ~(n < n) /\ n \in Int
    BY <1>1, <1>7, <1>10
  <2>2. next[r[i]] \in {Nil, First} /\ n + 1 \in Int /\ n < n + 1
    <3> HIDE DEF i
    <3>1. next[r[n]] \in {Nil, First}
      BY <2>1 DEF Chained, n
    <3> QED
      BY <2>1, <3>1
  <2>3. SubSeq(r, i + 1, n) = <<>>
    BY <2>1, <2>2, SubSeqEmpty
  <2>4. <<r[i]>> \o <<>> = <<r[i]>>
    BY <1>1, <1>7
  <2> QED
    BY <1>6, <1>8, <1>9, <2>2, <2>3, <2>4
<1>11. CASE c # 0
  <2>1. i < n /\ i + 1 \in 1 .. n /\ i + 1 # 1
    BY <1>7, <1>11
  <2>2. next[r[i]] = r[i + 1] /\ r[i + 1] \in Elems /\ r[i + 1] # First
    BY <1>1, <1>7, <2>1 DEF Chained, n
  <2>3. c - 1 \in 0 .. n - 1 /\ c - 1 \notin bad /\ j - 1 \in (c - 1) + 1 .. Size /\ n - (c - 1) = i + 1
    <3> HIDE DEF bad, i
    <3> QED
      BY <1>5, <1>7, <1>11
  <2>4. right(c - 1, j - 1)
    BY <2>3
  <2>5. From[j - 1][r[i + 1]] = SubSeq(r, i + 1, n)
    BY <2>3, <2>4
  <2>6. next[r[i]] \notin {Nil, First}
    BY <2>2, ElementAssumption
  <2> QED
    BY <1>6, <1>8, <1>9, <2>2, <2>5, <2>6
<1> QED
  BY <1>10, <1>11

LEMMA RowIsChain == ElementTypes => \A r : Chained(r) => Row = r
<1> SUFFICES ASSUME ElementTypes, NEW r, Chained(r)
             PROVE  Row = r
  OBVIOUS
<1> DEFINE d == Len(r) - 1
<1>1. Len(r) \in Nat \ {0} /\ Size \in Nat /\ Len(r) <= Size
  BY ChainedFacts, ChainedFits
<1>2. d \in 0 .. Len(r) - 1 /\ Size \in d + 1 .. Size /\ Len(r) - d = 1
  BY <1>1
<1> HIDE DEF d
<1>3. From[Size][r[1]] = SubSeq(r, 1, Len(r))
  BY <1>2, RestOfChain
<1>4. SubSeq(r, 1, Len(r)) = r
  BY SubSeqFull DEF Chained
<1> QED
  BY <1>3, <1>4 DEF Row, Size, Chained

LEMMA RowIsChainThen == ElementTypes' => \A r : Chained(r)' => Row' = r
<1>1. (ElementTypes => \A r : Chained(r) => Row = r)'
  BY RowIsChain, PTL
<1> QED
  BY <1>1

\* Changes of the row are those the abstract row allows.
LEMMA SameChained ==
  ASSUME NEW r, Chained(r), Same
  PROVE  Chained(r)'
BY ChainedFacts DEF Chained, Same

LEMMA InsertedChained ==
  ASSUME NEW r, Chained(r), NEW p, NEW x, Inserted(p, x)
  PROVE  \E i \in DOMAIN r : Chained(InsertAt(r, i + 1, x))'
<1> DEFINE n == Len(r)
<1>1. /\ n \in Nat \ {0} /\ DOMAIN r = 1 .. n /\ r \in Seq(Elems) /\ r[1] = First
      /\ Linked = {r[i] : i \in 1 .. n} /\ Linked \subseteq Elems
      /\ \A i \in 1 .. n : r[i] \in Linked
      /\ \A i, j \in 1 .. n : r[i] = r[j] => i = j
  BY ChainedFacts DEF Chained
<1>2. \A i \in 1 .. n : IF i < n THEN next[r[i]] = r[i + 1] ELSE next[r[i]] \in {Nil, First}
  BY DEF Chained
<1>3. PICK k \in 1 .. n : r[k] = p
  BY <1>1 DEF Inserted
<1> DEFINE q == InsertAt(r, k + 1, x)
<1>4. /\ q \in Seq(Elems) /\ Len(q) = n + 1
      /\ \A i \in 1 .. n + 1 : q[i] = IF i <= k THEN r[i] ELSE IF i = k + 1 THEN x ELSE r[i - 1]
  <2>1. x \in Elems /\ r \in Seq(Elems) /\ k \in 1 .. Len(r)
    BY <1>1 DEF Inserted
  <2> HIDE DEF q
  <2>2. PICK h : h = k + 1
    OBVIOUS
  <2>3. q = InsertAt(r, h, x)
    BY <2>2 DEF q
  <2> QED
    BY <2>1, <2>2, <2>3, InsertedAt
<1> HIDE DEF q, n
<1>5. DOMAIN q = 1 .. n + 1
  BY <1>4, LenProperties
<1>6. ToSet(q) = Linked'
  <2>1. ToSet(q) = {q[i] : i \in 1 .. n + 1}
    BY <1>5 DEF ToSet
  <2>2. ASSUME NEW e \in Linked'
        PROVE  \E i \in 1 .. n + 1 : q[i] = e
    <3>1. CASE e = x
      <4>1. k + 1 \in 1 .. n + 1 /\ ~(k + 1 <= k)
        BY <1>1
      <4> QED
        BY <1>4, <3>1, <4>1
    <3>2. CASE e # x
      <4>1. PICK i \in 1 .. n : r[i] = e
        BY <1>1, <2>2, <3>2 DEF Inserted
      <4>2. q[i] = e \/ q[i + 1] = e
        BY <1>1, <1>4, <4>1
      <4> QED
        BY <1>1, <4>1, <4>2
    <3> QED
      BY <3>1, <3>2
  <2>3. ASSUME NEW i \in 1 .. n + 1
        PROVE  q[i] \in Linked \cup {x}
    <3>1. i <= k => i \in 1 .. n
      BY <1>1
    <3>2. i > k + 1 => i - 1 \in 1 .. n
      BY <1>1
    <3> QED
      BY <1>1, <1>4, <3>1, <3>2
  <2>4. Linked' = Linked \cup {x}
    BY DEF Inserted
  <2> QED
    BY <2>1, <2>2, <2>3, <2>4
<1>7. IsInjective(q)
  <2> SUFFICES ASSUME NEW i \in 1 .. n + 1, NEW j \in 1 .. n + 1, q[i] = q[j]
               PROVE  i = j
    BY <1>5 DEF IsInjective
  <2>1. \A m \in 1 .. n : r[m] # x
    BY <1>1 DEF Inserted
  <2> DEFINE back(m) == IF m <= k THEN m ELSE m - 1
  <2>2. \A m \in 1 .. n + 1 : m # k + 1 => back(m) \in 1 .. n /\ q[m] = r[back(m)]
    BY <1>1, <1>4
  <2>3. q[k + 1] = x
    BY <1>1, <1>4
  <2>4. i = k + 1 <=> j = k + 1
    BY <2>1, <2>2, <2>3
  <2>5. i # k + 1 => back(i) = back(j)
    BY <1>1, <2>2, <2>4
  <2> QED
    BY <1>1, <2>4, <2>5
<1>8. ASSUME NEW i \in 1 .. n + 1
      PROVE  IF i < n + 1 THEN next'[q[i]] = q[i + 1] ELSE next'[q[i]] \in {Nil, First}
  <2>1. next'[x] = next[p] /\ next'[p] = x /\ \A e \in Linked : e # p => next'[e] = next[e]
    BY DEF Inserted
  <2>2. CASE i < k
    <3>1. i \in 1 .. n /\ i < n /\ q[i] = r[i] /\ q[i + 1] = r[i + 1] /\ i < n + 1
      BY <1>1, <1>4, <2>2
    <3>2. r[i] # p
      BY <1>1, <1>3, <2>2, <3>1
    <3> QED
      BY <1>1, <1>2, <2>1, <3>1, <3>2
  <2>3. CASE i = k
    <3>1. q[i] = p /\ q[i + 1] = x /\ i < n + 1
      BY <1>1, <1>3, <1>4, <2>3
    <3> QED
      BY <2>1, <3>1
  <2>4. CASE i = k + 1
    <3>1. q[i] = x /\ (i < n + 1 => q[i + 1] = r[k + 1] /\ k < n) /\ (~(i < n + 1) => ~(k < n))
      BY <1>1, <1>4, <2>4
    <3> QED
      BY <1>2, <1>3, <2>1, <3>1
  <2>5. CASE i > k + 1
    <3>1. /\ i - 1 \in 1 .. n /\ i - 1 # k /\ (i < n + 1 <=> i - 1 < n) /\ (i + 1) - 1 = (i - 1) + 1
          /\ ~(i <= k) /\ i # k + 1 /\ ~(i + 1 <= k) /\ i + 1 # k + 1 /\ (i < n + 1 => i + 1 \in 1 .. n + 1)
      BY <1>1, <2>5
    <3>0. q[i] = r[i - 1] /\ (i < n + 1 => q[i + 1] = r[(i - 1) + 1])
      BY <1>4, <3>1
    <3>2. r[i - 1] # p
      BY <1>1, <1>3, <3>1
    <3>3. next'[q[i]] = next[r[i - 1]]
      BY <1>1, <2>1, <3>0, <3>1, <3>2
    <3> QED
      BY <1>2, <3>0, <3>1, <3>3
  <2> QED
    BY <1>1, <2>2, <2>3, <2>4, <2>5
<1>9. q[1] = First /\ q # <<>>
  BY <1>1, <1>4, <1>5
<1>10. Chained(q)'
  BY <1>4, <1>6, <1>7, <1>8, <1>9 DEF Chained
<1> QED
  BY <1>1, <1>10 DEF q

LEMMA TakenOutChained ==
  ASSUME NEW r, Chained(r), NEW p, NEW m, TakenOut(p, m)
  PROVE  \E i \in DOMAIN r : r[i] # First /\ Chained(RemoveAt(r, i))'
<1> DEFINE n == Len(r)
<1>1. /\ n \in Nat \ {0} /\ DOMAIN r = 1 .. n /\ r \in Seq(Elems) /\ r[1] = First
      /\ Linked = {r[i] : i \in 1 .. n} /\ Linked \subseteq Elems
      /\ \A i \in 1 .. n : r[i] \in Linked
      /\ \A i, j \in 1 .. n : r[i] = r[j] => i = j
  BY ChainedFacts DEF Chained
<1>2. \A i \in 1 .. n : IF i < n THEN next[r[i]] = r[i + 1] ELSE next[r[i]] \in {Nil, First}
  BY DEF Chained
<1>3. PICK k \in 1 .. n : r[k] = m
  BY <1>1 DEF TakenOut
<1>4. PICK j \in 1 .. n : r[j] = p
  BY <1>1 DEF TakenOut
\* The element before it in the row is the one that has it as its next.
<1>5. k # 1 /\ j = k - 1 /\ p # m
  <2>1. m # First /\ next[p] = m /\ m \in Elems
    BY <1>1 DEF TakenOut
  <2>2. j < n
    BY <1>2, <1>4, <2>1, ElementAssumption
  <2>3. r[j + 1] = m /\ j + 1 \in 1 .. n
    BY <1>1, <1>2, <1>4, <2>1, <2>2
  <2>4. j + 1 = k
    BY <1>1, <1>3, <2>3
  <2> QED
    BY <1>1, <1>3, <1>4, <2>1, <2>4
<1> DEFINE q == RemoveAt(r, k)
<1>6. /\ q \in Seq(Elems) /\ Len(q) = n - 1
      /\ \A i \in 1 .. n - 1 : q[i] = IF i < k THEN r[i] ELSE r[i + 1]
  <2>1. r \in Seq(Elems) /\ k \in 1 .. Len(r)
    BY <1>1
  <2> HIDE DEF q
  <2>2. q = RemoveAt(r, k)
    BY DEF q
  <2> QED
    BY <2>1, <2>2, RemovedAt
<1> HIDE DEF q, n
<1>7. DOMAIN q = 1 .. n - 1 /\ n - 1 \in Nat \ {0}
  BY <1>1, <1>5, <1>6, LenProperties
<1>8. ToSet(q) = Linked'
  <2>1. ToSet(q) = {q[i] : i \in 1 .. n - 1}
    BY <1>7 DEF ToSet
  <2>2. ASSUME NEW e \in Linked'
        PROVE  \E i \in 1 .. n - 1 : q[i] = e
    <3>1. PICK i \in 1 .. n : r[i] = e
      BY <1>1, <2>2 DEF TakenOut
    <3>2. i # k
      BY <1>3, <2>2, <3>1 DEF TakenOut
    <3>3. i < k => i \in 1 .. n - 1 /\ q[i] = e
      BY <1>1, <1>6, <3>1
    <3>4. i > k => i - 1 \in 1 .. n - 1 /\ q[i - 1] = e
      <4>1. i > k => i - 1 \in 1 .. n - 1 /\ ~(i - 1 < k) /\ (i - 1) + 1 = i
        BY <1>1
      <4> QED
        BY <1>6, <3>1, <4>1
    <3> QED
      BY <1>1, <3>2, <3>3, <3>4
  <2>3. ASSUME NEW i \in 1 .. n - 1
        PROVE  q[i] \in Linked \ {m}
    <3>1. i \in 1 .. n /\ i + 1 \in 1 .. n /\ (i < k => i # k) /\ (~(i < k) => i + 1 # k)
      BY <1>1
    <3>2. CASE i < k
      BY <1>1, <1>3, <1>6, <3>1, <3>2
    <3>3. CASE ~(i < k)
      BY <1>1, <1>3, <1>6, <3>1, <3>3
    <3> QED
      BY <3>2, <3>3
  <2>4. Linked' = Linked \ {m}
    BY DEF TakenOut
  <2> QED
    BY <2>1, <2>2, <2>3, <2>4
<1>9. IsInjective(q)
  <2> SUFFICES ASSUME NEW i \in 1 .. n - 1, NEW h \in 1 .. n - 1, q[i] = q[h]
               PROVE  i = h
    BY <1>7 DEF IsInjective
  <2> DEFINE back(a) == IF a < k THEN a ELSE a + 1
  <2>1. \A a \in 1 .. n - 1 : back(a) \in 1 .. n /\ q[a] = r[back(a)]
    BY <1>1, <1>6
  <2>2. back(i) = back(h)
    BY <1>1, <2>1
  <2> QED
    BY <1>1, <2>2
<1>10. ASSUME NEW i \in 1 .. n - 1
       PROVE  IF i < n - 1 THEN next'[q[i]] = q[i + 1] ELSE next'[q[i]] \in {Nil, First}
  <2>1. next'[p] = next[m] /\ \A e \in Linked : e # p /\ e # m => next'[e] = next[e]
    BY <1>5 DEF TakenOut
  <2>2. /\ i \in 1 .. n /\ i + 1 \in 1 .. n /\ (i < n - 1 => i + 1 \in 1 .. n - 1)
        /\ (i + 1) + 1 = i + 2 /\ k - 1 + 1 = k
    BY <1>1
  <2>3. CASE i < k - 1
    <3>1. i < k /\ i + 1 < k /\ i < n - 1 /\ i < n /\ i # k /\ i # k - 1
      BY <1>1, <2>3
    <3>2. q[i] = r[i] /\ q[i + 1] = r[i + 1]
      BY <1>6, <2>2, <3>1
    <3>3. r[i] # p /\ r[i] # m
      BY <1>1, <1>3, <1>4, <1>5, <2>2, <3>1
    <3> QED
      BY <1>1, <1>2, <2>1, <2>2, <3>1, <3>2, <3>3
  <2>4. CASE i = k - 1
    <3>1. i < k /\ ~(i + 1 < k) /\ (i < n - 1 => k < n) /\ (~(i < n - 1) => ~(k < n)) /\ i + 1 = k
      BY <1>1, <2>4
    <3>2. q[i] = p /\ (i < n - 1 => q[i + 1] = r[k + 1])
      BY <1>4, <1>5, <1>6, <2>2, <2>4, <3>1
    <3> QED
      BY <1>2, <1>3, <2>1, <3>1, <3>2
  <2>5. CASE i > k - 1
    <3>1. ~(i < k) /\ ~(i + 1 < k) /\ (i < n - 1 <=> i + 1 < n) /\ i + 1 # k /\ i + 1 # k - 1
      BY <1>1, <2>5
    <3>2. q[i] = r[i + 1] /\ (i < n - 1 => q[i + 1] = r[(i + 1) + 1])
      BY <1>6, <2>2, <3>1
    <3>3. r[i + 1] # p /\ r[i + 1] # m
      BY <1>1, <1>3, <1>4, <1>5, <2>2, <3>1
    <3>4. next'[r[i + 1]] = next[r[i + 1]]
      BY <1>1, <2>1, <2>2, <3>3
    <3> QED
      BY <1>2, <2>2, <3>1, <3>2, <3>4
  <2> QED
    BY <1>1, <2>3, <2>4, <2>5
<1>11. q[1] = First /\ q # <<>>
  <2>1. 1 \in 1 .. n - 1 /\ 1 < k
    BY <1>1, <1>5, <1>7
  <2> QED
    BY <1>1, <1>6, <1>7, <2>1
<1>12. Chained(q)'
  BY <1>6, <1>8, <1>9, <1>10, <1>11 DEF Chained
<1>13. r[k] # First
  BY <1>3 DEF TakenOut
<1> QED
  BY <1>1, <1>12, <1>13 DEF q

LEMMA InitChained == ASSUME Init PROVE Chained(InitRow)
<1> DEFINE n == Len(InitRow)
<1>1. PICK ring \in BOOLEAN : \A e \in Elems :
        next[e] = IF e \notin InitElems THEN Nil
                  ELSE IF Place(e) < n THEN InitRow[Place(e) + 1]
                  ELSE IF ring THEN First ELSE Nil
  BY InitLinks
<1>2. /\ InitElems \subseteq Elems
      /\ \A i \in 1 .. n : InitRow[i] \in InitElems /\ Place(InitRow[i]) = i
  BY PlaceRight
<1>3. Linked = InitElems
  <2>1. /\ \A e \in Elems : isRemoved[e] = (e \notin InitElems)
        /\ \A t \in Threads : pc[t] = "idle"
    BY DEF Init, InitElems
  <2> QED
    BY <1>2, <2>1 DEF Linked, Leaving, Unlinked
<1>4. \A i \in 1 .. n : IF i < n THEN next[InitRow[i]] = InitRow[i + 1] ELSE next[InitRow[i]] \in {Nil, First}
  BY <1>1, <1>2
<1> QED
  BY <1>3, <1>4, ElementAssumption DEF Chained, InitElems

ChainInv == RowInv /\ \E r : Chained(r)

LEMMA ChainStep ==
  ASSUME ~RemoveTwice, ChainInv, [Next]_vars
  PROVE  ChainInv' /\ [IsChain!Next]_Row
<1>1. ElementTypes /\ ElementTypes'
  BY RowStep DEF ChainInv, RowInv, ThreadInv
<1>2. RowInv' /\ Changed
  BY RowStep DEF ChainInv
<1>3. PICK r : Chained(r)
  BY DEF ChainInv
<1>4. Row = r /\ DOMAIN r = DOMAIN Row
  BY <1>1, <1>3, RowIsChain
<1>5. CASE Same
  <2>1. Chained(r)'
    BY <1>3, <1>5, SameChained
  <2>2. Row' = r
    BY <1>1, <2>1, RowIsChainThen
  <2> QED
    BY <1>2, <1>4, <2>1, <2>2 DEF ChainInv
<1>6. ASSUME NEW p \in Elems, NEW x \in Elems, Inserted(p, x)
      PROVE  ChainInv' /\ IsChain!Next
  <2>1. PICK i \in DOMAIN r : Chained(InsertAt(r, i + 1, x))'
    BY <1>3, <1>6, InsertedChained
  <2>2. Row' = InsertAt(r, i + 1, x)
    BY <1>1, <2>1, RowIsChainThen
  <2>3. x \in Elems \ ToSet(Row)
    BY <1>3, <1>4, <1>6 DEF Chained, Inserted
  <2>4. IsChain!InsertBehind(i, x)
    BY <1>4, <2>2, <2>3 DEF IsChain!InsertBehind, IsChain!InsertAt, InsertAt, IsChain!ToSet, ToSet
  <2>5. IsChain!Next
    BY <1>4, <2>4 DEF IsChain!Next
  <2> QED
    BY <1>2, <2>1, <2>5 DEF ChainInv
<1>7. ASSUME NEW p \in Elems, NEW x \in Elems, TakenOut(p, x)
      PROVE  ChainInv' /\ IsChain!Next
  <2>1. PICK i \in DOMAIN r : r[i] # First /\ Chained(RemoveAt(r, i))'
    BY <1>3, <1>7, TakenOutChained
  <2>2. Row' = RemoveAt(r, i)
    BY <1>1, <2>1, RowIsChainThen
  <2>3. IsChain!TakeOut(i)
    BY <1>4, <2>1, <2>2 DEF IsChain!TakeOut, IsChain!RemoveAt, RemoveAt
  <2>4. IsChain!Next
    BY <1>4, <2>3 DEF IsChain!Next
  <2> QED
    BY <1>2, <2>1, <2>4 DEF ChainInv
<1> QED
  BY <1>2, <1>5, <1>6, <1>7 DEF Changed

LEMMA ChainInit == Init => ChainInv /\ IsChain!Init
<1> SUFFICES ASSUME Init
             PROVE  ChainInv /\ IsChain!Init
  OBVIOUS
<1>1. RowInv /\ Chained(InitRow)
  BY RowInit, InitChained
<1>2. Row = InitRow
  BY <1>1, RowIsChain DEF RowInv, ThreadInv
<1>3. IsChain!Init
  BY <1>2, ElementAssumption DEF IsChain!Init, IsChain!IsInjective, IsInjective
<1> QED
  BY <1>1, <1>3 DEF ChainInv

-----------------------------------------------------------------------------
(* Theorems *)

\* What the inductive invariant says of the whole row, whoever reads and waits.
LEMMA LinkedAgree ==
  ASSUME RowInv
  PROVE  NeighboursAgree
<1> USE ElementAssumption DEF RowInv, ThreadInv
<1>1. ASSUME NEW e \in Linked, next[e] # Nil, holder[next[e]] = Nil
      PROVE  prev[next[e]] = e
  <2> SUFFICES ASSUME NEW t \in Threads, Pending(t, next[e])
               PROVE  FALSE
    BY <1>1 DEF NextInv
  <2>1. next[e] \in Elems
    BY <1>1 DEF NextInv, Linked
  <2>2. next[e] \in Held(t)
    BY <1>1 DEF Pending, Held
  <2>3. holder[next[e]] = t
    BY <2>1, <2>2 DEF HolderInv
  <2> QED
    BY <1>1, <2>3
<1>2. ASSUME NEW e \in Linked, isRemoved[e]
      PROVE  \E t \in Working : this[t] = e
  BY <1>2 DEF Linked, Leaving, Working
<1>3. ASSUME NEW e \in Linked, next[e] # Nil, {holder[e], holder[next[e]]} = {Nil}
      PROVE  prev[next[e]] = e
  BY <1>1, <1>3
<1> QED
  BY <1>2, <1>3, RowLinked DEF NeighboursAgree

\* TDoubleElement: as long as no two threads remove the same element, everything a thread
\* knows while it reads, waits for its locks and stores is what the elements really are.
THEOREM RowKept == ASSUME ~RemoveTwice PROVE Spec => []RowInv
<1>1. RowInv /\ [Next]_vars => RowInv'
  BY RowStep
<1> QED
  BY <1>1, RowInit, PTL DEF Spec

\* TDoubleElement: whatever insertions and removals run at the same time, in a list or in a
\* ring, two neighbours nobody has locked agree on being neighbours, and an element that is
\* marked as removed is in the row only until its remover is done.
THEOREM UnlockedNeighboursAgree == ASSUME ~RemoveTwice PROVE Spec => []NeighboursAgree
<1>1. RowInv => NeighboursAgree
  BY LinkedAgree
<1> QED
  BY <1>1, RowKept, PTL

\* TDoubleElement: threads that insert elements and remove them, each of them in several
\* stores, among neighbours that others insert and remove, do to the row what single steps
\* would: a new element gets its place behind one of the others, one that is removed leaves,
\* and the others stay where they are.
THEOREM RowIsAlwaysChain == ASSUME ~RemoveTwice PROVE Spec => ImplementsChain
<1>1. ChainInv /\ [Next]_vars => ChainInv' /\ [IsChain!Next]_Row
  BY ChainStep
<1>2. Init => ChainInv /\ IsChain!Init
  BY ChainInit
<1> QED
  BY <1>1, <1>2, PTL DEF Spec, ImplementsChain, IsChain!Spec
=============================================================================
