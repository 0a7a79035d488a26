---------------------------- MODULE ElementStore ----------------------------
(***************************************************************************)
(* pwx::CThreadElementStore (src/src/container/CThreadElementStore.cpp):   *)
(* each thread that walks through a list has a current element, noted in a *)
(* hash table of the list's store under the thread's id. An element that   *)
(* leaves the list has all notes about it deleted by its                   *)
(* VElement::remove() and again when it is destroyed or inserted           *)
(* elsewhere (VElement.cpp).                                               *)
(*                                                                         *)
(* curr() reads without a lock, unless it sees that somebody invalidates.  *)
(* The notes change only under the store's lock, and each thread reads     *)
(* just its own, so a sweep over the table is one step.                    *)
(*                                                                         *)
(* The table is an open hash (TOpenHash.h). Two of its ways show: to       *)
(* delete the note of a thread that has none may delete that of another,   *)
(* once every place has been used; and if add() throws, clear() waits for  *)
(* that insertion ever after (VTHashBase.h). It does not grow: threads     *)
(* fill less than two thirds of it.                                        *)
(***************************************************************************)
EXTENDS Naturals, FiniteSets

CONSTANTS Threads, Elems,
          Nil,       \* nullptr, nobody
          Freed,     \* what a pointer to a deleted note points at
          MaxCalls,  \* bound: the calls the threads make together
          MaxUnused, \* bound on the places of the table never used so far
          Destroy    \* is the store destroyed in the end?

Calls == {"curr", "set", "remove", "delete", "clear", "destroy", "enable"}

ASSUME StoreAssumption ==
  /\ {Nil, Freed} \cap (Threads \cup Elems) = {} /\ Nil # Freed /\ Nil \notin Calls
  /\ {MaxCalls, MaxUnused} \subseteq Nat /\ Destroy \in BOOLEAN

VARIABLES
  currs,         \* the element noted for each thread
  unused,        \* the places of the table that no note was ever in
  inserting,     \* is an insertion under way, or was one left by an exception?
  oneCurr,       \* the one current element without thread safety
  beThreadSafe, isDestroyed,
  invalidating,  \* the flag curr() looks at
  holder,        \* who has the locks of the store and its table
  place,         \* of each element: "in" the list, "leaving" it or "gone"
  pc, op, el,    \* of each thread: its step, its call and the element it is for
  found,         \* the note curr() has found
  left,          \* the calls that may still be made
  late,          \* history: has the thread noted an element that was leaving already?
  skipped        \* history: the invalidations of an element that were passed over

vars == <<currs, unused, inserting, oneCurr, beThreadSafe, isDestroyed, invalidating, holder, place,
          pc, op, el, found, left, late, skipped>>
mode == <<oneCurr, beThreadSafe, isDestroyed>>
table == <<currs, unused, inserting>>
history == <<late, skipped>>

Init ==
  /\ currs = [t \in Threads |-> Nil] /\ oneCurr = Nil
  /\ unused \in 0 .. MaxUnused /\ inserting = FALSE
  /\ beThreadSafe \in BOOLEAN /\ isDestroyed = FALSE
  /\ invalidating = FALSE /\ holder = Nil
  /\ place = [e \in Elems |-> "in"]
  /\ pc = [t \in Threads |-> "idle"] /\ op = [t \in Threads |-> Nil]
  /\ el = [t \in Threads |-> Nil] /\ found = [t \in Threads |-> Nil]
  /\ left = MaxCalls
  /\ late = [t \in Threads |-> FALSE] /\ skipped = [e \in Elems |-> 0]

Goto(t, where) == pc' = [pc EXCEPT ![t] = where]
IsEmpty == \A t \in Threads : currs[t] = Nil

\* The notes of these threads are deleted, even if one of them is just looking at its own.
DeleteNotes(whose) ==
  /\ currs' = [t \in Threads |-> IF t \in whose THEN Nil ELSE currs[t]]
  /\ found' = [t \in Threads |-> IF t \in whose /\ found[t] # Nil THEN Freed ELSE found[t]]
  /\ UNCHANGED <<unused, inserting>>

\* A thread makes a call, unless the store is gone or being switched; it may return at
\* once. Only what is in the list is walked to.
Call(t, what, e, first) ==
  /\ pc[t] = "idle" /\ left > 0
  /\ ~isDestroyed /\ \A s \in Threads : op[s] \notin {"destroy", "enable"}
  /\ IF first = "idle" THEN UNCHANGED <<op, el>>
     ELSE op' = [op EXCEPT ![t] = what] /\ el' = [el EXCEPT ![t] = e]
  /\ left' = left - 1
  /\ Goto(t, first)

Return(t) ==
  /\ Goto(t, "idle")
  /\ op' = [op EXCEPT ![t] = Nil] /\ el' = [el EXCEPT ![t] = Nil]

-----------------------------------------------------------------------------
(* curr() *)

CallCurr(t) ==
  /\ Call(t, "curr", Nil, IF ~beThreadSafe THEN "idle" ELSE IF invalidating THEN "lock" ELSE "get")
  /\ UNCHANGED <<table, mode, invalidating, holder, place, found, history>>

Get(t) ==
  /\ pc[t] = "get"
  /\ found' = [found EXCEPT ![t] = currs[t]]
  /\ Goto(t, IF holder = t THEN "unlock" ELSE "use")
  /\ UNCHANGED <<table, mode, invalidating, holder, place, op, el, left, history>>

\* The element is taken out of the note when the lock has been given back.
Use(t) ==
  /\ pc[t] = "use"
  /\ found' = [found EXCEPT ![t] = Nil]
  /\ Return(t)
  /\ UNCHANGED <<table, mode, invalidating, holder, place, left, history>>

-----------------------------------------------------------------------------
(* curr(new_curr), with nullptr or an element of the list. *)

CallSetCurr(t, e) ==
  /\ e # Nil => place[e] = "in"
  /\ Call(t, "set", e, IF beThreadSafe THEN "lock" ELSE "idle")
  /\ oneCurr' = IF beThreadSafe THEN oneCurr ELSE e
  /\ UNCHANGED <<table, beThreadSafe, isDestroyed, invalidating, holder, place, found, history>>

\* Whose note delKey() may delete for t: its own. If there is none the search ends at a
\* place never used, or, without such places, wherever it began.
Deletable(t) ==
  IF currs[t] # Nil THEN {{t}}
  ELSE {{}} \cup IF unused = 0 THEN {{s} : s \in {u \in Threads : currs[u] # Nil}} ELSE {}

\* A new note lies in a place never used or in one that was left.
Add(t) ==
  /\ unused' \in {unused, unused - 1} \cap Nat
  /\ late' = [late EXCEPT ![t] = place[el[t]] # "in"]
  /\ UNCHANGED inserting

\* An exception is forgotten, but add() has not lowered its counter.
AddFails(t) ==
  /\ inserting' = TRUE
  /\ late' = [late EXCEPT ![t] = FALSE]
  /\ UNCHANGED unused

\* The old note is deleted first. The new one may fail, and nobody hears of it.
SetCurr(t) ==
  /\ pc[t] = "set"
  /\ IF isDestroyed
     THEN UNCHANGED <<table, found, late>>
     ELSE \E gone \in Deletable(t), new \in {el[t], Nil} :
            /\ currs' = [s \in Threads |-> IF s = t THEN new ELSE IF s \in gone THEN Nil ELSE currs[s]]
            /\ found' = [s \in Threads |-> IF s \in gone /\ found[s] # Nil THEN Freed ELSE found[s]]
            /\ IF new # Nil THEN Add(t)
               ELSE IF el[t] # Nil THEN AddFails(t)
               ELSE late' = [late EXCEPT ![t] = FALSE] /\ UNCHANGED <<unused, inserting>>
  /\ Goto(t, "unlock")
  /\ UNCHANGED <<mode, invalidating, holder, place, op, el, left, skipped>>

-----------------------------------------------------------------------------
(* invalidate(), called for an element that leaves the list, and clear(). *)

\* VElement::remove(): the element counts as removed before the store is told.
CallRemove(t, e) ==
  /\ place[e] = "in"
  /\ Call(t, "remove", e, "test")
  /\ place' = [place EXCEPT ![e] = "leaving"]
  /\ UNCHANGED <<table, mode, invalidating, holder, found, history>>

CallClear(t) ==
  /\ Call(t, "clear", Nil, IF beThreadSafe THEN "test" ELSE "idle")
  /\ oneCurr' = IF beThreadSafe THEN oneCurr ELSE Nil
  /\ UNCHANGED <<table, beThreadSafe, isDestroyed, invalidating, holder, place, found, history>>

\* What follows an invalidation: the element is destroyed or inserted elsewhere,
\* which has it invalidated once more; after that it is gone.
Proceed(t) ==
  IF op[t] = "remove" THEN Goto(t, "again") /\ UNCHANGED <<op, el>> ELSE Return(t)

Again(t) ==
  /\ pc[t] = "again"
  /\ op' = [op EXCEPT ![t] = "delete"]
  /\ Goto(t, "test")
  /\ UNCHANGED <<table, mode, invalidating, holder, place, el, found, left, history>>

Gone == place' = [e \in Elems |-> IF \E t \in Threads : op[t] = "delete" /\ el[t] = e /\ op'[t] = Nil
                                  THEN "gone" ELSE place[e]]

\* Without notes there is nothing to do, and while another thread invalidates
\* nothing is done either.
Test(t) ==
  /\ pc[t] = "test"
  /\ LET goesOn == beThreadSafe /\ ~IsEmpty /\ ~invalidating
     IN /\ IF goesOn THEN Goto(t, "raise") /\ UNCHANGED <<op, el>> ELSE Proceed(t)
        /\ oneCurr' = IF ~beThreadSafe /\ oneCurr = el[t] THEN Nil ELSE oneCurr
        /\ skipped' = [e \in Elems |-> IF e = el[t] /\ beThreadSafe /\ ~IsEmpty /\ invalidating
                                       THEN skipped[e] + 1 ELSE skipped[e]]
        /\ Gone
  /\ UNCHANGED <<table, beThreadSafe, isDestroyed, invalidating, holder, found, left, late>>

Raise(t) ==
  /\ pc[t] = "raise"
  /\ invalidating' = TRUE
  /\ Goto(t, "lock")
  /\ UNCHANGED <<table, mode, holder, place, op, el, found, left, history>>

\* Mutation: the last place of the table is not looked at.
SweepAllButOne(t) ==
  /\ pc[t] = "sweep"
  /\ LET about == {s \in Threads : currs[s] # Nil /\ (op[t] = "clear" \/ currs[s] = el[t])}
     IN \E last \in Threads : DeleteNotes(about \ {last})
  /\ Goto(t, "lower")
  /\ UNCHANGED <<mode, invalidating, holder, place, op, el, left, history>>

\* Mutation: the note of the calling thread is deleted instead of the one found.
SweepOwn(t) ==
  /\ pc[t] = "sweep"
  /\ LET about == {s \in Threads : currs[s] # Nil /\ (op[t] = "clear" \/ currs[s] = el[t])}
     IN DeleteNotes(IF about = {} \/ op[t] = "clear" THEN about ELSE {t})
  /\ Goto(t, "lower")
  /\ UNCHANGED <<mode, invalidating, holder, place, op, el, left, history>>

\* clear() waits for insertions to end, even for one that was left by an exception.
Sweep(t) ==
  /\ pc[t] = "sweep"
  /\ (op[t] = "clear" /\ inserting) => IsEmpty
  /\ LET about == {s \in Threads : currs[s] # Nil /\ (op[t] = "clear" \/ currs[s] = el[t])}
     IN DeleteNotes(about)
  /\ Goto(t, "lower")
  /\ UNCHANGED <<mode, invalidating, holder, place, op, el, left, history>>

\* The flag goes down, also if another thread has raised it, too.
Lower(t) ==
  /\ pc[t] = "lower"
  /\ invalidating' = FALSE
  /\ Goto(t, "unlock")
  /\ UNCHANGED <<table, mode, holder, place, op, el, found, left, history>>

-----------------------------------------------------------------------------
(* The locks *)

AfterLock(what) ==
  CASE what = "curr" -> "get"
    [] what = "set"  -> "set"
    [] what \in {"remove", "delete", "clear"} -> "sweep"
    [] what = "destroy" -> "mark"

Lock(t) ==
  /\ pc[t] = "lock" /\ holder = Nil
  /\ holder' = t
  /\ Goto(t, AfterLock(op[t]))
  /\ UNCHANGED <<table, mode, invalidating, place, op, el, found, left, history>>

\* Mutation: a thread that found no note keeps the lock.
UnlockIfFound(t) ==
  /\ pc[t] = "unlock"
  /\ holder' = IF op[t] = "curr" /\ found[t] = Nil THEN holder ELSE Nil
  /\ IF op[t] = "curr" THEN Goto(t, "use") /\ UNCHANGED <<op, el>> ELSE Proceed(t)
  /\ Gone
  /\ UNCHANGED <<table, mode, invalidating, found, left, history>>

Unlock(t) ==
  /\ pc[t] = "unlock"
  /\ holder' = Nil
  /\ IF op[t] = "curr" THEN Goto(t, "use") /\ UNCHANGED <<op, el>> ELSE Proceed(t)
  /\ Gone
  /\ UNCHANGED <<table, mode, invalidating, found, left, history>>

-----------------------------------------------------------------------------
(* The destructor and the switches, which are for a thread that is alone   *)
(* with the store, but for calls that are still waiting for its lock.      *)

CallDestroy(t) ==
  /\ Destroy
  /\ \A s \in Threads \ {t} : pc[s] \in {"idle", "lock"}
  /\ Call(t, "destroy", Nil, "lock")
  /\ invalidating' = TRUE
  /\ UNCHANGED <<table, mode, holder, place, found, history>>

Mark(t) ==
  /\ pc[t] = "mark"
  /\ isDestroyed' = TRUE
  /\ Goto(t, "wait")
  /\ UNCHANGED <<table, oneCurr, beThreadSafe, invalidating, holder, place, op, el, found, left, history>>

\* The locks are given back and taken again as long as anybody waits for them.
WaitFor(t) ==
  /\ pc[t] = "wait"
  /\ IF \E s \in Threads : pc[s] = "lock"
     THEN holder' = Nil /\ Goto(t, "wait again")
     ELSE UNCHANGED holder /\ Goto(t, "clear")
  /\ UNCHANGED <<table, mode, invalidating, place, op, el, found, left, history>>

WaitAgain(t) ==
  /\ pc[t] = "wait again" /\ holder = Nil
  /\ holder' = t
  /\ Goto(t, "wait")
  /\ UNCHANGED <<table, mode, invalidating, place, op, el, found, left, history>>

ClearAll(t) ==
  /\ pc[t] = "clear"
  /\ ~inserting
  /\ DeleteNotes(Threads)
  /\ invalidating' = FALSE /\ holder' = Nil
  /\ Return(t)
  /\ UNCHANGED <<mode, place, left, history>>

\* disable_thread_safety(), and what enable_thread_safety() begins with.
Switch(t) ==
  /\ \A s \in Threads : pc[s] = "idle"
  /\ Call(t, "enable", Nil, IF beThreadSafe THEN "idle" ELSE "enable")
  /\ oneCurr' = IF beThreadSafe THEN Nil ELSE oneCurr
  /\ beThreadSafe' = FALSE
  /\ UNCHANGED <<table, isDestroyed, invalidating, holder, place, found, history>>

\* It clears the table first, and clear() may wait for ever.
Enable(t) ==
  /\ pc[t] = "enable"
  /\ ~inserting
  /\ DeleteNotes(Threads)
  /\ beThreadSafe' = TRUE
  /\ Return(t)
  /\ UNCHANGED <<oneCurr, isDestroyed, invalidating, holder, place, left, history>>

-----------------------------------------------------------------------------
Step(t) ==
  \/ Get(t) \/ Use(t) \/ SetCurr(t)
  \/ Test(t) \/ Raise(t) \/ Sweep(t) \/ Lower(t) \/ Again(t)
  \/ Lock(t) \/ Unlock(t) \/ Mark(t) \/ WaitFor(t) \/ WaitAgain(t) \/ ClearAll(t) \/ Enable(t)

Request(t) ==
  \/ CallCurr(t) \/ CallClear(t) \/ CallDestroy(t) \/ Switch(t)
  \/ CallSetCurr(t, Nil)
  \/ \E e \in Elems : CallSetCurr(t, e) \/ CallRemove(t, e)

Next == \E t \in Threads : Step(t) \/ Request(t)

\* Threads go on. That is all: who spins for a lock may lose it to others for ever.
Spec == Init /\ [][Next]_vars /\ \A t \in Threads : WF_vars(Step(t))

-----------------------------------------------------------------------------
(* Properties *)

\* An element that has left the list is nobody's current element any more, except
\* in two cases: a thread that had walked to it noted it when it was leaving already,
\* or both its invalidations were passed over because others were going on.
GoneIsForgotten ==
  IF ~beThreadSafe THEN oneCurr # Nil => place[oneCurr] # "gone"
  ELSE \A t \in Threads : currs[t] # Nil /\ place[currs[t]] = "gone"
                            => late[t] \/ skipped[currs[t]] = 2

\* A thread keeps its current element until it notes another one, unless it was that
\* very element which left the list, or all are cleared; or if, with every place of the
\* table used, another thread without a note has its own deleted.
NotesAreKept ==
  [][\A t \in Threads :
       currs'[t] # currs[t] =>
         \/ pc[t] = "set" /\ pc'[t] # "set"
         \/ /\ currs'[t] = Nil
            /\ \/ place[currs[t]] # "in"
               \/ \E s \in Threads : op[s] \in {"clear", "destroy", "enable"}
               \/ unused = 0 /\ \E s \in Threads \ {t} : /\ pc[s] = "set" /\ pc'[s] # "set"
                                                         /\ currs[s] = Nil]_vars

\* If the lock of the store, free again and again, is got by everybody who spins for it in
\* the end, every call comes to an end, that of the destructor among waiting threads, too;
\* unless somebody has to wait for an insertion that an exception has broken off.
LockIsFair ==
  []<>(holder = Nil) => \A t \in Threads : []<>(pc[t] \notin {"lock", "wait again"})
Stuck ==
  /\ inserting
  /\ \E t \in Threads : \/ pc[t] \in {"clear", "enable"}
                        \/ pc[t] = "sweep" /\ op[t] = "clear" /\ ~IsEmpty
CallsReturn ==
  LockIsFair => \A t \in Threads : pc[t] # "idle" ~> pc[t] = "idle" \/ Stuck

\* What curr() takes its element from has not been deleted meanwhile, since
\* "curr() will wait for a lock" while another thread invalidates.
NothingFreed == \A t \in Threads : pc[t] = "use" => found[t] # Freed
=============================================================================
