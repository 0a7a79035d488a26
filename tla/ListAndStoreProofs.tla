------------------------ MODULE ListAndStoreProofs -------------------------
(***************************************************************************)
(* Theorems about ElementStore and about Lists, the two halves of a list's *)
(* current element.  ElementStore, for every set of threads and elements:  *)
(* what has left the list is forgotten, but for the two cases the property *)
(* names, and notes about what stays are kept.  Lists, for every set of    *)
(* elements, their values and numbers and every other list: the links of a *)
(* list and what it says of itself agree after every sequence of calls,    *)
(* and searches, insertions, removals and the set functions do what the    *)
(* row of the list's elements says.                                        *)
(***************************************************************************)
EXTENDS ElementStore, Lists, SequenceTheorems, FiniteSetTheorems, WellFoundedInduction, TLAPS

-----------------------------------------------------------------------------
(* The store *)

Labels == {"idle", "get", "use", "set", "test", "again", "raise", "lock", "sweep",
           "lower", "unlock", "mark", "wait", "wait again", "clear", "enable"}

StoreTypes ==
  /\ currs \in [Threads -> Elems \cup {Nil}] /\ oneCurr \in Elems \cup {Nil}
  /\ beThreadSafe \in BOOLEAN
  /\ place \in [Elems -> {"in", "leaving", "gone"}]
  /\ late \in [Threads -> BOOLEAN] /\ skipped \in [Elems -> Nat]

CallTypes ==
  /\ pc \in [Threads -> Labels] /\ op \in [Threads -> Calls \cup {Nil}]
  /\ el \in [Threads -> Elems \cup {Nil}]

\* Which call a thread can be in at a step.
Fits(step, call) ==
  CASE step = "idle" -> call = Nil
    [] step \in {"get", "use"} -> call = "curr"
    [] step = "set" -> call = "set"
    [] step = "again" -> call = "remove"
    [] step \in {"test", "raise", "sweep", "lower"} -> call \in {"remove", "delete", "clear"}
    [] step = "lock" -> call \in Calls \ {"enable"}
    [] step = "unlock" -> call \in Calls \ {"destroy", "enable"}
    [] step = "enable" -> call = "enable"
    [] OTHER -> call = "destroy"

Removes(t) == op[t] \in {"remove", "delete"}

\* A thread that removes an element has it for itself, and the element is on its way out.
\* Past the test of a removal the store is one for several threads. Who makes it one is alone.
Own(t) ==
  /\ Fits(pc[t], op[t])
  /\ Removes(t) =>
       /\ el[t] \in Elems /\ place[el[t]] = "leaving"
       /\ pc[t] \notin {"test", "again"} => beThreadSafe
       /\ \A s \in Threads \ {t} : Removes(s) => el[s] # el[t]
  /\ op[t] = "clear" => el[t] = Nil
  /\ op[t] = "enable" => \A s \in Threads \ {t} : op[s] = Nil

ControlInv == \A t \in Threads : Own(t)

\* Whoever has this element noted noted it when it was leaving already.
OnlyLate(e) == \A s \in Threads : currs[s] = e => late[s]

\* An invalidation leaves only late notes, or has been passed over and counted.
Removal(t) ==
  Removes(t) =>
    /\ op[t] = "remove" /\ pc[t] # "again" => skipped[el[t]] = 0
    /\ beThreadSafe =>
         /\ pc[t] \in {"lower", "unlock"} => OnlyLate(el[t])
         /\ op[t] = "delete" \/ pc[t] = "again" => OnlyLate(el[t]) \/ skipped[el[t]] = 1

RemovalInv ==
  /\ \A e \in Elems : place[e] = "in" => skipped[e] = 0
  /\ \A t \in Threads : Removal(t)

GoneInv ==
  /\ beThreadSafe => \A e \in Elems : place[e] = "gone" => OnlyLate(e) \/ skipped[e] = 2
  /\ ~beThreadSafe /\ oneCurr # Nil => place[oneCurr] # "gone"

ControlStrong == StoreTypes /\ CallTypes /\ ControlInv
StoreInv == ControlStrong /\ RemovalInv /\ GoneInv
-----------------------------------------------------------------------------
(* Steps of one thread *)

Others(t) == \A s \in Threads \ {t} : pc'[s] = pc[s] /\ op'[s] = op[s] /\ el'[s] = el[s]

\* Nobody begins a call while the store is switched.
Admitted(t) == op[t] = Nil /\ op'[t] # Nil => \A s \in Threads : op[s] # "enable"

Undisturbed(t) ==
  \A s \in Threads \ {t} : Removes(s) =>
    /\ place'[el[s]] = place[el[s]]
    /\ pc[s] \notin {"test", "again"} => (beThreadSafe => beThreadSafe')

\* What a thread does leaves the others where they are, if it leaves their elements alone.
LEMMA OneThread ==
  ASSUME ControlInv, NEW t \in Threads, Others(t), Undisturbed(t), Admitted(t), Own(t)'
  PROVE  ControlInv'
<1>1. ASSUME NEW s \in Threads \ {t}
      PROVE  Own(s)'
  <2>1. Own(s) /\ pc'[s] = pc[s] /\ op'[s] = op[s] /\ el'[s] = el[s]
    BY DEF ControlInv, Others
  <2>2. ASSUME Removes(s)'
        PROVE  /\ (el[s] \in Elems)' /\ (place[el[s]] = "leaving")'
               /\ (pc[s] \notin {"test", "again"} => beThreadSafe)'
    BY <2>1, <2>2 DEF Own, Undisturbed, Removes
  <2>3. ASSUME Removes(s)', NEW r \in Threads \ {s}, Removes(r)'
        PROVE  el'[r] # el'[s]
    <3>1. CASE r = t
      BY <2>3, <3>1 DEF Own
    <3>2. CASE r # t
      BY <2>1, <2>3, <3>2 DEF Own, Others, Removes
    <3> QED
      BY <3>1, <3>2
  <2>4. ASSUME op'[s] = "enable", NEW r \in Threads \ {s}
        PROVE  op'[r] = Nil
    <3>1. op[r] = Nil /\ op[s] = "enable"
      BY <2>1, <2>4 DEF Own
    <3> QED
      BY <3>1 DEF Others, Admitted
  <2> QED
    BY <2>1, <2>2, <2>3, <2>4 DEF Own
<1> QED
  BY <1>1 DEF ControlInv

\* A thread goes on with its call.
LEMMA GoesOn ==
  ASSUME ControlStrong, NEW t \in Threads, NEW step \in Labels, Goto(t, step),
         UNCHANGED <<op, el, place, beThreadSafe>>, Fits(step, op[t]),
         Removes(t) /\ step \notin {"test", "again"} => beThreadSafe
  PROVE  CallTypes' /\ ControlInv'
<1> USE DEF ControlStrong
<1>1. CallTypes' /\ pc'[t] = step /\ Others(t)
  BY DEF CallTypes, Goto, Others
<1>2. Undisturbed(t) /\ Admitted(t)
  BY DEF Undisturbed, Admitted
<1>3. Own(t)'
  BY <1>1 DEF ControlInv, Own, Removes
<1> QED
  BY <1>1, <1>2, <1>3, OneThread

\* A thread comes back from its call, or begins one. What belongs to others stays.
LEMMA Turns ==
  ASSUME ControlStrong, NEW t \in Threads, NEW step \in Labels, NEW call \in Calls \cup {Nil},
         NEW e \in Elems \cup {Nil}, Goto(t, step), op' = [op EXCEPT ![t] = call],
         el' = [el EXCEPT ![t] = e], Fits(step, call), Undisturbed(t),
         call \in {"remove", "delete"} =>
           /\ e \in Elems /\ place'[e] = "leaving" /\ (step \in {"test", "again"} \/ beThreadSafe')
           /\ \A s \in Threads \ {t} : Removes(s) => el[s] # e,
         call = "clear" => e = Nil,
         op[t] = Nil /\ call # Nil => \A s \in Threads : op[s] # "enable",
         call = "enable" => \A s \in Threads \ {t} : op[s] = Nil
  PROVE  CallTypes' /\ ControlInv'
<1> USE DEF ControlStrong
<1>1. CallTypes' /\ pc'[t] = step /\ op'[t] = call /\ el'[t] = e /\ Others(t)
  BY DEF CallTypes, Goto, Others
<1>2. Own(t)' /\ Admitted(t)
  BY <1>1 DEF Own, Removes, Others, Admitted
<1> QED
  BY <1>1, <1>2, OneThread

\* As long as a call is not over, nothing is gone.
LEMMA GoneKeeps ==
  ASSUME StoreTypes, Gone, UNCHANGED op
  PROVE  UNCHANGED place
<1>1. ASSUME NEW e \in Elems
      PROVE  place'[e] = place[e]
  <2>1. ~\E t \in Threads : op[t] = "delete" /\ el[t] = e /\ op'[t] = Nil
    BY StoreAssumption DEF Calls
  <2> QED
    BY <2>1 DEF Gone
<1> QED
  BY <1>1 DEF StoreTypes, Gone

\* When a call is over, the element it deletes is gone, and no other.
LEMMA GoneAtReturn ==
  ASSUME ControlStrong, NEW t \in Threads, Gone, Return(t), UNCHANGED beThreadSafe
  PROVE  /\ Undisturbed(t)
         /\ place' = [e \in Elems |-> IF op[t] = "delete" /\ e = el[t] THEN "gone" ELSE place[e]]
<1> USE DEF ControlStrong
<1>1. op'[t] = Nil /\ Others(t)
  BY DEF CallTypes, Return, Goto, Others
<1>2. ASSUME NEW e \in Elems
      PROVE  (\E s \in Threads : op[s] = "delete" /\ el[s] = e /\ op'[s] = Nil)
               <=> op[t] = "delete" /\ e = el[t]
  BY <1>1, StoreAssumption DEF Others, Calls
<1>3. place' = [e \in Elems |-> IF op[t] = "delete" /\ e = el[t] THEN "gone" ELSE place[e]]
  BY <1>2 DEF Gone
<1>4. ASSUME NEW s \in Threads \ {t}, Removes(s)
      PROVE  place'[el[s]] = place[el[s]]
  <2>1. el[s] \in Elems /\ (op[t] = "delete" => el[s] # el[t])
    BY <1>4 DEF ControlInv, Own, Removes
  <2> QED
    BY <1>3, <2>1
<1> QED
  BY <1>3, <1>4 DEF Undisturbed

\* A call that is made leaves what others do alone.
LEMMA Calling ==
  ASSUME ControlStrong, NEW t \in Threads, NEW step \in Labels, NEW call \in Calls,
         NEW e \in Elems \cup {Nil}, Call(t, call, e, step), step # "idle" => Fits(step, call),
         UNCHANGED <<place, beThreadSafe>>, call \notin {"remove", "delete", "enable"},
         call = "clear" => e = Nil
  PROVE  CallTypes' /\ ControlInv'
<1>1. CASE step = "idle"
  <2>1. op[t] = Nil /\ Fits("idle", Nil) /\ UNCHANGED <<op, el>>
    BY <1>1 DEF Call, ControlStrong, ControlInv, Own, Fits
  <2> QED
    BY <1>1, <2>1, GoesOn, StoreAssumption DEF Call, Removes, Calls
<1>2. CASE step # "idle"
  <2>1. Undisturbed(t)
    BY DEF Undisturbed
  <2>2. \A s \in Threads : op[s] # "enable"
    BY DEF Call
  <2>3. Goto(t, step) /\ op' = [op EXCEPT ![t] = call] /\ el' = [el EXCEPT ![t] = e]
    BY <1>2 DEF Call
  <2> QED
    BY <1>2, <2>1, <2>2, <2>3, Turns
<1> QED
  BY <1>1, <1>2

LEMMA StoreSteps ==
  ASSUME ControlStrong, [Next]_vars
  PROVE  StoreTypes'
<1> USE StoreAssumption DEF ControlStrong, mode, table, history
<1>1. ASSUME NEW t \in Threads, Get(t)
      PROVE  StoreTypes'
  BY <1>1 DEF StoreTypes, Get
<1>2. ASSUME NEW t \in Threads, Use(t)
      PROVE  StoreTypes'
  BY <1>2 DEF StoreTypes, Use
<1>3. ASSUME NEW t \in Threads, SetCurr(t)
      PROVE  StoreTypes'
  <2>1. currs' \in [Threads -> Elems \cup {Nil}] /\ late' \in [Threads -> BOOLEAN]
    <3>1. el[t] \in Elems \cup {Nil}
      BY DEF CallTypes
    <3>3. CASE isDestroyed
      BY <1>3, <3>3 DEF StoreTypes, SetCurr
    <3>4. CASE ~isDestroyed
      <4>1. PICK gone \in Deletable(t), new \in {el[t], Nil} :
              /\ currs' = [s \in Threads |-> IF s = t THEN new ELSE IF s \in gone THEN Nil ELSE currs[s]]
              /\ IF new # Nil THEN Add(t)
                 ELSE IF el[t] # Nil THEN AddFails(t)
                 ELSE late' = [late EXCEPT ![t] = FALSE] /\ UNCHANGED <<unused, inserting>>
        BY <1>3, <3>4 DEF SetCurr
      <4>2. currs' \in [Threads -> Elems \cup {Nil}]
        BY <3>1, <4>1 DEF StoreTypes
      <4>3. \E b \in BOOLEAN : late' = [late EXCEPT ![t] = b]
        BY <4>1 DEF Add, AddFails
      <4> QED
        BY <4>2, <4>3 DEF StoreTypes
    <3> QED
      BY <3>3, <3>4
  <2> QED
    BY <1>3, <2>1 DEF StoreTypes, SetCurr
<1>4. ASSUME NEW t \in Threads, Test(t)
      PROVE  StoreTypes'
  BY <1>4 DEF StoreTypes, Test, Gone
<1>5. ASSUME NEW t \in Threads, Raise(t)
      PROVE  StoreTypes'
  BY <1>5 DEF StoreTypes, Raise
<1>6. ASSUME NEW t \in Threads, Sweep(t)
      PROVE  StoreTypes'
  BY <1>6 DEF StoreTypes, Sweep, DeleteNotes
<1>7. ASSUME NEW t \in Threads, Lower(t)
      PROVE  StoreTypes'
  BY <1>7 DEF StoreTypes, Lower
<1>8. ASSUME NEW t \in Threads, Again(t)
      PROVE  StoreTypes'
  BY <1>8 DEF StoreTypes, Again
<1>9. ASSUME NEW t \in Threads, Unlock(t)
      PROVE  StoreTypes'
  BY <1>9 DEF StoreTypes, Unlock, Gone
<1>10. ASSUME NEW t \in Threads, Mark(t)
      PROVE  StoreTypes'
  BY <1>10 DEF StoreTypes, Mark
<1>11. ASSUME NEW t \in Threads, WaitFor(t)
      PROVE  StoreTypes'
  BY <1>11 DEF StoreTypes, WaitFor
<1>12. ASSUME NEW t \in Threads, WaitAgain(t)
      PROVE  StoreTypes'
  BY <1>12 DEF StoreTypes, WaitAgain
<1>13. ASSUME NEW t \in Threads, ClearAll(t)
      PROVE  StoreTypes'
  BY <1>13 DEF StoreTypes, ClearAll, DeleteNotes
<1>14. ASSUME NEW t \in Threads, Lock(t)
      PROVE  StoreTypes'
  BY <1>14 DEF StoreTypes, Lock
<1>15. ASSUME NEW t \in Threads, CallCurr(t)
      PROVE  StoreTypes'
  BY <1>15 DEF StoreTypes, CallCurr
<1>16. ASSUME NEW t \in Threads, CallClear(t)
      PROVE  StoreTypes'
  BY <1>16 DEF StoreTypes, CallClear
<1>17. ASSUME NEW t \in Threads, CallDestroy(t)
      PROVE  StoreTypes'
  BY <1>17 DEF StoreTypes, CallDestroy
<1>18. ASSUME NEW t \in Threads, Switch(t)
      PROVE  StoreTypes'
  BY <1>18 DEF StoreTypes, Switch
<1>19. ASSUME NEW t \in Threads, CallSetCurr(t, Nil)
      PROVE  StoreTypes'
  BY <1>19 DEF StoreTypes, CallSetCurr
<1>20. ASSUME NEW t \in Threads, NEW e \in Elems, CallSetCurr(t, e)
      PROVE  StoreTypes'
  BY <1>20 DEF StoreTypes, CallSetCurr
<1>21. ASSUME NEW t \in Threads, NEW e \in Elems, CallRemove(t, e)
      PROVE  StoreTypes'
  BY <1>21 DEF StoreTypes, CallRemove
<1>22. CASE UNCHANGED vars
  BY <1>22 DEF StoreTypes, vars
<1>23. ASSUME NEW t \in Threads, Enable(t)
      PROVE  StoreTypes'
  BY <1>23 DEF StoreTypes, Enable, DeleteNotes
<1> QED
  BY <1>1, <1>2, <1>3, <1>4, <1>5, <1>6, <1>7, <1>8, <1>9, <1>10, <1>11, <1>12, <1>13, <1>14, <1>15, <1>16, <1>17, <1>18, <1>19, <1>20, <1>21, <1>22, <1>23 DEF Next, Step, Request

LEMMA ControlSteps ==
  ASSUME ControlStrong, [Next]_vars
  PROVE  CallTypes' /\ ControlInv'
<1> USE StoreAssumption DEF ControlStrong, Labels, Calls, mode, table
<1>1. ASSUME NEW t \in Threads, Get(t)
      PROVE  CallTypes' /\ ControlInv'
  <2>1. op[t] = "curr"
    BY <1>1 DEF ControlInv, Own, Fits, Get
  <2>2. Fits("unlock", op[t]) /\ Fits("use", op[t])
    BY <2>1 DEF Fits
  <2> QED
    BY <1>1, <2>1, <2>2, GoesOn DEF Get, Removes
<1>2. ASSUME NEW t \in Threads, Use(t)
      PROVE  CallTypes' /\ ControlInv'
  <2>1. Fits("idle", Nil) /\ Undisturbed(t)
    BY <1>2 DEF Fits, Undisturbed, Use
  <2> QED
    BY <1>2, <2>1, Turns DEF Use, Return
<1>3. ASSUME NEW t \in Threads, SetCurr(t)
      PROVE  CallTypes' /\ ControlInv'
  <2>1. op[t] = "set"
    BY <1>3 DEF ControlInv, Own, Fits, SetCurr
  <2>2. Fits("unlock", op[t])
    BY <2>1 DEF Fits
  <2> QED
    BY <1>3, <2>1, <2>2, GoesOn DEF SetCurr, Removes
<1>4. ASSUME NEW t \in Threads, Test(t)
      PROVE  CallTypes' /\ ControlInv'
  <2>1. op[t] \in {"remove", "delete", "clear"}
    BY <1>4 DEF ControlInv, Own, Fits, Test
  <2>2. Fits("raise", op[t]) /\ Fits("again", "remove") /\ Fits("idle", Nil)
    BY <2>1 DEF Fits
  <2>3. CASE Goto(t, "raise") /\ beThreadSafe /\ UNCHANGED <<op, el>>
    <3>1. UNCHANGED place
      BY <1>4, <2>3, GoneKeeps DEF Test
    <3> QED
      BY <1>4, <2>2, <2>3, <3>1, GoesOn DEF Test
  <2>4. CASE Goto(t, "again") /\ op[t] = "remove" /\ UNCHANGED <<op, el>>
    <3>1. UNCHANGED place
      BY <1>4, <2>4, GoneKeeps DEF Test
    <3> QED
      BY <1>4, <2>2, <2>4, <3>1, GoesOn DEF Test
  <2>5. CASE Return(t)
    <3>1. Undisturbed(t)
      BY <1>4, <2>5, GoneAtReturn DEF Test
    <3> QED
      BY <2>2, <2>5, <3>1, Turns DEF Return
  <2> QED
    BY <1>4, <2>3, <2>4, <2>5 DEF Test, Proceed
<1>5. ASSUME NEW t \in Threads, Raise(t)
      PROVE  CallTypes' /\ ControlInv'
  <2>1. op[t] \in {"remove", "delete", "clear"}
    BY <1>5 DEF ControlInv, Own, Fits, Raise
  <2>2. Fits("lock", op[t])
    BY <2>1 DEF Fits, Calls
  <2> QED
    BY <1>5, <2>2, GoesOn DEF Raise, ControlInv, Own
<1>6. ASSUME NEW t \in Threads, Sweep(t)
      PROVE  CallTypes' /\ ControlInv'
  <2>1. op[t] \in {"remove", "delete", "clear"}
    BY <1>6 DEF ControlInv, Own, Fits, Sweep
  <2>2. Fits("lower", op[t])
    BY <2>1 DEF Fits, Calls
  <2> QED
    BY <1>6, <2>2, GoesOn DEF Sweep, ControlInv, Own
<1>7. ASSUME NEW t \in Threads, Lower(t)
      PROVE  CallTypes' /\ ControlInv'
  <2>1. op[t] \in {"remove", "delete", "clear"}
    BY <1>7 DEF ControlInv, Own, Fits, Lower
  <2>2. Fits("unlock", op[t])
    BY <2>1 DEF Fits, Calls
  <2> QED
    BY <1>7, <2>2, GoesOn DEF Lower, ControlInv, Own
<1>8. ASSUME NEW t \in Threads, Again(t)
      PROVE  CallTypes' /\ ControlInv'
  <2>1. op[t] = "remove"
    BY <1>8 DEF ControlInv, Own, Fits, Again
  <2>2. Fits("test", "delete") /\ Undisturbed(t)
    BY <1>8 DEF Fits, Undisturbed, Again
  <2>3. el[t] \in Elems /\ place[el[t]] = "leaving"
        /\ \A s \in Threads \ {t} : Removes(s) => el[s] # el[t]
    BY <2>1 DEF ControlInv, Own, Removes
  <2>4. el' = [el EXCEPT ![t] = el[t]]
    BY <1>8 DEF Again, CallTypes
  <2> QED
    BY <1>8, <2>1, <2>2, <2>3, <2>4, Turns DEF Again
<1>9. ASSUME NEW t \in Threads, Unlock(t)
      PROVE  CallTypes' /\ ControlInv'
  <2>1. op[t] \in Calls \ {"destroy", "enable"}
    BY <1>9 DEF ControlInv, Own, Fits, Unlock
  <2>2. Fits("use", "curr") /\ Fits("again", "remove") /\ Fits("idle", Nil)
    BY DEF Fits
  <2>3. CASE Goto(t, "use") /\ op[t] = "curr" /\ UNCHANGED <<op, el>>
    <3>1. UNCHANGED place
      BY <1>9, <2>3, GoneKeeps DEF Unlock
    <3> QED
      BY <1>9, <2>2, <2>3, <3>1, GoesOn DEF Unlock, Removes
  <2>4. CASE Goto(t, "again") /\ op[t] = "remove" /\ UNCHANGED <<op, el>>
    <3>1. UNCHANGED place
      BY <1>9, <2>4, GoneKeeps DEF Unlock
    <3> QED
      BY <1>9, <2>2, <2>4, <3>1, GoesOn DEF Unlock
  <2>5. CASE Return(t)
    <3>1. Undisturbed(t)
      BY <1>9, <2>5, GoneAtReturn DEF Unlock
    <3> QED
      BY <2>2, <2>5, <3>1, Turns DEF Return
  <2> QED
    BY <1>9, <2>3, <2>4, <2>5 DEF Unlock, Proceed
<1>10. ASSUME NEW t \in Threads, Mark(t)
      PROVE  CallTypes' /\ ControlInv'
  <2>1. op[t] = "destroy"
    BY <1>10 DEF ControlInv, Own, Fits, Mark
  <2>2. Fits("wait", op[t])
    BY <2>1 DEF Fits
  <2> QED
    BY <1>10, <2>1, <2>2, GoesOn DEF Mark, Removes
<1>11. ASSUME NEW t \in Threads, WaitFor(t)
      PROVE  CallTypes' /\ ControlInv'
  <2>1. op[t] = "destroy"
    BY <1>11 DEF ControlInv, Own, Fits, WaitFor
  <2>2. Fits("wait again", op[t]) /\ Fits("clear", op[t])
    BY <2>1 DEF Fits
  <2> QED
    BY <1>11, <2>1, <2>2, GoesOn DEF WaitFor, Removes
<1>12. ASSUME NEW t \in Threads, WaitAgain(t)
      PROVE  CallTypes' /\ ControlInv'
  <2>1. op[t] = "destroy"
    BY <1>12 DEF ControlInv, Own, Fits, WaitAgain
  <2>2. Fits("wait", op[t])
    BY <2>1 DEF Fits
  <2> QED
    BY <1>12, <2>1, <2>2, GoesOn DEF WaitAgain, Removes
<1>13. ASSUME NEW t \in Threads, ClearAll(t)
      PROVE  CallTypes' /\ ControlInv'
  <2>1. Fits("idle", Nil) /\ Undisturbed(t)
    BY <1>13 DEF Fits, Undisturbed, ClearAll
  <2> QED
    BY <1>13, <2>1, Turns DEF ClearAll, Return
<1>14. ASSUME NEW t \in Threads, Lock(t)
      PROVE  CallTypes' /\ ControlInv'
  <2>1. op[t] \in Calls \ {"enable"}
    BY <1>14 DEF ControlInv, Own, Fits, Lock
  <2>2. Fits(AfterLock(op[t]), op[t]) /\ AfterLock(op[t]) \in {"get", "set", "sweep", "mark"}
    BY <2>1 DEF Fits, AfterLock, Calls
  <2> QED
    BY <1>14, <2>2, GoesOn DEF Lock, ControlInv, Own
<1>15. ASSUME NEW t \in Threads, CallCurr(t)
      PROVE  CallTypes' /\ ControlInv'
  <2>1. Fits("lock", "curr") /\ Fits("get", "curr")
    BY DEF Fits, Calls
  <2> QED
    BY <1>15, <2>1, Calling DEF CallCurr, mode
<1>16. ASSUME NEW t \in Threads, CallClear(t)
      PROVE  CallTypes' /\ ControlInv'
  <2>1. Fits("test", "clear")
    BY DEF Fits, Calls
  <2> QED
    BY <1>16, <2>1, Calling DEF CallClear, mode
<1>17. ASSUME NEW t \in Threads, CallDestroy(t)
      PROVE  CallTypes' /\ ControlInv'
  <2>1. Fits("lock", "destroy")
    BY DEF Fits, Calls
  <2> QED
    BY <1>17, <2>1, Calling DEF CallDestroy, mode
<1>18. ASSUME NEW t \in Threads, Switch(t)
      PROVE  CallTypes' /\ ControlInv'
  <2>1. \A s \in Threads : op[s] = Nil
    BY <1>18 DEF Switch, ControlInv, Own, Fits
  <2>2. Fits("idle", Nil) /\ Fits("enable", "enable") /\ Undisturbed(t)
    BY <2>1 DEF Fits, Undisturbed, Removes
  <2>3. CASE beThreadSafe
    <3>1. Goto(t, "idle") /\ op' = [op EXCEPT ![t] = Nil] /\ el' = [el EXCEPT ![t] = el[t]]
      BY <1>18, <2>1, <2>3 DEF Switch, Call, CallTypes
    <3> QED
      BY <2>2, <3>1, Turns DEF CallTypes
  <2>4. CASE ~beThreadSafe
    <3>1. Goto(t, "enable") /\ op' = [op EXCEPT ![t] = "enable"] /\ el' = [el EXCEPT ![t] = Nil]
      BY <1>18, <2>4 DEF Switch, Call
    <3> QED
      BY <2>1, <2>2, <3>1, Turns
  <2> QED
    BY <2>3, <2>4
<1>19. ASSUME NEW t \in Threads, CallSetCurr(t, Nil)
      PROVE  CallTypes' /\ ControlInv'
  <2>1. Fits("lock", "set")
    BY DEF Fits, Calls
  <2> QED
    BY <1>19, <2>1, Calling DEF CallSetCurr
<1>20. ASSUME NEW t \in Threads, NEW e \in Elems, CallSetCurr(t, e)
      PROVE  CallTypes' /\ ControlInv'
  <2>1. Fits("lock", "set")
    BY DEF Fits, Calls
  <2> QED
    BY <1>20, <2>1, Calling DEF CallSetCurr
<1>21. ASSUME NEW t \in Threads, NEW e \in Elems, CallRemove(t, e)
      PROVE  CallTypes' /\ ControlInv'
  <2>1. Fits("test", "remove")
    BY DEF Fits
  <2>2. ASSUME NEW s \in Threads \ {t}, Removes(s)
        PROVE  el[s] # e /\ place'[el[s]] = place[el[s]]
    BY <1>21, <2>2 DEF CallRemove, ControlInv, Own, StoreTypes
  <2>3. place'[e] = "leaving" /\ Undisturbed(t)
    BY <1>21, <2>2 DEF CallRemove, StoreTypes, Undisturbed, mode
  <2> QED
    BY <1>21, <2>1, <2>2, <2>3, Turns DEF CallRemove, Call
<1>22. CASE UNCHANGED vars
  BY <1>22 DEF CallTypes, ControlInv, Own, Removes, vars
<1>23. ASSUME NEW t \in Threads, Enable(t)
      PROVE  CallTypes' /\ ControlInv'
  <2>1. \A s \in Threads : ~Removes(s)
    BY <1>23 DEF Enable, ControlInv, Own, Fits, Removes
  <2>2. Fits("idle", Nil) /\ Undisturbed(t)
    BY <2>1 DEF Fits, Undisturbed
  <2> QED
    BY <1>23, <2>2, Turns DEF Enable, Return
<1> QED
  BY <1>1, <1>2, <1>3, <1>4, <1>5, <1>6, <1>7, <1>8, <1>9, <1>10, <1>11, <1>12, <1>13, <1>14, <1>15, <1>16, <1>17, <1>18, <1>19, <1>20, <1>21, <1>22, <1>23 DEF Next, Step, Request

-----------------------------------------------------------------------------
(* What is forgotten *)

NextLate(e) == \A s \in Threads : currs'[s] = e => late'[s]

\* Nobody notes an element that is leaving without knowing, nor forgets that it was.
Lates == \A e \in Elems : place[e] # "in" /\ OnlyLate(e) => NextLate(e)

\* An element's invalidation is passed over in its own removal only.
OwnSkipped(t) == \A e \in Elems : skipped'[e] = skipped[e] \/ (Removes(t) /\ e = el[t])

LEMMA KeepsRemovals ==
  ASSUME ControlStrong, RemovalInv, NEW t \in Threads, Others(t), Lates, OwnSkipped(t),
         UNCHANGED beThreadSafe, \A e \in Elems : place'[e] = "in" => place[e] = "in",
         Removal(t)'
  PROVE  RemovalInv'
<1> USE DEF ControlStrong
<1>1. ASSUME NEW e \in Elems, place'[e] = "in"
      PROVE  skipped'[e] = 0
  BY <1>1 DEF RemovalInv, OwnSkipped, ControlInv, Own
<1>2. ASSUME NEW s \in Threads \ {t}
      PROVE  Removal(s)'
  <2>1. pc'[s] = pc[s] /\ op'[s] = op[s] /\ el'[s] = el[s] /\ Removal(s)
    BY DEF Others, RemovalInv
  <2>2. CASE ~Removes(s)
    BY <2>1, <2>2 DEF Removal, Removes
  <2>3. CASE Removes(s)
    <3>1. el[s] \in Elems /\ place[el[s]] = "leaving" /\ (Removes(t) => el[s] # el[t])
      BY <2>3 DEF ControlInv, Own
    <3>2. skipped'[el[s]] = skipped[el[s]] /\ (OnlyLate(el[s]) => NextLate(el[s]))
      BY <3>1 DEF OwnSkipped, Lates
    <3> QED
      BY <2>1, <2>3, <3>2 DEF Removal, Removes, OnlyLate, NextLate
  <2> QED
    BY <2>2, <2>3
<1> QED
  BY <1>1, <1>2 DEF RemovalInv

LEMMA KeepsGone ==
  ASSUME ControlStrong, GoneInv, NEW t \in Threads, Lates, OwnSkipped(t), UNCHANGED beThreadSafe,
         \A e \in Elems : place'[e] = "gone" =>
           \/ place[e] = "gone"
           \/ /\ beThreadSafe => NextLate(e) \/ skipped'[e] = 2
              /\ ~beThreadSafe => oneCurr' # e,
         oneCurr' \in {oneCurr, Nil} \/ place'[oneCurr'] # "gone",
         oneCurr' \in Elems \cup {Nil}
  PROVE  GoneInv'
<1> USE DEF ControlStrong
<1>1. ASSUME beThreadSafe, NEW e \in Elems, place'[e] = "gone"
      PROVE  NextLate(e) \/ skipped'[e] = 2
  <2>1. CASE place[e] = "gone"
    <3>1. (OnlyLate(e) => NextLate(e)) /\ skipped'[e] = skipped[e]
      BY <2>1 DEF Lates, OwnSkipped, ControlInv, Own
    <3> QED
      BY <1>1, <2>1, <3>1 DEF GoneInv
  <2> QED
    BY <1>1, <2>1
<1>2. ASSUME ~beThreadSafe, oneCurr' # Nil
      PROVE  place'[oneCurr'] # "gone"
  BY <1>2 DEF GoneInv
<1> QED
  BY <1>1, <1>2 DEF GoneInv, OnlyLate, NextLate

\* A step that changes neither notes nor elements.
LEMMA Plain ==
  ASSUME StoreInv, NEW t \in Threads, Others(t),
         UNCHANGED <<currs, place, late, skipped, beThreadSafe>>,
         oneCurr' \in {oneCurr, Nil} \/ (oneCurr' \in Elems /\ place[oneCurr'] = "in"),
         Removal(t)'
  PROVE  RemovalInv' /\ GoneInv'
<1> USE DEF StoreInv
<1>1. Lates /\ OwnSkipped(t)
  BY DEF Lates, OwnSkipped, OnlyLate, NextLate
<1>2. oneCurr' \in Elems \cup {Nil}
  BY DEF ControlStrong, StoreTypes
<1> QED
  BY <1>1, <1>2, KeepsRemovals, KeepsGone

LEMMA ForgottenSteps ==
  ASSUME StoreInv, [Next]_vars
  PROVE  RemovalInv' /\ GoneInv'
<1> USE StoreAssumption DEF StoreInv, ControlStrong, Calls, mode, table, history
<1>1. ASSUME NEW t \in Threads, Get(t)
      PROVE  RemovalInv' /\ GoneInv'
  <2>1. Others(t)
    BY <1>1 DEF Get, Others, Goto, CallTypes
  <2>2. Removal(t)'
    BY <1>1 DEF Get, Goto, CallTypes, Removal, Removes, ControlInv, Own, Fits, RemovalInv, OnlyLate
  <2> QED
    BY <1>1, <2>1, <2>2, Plain DEF Get, StoreInv
<1>2. ASSUME NEW t \in Threads, Use(t)
      PROVE  RemovalInv' /\ GoneInv'
  <2>1. Others(t)
    BY <1>2 DEF Use, Others, Goto, CallTypes, Return
  <2>2. Removal(t)'
    BY <1>2 DEF Use, Goto, CallTypes, Return, Removal, Removes, ControlInv, Own, Fits, RemovalInv, OnlyLate
  <2> QED
    BY <1>2, <2>1, <2>2, Plain DEF Use, StoreInv
<1>3. ASSUME NEW t \in Threads, SetCurr(t)
      PROVE  RemovalInv' /\ GoneInv'
  <2>1. Others(t) /\ op[t] = "set" /\ op'[t] = "set"
    BY <1>3 DEF SetCurr, Others, Goto, CallTypes, ControlInv, Own, Fits
  <2>2. ASSUME NEW e \in Elems, place[e] # "in", OnlyLate(e)
        PROVE  NextLate(e)
    BY <1>3, <2>2 DEF SetCurr, Add, AddFails, OnlyLate, NextLate, StoreTypes
  <2>3. Lates /\ OwnSkipped(t) /\ Removal(t)'
    BY <1>3, <2>1, <2>2 DEF Lates, OwnSkipped, Removal, Removes, SetCurr
  <2>4. oneCurr' \in Elems \cup {Nil}
    BY <1>3 DEF SetCurr, StoreTypes
  <2> QED
    BY <1>3, <2>1, <2>3, <2>4, KeepsRemovals, KeepsGone DEF SetCurr
<1>4. ASSUME NEW t \in Threads, Test(t)
      PROVE  RemovalInv' /\ GoneInv'
  <2> DEFINE goesOn == beThreadSafe /\ ~IsEmpty /\ ~invalidating
  <2>1. op[t] \in {"remove", "delete", "clear"} /\ pc[t] = "test"
    BY <1>4 DEF ControlInv, Own, Fits, Test
  <2>2. Lates /\ OwnSkipped(t)
    <3>1. \A e \in Elems : skipped'[e] = skipped[e] \/ e = el[t]
      BY <1>4 DEF Test, StoreTypes
    <3>2. el[t] \in Elems => Removes(t)
      BY <2>1 DEF ControlInv, Own, Removes
    <3> QED
      BY <1>4, <3>1, <3>2 DEF Lates, OwnSkipped, OnlyLate, NextLate, Test
  <2>3. oneCurr' \in {oneCurr, Nil} /\ oneCurr' \in Elems \cup {Nil} /\ UNCHANGED beThreadSafe
        /\ (~beThreadSafe /\ Removes(t) => oneCurr' # el[t])
    BY <1>4 DEF Test, StoreTypes, ControlInv, Own
  <2>4. ASSUME Removes(t), beThreadSafe, ~goesOn, NEW e, e = el[t]
        PROVE  /\ op[t] = "remove" => NextLate(e) \/ skipped'[e] = 1
               /\ op[t] = "delete" => NextLate(e) \/ skipped'[e] = 2
    <3>1. e \in Elems /\ place[e] = "leaving"
      BY <2>4 DEF ControlInv, Own
    <3>2. CASE IsEmpty
      <4>1. OnlyLate(e)
        BY <3>1, <3>2 DEF OnlyLate, IsEmpty
      <4> QED
        BY <2>2, <3>1, <4>1 DEF Lates
    <3>3. CASE ~IsEmpty /\ invalidating
      <4>1. skipped'[e] = skipped[e] + 1
        BY <1>4, <2>4, <3>1, <3>3 DEF Test
      <4>2. /\ op[t] = "remove" => skipped[e] = 0
            /\ op[t] = "delete" => OnlyLate(e) \/ skipped[e] = 1
        BY <2>1, <2>4 DEF RemovalInv, Removal
      <4> QED
        BY <2>2, <3>1, <4>1, <4>2 DEF Lates
    <3> QED
      BY <2>4, <3>2, <3>3
  <2>5. ASSUME Removes(t), goesOn
        PROVE  skipped'[el[t]] = skipped[el[t]]
    BY <1>4, <2>5 DEF Test, ControlInv, Own
  <2>6. Others(t)
    BY <1>4 DEF Test, Proceed, Return, Goto, Others, CallTypes
  <2>7. ASSUME Removes(t)'
        PROVE  /\ Removes(t) /\ op'[t] = op[t] /\ el'[t] = el[t]
               /\ \/ pc'[t] = "raise" /\ goesOn
                  \/ pc'[t] = "again" /\ ~goesOn /\ op[t] = "remove"
    <3>1. CASE goesOn
      <4>1. Goto(t, "raise") /\ UNCHANGED <<op, el>>
        BY <1>4, <3>1 DEF Test
      <4> QED
        BY <2>7, <3>1, <4>1 DEF Goto, CallTypes, Removes
    <3>2. CASE ~goesOn
      <4>1. Proceed(t)
        BY <1>4, <3>2 DEF Test
      <4> QED
        BY <2>7, <3>2, <4>1 DEF Proceed, Return, Goto, CallTypes, Removes
    <3> QED
      BY <3>1, <3>2
  <2>8. Removal(t)'
    <3>1. RemovalInv => Removal(t)
      BY DEF RemovalInv
    <3>2. ASSUME Removes(t)', OnlyLate(el[t])
          PROVE  NextLate(el[t])
      BY <2>2, <2>7, <3>2 DEF Lates, ControlInv, Own
    <3>3. CASE goesOn
      BY <2>1, <2>3, <2>5, <2>7, <3>1, <3>2, <3>3 DEF Removal, OnlyLate, NextLate
    <3>4. CASE ~goesOn
      BY <2>3, <2>4, <2>7, <3>4 DEF Removal, Removes, OnlyLate, NextLate
    <3> QED
      BY <3>3, <3>4
  <2>9. ASSUME NEW e \in Elems
        PROVE  /\ place'[e] = "in" => place[e] = "in"
               /\ place'[e] = "gone" =>
                    \/ place[e] = "gone"
                    \/ op[t] = "delete" /\ e = el[t] /\ ~goesOn
    <3>1. CASE Return(t) /\ ~goesOn
      BY <1>4, <3>1, GoneAtReturn DEF Test, StoreTypes
    <3>2. CASE UNCHANGED op
      BY <1>4, <3>2, GoneKeeps DEF Test
    <3> QED
      BY <1>4, <3>1, <3>2 DEF Test, Proceed
  <2>10. ASSUME NEW e \in Elems, place'[e] = "gone", place[e] # "gone"
         PROVE  /\ beThreadSafe => NextLate(e) \/ skipped'[e] = 2
                /\ ~beThreadSafe => oneCurr' # e
    <3>1. op[t] = "delete" /\ e = el[t] /\ ~goesOn /\ Removes(t)
      BY <2>9, <2>10 DEF Removes
    <3> QED
      BY <2>3, <2>4, <3>1
  <2> HIDE DEF goesOn
  <2> QED
    BY <2>2, <2>3, <2>6, <2>8, <2>9, <2>10, KeepsRemovals, KeepsGone
<1>5. ASSUME NEW t \in Threads, Raise(t)
      PROVE  RemovalInv' /\ GoneInv'
  <2>1. Others(t)
    BY <1>5 DEF Raise, Others, Goto, CallTypes
  <2>2. Removal(t)'
    BY <1>5 DEF Raise, Goto, CallTypes, Removal, Removes, ControlInv, Own, Fits, RemovalInv, OnlyLate
  <2> QED
    BY <1>5, <2>1, <2>2, Plain DEF Raise, StoreInv
<1>6. ASSUME NEW t \in Threads, Sweep(t)
      PROVE  RemovalInv' /\ GoneInv'
  <2>1. Others(t) /\ op'[t] = op[t] /\ el'[t] = el[t] /\ pc'[t] = "lower"
    BY <1>6 DEF Sweep, Others, Goto, CallTypes
  <2>2. ASSUME NEW s \in Threads
        PROVE  /\ currs'[s] \in {currs[s], Nil} /\ late'[s] = late[s]
               /\ Removes(t) => currs'[s] # el[t]
    BY <1>6 DEF Sweep, DeleteNotes, StoreTypes, Removes, ControlInv, Own
  <2>3. Lates /\ OwnSkipped(t)
    BY <1>6, <2>2 DEF Lates, OwnSkipped, OnlyLate, NextLate, Sweep
  <2>4. Removal(t)'
    BY <1>6, <2>1, <2>2 DEF Removal, Removes, Sweep, RemovalInv, OnlyLate
  <2>5. oneCurr' \in Elems \cup {Nil}
    BY <1>6 DEF Sweep, StoreTypes
  <2> QED
    BY <1>6, <2>1, <2>3, <2>4, <2>5, KeepsRemovals, KeepsGone DEF Sweep
<1>7. ASSUME NEW t \in Threads, Lower(t)
      PROVE  RemovalInv' /\ GoneInv'
  <2>1. Others(t)
    BY <1>7 DEF Lower, Others, Goto, CallTypes
  <2>2. Removal(t)'
    BY <1>7 DEF Lower, Goto, CallTypes, Removal, Removes, ControlInv, Own, Fits, RemovalInv, OnlyLate
  <2> QED
    BY <1>7, <2>1, <2>2, Plain DEF Lower, StoreInv
<1>8. ASSUME NEW t \in Threads, Again(t)
      PROVE  RemovalInv' /\ GoneInv'
  <2>1. Others(t)
    BY <1>8 DEF Again, Others, Goto, CallTypes
  <2>2. Removal(t)'
    BY <1>8 DEF Again, Goto, CallTypes, Removal, Removes, ControlInv, Own, Fits, RemovalInv, OnlyLate
  <2> QED
    BY <1>8, <2>1, <2>2, Plain DEF Again, StoreInv
<1>9. ASSUME NEW t \in Threads, Unlock(t)
      PROVE  RemovalInv' /\ GoneInv'
  <2>1. pc[t] = "unlock" /\ UNCHANGED <<currs, late, skipped, beThreadSafe, oneCurr>>
    BY <1>9 DEF Unlock
  <2>2. Lates /\ OwnSkipped(t) /\ oneCurr' \in Elems \cup {Nil}
    BY <2>1 DEF Lates, OwnSkipped, OnlyLate, NextLate, StoreTypes
  <2>3. Others(t)
    BY <1>9 DEF Unlock, Proceed, Return, Goto, Others, CallTypes
  <2>4. ASSUME Removes(t)'
        PROVE  op[t] = "remove" /\ op'[t] = op[t] /\ el'[t] = el[t] /\ pc'[t] = "again"
    BY <1>9, <2>4 DEF Unlock, Proceed, Return, Goto, CallTypes, Removes
  <2>5. Removes(t) => beThreadSafe /\ OnlyLate(el[t])
    BY <2>1 DEF ControlInv, Own, RemovalInv, Removal
  <2>6. Removal(t)'
    BY <2>1, <2>4, <2>5 DEF Removal, Removes, OnlyLate
  <2>7. ASSUME NEW e \in Elems
        PROVE  /\ place'[e] = "in" => place[e] = "in"
               /\ place'[e] = "gone" => place[e] = "gone" \/ (op[t] = "delete" /\ e = el[t])
    <3>1. CASE Return(t)
      BY <1>9, <2>1, <3>1, GoneAtReturn DEF Unlock, StoreTypes
    <3>2. CASE UNCHANGED op
      BY <1>9, <3>2, GoneKeeps DEF Unlock
    <3> QED
      BY <1>9, <3>1, <3>2 DEF Unlock, Proceed
  <2>8. ASSUME NEW e \in Elems, place'[e] = "gone", place[e] # "gone"
        PROVE  beThreadSafe /\ NextLate(e)
    <3>1. e = el[t] /\ Removes(t)
      BY <2>7, <2>8 DEF Removes
    <3> QED
      BY <2>1, <2>5, <3>1 DEF OnlyLate, NextLate
  <2> QED
    BY <2>1, <2>2, <2>3, <2>6, <2>7, <2>8, KeepsRemovals, KeepsGone
<1>10. ASSUME NEW t \in Threads, Mark(t)
      PROVE  RemovalInv' /\ GoneInv'
  <2>1. Others(t)
    BY <1>10 DEF Mark, Others, Goto, CallTypes
  <2>2. Removal(t)'
    BY <1>10 DEF Mark, Goto, CallTypes, Removal, Removes, ControlInv, Own, Fits, RemovalInv, OnlyLate
  <2> QED
    BY <1>10, <2>1, <2>2, Plain DEF Mark, StoreInv
<1>11. ASSUME NEW t \in Threads, WaitFor(t)
      PROVE  RemovalInv' /\ GoneInv'
  <2>1. Others(t)
    BY <1>11 DEF WaitFor, Others, Goto, CallTypes
  <2>2. Removal(t)'
    BY <1>11 DEF WaitFor, Goto, CallTypes, Removal, Removes, ControlInv, Own, Fits, RemovalInv, OnlyLate
  <2> QED
    BY <1>11, <2>1, <2>2, Plain DEF WaitFor, StoreInv
<1>12. ASSUME NEW t \in Threads, WaitAgain(t)
      PROVE  RemovalInv' /\ GoneInv'
  <2>1. Others(t)
    BY <1>12 DEF WaitAgain, Others, Goto, CallTypes
  <2>2. Removal(t)'
    BY <1>12 DEF WaitAgain, Goto, CallTypes, Removal, Removes, ControlInv, Own, Fits, RemovalInv, OnlyLate
  <2> QED
    BY <1>12, <2>1, <2>2, Plain DEF WaitAgain, StoreInv
<1>13. ASSUME NEW t \in Threads, ClearAll(t)
      PROVE  RemovalInv' /\ GoneInv'
  <2>1. Others(t) /\ op'[t] = Nil
    BY <1>13 DEF ClearAll, Return, Others, Goto, CallTypes
  <2>2. Lates /\ OwnSkipped(t) /\ Removal(t)'
    BY <1>13, <2>1 DEF ClearAll, DeleteNotes, Lates, OwnSkipped, NextLate, Removal, Removes
  <2>3. oneCurr' \in Elems \cup {Nil}
    BY <1>13 DEF ClearAll, StoreTypes
  <2> QED
    BY <1>13, <2>1, <2>2, <2>3, KeepsRemovals, KeepsGone DEF ClearAll
<1>14. ASSUME NEW t \in Threads, Lock(t)
      PROVE  RemovalInv' /\ GoneInv'
  <2>1. Others(t)
    BY <1>14 DEF Lock, Others, Goto, CallTypes, AfterLock
  <2>2. Removal(t)'
    BY <1>14 DEF Lock, Goto, CallTypes, AfterLock, Removal, Removes, ControlInv, Own, Fits, RemovalInv, OnlyLate
  <2> QED
    BY <1>14, <2>1, <2>2, Plain DEF Lock, StoreInv
<1>15. ASSUME NEW t \in Threads, CallCurr(t)
      PROVE  RemovalInv' /\ GoneInv'
  <2>1. Others(t)
    BY <1>15 DEF CallCurr, Others, Goto, CallTypes, Call
  <2>2. Removal(t)'
    BY <1>15 DEF CallCurr, Goto, CallTypes, Call, Removal, Removes, ControlInv, Own, Fits, RemovalInv, OnlyLate
  <2> QED
    BY <1>15, <2>1, <2>2, Plain DEF CallCurr, StoreInv
<1>16. ASSUME NEW t \in Threads, CallClear(t)
      PROVE  RemovalInv' /\ GoneInv'
  <2>1. Others(t)
    BY <1>16 DEF CallClear, Others, Goto, CallTypes, Call
  <2>2. Removal(t)'
    BY <1>16 DEF CallClear, Goto, CallTypes, Call, Removal, Removes, ControlInv, Own, Fits, RemovalInv, OnlyLate
  <2> QED
    BY <1>16, <2>1, <2>2, Plain DEF CallClear, StoreInv
<1>17. ASSUME NEW t \in Threads, CallDestroy(t)
      PROVE  RemovalInv' /\ GoneInv'
  <2>1. Others(t)
    BY <1>17 DEF CallDestroy, Others, Goto, CallTypes, Call
  <2>2. Removal(t)'
    BY <1>17 DEF CallDestroy, Goto, CallTypes, Call, Removal, Removes, ControlInv, Own, Fits, RemovalInv, OnlyLate
  <2> QED
    BY <1>17, <2>1, <2>2, Plain DEF CallDestroy, StoreInv
<1>18. ASSUME NEW t \in Threads, Switch(t)
      PROVE  RemovalInv' /\ GoneInv'
  <2>1. \A s \in Threads : ~Removes(s)
    BY <1>18 DEF Switch, ControlInv, Own, Fits, Removes
  <2>2. \A s \in Threads : ~Removes(s)'
    BY <1>18, <2>1 DEF Switch, Call, Removes, CallTypes
  <2>3. RemovalInv'
    BY <1>18, <2>2 DEF Switch, RemovalInv, Removal
  <2>4. GoneInv'
    BY <1>18 DEF Switch, GoneInv, StoreTypes
  <2> QED
    BY <2>3, <2>4
<1>19. ASSUME NEW t \in Threads, CallSetCurr(t, Nil)
      PROVE  RemovalInv' /\ GoneInv'
  <2>1. Others(t)
    BY <1>19 DEF CallSetCurr, Others, Goto, CallTypes, Call
  <2>2. Removal(t)'
    BY <1>19 DEF CallSetCurr, Goto, CallTypes, Call, Removal, Removes, ControlInv, Own, Fits, RemovalInv, OnlyLate
  <2> QED
    BY <1>19, <2>1, <2>2, Plain DEF CallSetCurr, StoreInv
<1>20. ASSUME NEW t \in Threads, NEW e \in Elems, CallSetCurr(t, e)
      PROVE  RemovalInv' /\ GoneInv'
  <2>1. Others(t)
    BY <1>20 DEF CallSetCurr, Others, Goto, CallTypes, Call
  <2>2. Removal(t)'
    BY <1>20 DEF CallSetCurr, Goto, CallTypes, Call, Removal, Removes, ControlInv, Own, Fits, RemovalInv, OnlyLate
  <2> QED
    BY <1>20, <2>1, <2>2, Plain DEF CallSetCurr, StoreInv
<1>21. ASSUME NEW t \in Threads, NEW e \in Elems, CallRemove(t, e)
      PROVE  RemovalInv' /\ GoneInv'
  <2>1. Others(t) /\ op'[t] = "remove" /\ el'[t] = e /\ pc'[t] = "test"
    BY <1>21 DEF CallRemove, Call, Others, Goto, CallTypes
  <2>2. Lates /\ OwnSkipped(t)
    BY <1>21 DEF CallRemove, Lates, OwnSkipped, OnlyLate, NextLate
  <2>3. Removal(t)'
    BY <1>21, <2>1 DEF CallRemove, Removal, Removes, RemovalInv
  <2>4. oneCurr' \in Elems \cup {Nil}
    BY <1>21 DEF CallRemove, StoreTypes
  <2>5. place' = [place EXCEPT ![e] = "leaving"]
    BY <1>21 DEF CallRemove
  <2>6. \A f \in Elems : /\ place'[f] = "in" => place[f] = "in"
                         /\ place'[f] = "gone" => place[f] = "gone"
    BY <2>5 DEF StoreTypes
  <2> QED
    BY <1>21, <2>1, <2>2, <2>3, <2>4, <2>6, KeepsRemovals, KeepsGone DEF CallRemove
<1>22. CASE UNCHANGED vars
  BY <1>22 DEF RemovalInv, Removal, Removes, OnlyLate, GoneInv, vars
<1>23. ASSUME NEW t \in Threads, Enable(t)
      PROVE  RemovalInv' /\ GoneInv'
  <2>1. \A s \in Threads : ~Removes(s)
    BY <1>23 DEF Enable, ControlInv, Own, Fits, Removes
  <2>2. \A s \in Threads : ~Removes(s)'
    BY <1>23, <2>1 DEF Enable, Return, Removes, CallTypes
  <2>3. RemovalInv'
    BY <1>23, <2>2 DEF Enable, RemovalInv, Removal
  <2> QED
    BY <1>23, <2>3 DEF Enable, DeleteNotes, GoneInv, OnlyLate, StoreTypes
<1> QED
  BY <1>1, <1>2, <1>3, <1>4, <1>5, <1>6, <1>7, <1>8, <1>9, <1>10, <1>11, <1>12, <1>13, <1>14, <1>15, <1>16, <1>17, <1>18, <1>19, <1>20, <1>21, <1>22, <1>23 DEF Next, Step, Request

-----------------------------------------------------------------------------
(* Theorems *)

LEMMA StoreInvariant == Spec => []StoreInv
<1>1. Init => StoreInv
  BY StoreAssumption DEF Init, StoreInv, ControlStrong, StoreTypes, CallTypes, ControlInv, Own, Fits,
     Removes, RemovalInv, Removal, GoneInv, Labels, Calls
<1>2. StoreInv /\ [Next]_vars => StoreInv'
  BY StoreSteps, ControlSteps, ForgottenSteps DEF StoreInv, ControlStrong
<1> QED
  BY <1>1, <1>2, PTL DEF Spec

\* What has left the list is nobody's current element, unless the thread noted it when it
\* was leaving already or both its invalidations were passed over (CThreadElementStore::invalidate(),
\* curr(), VElement::remove()).
THEOREM WhoIsGoneIsForgotten == Spec => []GoneIsForgotten
<1>1. StoreInv => GoneIsForgotten
  <2> SUFFICES ASSUME StoreInv
               PROVE  GoneIsForgotten
    OBVIOUS
  <2> USE DEF StoreInv, ControlStrong
  <2>1. ASSUME beThreadSafe, NEW t \in Threads, currs[t] # Nil, place[currs[t]] = "gone"
        PROVE  late[t] \/ skipped[currs[t]] = 2
    BY <2>1 DEF GoneInv, OnlyLate, StoreTypes
  <2> QED
    BY <2>1 DEF GoneIsForgotten, GoneInv
<1> QED
  BY <1>1, StoreInvariant, PTL

\* A thread's current element changes by its own call, or because that element left the
\* list, or all notes are cleared; or by the call of a thread that has no note to delete
\* and deletes this one (TOpenHash.h, delKey()).
THEOREM KeptUntilLeft == Spec => NotesAreKept
<1> DEFINE Kept ==
      \A t \in Threads :
        currs'[t] # currs[t] =>
          \/ pc[t] = "set" /\ pc'[t] # "set"
          \/ /\ currs'[t] = Nil
             /\ \/ place[currs[t]] # "in"
                \/ \E s \in Threads : op[s] \in {"clear", "destroy", "enable"}
                \/ unused = 0 /\ \E s \in Threads \ {t} : /\ pc[s] = "set" /\ pc'[s] # "set"
                                                          /\ currs[s] = Nil
<1>1. ASSUME StoreInv, [Next]_vars
      PROVE  [Kept]_vars
  <2> USE <1>1, StoreAssumption DEF StoreInv, ControlStrong, Calls, mode, table, history
  <2>1. ASSUME NEW t \in Threads, SetCurr(t)
        PROVE  Kept
    <3>1. pc[t] = "set" /\ pc'[t] # "set"
      BY <2>1 DEF SetCurr, Goto, CallTypes
    <3>2. ASSUME NEW s \in Threads \ {t}, currs'[s] # currs[s]
          PROVE  currs'[s] = Nil /\ unused = 0 /\ currs[t] = Nil
      <4>1. PICK gone \in Deletable(t), new \in {el[t], Nil} :
              currs' = [r \in Threads |-> IF r = t THEN new ELSE IF r \in gone THEN Nil ELSE currs[r]]
        BY <2>1, <3>2 DEF SetCurr
      <4>2. s \in gone /\ currs'[s] = Nil
        BY <3>2, <4>1
      <4> QED
        BY <4>2 DEF Deletable
    <3> QED
      BY <3>1, <3>2
  <2>2. ASSUME NEW t \in Threads, Sweep(t)
        PROVE  Kept
    BY <2>2 DEF Sweep, DeleteNotes, StoreTypes, ControlInv, Own, Fits, Removes
  <2>3. ASSUME NEW t \in Threads, ClearAll(t)
        PROVE  Kept
    BY <2>3 DEF ClearAll, DeleteNotes, StoreTypes, ControlInv, Own, Fits
  <2>4. ASSUME NEW t \in Threads, Switch(t)
        PROVE  Kept
    BY <2>4 DEF Switch
  <2>5. ASSUME UNCHANGED currs
        PROVE  Kept
    BY <2>5
  <2>6. ASSUME NEW t \in Threads, Enable(t)
        PROVE  Kept
    BY <2>6 DEF Enable, DeleteNotes, StoreTypes, ControlInv, Own, Fits
  <2> HIDE DEF Kept
  <2> QED
    BY <2>1, <2>2, <2>3, <2>4, <2>5, <2>6 DEF Next, Step, Request, Get, Use, Test, Raise, Lower, Again, Unlock, Mark, WaitFor, WaitAgain, Lock, CallCurr, CallClear, CallDestroy, CallSetCurr, CallRemove
<1> QED
  BY <1>1, StoreInvariant, PTL DEF Spec, NotesAreKept

-----------------------------------------------------------------------------
(* The lists: numbers, and loops in stages *)

\* A set of numbers that is not empty has a least one.
LEMMA LeastNumber ==
  ASSUME NEW T, T \subseteq Nat, T # {}
  PROVE  \E x \in T : \A y \in T : x <= y
<1> DEFINE upTo(x) == {y \in T : y <= x}
           Pieces   == {upTo(x) : x \in T}
<1>1. Pieces # {} /\ Pieces \subseteq FiniteSubsetsOf(Nat)
  <2>1. ASSUME NEW x \in T
        PROVE  upTo(x) \in FiniteSubsetsOf(Nat)
    BY FS_BoundedSetOfNaturals DEF FiniteSubsetsOf
  <2> QED
    BY <2>1
<1>2. \E U \in Pieces : \A V \in Pieces : <<V, U>> \notin StrictSubsetOrdering(Nat)
  <2>1. IsWellFoundedOn(StrictSubsetOrdering(Nat), FiniteSubsetsOf(Nat))
    BY FS_StrictSubsetOrderingWellFounded
  <2> QED
    BY <1>1, <2>1, WFMin
<1>3. PICK x \in T : \A V \in Pieces : <<V, upTo(x)>> \notin StrictSubsetOrdering(Nat)
  BY <1>2
<1>4. ASSUME NEW y \in T, y < x
      PROVE  FALSE
  <2>1. \A z \in T : z <= y => z <= x
    BY <1>4
  <2>2. x \in upTo(x) /\ x \notin upTo(y)
    BY <1>4
  <2>3. upTo(y) \subseteq upTo(x)
    BY <2>1
  <2>4. upTo(y) \in Pieces /\ upTo(y) \in SUBSET Nat /\ upTo(x) \in SUBSET Nat
    OBVIOUS
  <2> HIDE DEF upTo, Pieces
  <2>5. <<upTo(y), upTo(x)>> \in StrictSubsetOrdering(Nat)
    BY <2>2, <2>3, <2>4 DEF StrictSubsetOrdering
  <2> QED
    BY <1>3, <2>4, <2>5
<1> QED
  BY <1>4

-----------------------------------------------------------------------------
(* Recursive functions *)

\* One more step of the walks, and of the operators += and -=.
Advance(what, p, x, i) ==
  IF what = "walk" THEN p[x]
  ELSE IF what = "add" THEN (IF Running(x) /\ p[1][i] \in p[2] THEN Insert(x, x.tail, p[1][i]) ELSE x)
  ELSE IF Running(x) THEN SubtractOne(x, p[i]) ELSE x

\* The stages of a loop, as one function of their number: stage 0 is e, each other is what Advance makes of the one before.
Stage(what, p, e, f, i) == IF i = 0 THEN e ELSE Advance(what, p, f[i - 1], i)
Stages(what, p, e, f, n) == f = [i \in 0 .. n |-> Stage(what, p, e, f, i)]

\* There is such a function for every number of stages.
LEMMA SomeStages ==
  ASSUME NEW what, NEW p, NEW e, NEW n \in Nat
  PROVE  \E f : Stages(what, p, e, f, n)
<1> DEFINE bad == {k \in Nat : ~\E f : Stages(what, p, e, f, k)}
<1> SUFFICES ASSUME bad # {}
             PROVE  FALSE
  OBVIOUS
<1>1. PICK k \in bad : \A i \in bad : k <= i
  BY LeastNumber
<1>2. k # 0
  <2> DEFINE f == [i \in 0 .. 0 |-> e]
             h == [i \in 0 .. 0 |-> Stage(what, p, e, f, i)]
  <2>1. \A i \in 0 .. 0 : h[i] = f[i]
    BY DEF Stage
  <2>2. f = [i \in 0 .. 0 |-> f[i]] /\ h = [i \in 0 .. 0 |-> h[i]]
    OBVIOUS
  <2> HIDE DEF f, h
  <2>3. f = h
    BY <2>1, <2>2
  <2>4. Stages(what, p, e, f, 0)
    BY <2>3 DEF Stages, h
  <2> QED
    BY <1>1, <2>4
<1>3. k \in Nat /\ k - 1 \in Nat /\ ~(k <= k - 1)
  BY <1>1, <1>2
<1>4. PICK g : Stages(what, p, e, g, k - 1)
  BY <1>1, <1>3
<1> HIDE DEF bad
<1> DEFINE f == [i \in 0 .. k |-> Stage(what, p, e, g, i)]
<1>5. ASSUME NEW i \in 0 .. k
      PROVE  Stage(what, p, e, f, i) = Stage(what, p, e, g, i)
  <2>1. CASE i = 0
    BY <2>1 DEF Stage
  <2>2. CASE i # 0
    <3>1. i - 1 \in 0 .. k /\ i - 1 \in 0 .. k - 1
      BY <1>3, <2>2
    <3>2. g[i - 1] = Stage(what, p, e, g, i - 1)
      BY <1>4, <3>1 DEF Stages
    <3>3. f[i - 1] = Stage(what, p, e, g, i - 1)
      BY <3>1
    <3> HIDE DEF f
    <3>4. f[i - 1] = g[i - 1]
      BY <3>2, <3>3
    <3> QED
      BY <3>4 DEF Stage
  <2> QED
    BY <2>1, <2>2
<1>6. f = [i \in 0 .. k |-> Stage(what, p, e, f, i)]
  <2> DEFINE h == [i \in 0 .. k |-> Stage(what, p, e, f, i)]
  <2>1. \A i \in 0 .. k : f[i] = Stage(what, p, e, g, i) /\ h[i] = Stage(what, p, e, f, i)
    OBVIOUS
  <2>2. f = [i \in 0 .. k |-> f[i]] /\ h = [i \in 0 .. k |-> h[i]]
    OBVIOUS
  <2> HIDE DEF f, h
  <2>3. f = h
    BY <1>5, <2>1, <2>2
  <2> QED
    BY <2>3 DEF h
<1>7. Stages(what, p, e, f, k)
  BY <1>6 DEF Stages
<1> HIDE DEF f
<1> QED
  BY <1>1, <1>7 DEF bad

\* One step along the links f: the null pointer leads nowhere.
Onward(f) == [x \in Elements \cup {NullPtr} |-> IF x = NullPtr THEN x ELSE f[x]]

\* Iterate starts at e and follows f: what Walk and Connect read the chain with.
LEMMA IterateIs ==
  ASSUME NEW f, NEW e, NEW n \in Nat
  PROVE  /\ DOMAIN Iterate(f, e, n) = 0 .. n
         /\ Iterate(f, e, n)[0] = e
         /\ \A i \in 1 .. n : Iterate(f, e, n)[i] = Onward(f)[Iterate(f, e, n)[i - 1]]
<1> DEFINE goes(at) == at = [i \in 0 .. n |-> IF i = 0 THEN e ELSE Onward(f)[at[i - 1]]]
<1>1. \E at : goes(at)
  <2>1. PICK at : Stages("walk", Onward(f), e, at, n)
    BY SomeStages
  <2> DEFINE h == [i \in 0 .. n |-> IF i = 0 THEN e ELSE Onward(f)[at[i - 1]]]
             g == [i \in 0 .. n |-> Stage("walk", Onward(f), e, at, i)]
  <2>2. \A i \in 0 .. n : h[i] = g[i]
    BY DEF Stage, Advance
  <2>3. h = [i \in 0 .. n |-> h[i]] /\ g = [i \in 0 .. n |-> g[i]]
    OBVIOUS
  <2> HIDE DEF g, h
  <2>4. h = g
    BY <2>2, <2>3
  <2>5. at = h
    BY <2>1, <2>4 DEF Stages, g
  <2> QED
    BY <2>5 DEF h
<1>2. goes(Iterate(f, e, n))
  <2>1. Iterate(f, e, n) = CHOOSE at : goes(at)
    BY DEF Iterate, Onward
  <2> HIDE DEF goes
  <2> QED
    BY <1>1, <2>1
<1> QED
  BY <1>2

-----------------------------------------------------------------------------
(* Walks *)

\* No element twice; the elements of a row; its ends, or the null pointer for an empty row.
Injective(s) == \A i, j \in 1 .. Len(s) : s[i] = s[j] => i = j
SetOfRow(s) == {s[i] : i \in 1 .. Len(s)}
FirstIn(s) == IF Len(s) = 0 THEN NullPtr ELSE s[1]
LastIn(s) == IF Len(s) = 0 THEN NullPtr ELSE s[Len(s)]

\* f leads through the elements of s, and then to nothing or back to one of them.
Leads(f, s) ==
  /\ s \in Seq(Elements) /\ Injective(s)
  /\ \A i \in 1 .. Len(s) - 1 : f[s[i]] = s[i + 1]
  /\ Len(s) > 0 => f[LastIn(s)] \in SetOfRow(s) \cup {NullPtr}

\* No row is longer than there are elements.
LEMMA RowFits ==
  ASSUME NEW s \in Seq(Elements), Injective(s)
  PROVE  /\ Len(s) \in Nat /\ Cardinality(Elements) \in Nat /\ Len(s) <= Cardinality(Elements)
         /\ Cardinality(SetOfRow(s)) = Len(s) /\ IsFiniteSet(SetOfRow(s))
<1>1. Len(s) \in Nat /\ s \in [1 .. Len(s) -> Elements] /\ DOMAIN s = 1 .. Len(s)
  BY LenProperties
<1>2. s \in Injection(1 .. Len(s), SetOfRow(s)) /\ s \in Surjection(1 .. Len(s), SetOfRow(s))
  <2>1. \A i \in 1 .. Len(s) : s[i] \in SetOfRow(s)
    BY DEF SetOfRow
  <2>2. s \in [1 .. Len(s) -> SetOfRow(s)]
    BY <1>1, <2>1
  <2>3. \A x \in SetOfRow(s) : \E i \in 1 .. Len(s) : s[i] = x
    BY DEF SetOfRow
  <2> QED
    BY <1>1, <2>2, <2>3 DEF Injection, Surjection, IsInjective, Injective
<1>3. IsFiniteSet(Elements) /\ SetOfRow(s) \in SUBSET Elements
  BY <1>1, ElementsAssumption DEF SetOfRow
<1>4. IsFiniteSet(SetOfRow(s)) /\ Cardinality(SetOfRow(s)) <= Cardinality(Elements)
  BY <1>3, FS_Subset
<1>5. IsFiniteSet(1 .. Len(s)) /\ Cardinality(1 .. Len(s)) = Len(s)
  BY <1>1, FS_Interval
<1>6. Cardinality(1 .. Len(s)) <= Cardinality(SetOfRow(s)) /\ Cardinality(SetOfRow(s)) <= Cardinality(1 .. Len(s))
  BY <1>2, <1>4, <1>5, FS_Injection, FS_Surjection
<1>7. Cardinality(SetOfRow(s)) \in Nat /\ Cardinality(Elements) \in Nat
  BY <1>3, <1>4, FS_CardinalityType
<1> QED
  BY <1>1, <1>4, <1>5, <1>6, <1>7

\* A walk along f finds just what f leads through.
LEMMA WalkIs ==
  ASSUME NEW f, NEW s, Leads(f, s)
  PROVE  Walk(f, FirstIn(s)) = s
<1> DEFINE N == Cardinality(Elements)
           n == Len(s)
           at == Iterate(f, FirstIn(s), N)
<1>1. n \in Nat /\ N \in Nat /\ n <= N /\ Cardinality(SetOfRow(s)) = n
  BY RowFits DEF Leads
<1>2. DOMAIN at = 0 .. N /\ at[0] = FirstIn(s) /\ \A i \in 1 .. N : at[i] = Onward(f)[at[i - 1]]
  BY <1>1, IterateIs
<1>3. /\ \A i \in 1 .. n : s[i] \in Elements /\ s[i] # NullPtr
      /\ SetOfRow(s) \subseteq Elements /\ NullPtr \notin SetOfRow(s)
  BY <1>1, ElementOfSeq, ElementsAssumption DEF Leads, SetOfRow
<1>4. /\ Onward(f)[NullPtr] = NullPtr
      /\ \A x \in SetOfRow(s) : Onward(f)[x] = f[x]
  BY <1>3, ElementsAssumption DEF Onward
<1>5. n > 0 => f[s[n]] \in SetOfRow(s) \cup {NullPtr}
  BY <1>1 DEF Leads, LastIn
<1>6. \A i \in 1 .. n - 1 : f[s[i]] = s[i + 1]
  BY DEF Leads
<1>7. n > 0 => FirstIn(s) = s[1]
  BY <1>1 DEF FirstIn
<1>8. n = 0 => FirstIn(s) = NullPtr
  BY DEF FirstIn
<1>9. \A x \in SetOfRow(s) : \E i \in 1 .. n : s[i] = x
  BY DEF SetOfRow
<1>10. \A i \in 1 .. n : s[i] \in SetOfRow(s)
  BY DEF SetOfRow
<1> HIDE DEF at, n, N
<1>11. \A x \in SetOfRow(s) : Onward(f)[x] \in SetOfRow(s) \cup {NullPtr}
  <2> SUFFICES ASSUME NEW x \in SetOfRow(s)
               PROVE  Onward(f)[x] \in SetOfRow(s) \cup {NullPtr}
    OBVIOUS
  <2>1. PICK i \in 1 .. n : s[i] = x
    BY <1>9
  <2>2. CASE i = n
    BY <1>1, <1>4, <1>5, <2>1, <2>2
  <2>3. CASE i # n
    <3>1. i \in 1 .. n - 1 /\ i + 1 \in 1 .. n
      BY <1>1, <2>3
    <3> QED
      BY <1>4, <1>6, <1>10, <2>1, <3>1
  <2> QED
    BY <2>2, <2>3
\* All that is met is in the row.
<1>12. \A i \in 0 .. N : at[i] \in SetOfRow(s) \cup {NullPtr}
  <2> DEFINE bad == {i \in 0 .. N : at[i] \notin SetOfRow(s) \cup {NullPtr}}
  <2> SUFFICES ASSUME bad # {}
               PROVE  FALSE
    OBVIOUS
  <2>1. bad \subseteq Nat
    BY <1>1
  <2>2. PICK k \in bad : \A i \in bad : k <= i
    BY <2>1, LeastNumber
  <2>3. k \in 0 .. N /\ at[k] \notin SetOfRow(s) \cup {NullPtr}
    BY <2>2
  <2>4. CASE k = 0
    <3>1. CASE n = 0
      BY <1>2, <1>8, <2>3, <2>4, <3>1
    <3>2. CASE n # 0
      <4>1. 1 \in 1 .. n /\ n > 0
        BY <1>1, <3>2
      <4> QED
        BY <1>2, <1>7, <1>10, <2>3, <2>4, <4>1
    <3> QED
      BY <3>1, <3>2
  <2>5. CASE k # 0
    <3>1. k \in 1 .. N /\ k - 1 \in 0 .. N /\ ~(k <= k - 1)
      BY <1>1, <2>3, <2>5
    <3>2. at[k - 1] \in SetOfRow(s) \cup {NullPtr}
      BY <2>2, <3>1
    <3> QED
      BY <1>2, <1>4, <1>11, <2>3, <3>1, <3>2
  <2> QED
    BY <2>4, <2>5
\* And what is in the row is met first, in its order.
<1>13. \A i \in 1 .. n : at[i - 1] = s[i]
  <2> DEFINE bad == {i \in 1 .. n : at[i - 1] # s[i]}
  <2> SUFFICES ASSUME bad # {}
               PROVE  FALSE
    OBVIOUS
  <2>1. bad \subseteq Nat
    BY <1>1
  <2>2. PICK k \in bad : \A i \in bad : k <= i
    BY <2>1, LeastNumber
  <2>3. k \in 1 .. n /\ at[k - 1] # s[k]
    BY <2>2
  <2>4. CASE k = 1
    <3>1. n > 0 /\ k - 1 = 0
      BY <1>1, <2>3, <2>4
    <3> QED
      BY <1>2, <1>7, <2>3, <2>4, <3>1
  <2>5. CASE k # 1
    <3>1. k - 1 \in 1 .. n /\ k - 1 \in 1 .. n - 1 /\ k - 1 \in 1 .. N /\ (k - 1) + 1 = k /\ ~(k <= k - 1)
      BY <1>1, <2>3, <2>5
    <3>2. at[(k - 1) - 1] = s[k - 1]
      BY <2>2, <3>1
    <3>3. at[k - 1] = Onward(f)[s[k - 1]]
      BY <1>2, <3>1, <3>2
    <3>4. Onward(f)[s[k - 1]] = s[(k - 1) + 1]
      BY <1>4, <1>6, <1>10, <3>1
    <3> QED
      BY <2>3, <3>1, <3>3, <3>4
  <2> QED
    BY <2>4, <2>5
<1>14. Range(at) \ {NullPtr} = SetOfRow(s)
  <2>1. ASSUME NEW x \in SetOfRow(s)
        PROVE  x \in Range(at) \ {NullPtr}
    <3>1. PICK i \in 1 .. n : s[i] = x
      BY <1>9
    <3>2. i - 1 \in 0 .. N
      BY <1>1
    <3> QED
      BY <1>2, <1>3, <1>13, <3>1, <3>2 DEF Range
  <2>2. Range(at) \subseteq SetOfRow(s) \cup {NullPtr}
    BY <1>2, <1>12 DEF Range
  <2> QED
    BY <1>3, <2>1, <2>2
<1>15. Walk(f, FirstIn(s)) = [i \in 1 .. n |-> at[i - 1]]
  <2>1. Walk(f, FirstIn(s)) = [i \in 1 .. Cardinality(Range(at) \ {NullPtr}) |-> at[i - 1]]
    BY DEF Walk, at, N
  <2> QED
    BY <1>1, <1>14, <2>1
<1>16. s \in [1 .. n -> Elements]
  BY LenProperties DEF Leads, n
<1> QED
  BY <1>13, <1>15, <1>16

-----------------------------------------------------------------------------
(* Lists as records *)

\* What a pointer to an element may hold; the classes that share the list code.
Places == Elements \cup {NullPtr}
Kinds == {"single", "double", "set"}

\* The values a list's record takes.
ListRecord ==
  [kind : Kinds, ring : BOOLEAN, next : [Elements -> Places], prev : [Elements -> Places],
   nr : [Elements -> Int], inside : SUBSET Elements, head : Places, tail : Places, count : Nat,
   renumber : BOOLEAN, curr : Places, status : {"running", "crashed", "hangs"}]

\* What the steps on the links leave alone.
SameClass(l, m) == m.kind = l.kind /\ m.ring = l.ring
SameEnds(l, m) == m.head = l.head /\ m.tail = l.tail /\ m.count = l.count /\ m.status = l.status
SameLinks(l, m) == m.next = l.next /\ m.prev = l.prev
SameRest(l, m) == SameClass(l, m) /\ SameEnds(l, m)

\* TSingleElement::setNext(): the one link is set and nothing else changes.
LEMMA SetNextIs ==
  ASSUME NEW l \in ListRecord, NEW e \in Elements, NEW n \in Places, NEW m, m = SetNext(l, e, n)
  PROVE  /\ m \in ListRecord /\ SameRest(l, m) /\ m.curr = l.curr /\ m.inside = l.inside
         /\ m.next = [l.next EXCEPT ![e] = n] /\ m.prev = l.prev
BY DEF SetNext, ListRecord, SameClass, SameEnds, SameRest

\* TDoubleElement::setPrev(), the same for the link back; the null pointer has none.
LEMMA SetPrevIs ==
  ASSUME NEW l \in ListRecord, NEW e \in Places, NEW p \in Places, NEW m, m = SetPrev(l, e, p)
  PROVE  /\ m \in ListRecord /\ SameRest(l, m) /\ m.curr = l.curr /\ m.inside = l.inside
         /\ m.prev = (IF e = NullPtr THEN l.prev ELSE [l.prev EXCEPT ![e] = p]) /\ m.next = l.next
<1>1. CASE e = NullPtr
  BY <1>1 DEF SetPrev, SameClass, SameEnds, SameRest
<1>2. CASE e # NullPtr
  BY <1>2 DEF SetPrev, ListRecord, Places, SameClass, SameEnds, SameRest
<1> QED
  BY <1>1, <1>2

\* An element that joins the list changes no link.
LEMMA JoinIs ==
  ASSUME NEW l \in ListRecord, NEW x \in Elements, NEW m, m = [l EXCEPT !.inside = @ \cup {x}]
  PROVE  /\ m \in ListRecord /\ SameRest(l, m) /\ SameLinks(l, m) /\ m.curr = l.curr /\ m.inside = l.inside \cup {x}
         /\ m.nr = l.nr /\ m.renumber = l.renumber
BY DEF ListRecord, SameClass, SameEnds, SameRest, SameLinks

\* What the fields of a list's record are.
LEMMA LinkTypes ==
  ASSUME NEW l \in ListRecord
  PROVE  /\ \A e \in Elements : l.next[e] \in Places /\ l.prev[e] \in Places
         /\ l.head \in Places /\ l.tail \in Places /\ l.curr \in Places /\ l.count \in Nat /\ l.inside \subseteq Elements
         /\ l.kind \in Kinds /\ l.ring \in BOOLEAN
BY DEF ListRecord

\* insertNext(): x stands between e and the element that followed it, and no other link changes.
LEMMA InsertNextIs ==
  ASSUME NEW l \in ListRecord, NEW e \in Elements, NEW x \in Elements, NEW m, m = InsertNext(l, e, x),
         NEW b, b = l.next[e], x \notin {e, b}
  PROVE  /\ m \in ListRecord /\ SameRest(l, m) /\ m.curr = l.curr
         /\ m.inside = l.inside \cup {x}
         /\ m.next[e] = x /\ m.next[x] = b /\ \A y \in Elements : y \notin {e, x} => m.next[y] = l.next[y]
         /\ l.kind = "single" => m.prev = l.prev
         /\ l.kind # "single" =>
              /\ m.prev[x] = e /\ (b # NullPtr => m.prev[b] = x)
              /\ \A y \in Elements : y \notin {x, b} => m.prev[y] = l.prev[y]
<1> DEFINE i == [l EXCEPT !.inside = @ \cup {x}]
           placed == SetNext(i, x, b)
           back == SetPrev(placed, x, e)
           linked == SetNext(back, e, x)
<1>1. /\ b \in Places /\ x \in Places /\ e \in Places /\ x # NullPtr
      /\ l.next \in [Elements -> Places] /\ l.prev \in [Elements -> Places]
  BY LinkTypes, ElementsAssumption DEF Places, ListRecord
<1>2. /\ i \in ListRecord /\ SameRest(l, i) /\ SameLinks(l, i) /\ i.curr = l.curr
      /\ i.inside = l.inside \cup {x}
  BY JoinIs
<1>3. m = IF l.kind = "single" THEN SetNext(placed, e, x) ELSE SetPrev(linked, b, x)
  BY DEF InsertNext, GetNext, Single
<1> HIDE DEF i
<1>4. /\ placed \in ListRecord /\ SameRest(i, placed) /\ placed.curr = i.curr /\ placed.inside = i.inside
      /\ placed.next = [i.next EXCEPT ![x] = b] /\ placed.prev = i.prev
  BY <1>1, <1>2, SetNextIs
<1> HIDE DEF placed
<1>5. /\ back \in ListRecord /\ SameRest(placed, back) /\ back.curr = placed.curr /\ back.inside = placed.inside
      /\ back.prev = [placed.prev EXCEPT ![x] = e] /\ back.next = placed.next
  BY <1>1, <1>4, SetPrevIs
<1> HIDE DEF back
<1>6. /\ linked \in ListRecord /\ SameRest(back, linked) /\ linked.curr = back.curr /\ linked.inside = back.inside
      /\ linked.next = [back.next EXCEPT ![e] = x] /\ linked.prev = back.prev
  BY <1>1, <1>5, SetNextIs
<1> HIDE DEF linked
<1>7. CASE l.kind = "single"
  <2>1. /\ m \in ListRecord /\ SameRest(placed, m) /\ m.curr = placed.curr /\ m.inside = placed.inside
        /\ m.next = [placed.next EXCEPT ![e] = x] /\ m.prev = placed.prev
    BY <1>1, <1>3, <1>4, <1>7, SetNextIs
  <2>2. m.next = [[l.next EXCEPT ![x] = b] EXCEPT ![e] = x] /\ m.prev = l.prev
    BY <1>2, <1>4, <2>1 DEF SameLinks
  <2>3. m.next[e] = x /\ m.next[x] = b /\ \A y \in Elements : y \notin {e, x} => m.next[y] = l.next[y]
    BY <1>1, <2>2
  <2>4. SameRest(l, m) /\ m.curr = l.curr /\ m.inside = l.inside \cup {x}
    BY <1>2, <1>4, <2>1 DEF SameClass, SameEnds, SameRest
  <2> QED
    BY <1>7, <2>1, <2>2, <2>3, <2>4
<1>8. CASE l.kind # "single"
  <2>1. /\ m \in ListRecord /\ SameRest(linked, m) /\ m.curr = linked.curr /\ m.inside = linked.inside
        /\ m.prev = (IF b = NullPtr THEN linked.prev ELSE [linked.prev EXCEPT ![b] = x]) /\ m.next = linked.next
    <3>1. m = SetPrev(linked, b, x)
      BY <1>3, <1>8
    <3>2. linked \in ListRecord /\ b \in Places /\ x \in Places
      BY <1>1, <1>6
    <3> QED
      BY <3>1, <3>2, SetPrevIs
  <2>2. m.next = [[l.next EXCEPT ![x] = b] EXCEPT ![e] = x]
    BY <1>2, <1>4, <1>5, <1>6, <2>1 DEF SameLinks
  <2>3. m.prev = IF b = NullPtr THEN [l.prev EXCEPT ![x] = e] ELSE [[l.prev EXCEPT ![x] = e] EXCEPT ![b] = x]
    BY <1>2, <1>4, <1>5, <1>6, <2>1 DEF SameLinks
  <2>4. m.next[e] = x /\ m.next[x] = b /\ \A y \in Elements : y \notin {e, x} => m.next[y] = l.next[y]
    BY <1>1, <2>2
  <2>5. /\ m.prev[x] = e /\ (b # NullPtr => m.prev[b] = x)
        /\ \A y \in Elements : y \notin {x, b} => m.prev[y] = l.prev[y]
    <3>1. b # NullPtr => b \in Elements
      BY <1>1 DEF Places
    <3> HIDE DEF Places
    <3>2. CASE b = NullPtr
      BY <1>1, <2>3, <3>2
    <3>3. CASE b # NullPtr
      BY <1>1, <2>3, <3>1, <3>3
    <3> QED
      BY <3>2, <3>3
  <2>6. SameRest(l, m) /\ m.curr = l.curr /\ m.inside = l.inside \cup {x}
    BY <1>2, <1>4, <1>5, <1>6, <2>1 DEF SameClass, SameEnds, SameRest
  <2> QED
    BY <1>8, <2>1, <2>4, <2>5, <2>6
<1> QED
  BY <1>7, <1>8

\* insertBefore(): x stands before e; in a double list the element that preceded e leads to x.
LEMMA InsertBeforeIs ==
  ASSUME NEW l \in ListRecord, NEW e \in Elements, NEW x \in Elements, NEW m, m = InsertBefore(l, e, x),
         NEW b, b = l.prev[e], x # e, l.kind # "single" => x # b
  PROVE  /\ m \in ListRecord /\ SameRest(l, m) /\ m.curr = l.curr
         /\ m.inside = l.inside \cup {x}
         /\ m.next[x] = e /\ (l.kind # "single" /\ b # NullPtr => m.next[b] = x)
         /\ \A y \in Elements : y # x /\ (l.kind = "single" \/ y # b) => m.next[y] = l.next[y]
         /\ l.kind = "single" => m.prev = l.prev
         /\ l.kind # "single" => m.prev[x] = b /\ m.prev[e] = x /\ \A y \in Elements : y \notin {x, e} => m.prev[y] = l.prev[y]
<1> DEFINE i == [l EXCEPT !.inside = @ \cup {x}]
           ahead == SetNext(i, x, e)
           placed == SetPrev(ahead, x, b)
           linked == SetPrev(placed, e, x)
<1>1. /\ b \in Places /\ x \in Places /\ e \in Places /\ x # NullPtr /\ e # NullPtr
      /\ l.next \in [Elements -> Places] /\ l.prev \in [Elements -> Places]
  BY LinkTypes, ElementsAssumption DEF Places, ListRecord
<1>2. /\ i \in ListRecord /\ SameRest(l, i) /\ SameLinks(l, i) /\ i.curr = l.curr
      /\ i.inside = l.inside \cup {x}
  BY JoinIs
<1>3. m = IF l.kind = "single" THEN ahead ELSE IF b = NullPtr THEN linked ELSE SetNext(linked, b, x)
  BY DEF InsertBefore, InsertPrev, Single
<1>d. ahead = SetNext(i, x, e) /\ placed = SetPrev(ahead, x, b) /\ linked = SetPrev(placed, e, x)
  OBVIOUS
<1> HIDE DEF i, ahead, placed, linked
<1>4. /\ ahead \in ListRecord /\ SameRest(i, ahead) /\ ahead.curr = i.curr /\ ahead.inside = i.inside
      /\ ahead.next = [i.next EXCEPT ![x] = e] /\ ahead.prev = i.prev
  BY <1>1, <1>2, <1>d, SetNextIs
<1>5. /\ placed \in ListRecord /\ SameRest(ahead, placed) /\ placed.curr = ahead.curr /\ placed.inside = ahead.inside
      /\ placed.prev = [ahead.prev EXCEPT ![x] = b] /\ placed.next = ahead.next
  BY <1>1, <1>4, <1>d, SetPrevIs
<1>6. /\ linked \in ListRecord /\ SameRest(placed, linked) /\ linked.curr = placed.curr /\ linked.inside = placed.inside
      /\ linked.prev = [placed.prev EXCEPT ![e] = x] /\ linked.next = placed.next
  <2>1. e \in Places /\ x \in Places /\ e # NullPtr /\ placed \in ListRecord /\ linked = SetPrev(placed, e, x)
    BY <1>1, <1>5, <1>d
  <2> QED
    BY <2>1, SetPrevIs, SMT
<1>7. CASE l.kind = "single"
  <2>1. SameRest(l, m) /\ m.curr = l.curr /\ m.inside = l.inside \cup {x} /\ m \in ListRecord
    BY <1>2, <1>3, <1>4, <1>7 DEF SameClass, SameEnds, SameRest
  <2>2. m.next = [l.next EXCEPT ![x] = e] /\ m.prev = l.prev
    BY <1>2, <1>3, <1>4, <1>7 DEF SameLinks
  <2>3. m.next[x] = e /\ \A y \in Elements : y # x => m.next[y] = l.next[y]
    BY <1>1, <2>2
  <2> QED
    BY <1>7, <2>1, <2>2, <2>3
<1>8. linked.prev = [[l.prev EXCEPT ![x] = b] EXCEPT ![e] = x] /\ linked.next = [l.next EXCEPT ![x] = e]
  BY <1>2, <1>4, <1>5, <1>6 DEF SameLinks
<1>9. linked.prev[x] = b /\ linked.prev[e] = x /\ \A y \in Elements : y \notin {x, e} => linked.prev[y] = l.prev[y]
  BY <1>1, <1>8
<1>10. SameRest(l, linked) /\ linked.curr = l.curr /\ linked.inside = l.inside \cup {x}
  BY <1>2, <1>4, <1>5, <1>6 DEF SameClass, SameEnds, SameRest
<1>11. CASE l.kind # "single" /\ b = NullPtr
  <2>1. linked.next[x] = e /\ \A y \in Elements : y # x => linked.next[y] = l.next[y]
    BY <1>1, <1>8
  <2>2. m = linked
    BY <1>3, <1>11
  <2> QED
    BY <1>6, <1>9, <1>10, <1>11, <2>1, <2>2
<1>12. CASE l.kind # "single" /\ b # NullPtr
  <2>1. b \in Elements
    BY <1>1, <1>12 DEF Places
  <2>2. /\ m \in ListRecord /\ SameRest(linked, m) /\ m.curr = linked.curr /\ m.inside = linked.inside
        /\ m.next = [linked.next EXCEPT ![b] = x] /\ m.prev = linked.prev
    BY <1>1, <1>3, <1>6, <1>12, <2>1, SetNextIs
  <2>3. m.next = [[l.next EXCEPT ![x] = e] EXCEPT ![b] = x]
    BY <1>8, <2>2
  <2>4. m.next[x] = e /\ m.next[b] = x /\ \A y \in Elements : y \notin {x, b} => m.next[y] = l.next[y]
    BY <1>1, <1>12, <2>1, <2>3
  <2>5. SameRest(l, m) /\ m.curr = l.curr /\ m.inside = l.inside \cup {x}
    BY <1>10, <2>2 DEF SameClass, SameEnds, SameRest
  <2> QED
    BY <1>9, <1>12, <2>2, <2>4, <2>5
<1> QED
  BY <1>7, <1>11, <1>12

\* An element that leaves the list is nobody's current element any more, and no link changes.
LEMMA RemovedIs ==
  ASSUME NEW l \in ListRecord, NEW e \in Elements, NEW m, m = Removed(l, e)
  PROVE  /\ m \in ListRecord /\ SameRest(l, m) /\ SameLinks(l, m) /\ m.inside = l.inside \ {e}
         /\ m.curr = IF l.curr = e THEN NullPtr ELSE l.curr
BY DEF Removed, ListRecord, Places, SameClass, SameEnds, SameRest, SameLinks

\* An element that is taken out has no links left, and in a double list its neighbours are linked to each other.
LEMMA DetachIs ==
  ASSUME NEW l \in ListRecord, NEW e \in Elements, NEW m, m = Detach(l, e),
         NEW p, p = l.prev[e], NEW n, n = l.next[e]
  PROVE  /\ m \in ListRecord /\ SameRest(l, m)
         /\ m.curr = IF l.curr = e THEN NullPtr ELSE l.curr
         /\ m.inside = l.inside \ {e}
         /\ m.next[e] = NullPtr
         /\ l.kind = "single" => m.prev = l.prev /\ \A y \in Elements : y # e => m.next[y] = l.next[y]
         /\ l.kind # "single" =>
              /\ m.prev[e] = NullPtr
              /\ p \notin {NullPtr, e} => m.next[p] = n
              /\ n \notin {NullPtr, e} => m.prev[n] = p
              /\ \A y \in Elements : y \notin {p, e} => m.next[y] = l.next[y]
              /\ \A y \in Elements : y \notin {n, e} => m.prev[y] = l.prev[y]
<1> DEFINE gone == Removed(l, e)
           joined == IF p \in {NullPtr, e} THEN gone ELSE SetNext(gone, p, n)
           mirrored == IF n \in {NullPtr, e} THEN joined ELSE SetPrev(joined, n, p)
           cleared == SetPrev(mirrored, e, NullPtr)
<1>1. /\ p \in Places /\ n \in Places /\ e \in Places /\ NullPtr \in Places /\ e # NullPtr
      /\ l.next \in [Elements -> Places] /\ l.prev \in [Elements -> Places]
      /\ (p # NullPtr => p \in Elements) /\ (n # NullPtr => n \in Elements)
  BY LinkTypes, ElementsAssumption DEF Places, ListRecord
<1>2. /\ gone \in ListRecord /\ SameRest(l, gone) /\ SameLinks(l, gone) /\ gone.inside = l.inside \ {e}
      /\ gone.curr = IF l.curr = e THEN NullPtr ELSE l.curr
  BY RemovedIs
<1>3. m = IF l.kind = "single" THEN SetNext(gone, e, NullPtr) ELSE SetNext(cleared, e, NullPtr)
  BY DEF Detach, Single
<1> HIDE DEF gone
<1>4. /\ joined \in ListRecord /\ SameRest(gone, joined) /\ joined.curr = gone.curr /\ joined.inside = gone.inside
      /\ joined.next = (IF p \in {NullPtr, e} THEN gone.next ELSE [gone.next EXCEPT ![p] = n]) /\ joined.prev = gone.prev
  <2>1. CASE p \in {NullPtr, e}
    BY <1>2, <2>1 DEF SameClass, SameEnds, SameRest
  <2>2. CASE p \notin {NullPtr, e}
    <3>1. p \in Elements /\ joined = SetNext(gone, p, n)
      BY <1>1, <2>2 DEF Places
    <3> HIDE DEF joined
    <3> QED
      BY <1>1, <1>2, <2>2, <3>1, SetNextIs
  <2> QED
    BY <2>1, <2>2
<1> HIDE DEF joined
<1>5. /\ mirrored \in ListRecord /\ SameRest(joined, mirrored) /\ mirrored.curr = joined.curr /\ mirrored.inside = joined.inside
      /\ mirrored.prev = (IF n \in {NullPtr, e} THEN joined.prev ELSE [joined.prev EXCEPT ![n] = p]) /\ mirrored.next = joined.next
  <2>1. CASE n \in {NullPtr, e}
    BY <1>4, <2>1 DEF SameClass, SameEnds, SameRest
  <2>2. CASE n \notin {NullPtr, e}
    <3>1. n # NullPtr /\ mirrored = SetPrev(joined, n, p)
      BY <2>2
    <3> HIDE DEF mirrored
    <3> QED
      BY <1>1, <1>4, <2>2, <3>1, SetPrevIs
  <2> QED
    BY <2>1, <2>2
<1> HIDE DEF mirrored
<1>6. /\ cleared \in ListRecord /\ SameRest(mirrored, cleared) /\ cleared.curr = mirrored.curr /\ cleared.inside = mirrored.inside
      /\ cleared.prev = [mirrored.prev EXCEPT ![e] = NullPtr] /\ cleared.next = mirrored.next
  BY <1>1, <1>5, SetPrevIs
<1> HIDE DEF cleared
<1>7. CASE l.kind = "single"
  <2>1. /\ m \in ListRecord /\ SameRest(gone, m) /\ m.curr = gone.curr /\ m.inside = gone.inside
        /\ m.next = [gone.next EXCEPT ![e] = NullPtr] /\ m.prev = gone.prev
    BY <1>1, <1>2, <1>3, <1>7, SetNextIs
  <2>2. m.next = [l.next EXCEPT ![e] = NullPtr] /\ m.prev = l.prev
    BY <1>2, <2>1 DEF SameLinks
  <2>3. m.next[e] = NullPtr /\ \A y \in Elements : y # e => m.next[y] = l.next[y]
    BY <1>1, <2>2
  <2>4. SameRest(l, m) /\ m.curr = gone.curr /\ m.inside = gone.inside
    BY <1>2, <2>1 DEF SameClass, SameEnds, SameRest
  <2> QED
    BY <1>2, <1>7, <2>1, <2>2, <2>3, <2>4
<1>8. CASE l.kind # "single"
  <2>1. /\ m \in ListRecord /\ SameRest(cleared, m) /\ m.curr = cleared.curr /\ m.inside = cleared.inside
        /\ m.next = [cleared.next EXCEPT ![e] = NullPtr] /\ m.prev = cleared.prev
    BY <1>1, <1>3, <1>6, <1>8, SetNextIs
  <2>2. m.next = [(IF p \in {NullPtr, e} THEN l.next ELSE [l.next EXCEPT ![p] = n]) EXCEPT ![e] = NullPtr]
    BY <1>2, <1>4, <1>5, <1>6, <2>1 DEF SameLinks
  <2>3. m.prev = [(IF n \in {NullPtr, e} THEN l.prev ELSE [l.prev EXCEPT ![n] = p]) EXCEPT ![e] = NullPtr]
    BY <1>2, <1>4, <1>5, <1>6, <2>1 DEF SameLinks
  <2>4. /\ m.next[e] = NullPtr /\ (p \notin {NullPtr, e} => m.next[p] = n)
        /\ \A y \in Elements : y \notin {p, e} => m.next[y] = l.next[y]
    <3>1. CASE p \in {NullPtr, e}
      BY <1>1, <2>2, <3>1
    <3>2. CASE p \notin {NullPtr, e}
      BY <1>1, <2>2, <3>2
    <3> QED
      BY <3>1, <3>2
  <2>5. /\ m.prev[e] = NullPtr /\ (n \notin {NullPtr, e} => m.prev[n] = p)
        /\ \A y \in Elements : y \notin {n, e} => m.prev[y] = l.prev[y]
    <3>1. CASE n \in {NullPtr, e}
      BY <1>1, <2>3, <3>1
    <3>2. CASE n \notin {NullPtr, e}
      BY <1>1, <2>3, <3>2
    <3> QED
      BY <3>1, <3>2
  <2>6. SameRest(l, m) /\ m.curr = gone.curr /\ m.inside = gone.inside
    BY <1>2, <1>4, <1>5, <1>6, <2>1 DEF SameClass, SameEnds, SameRest
  <2> QED
    BY <1>2, <1>8, <2>1, <2>4, <2>5, <2>6
<1> QED
  BY <1>7, <1>8

-----------------------------------------------------------------------------
(* Lists that are in order *)

\* The links of a list of the elements s, in this order.
LinkShape(kind, ring, next, prev, s) ==
  /\ Leads(next, s)
  /\ Len(s) > 0 => next[LastIn(s)] = NullPtr \/ (ring /\ next[LastIn(s)] = s[1])
  /\ kind # "single" =>
       /\ \A i \in 2 .. Len(s) : prev[s[i]] = s[i - 1]
       /\ Len(s) > 0 => prev[s[1]] = IF next[LastIn(s)] = NullPtr THEN NullPtr ELSE LastIn(s)
  /\ \A e \in Elements \ SetOfRow(s) : next[e] = NullPtr /\ (kind # "single" => prev[e] = NullPtr)

\* The list's own fields agree with the row s: members, count, head, tail, current element.
EndShape(l, s) ==
  /\ l.inside = SetOfRow(s) /\ l.count = Len(s) /\ l.head = FirstIn(s) /\ l.tail = LastIn(s)
  /\ l.curr \in SetOfRow(s) \cup {NullPtr}

\* The list is the row s, in its links and in its own fields.
Shape(l, s) ==
  /\ l \in ListRecord /\ Running(l) /\ ~(l.kind = "single" /\ l.ring)
  /\ LinkShape(l.kind, l.ring, l.next, l.prev, s)
  /\ EndShape(l, s)

\* What a row of elements, its ends and its members have to do with each other.
LEMMA RowFacts ==
  ASSUME NEW s \in Seq(Elements)
  PROVE  /\ Len(s) \in Nat /\ SetOfRow(s) \subseteq Elements /\ NullPtr \notin SetOfRow(s)
         /\ \A i \in 1 .. Len(s) : s[i] \in Elements /\ s[i] \in SetOfRow(s) /\ s[i] # NullPtr
         /\ \A x \in SetOfRow(s) : \E i \in 1 .. Len(s) : s[i] = x
         /\ Len(s) = 0 <=> s = <<>>
         /\ Len(s) = 0 <=> SetOfRow(s) = {}
         /\ Len(s) # 0 => /\ FirstIn(s) = s[1] /\ LastIn(s) = s[Len(s)] /\ 1 \in 1 .. Len(s) /\ Len(s) \in 1 .. Len(s)
                          /\ FirstIn(s) \in SetOfRow(s) /\ LastIn(s) \in SetOfRow(s)
         /\ Len(s) = 0 => FirstIn(s) = NullPtr /\ LastIn(s) = NullPtr
         /\ DOMAIN s = 1 .. Len(s) /\ Range(s) = SetOfRow(s)
<1>1. /\ Len(s) \in Nat /\ \A i \in 1 .. Len(s) : s[i] \in Elements
  BY LenProperties, ElementOfSeq
<1>2. Len(s) = 0 <=> s = <<>>
  BY EmptySeq
<1>3. DOMAIN s = 1 .. Len(s)
  BY LenProperties
<1>4. Len(s) = 0 => SetOfRow(s) = {}
  BY DEF SetOfRow
<1>5. Len(s) # 0 => 1 \in 1 .. Len(s) /\ Len(s) \in 1 .. Len(s)
  BY <1>1
<1>6. \A i \in 1 .. Len(s) : s[i] \in SetOfRow(s)
  BY DEF SetOfRow
<1>7. Len(s) # 0 => FirstIn(s) = s[1] /\ LastIn(s) = s[Len(s)]
  BY DEF FirstIn, LastIn
<1>8. Len(s) = 0 => FirstIn(s) = NullPtr /\ LastIn(s) = NullPtr
  BY DEF FirstIn, LastIn
<1>9. Range(s) = SetOfRow(s)
  BY <1>3 DEF Range, SetOfRow
<1>10. \A x \in SetOfRow(s) : \E i \in 1 .. Len(s) : s[i] = x
  BY DEF SetOfRow
<1>11. SetOfRow(s) \subseteq Elements /\ NullPtr \notin SetOfRow(s) /\ \A i \in 1 .. Len(s) : s[i] # NullPtr
  BY <1>1, <1>10, ElementsAssumption
<1> QED
  BY <1>1, <1>2, <1>3, <1>4, <1>5, <1>6, <1>7, <1>8, <1>9, <1>10, <1>11, Zenon

\* What a list that is the row s gives, Row(l) = s among it: the row is the one the model reads.
LEMMA ShapeFacts ==
  ASSUME NEW l, NEW s, Shape(l, s)
  PROVE  /\ l \in ListRecord /\ Running(l) /\ s \in Seq(Elements) /\ Injective(s) /\ Leads(l.next, s) /\ Row(l) = s
         /\ l.inside = SetOfRow(s) /\ l.count = Len(s) /\ l.head = FirstIn(s) /\ l.tail = LastIn(s)
         /\ l.curr \in SetOfRow(s) \cup {NullPtr}
         /\ From(l, l.head) = s
<1>1. Leads(l.next, s)
  BY DEF Shape, LinkShape
<1>2. Walk(l.next, FirstIn(s)) = s
  BY <1>1, WalkIs
<1> QED
  BY <1>1, <1>2 DEF Shape, EndShape, LinkShape, Leads, Row, From

\* The number of an element is a number.
LEMMA RenumberedIs ==
  ASSUME NEW l \in ListRecord, NEW s, Leads(l.next, s), l.head = FirstIn(s), NEW m, m = Renumbered(l)
  PROVE  /\ m \in ListRecord /\ SameRest(l, m) /\ SameLinks(l, m) /\ m.inside = l.inside /\ m.curr = l.curr
<1> DEFINE before(i) == IF i = 2 THEN 1 ELSE l.nr[s[i]]
           given(i) == IF i < Len(s) THEN before(i + 1) + 1 ELSE before(i)
           nr == [e \in Elements |-> IF e \in Range(s) THEN given(PlaceOf(s, e)) ELSE l.nr[e]]
<1>1. Row(l) = s
  BY WalkIs DEF Row, From
<1>2. m = [l EXCEPT !.nr = nr]
  BY <1>1 DEF Renumbered
<1>3. /\ Len(s) \in Nat /\ \A i \in 1 .. Len(s) : s[i] \in Elements
      /\ DOMAIN s = 1 .. Len(s)
  BY RowFacts DEF Leads
<1>4. \A e \in Elements : l.nr[e] \in Int
  BY DEF ListRecord
<1>5. \A i \in 1 .. Len(s) : before(i) \in Int
  BY <1>3, <1>4
<1> HIDE DEF before
<1>6. \A i \in 1 .. Len(s) : given(i) \in Int
  BY <1>3, <1>5
<1> HIDE DEF given
<1>7. \A e \in Range(s) : PlaceOf(s, e) \in 1 .. Len(s)
  BY <1>3 DEF PlaceOf, Range
<1>8. nr \in [Elements -> Int]
  BY <1>4, <1>6, <1>7
<1> HIDE DEF nr
<1> QED
  BY <1>2, <1>8 DEF ListRecord, SameRest, SameClass, SameEnds, SameLinks

\* head(): it ends if the walk from the new head does.
LEMMA SetHeadIs ==
  ASSUME NEW l \in ListRecord, Running(l), NEW s, Leads(l.next, s), NEW e, e = FirstIn(s), NEW m, m = SetHead(l, e)
  PROVE  /\ Running(m) <=> Len(s) > 0 /\ l.next[LastIn(s)] \in {NullPtr, LastIn(s)}
         /\ Running(m) => /\ m \in ListRecord /\ SameClass(l, m) /\ SameLinks(l, m) /\ m.inside = l.inside /\ m.curr = l.curr
                          /\ m.tail = l.tail /\ m.count = l.count /\ m.head = e
<1>1. CASE Len(s) = 0
  <2>1. m = Crashed(l)
    BY <1>1 DEF SetHead, FirstIn
  <2>2. ~Running(m)
    BY <2>1 DEF Crashed, Running, ListRecord
  <2> QED
    BY <1>1, <2>2
<1>2. CASE Len(s) # 0
  <2> DEFINE first == [l EXCEPT !.nr[e] = 0, !.head = e]
  <2>1. s \in Seq(Elements) /\ Len(s) \in Nat /\ Len(s) > 0 /\ e \in Elements /\ e # NullPtr /\ LastIn(s) = s[Len(s)]
    BY <1>2, RowFacts DEF Leads
  <2>2. /\ first \in ListRecord /\ SameClass(l, first) /\ SameLinks(l, first) /\ first.inside = l.inside /\ first.curr = l.curr
        /\ first.tail = l.tail /\ first.count = l.count /\ first.head = e /\ first.status = l.status
    <3> DEFINE zero == [l EXCEPT !.nr[e] = 0]
    <3>1. e \in Places
      BY <2>1 DEF Places
    <3>2. [l.nr EXCEPT ![e] = 0] \in [Elements -> Int]
      BY <2>1 DEF ListRecord
    <3>3. zero = [l EXCEPT !.nr = [l.nr EXCEPT ![e] = 0]]
      BY DEF ListRecord
    <3>4. zero \in ListRecord /\ SameRest(l, zero) /\ SameLinks(l, zero) /\ zero.inside = l.inside /\ zero.curr = l.curr
      BY <3>2, <3>3 DEF ListRecord, SameRest, SameClass, SameEnds, SameLinks
    <3>5. first = [zero EXCEPT !.head = e]
      BY DEF ListRecord
    <3> HIDE DEF zero, first
    <3> QED
      BY <3>1, <3>4, <3>5 DEF ListRecord, SameRest, SameClass, SameEnds, SameLinks
  <2>3. m = IF GoesOnForEver(first, e) THEN Hanging(first) ELSE Renumbered(first)
    BY <2>1 DEF SetHead
  <2> HIDE DEF first
  <2>4. From(first, e) = s
    BY <2>2, WalkIs DEF From, SameLinks
  <2>5. GoesOnForEver(first, e) <=> l.next[LastIn(s)] \notin {NullPtr, LastIn(s)}
    BY <2>1, <2>2, <2>4 DEF GoesOnForEver, GetNext, SameLinks
  <2>6. CASE GoesOnForEver(first, e)
    <3>1. ~Running(m)
      BY <2>2, <2>3, <2>6 DEF Hanging, Running, ListRecord
    <3> QED
      BY <2>5, <2>6, <3>1
  <2>7. CASE ~GoesOnForEver(first, e)
    <3>1. m = Renumbered(first) /\ Leads(first.next, s) /\ first.head = FirstIn(s)
      BY <2>2, <2>3, <2>7 DEF SameLinks
    <3>2. /\ m \in ListRecord /\ SameRest(first, m) /\ SameLinks(first, m) /\ m.inside = first.inside /\ m.curr = first.curr
      BY <2>2, <3>1, RenumberedIs
    <3> QED
      BY <2>1, <2>2, <2>5, <2>7, <3>2 DEF SameRest, SameClass, SameEnds, SameLinks, Running
  <2> QED
    BY <2>6, <2>7
<1> QED
  BY <1>1, <1>2

-----------------------------------------------------------------------------
(* Rows with one element more or less *)

\* The row q is the row r with x as its k-th element, and r without its k-th, place by place.
InsertedAs(q, r, k, x) ==
  /\ q \in Seq(Elements) /\ Len(q) = Len(r) + 1
  /\ \A i \in 1 .. Len(r) + 1 : q[i] = IF i < k THEN r[i] ELSE IF i = k THEN x ELSE r[i - 1]

RemovedAs(q, r, k) ==
  /\ q \in Seq(Elements) /\ Len(q) = Len(r) - 1
  /\ \A i \in 1 .. Len(r) - 1 : q[i] = IF i < k THEN r[i] ELSE r[i + 1]

\* SequencesExt's InsertAt, element by element.
LEMMA InsertedAt ==
  ASSUME NEW r \in Seq(Elements), NEW x \in Elements, NEW k, k \in 1 .. Len(r) + 1, NEW q, q = InsertAt(r, k, x)
  PROVE  InsertedAs(q, r, k, x)
<1> DEFINE n == Len(r)
           a == SubSeq(r, 1, k - 1)
           b == <<x>>
           c == SubSeq(r, k, n)
<1>1. n \in Nat /\ k \in Nat /\ k <= n + 1 /\ k >= 1 /\ \A i \in 1 .. n : r[i] \in Elements
  BY LenProperties
<1>2. q = (a \o b) \o c
  BY DEF InsertAt
<1>3. a \in Seq(Elements) /\ Len(a) = k - 1 /\ \A i \in 1 .. k - 1 : a[i] = r[i]
  <2>1. (\A i \in 1 .. k - 1 : r[i] \in Elements) /\ k - 1 \in Int
    BY <1>1
  <2>2. /\ a \in Seq(Elements) /\ Len(a) = (IF 1 <= k - 1 THEN (k - 1) - 1 + 1 ELSE 0)
        /\ \A i \in 1 .. (k - 1) - 1 + 1 : a[i] = r[1 + i - 1]
    BY <2>1, SubSeqProperties
  <2> HIDE DEF a
  <2> QED
    BY <1>1, <2>2
<1>4. c \in Seq(Elements) /\ Len(c) = (n - k) + 1 /\ \A i \in 1 .. (n - k) + 1 : c[i] = r[(k + i) - 1]
  <2>1. (\A i \in k .. n : r[i] \in Elements) /\ k \in Int /\ n \in Int
    BY <1>1
  <2>2. /\ c \in Seq(Elements) /\ Len(c) = (IF k <= n THEN n - k + 1 ELSE 0)
        /\ \A i \in 1 .. n - k + 1 : c[i] = r[k + i - 1]
    BY <2>1, SubSeqProperties
  <2> HIDE DEF c
  <2> QED
    BY <1>1, <2>2
<1>5. b \in Seq(Elements) /\ Len(b) = 1 /\ b[1] = x
  OBVIOUS
<1> HIDE DEF n, a, b, c
<1>6. a \o b \in Seq(Elements) /\ Len(a \o b) = k /\ \A i \in 1 .. k : (a \o b)[i] = IF i < k THEN r[i] ELSE x
  <2>1. /\ a \o b \in Seq(Elements) /\ Len(a \o b) = Len(a) + Len(b)
        /\ \A i \in 1 .. Len(a) + Len(b) : (a \o b)[i] = IF i <= Len(a) THEN a[i] ELSE b[i - Len(a)]
    BY <1>3, <1>5, ConcatProperties
  <2> QED
    BY <1>1, <1>3, <1>5, <2>1
<1> DEFINE d == a \o b
<1>7. d \in Seq(Elements) /\ Len(d) = k /\ (\A i \in 1 .. k : d[i] = IF i < k THEN r[i] ELSE x) /\ q = d \o c
  BY <1>2, <1>6
<1> HIDE DEF d
<1>8. /\ q \in Seq(Elements) /\ Len(q) = Len(d) + Len(c)
      /\ \A i \in 1 .. Len(d) + Len(c) : q[i] = IF i <= Len(d) THEN d[i] ELSE c[i - Len(d)]
  <2>1. /\ d \o c \in Seq(Elements) /\ Len(d \o c) = Len(d) + Len(c)
        /\ \A i \in 1 .. Len(d) + Len(c) : (d \o c)[i] = IF i <= Len(d) THEN d[i] ELSE c[i - Len(d)]
    <3>1. d \in Seq(Elements) /\ c \in Seq(Elements)
      BY <1>4, <1>7
    <3> QED
      BY <3>1, ConcatProperties
  <2>2. q = d \o c
    BY <1>7
  <2> QED
    BY <2>1, <2>2, Zenon
<1>9. k + ((n - k) + 1) = n + 1
  BY <1>1
<1>10. /\ q \in Seq(Elements) /\ Len(q) = n + 1
       /\ \A i \in 1 .. n + 1 : q[i] = IF i <= k THEN d[i] ELSE c[i - k]
  BY <1>4, <1>7, <1>8, <1>9
<1>11. ASSUME NEW i \in 1 .. n + 1
       PROVE  q[i] = IF i < k THEN r[i] ELSE IF i = k THEN x ELSE r[i - 1]
  <2>1. CASE i <= k
    BY <1>1, <1>7, <1>10, <2>1
  <2>2. CASE ~(i <= k)
    <3>1. i - k \in 1 .. (n - k) + 1 /\ (k + (i - k)) - 1 = i - 1 /\ ~(i < k) /\ i # k
      BY <1>1, <2>2
    <3> QED
      BY <1>4, <1>10, <2>2, <3>1
  <2> QED
    BY <2>1, <2>2
<1> QED
  BY <1>10, <1>11 DEF n, InsertedAs

\* SequencesExt's RemoveAt, element by element.
LEMMA RemovedAt ==
  ASSUME NEW r \in Seq(Elements), NEW k \in 1 .. Len(r), NEW q, q = RemoveAt(r, k)
  PROVE  RemovedAs(q, r, k)
<1> DEFINE n == Len(r)
           a == SubSeq(r, 1, k - 1)
           c == SubSeq(r, k + 1, n)
<1>1. n \in Nat /\ k \in Nat /\ k <= n /\ k >= 1 /\ \A i \in 1 .. n : r[i] \in Elements
  BY LenProperties
<1>2. q = a \o c
  BY DEF RemoveAt
<1>3. a \in Seq(Elements) /\ Len(a) = k - 1 /\ \A i \in 1 .. k - 1 : a[i] = r[i]
  <2>1. (\A i \in 1 .. k - 1 : r[i] \in Elements) /\ k - 1 \in Int
    BY <1>1
  <2>2. /\ a \in Seq(Elements) /\ Len(a) = (IF 1 <= k - 1 THEN (k - 1) - 1 + 1 ELSE 0)
        /\ \A i \in 1 .. (k - 1) - 1 + 1 : a[i] = r[1 + i - 1]
    BY <2>1, SubSeqProperties
  <2> HIDE DEF a
  <2> QED
    BY <1>1, <2>2
<1>4. c \in Seq(Elements) /\ Len(c) = n - k /\ \A i \in 1 .. n - k : c[i] = r[k + i]
  <2>1. (\A i \in k + 1 .. n : r[i] \in Elements) /\ k + 1 \in Int /\ n \in Int
    BY <1>1
  <2>2. /\ c \in Seq(Elements) /\ Len(c) = (IF k + 1 <= n THEN n - (k + 1) + 1 ELSE 0)
        /\ \A i \in 1 .. n - (k + 1) + 1 : c[i] = r[(k + 1) + i - 1]
    BY <2>1, SubSeqProperties
  <2> HIDE DEF c
  <2>3. n - (k + 1) + 1 = n - k /\ (~(k + 1 <= n) => n - k = 0) /\ \A i \in 1 .. n - k : (k + 1) + i - 1 = k + i
    BY <1>1
  <2> QED
    BY <2>2, <2>3
<1> HIDE DEF n, a, c
<1>5. /\ q \in Seq(Elements) /\ Len(q) = Len(a) + Len(c)
      /\ \A i \in 1 .. Len(a) + Len(c) : q[i] = IF i <= Len(a) THEN a[i] ELSE c[i - Len(a)]
  <2>1. /\ a \o c \in Seq(Elements) /\ Len(a \o c) = Len(a) + Len(c)
        /\ \A i \in 1 .. Len(a) + Len(c) : (a \o c)[i] = IF i <= Len(a) THEN a[i] ELSE c[i - Len(a)]
    <3>1. a \in Seq(Elements) /\ c \in Seq(Elements)
      BY <1>3, <1>4
    <3> QED
      BY <3>1, ConcatProperties
  <2> QED
    BY <1>2, <2>1, Zenon
<1>6. (k - 1) + (n - k) = n - 1
  BY <1>1
<1>7. /\ q \in Seq(Elements) /\ Len(q) = n - 1
      /\ \A i \in 1 .. n - 1 : q[i] = IF i <= k - 1 THEN a[i] ELSE c[i - (k - 1)]
  BY <1>3, <1>4, <1>5, <1>6
<1>8. ASSUME NEW i \in 1 .. n - 1
      PROVE  q[i] = IF i < k THEN r[i] ELSE r[i + 1]
  <2>1. CASE i < k
    BY <1>1, <1>3, <1>7, <2>1
  <2>2. CASE ~(i < k)
    <3>1. i - (k - 1) \in 1 .. n - k /\ k + (i - (k - 1)) = i + 1 /\ ~(i <= k - 1)
      BY <1>1, <2>2
    <3> QED
      BY <1>4, <1>7, <2>2, <3>1
  <2> QED
    BY <2>1, <2>2
<1> QED
  BY <1>7, <1>8 DEF n, RemovedAs

\* The row t is the row s with x as its k-th element; t is s without its k-th element.
RowWith(t, s, k, x) ==
  /\ t \in Seq(Elements) /\ Injective(t) /\ Len(t) = Len(s) + 1 /\ SetOfRow(t) = SetOfRow(s) \cup {x}
  /\ \A i \in 1 .. Len(s) : t[IF i < k THEN i ELSE i + 1] = s[i]
  /\ \A i \in 1 .. Len(s) + 1 : t[i] = IF i < k THEN s[i] ELSE IF i = k THEN x ELSE s[i - 1]

RowWithout(t, s, k) ==
  /\ t \in Seq(Elements) /\ Injective(t) /\ Len(t) = Len(s) - 1 /\ SetOfRow(t) = SetOfRow(s) \ {s[k]}
  /\ \A i \in 1 .. Len(s) - 1 : t[i] = IF i < k THEN s[i] ELSE s[i + 1]

\* An element that was not in the row stands there once, where it has been put.
LEMMA InsertedRow ==
  ASSUME NEW s \in Seq(Elements), Injective(s), NEW x \in Elements \ SetOfRow(s), NEW k, k \in 1 .. Len(s) + 1,
         NEW t, t = InsertAt(s, k, x)
  PROVE  RowWith(t, s, k, x)
<1>0. x \in Elements
  OBVIOUS
<1>1. /\ t \in Seq(Elements) /\ Len(t) = Len(s) + 1
      /\ \A i \in 1 .. Len(s) + 1 : t[i] = IF i < k THEN s[i] ELSE IF i = k THEN x ELSE s[i - 1]
  <2>1. InsertedAs(t, s, k, x)
    BY <1>0, InsertedAt
  <2> QED
    BY <2>1 DEF InsertedAs
<1>2. Len(s) \in Nat /\ k \in Nat /\ k >= 1 /\ k <= Len(s) + 1
  BY LenProperties
<1>3. \A i \in 1 .. Len(s) : s[i] # x
  BY RowFacts
<1>4. ASSUME NEW i \in 1 .. Len(s)
      PROVE  LET j == IF i < k THEN i ELSE i + 1 IN j \in 1 .. Len(s) + 1 /\ t[j] = s[i]
  <2>1. CASE i < k
    BY <1>1, <1>2, <2>1
  <2>2. CASE ~(i < k)
    <3>1. i + 1 \in 1 .. Len(s) + 1 /\ ~(i + 1 < k) /\ i + 1 # k /\ (i + 1) - 1 = i
      BY <1>2, <2>2
    <3> QED
      BY <1>1, <2>2, <3>1
  <2> QED
    BY <2>1, <2>2
<1>5. Injective(t)
  <2> SUFFICES ASSUME NEW i \in 1 .. Len(s) + 1, NEW j \in 1 .. Len(s) + 1, t[i] = t[j]
               PROVE  i = j
    BY <1>1 DEF Injective
  <2> DEFINE a(m) == IF m < k THEN m ELSE m - 1
  <2>1. ASSUME NEW m \in 1 .. Len(s) + 1, m # k
        PROVE  a(m) \in 1 .. Len(s) /\ t[m] = s[a(m)]
    <3>1. CASE m < k
      BY <1>1, <1>2, <3>1
    <3>2. CASE ~(m < k)
      <4>1. m - 1 \in 1 .. Len(s)
        BY <1>2, <2>1, <3>2
      <4> QED
        BY <1>1, <2>1, <3>2, <4>1
    <3> QED
      BY <3>1, <3>2
  <2>2. t[k] = x
    BY <1>1, <1>2
  <2>3. CASE i = k \/ j = k
    BY <1>3, <2>1, <2>2, <2>3
  <2>4. CASE i # k /\ j # k
    <3>1. a(i) \in 1 .. Len(s) /\ a(j) \in 1 .. Len(s) /\ s[a(i)] = s[a(j)]
      BY <2>1, <2>4
    <3>2. a(i) = a(j)
      BY <3>1 DEF Injective
    <3> QED
      BY <1>2, <2>4, <3>2
  <2> QED
    BY <2>3, <2>4
<1>6. SetOfRow(t) = SetOfRow(s) \cup {x}
  <2>1. ASSUME NEW y \in SetOfRow(s)
        PROVE  y \in SetOfRow(t)
    <3>1. PICK i \in 1 .. Len(s) : s[i] = y
      BY DEF SetOfRow
    <3> QED
      BY <1>1, <1>4, <3>1 DEF SetOfRow
  <2>2. x \in SetOfRow(t)
    <3>1. k \in 1 .. Len(t) /\ t[k] = x
      BY <1>1, <1>2
    <3> QED
      BY <3>1 DEF SetOfRow
  <2>3. ASSUME NEW i \in 1 .. Len(t)
        PROVE  t[i] \in SetOfRow(s) \cup {x}
    <3>1. CASE i < k
      <4>1. i \in 1 .. Len(s)
        BY <1>1, <1>2, <3>1
      <4> QED
        BY <1>1, <3>1, <4>1 DEF SetOfRow
    <3>2. CASE i = k
      BY <1>1, <1>2, <3>2
    <3>3. CASE i > k
      <4>1. i - 1 \in 1 .. Len(s) /\ ~(i < k) /\ i # k
        BY <1>1, <1>2, <3>3
      <4> QED
        BY <1>1, <4>1 DEF SetOfRow
    <3> QED
      BY <1>1, <1>2, <3>1, <3>2, <3>3
  <2> QED
    BY <2>1, <2>2, <2>3 DEF SetOfRow
<1> QED
  BY <1>1, <1>4, <1>5, <1>6 DEF RowWith

\* A row without its k-th element has all the others, in their order.
LEMMA RemovedRow ==
  ASSUME NEW s \in Seq(Elements), Injective(s), NEW k, k \in 1 .. Len(s), NEW t, t = RemoveAt(s, k)
  PROVE  RowWithout(t, s, k)
<1>1. /\ t \in Seq(Elements) /\ Len(t) = Len(s) - 1
      /\ \A i \in 1 .. Len(s) - 1 : t[i] = IF i < k THEN s[i] ELSE s[i + 1]
  <2>1. RemovedAs(t, s, k)
    BY RemovedAt
  <2> QED
    BY <2>1 DEF RemovedAs
<1>2. Len(s) \in Nat /\ k \in Nat /\ k >= 1 /\ k <= Len(s)
  BY LenProperties
<1> DEFINE a(m) == IF m < k THEN m ELSE m + 1
<1>3. ASSUME NEW i \in 1 .. Len(s) - 1
      PROVE  a(i) \in 1 .. Len(s) /\ a(i) # k /\ t[i] = s[a(i)]
  BY <1>1, <1>2
<1>4. Injective(t)
  <2> SUFFICES ASSUME NEW i \in 1 .. Len(s) - 1, NEW j \in 1 .. Len(s) - 1, t[i] = t[j]
               PROVE  i = j
    BY <1>1 DEF Injective
  <2>1. a(i) \in 1 .. Len(s) /\ a(j) \in 1 .. Len(s) /\ s[a(i)] = s[a(j)]
    BY <1>3
  <2>2. a(i) = a(j)
    BY <2>1 DEF Injective
  <2> QED
    BY <1>2, <2>2
<1>5. SetOfRow(t) = SetOfRow(s) \ {s[k]}
  <2>1. ASSUME NEW i \in 1 .. Len(s) - 1
        PROVE  t[i] \in SetOfRow(s) \ {s[k]}
    <3>1. a(i) \in 1 .. Len(s) /\ a(i) # k /\ t[i] = s[a(i)]
      BY <1>3
    <3> HIDE DEF a
    <3>2. s[a(i)] # s[k]
      BY <3>1 DEF Injective
    <3> QED
      BY <3>1, <3>2 DEF SetOfRow
  <2>2. ASSUME NEW y \in SetOfRow(s) \ {s[k]}
        PROVE  y \in SetOfRow(t)
    <3>1. PICK j \in 1 .. Len(s) : s[j] = y
      BY DEF SetOfRow
    <3>2. CASE j < k
      <4>1. j \in 1 .. Len(s) - 1 /\ t[j] = y
        BY <1>1, <1>2, <3>1, <3>2
      <4> QED
        BY <1>1, <4>1 DEF SetOfRow
    <3>3. CASE j > k
      <4>1. j - 1 \in 1 .. Len(s) - 1 /\ ~(j - 1 < k) /\ (j - 1) + 1 = j
        BY <1>2, <3>3
      <4>2. t[j - 1] = y
        BY <1>1, <3>1, <4>1
      <4> QED
        BY <1>1, <4>1, <4>2 DEF SetOfRow
    <3>4. j # k
      BY <3>1, <2>2
    <3> QED
      BY <1>2, <3>2, <3>3, <3>4
  <2>3. \A y \in SetOfRow(t) : y \in SetOfRow(s) \ {s[k]}
    BY <1>1, <2>1 DEF SetOfRow
  <2> QED
    BY <2>2, <2>3
<1> QED
  BY <1>1, <1>4, <1>5 DEF RowWithout

-----------------------------------------------------------------------------
(* Links with one element more *)

\* The links alone are the row s, whatever head, tail and count say: so it is in the middle of a method.
InOrder(l, s) == l \in ListRecord /\ LinkShape(l.kind, l.ring, l.next, l.prev, s)

\* Behind an element of the row.
LEMMA LinkedBehind ==
  ASSUME NEW l, NEW s, InOrder(l, s), NEW x \in Elements \ SetOfRow(s), NEW k, k \in 1 .. Len(s),
         NEW m, m = InsertNext(l, s[k], x), NEW t, t = InsertAt(s, k + 1, x)
  PROVE  /\ InOrder(m, t) /\ SameRest(l, m) /\ m.curr = l.curr /\ m.inside = l.inside \cup {x}
         /\ FirstIn(t) = FirstIn(s) /\ LastIn(t) = IF k < Len(s) THEN LastIn(s) ELSE x
<1> DEFINE n == Len(s)
           e == s[k]
           b == l.next[e]
<1>1. /\ n \in Nat /\ k \in 1 .. n /\ k + 1 \in 1 .. n + 1 /\ s \in Seq(Elements) /\ Injective(s) /\ x \in Elements
      /\ l \in ListRecord /\ n # 0 /\ k + 1 # 1
  BY LenProperties DEF InOrder, LinkShape, Leads
<1>2. /\ \A i \in 1 .. n : s[i] \in Elements /\ s[i] # NullPtr /\ s[i] \in SetOfRow(s)
      /\ \A y \in SetOfRow(s) : \E i \in 1 .. n : s[i] = y
      /\ FirstIn(s) = s[1] /\ LastIn(s) = s[n] /\ 1 \in 1 .. n /\ n \in 1 .. n
  BY <1>1, RowFacts
<1>3. /\ t \in Seq(Elements) /\ Injective(t) /\ Len(t) = n + 1 /\ SetOfRow(t) = SetOfRow(s) \cup {x}
      /\ \A i \in 1 .. n + 1 : t[i] = IF i < k + 1 THEN s[i] ELSE IF i = k + 1 THEN x ELSE s[i - 1]
  <2>1. s \in Seq(Elements) /\ Injective(s) /\ k + 1 \in 1 .. Len(s) + 1
    BY <1>1
  <2> HIDE DEF b, e
  <2>2. RowWith(t, s, k + 1, x)
    BY <2>1, InsertedRow
  <2> QED
    BY <1>1, <2>2 DEF RowWith
<1>4. \A i, j \in 1 .. n : s[i] = s[j] => i = j
  BY <1>1 DEF Injective
<1>5. /\ \A i \in 1 .. n - 1 : l.next[s[i]] = s[i + 1]
      /\ l.next[s[n]] = NullPtr \/ (l.ring /\ l.next[s[n]] = s[1])
      /\ l.kind # "single" =>
           /\ \A i \in 2 .. n : l.prev[s[i]] = s[i - 1]
           /\ l.prev[s[1]] = IF l.next[s[n]] = NullPtr THEN NullPtr ELSE s[n]
      /\ \A y \in Elements \ SetOfRow(s) : l.next[y] = NullPtr /\ (l.kind # "single" => l.prev[y] = NullPtr)
  <2>1. n > 0
    BY <1>1
  <2> QED
    BY <1>2, <2>1 DEF InOrder, LinkShape, Leads
<1>6. e \in Elements /\ b \in Places /\ x # NullPtr /\ NullPtr \notin Elements
  BY <1>1, <1>2, LinkTypes, ElementsAssumption
<1>7. b = IF k < n THEN s[k + 1] ELSE l.next[s[n]]
  BY <1>1, <1>5
<1>8. b \in SetOfRow(s) \cup {NullPtr} /\ x \notin {e, b}
  <2>1. CASE k < n
    <3>1. k + 1 \in 1 .. n
      BY <1>1, <2>1
    <3> QED
      BY <1>1, <1>2, <1>6, <1>7, <2>1, <3>1
  <2>2. CASE ~(k < n)
    BY <1>1, <1>2, <1>5, <1>6, <1>7, <2>2
  <2> QED
    BY <2>1, <2>2
<1>9. \A i \in 1 .. n : s[i] # x
  BY <1>2
<1>10. /\ m \in ListRecord /\ SameRest(l, m) /\ m.curr = l.curr /\ m.inside = l.inside \cup {x}
       /\ m.next[e] = x /\ m.next[x] = b /\ \A y \in Elements : y \notin {e, x} => m.next[y] = l.next[y]
       /\ l.kind = "single" => m.prev = l.prev
       /\ l.kind # "single" =>
            /\ m.prev[x] = e /\ (b # NullPtr => m.prev[b] = x)
            /\ \A y \in Elements : y \notin {x, b} => m.prev[y] = l.prev[y]
  <2>1. m = InsertNext(l, e, x) /\ b = l.next[e]
    OBVIOUS
  <2> HIDE DEF e, b
  <2> QED
    BY <1>1, <1>6, <1>8, <2>1, InsertNextIs
<1>11. (\A i \in 1 .. n : i # k => m.next[s[i]] = l.next[s[i]]) /\ m.next[e] = x /\ m.next[x] = b
  <2>1. ASSUME NEW i \in 1 .. n, i # k
        PROVE  m.next[s[i]] = l.next[s[i]]
    <3>1. s[i] # e /\ s[i] # x /\ s[i] \in Elements
      BY <1>1, <1>2, <1>4, <1>9, <2>1
    <3> HIDE DEF e, b
    <3> QED
      BY <1>10, <3>1
  <2> HIDE DEF e, b
  <2> QED
    BY <1>10, <2>1
<1>12. t[1] = s[1] /\ t[n + 1] = IF k < n THEN s[n] ELSE x
  <2>1. 1 \in 1 .. n + 1 /\ 1 < k + 1 /\ n + 1 \in 1 .. n + 1 /\ ~(n + 1 < k + 1) /\ (n + 1) - 1 = n
    BY <1>1
  <2>2. n + 1 = k + 1 <=> ~(k < n)
    BY <1>1
  <2> QED
    BY <1>3, <2>1, <2>2
<1>13. FirstIn(t) = t[1] /\ LastIn(t) = t[n + 1]
  <2>1. n + 1 # 0
    BY <1>1
  <2> QED
    BY <1>3, <2>1 DEF FirstIn, LastIn
<1>14. m.next[LastIn(t)] = l.next[s[n]]
  <2>1. CASE k < n
    <3>1. n # k
      BY <1>1, <2>1
    <3> QED
      BY <1>2, <1>11, <1>12, <1>13, <2>1, <3>1
  <2>2. CASE ~(k < n)
    BY <1>7, <1>11, <1>12, <1>13, <2>2
  <2> QED
    BY <2>1, <2>2
<1>15. \A i \in 1 .. n : m.next[t[i]] = t[i + 1]
  <2> SUFFICES ASSUME NEW i \in 1 .. n
               PROVE  m.next[t[i]] = t[i + 1]
    OBVIOUS
  <2>1. i \in 1 .. n + 1 /\ i + 1 \in 1 .. n + 1 /\ (i + 1) - 1 = i
    BY <1>1
  <2>2. CASE i < k
    <3>1. i \in 1 .. n - 1 /\ i # k /\ i < k + 1 /\ i + 1 < k + 1
      BY <1>1, <2>2
    <3> QED
      BY <1>3, <1>5, <1>11, <2>1, <3>1
  <2>3. CASE i = k
    <3>1. i < k + 1 /\ ~(i + 1 < k + 1) /\ i + 1 = k + 1
      BY <1>1, <2>3
    <3> QED
      BY <1>3, <1>11, <2>1, <2>3, <3>1
  <2>4. CASE i = k + 1
    <3>1. ~(i < k + 1) /\ ~(i + 1 < k + 1) /\ i + 1 # k + 1 /\ k < n
      BY <1>1, <2>4
    <3>2. t[i] = x /\ t[i + 1] = s[i]
      BY <1>3, <2>1, <2>4, <3>1
    <3>3. m.next[x] = b /\ b = s[k + 1]
      BY <1>7, <1>11, <3>1
    <3> QED
      BY <2>4, <3>2, <3>3
  <2>5. CASE i > k + 1
    <3>1. ~(i < k + 1) /\ i # k + 1 /\ ~(i + 1 < k + 1) /\ i + 1 # k + 1 /\ i - 1 # k /\ i - 1 \in 1 .. n - 1 /\ (i - 1) + 1 = i /\ i - 1 \in 1 .. n
      BY <1>1, <2>5
    <3>2. t[i] = s[i - 1] /\ t[i + 1] = s[i]
      BY <1>3, <2>1, <3>1
    <3>3. m.next[s[i - 1]] = l.next[s[i - 1]] /\ l.next[s[i - 1]] = s[(i - 1) + 1]
      BY <1>5, <1>11, <3>1
    <3> QED
      BY <3>1, <3>2, <3>3
  <2> QED
    BY <1>1, <2>2, <2>3, <2>4, <2>5
<1>16. Leads(m.next, t)
  <2>1. \A i \in 1 .. Len(t) - 1 : m.next[t[i]] = t[i + 1]
    <3>1. (n + 1) - 1 = n
      BY <1>1
    <3> QED
      BY <1>3, <1>15, <3>1
  <2>2. m.next[LastIn(t)] \in SetOfRow(t) \cup {NullPtr}
    BY <1>2, <1>3, <1>5, <1>14
  <2> QED
    BY <1>3, <2>1, <2>2 DEF Leads
<1>17. l.kind # "single" =>
         /\ \A i \in 2 .. n + 1 : m.prev[t[i]] = t[i - 1]
         /\ m.prev[t[1]] = IF l.next[s[n]] = NullPtr THEN NullPtr ELSE t[n + 1]
  <2> SUFFICES ASSUME l.kind # "single"
               PROVE  /\ \A i \in 2 .. n + 1 : m.prev[t[i]] = t[i - 1]
                      /\ m.prev[t[1]] = IF l.next[s[n]] = NullPtr THEN NullPtr ELSE t[n + 1]
    OBVIOUS
  <2>1. m.prev[x] = e
    BY <1>10
  <2>2. b # NullPtr => b \in Elements /\ m.prev[b] = x
    <3> HIDE DEF e, b
    <3> QED
      BY <1>6, <1>8, <1>10 DEF Places
  <2>3. ASSUME NEW y \in Elements, y # x, y # b
        PROVE  m.prev[y] = l.prev[y]
    <3> HIDE DEF e, b
    <3> QED
      BY <1>10, <2>3
  <2>4. ASSUME NEW i \in 2 .. n + 1
        PROVE  m.prev[t[i]] = t[i - 1]
    <3>1. i \in 1 .. n + 1 /\ i - 1 \in 1 .. n + 1 /\ i - 1 \in 1 .. n
      BY <1>1
    <3>2. CASE i < k + 1
      <4>1. i \in 2 .. n /\ i \in 1 .. n /\ i - 1 < k + 1
        BY <1>1, <3>2
      <4>2. t[i] = s[i] /\ t[i - 1] = s[i - 1]
        BY <1>3, <3>1, <3>2, <4>1
      <4>3. s[i] # b
        <5>1. CASE k < n
          <6>1. b = s[k + 1] /\ k + 1 \in 1 .. n /\ i # k + 1
            BY <1>1, <1>7, <3>2, <5>1
          <6> QED
            BY <1>4, <4>1, <6>1
        <5>2. CASE ~(k < n)
          <6>1. b = NullPtr \/ b = s[1]
            BY <1>5, <1>7, <5>2
          <6>2. i # 1
            BY <1>1
          <6> QED
            BY <1>2, <1>4, <4>1, <6>1, <6>2
        <5> QED
          BY <5>1, <5>2
      <4> QED
        BY <1>2, <1>5, <1>9, <2>3, <4>1, <4>2, <4>3
    <3>3. CASE i = k + 1
      <4>1. i - 1 = k /\ i - 1 < k + 1 /\ ~(i < k + 1)
        BY <1>1, <3>3
      <4> QED
        BY <1>3, <2>1, <3>1, <3>3, <4>1
    <3>4. CASE i = k + 2
      <4>1. i - 1 = k + 1 /\ ~(i < k + 1) /\ i # k + 1 /\ ~(i - 1 < k + 1) /\ k < n
        BY <1>1, <3>4
      <4>2. t[i] = s[k + 1] /\ t[i - 1] = x /\ b = s[k + 1]
        BY <1>3, <1>7, <3>1, <4>1
      <4>3. b # NullPtr
        <5>1. k + 1 \in 1 .. n
          BY <1>1, <4>1
        <5> QED
          BY <1>2, <4>2, <5>1
      <4> QED
        BY <2>2, <4>2, <4>3
    <3>5. CASE i > k + 2
      <4>1. /\ ~(i < k + 1) /\ i # k + 1 /\ ~(i - 1 < k + 1) /\ i - 1 # k + 1 /\ i - 1 \in 2 .. n /\ k < n /\ k + 1 \in 1 .. n
            /\ i - 1 \in 1 .. n
        BY <1>1, <3>5
      <4>2. t[i] = s[i - 1] /\ t[i - 1] = s[(i - 1) - 1]
        BY <1>3, <3>1, <4>1
      <4>3. s[i - 1] # b /\ s[i - 1] # x /\ s[i - 1] \in Elements
        <5>1. b = s[k + 1]
          BY <1>7, <4>1
        <5>2. i - 1 # k + 1
          BY <4>1
        <5> QED
          BY <1>2, <1>4, <1>9, <4>1, <5>1, <5>2
      <4>4. l.prev[s[i - 1]] = s[(i - 1) - 1]
        BY <1>5, <4>1
      <4> QED
        BY <2>3, <4>2, <4>3, <4>4
    <3> QED
      BY <1>1, <3>2, <3>3, <3>4, <3>5
  <2>5. m.prev[t[1]] = IF l.next[s[n]] = NullPtr THEN NullPtr ELSE t[n + 1]
    <3>1. CASE k < n
      <4>1. b = s[k + 1] /\ k + 1 \in 1 .. n /\ 1 # k + 1
        BY <1>1, <1>7, <3>1
      <4>2. s[1] # b
        BY <1>2, <1>4, <4>1
      <4>3. m.prev[s[1]] = l.prev[s[1]]
        BY <1>2, <1>9, <2>3, <4>2
      <4> QED
        BY <1>5, <1>12, <3>1, <4>3
    <3>2. CASE ~(k < n)
      <4>1. b = l.next[s[n]] /\ t[n + 1] = x
        BY <1>7, <1>12, <3>2
      <4>2. CASE b = NullPtr
        <5>1. s[1] # b
          BY <1>2, <4>2
        <5>2. m.prev[s[1]] = l.prev[s[1]]
          BY <1>2, <1>9, <2>3, <5>1
        <5> QED
          BY <1>5, <1>12, <4>1, <4>2, <5>2
      <4>3. CASE b # NullPtr
        <5>1. b = s[1]
          BY <1>5, <4>1, <4>3
        <5> QED
          BY <1>12, <2>2, <4>1, <4>3, <5>1
      <4> QED
        BY <4>2, <4>3
    <3> QED
      BY <3>1, <3>2
  <2> QED
    BY <2>4, <2>5
<1>18. \A y \in Elements \ SetOfRow(t) : m.next[y] = NullPtr /\ (l.kind # "single" => m.prev[y] = NullPtr)
  <2> SUFFICES ASSUME NEW y \in Elements \ SetOfRow(t)
               PROVE  m.next[y] = NullPtr /\ (l.kind # "single" => m.prev[y] = NullPtr)
    OBVIOUS
  <2>1. y \in Elements /\ y # x /\ y \notin SetOfRow(s) /\ y # e
    BY <1>1, <1>2, <1>3
  <2>2. y # b
    <3> HIDE DEF b
    <3> QED
      BY <1>6, <1>8, <2>1
  <2>3. l.next[y] = NullPtr /\ (l.kind # "single" => l.prev[y] = NullPtr)
    BY <1>5, <2>1
  <2> HIDE DEF e, b
  <2> QED
    BY <1>10, <2>1, <2>2, <2>3
<1>19. m.kind = l.kind /\ m.ring = l.ring
  BY <1>10 DEF SameRest, SameClass
<1>20. FirstIn(t) = FirstIn(s) /\ LastIn(t) = IF k < Len(s) THEN LastIn(s) ELSE x
  BY <1>2, <1>12, <1>13
<1> HIDE DEF n, e, b
<1> QED
  BY <1>20, <1>3, <1>5, <1>10, <1>12, <1>13, <1>14, <1>16, <1>17, <1>18, <1>19 DEF InOrder, LinkShape

-----------------------------------------------------------------------------
(* The class of a list *)

\* The class of a list stays the same, whatever state the list is in.
Kin(l, m) == {"kind", "ring"} \subseteq DOMAIN l => {"kind", "ring"} \subseteq DOMAIN m /\ SameClass(l, m)

\* Staying of the same class carries over from step to step.
LEMMA KinOn == ASSUME NEW k, NEW l, NEW m, Kin(k, l), Kin(l, m) PROVE Kin(k, m)
BY DEF Kin, SameClass

\* No single assignment changes a list's class.
LEMMA KinSteps ==
  ASSUME NEW l, NEW e, NEW n
  PROVE  /\ Kin(l, l) /\ Kin(l, SetNext(l, e, n)) /\ Kin(l, SetPrev(l, e, n)) /\ Kin(l, Removed(l, e)) /\ Kin(l, SetTail(l, e))
         /\ Kin(l, Crashed(l)) /\ Kin(l, Hanging(l)) /\ Kin(l, [l EXCEPT !.inside = @ \cup {e}]) /\ Kin(l, Counted(l))
         /\ Kin(l, [l EXCEPT !.renumber = TRUE]) /\ Kin(l, [l EXCEPT !.curr = e]) /\ Kin(l, AfterFind(l, e))
         /\ Kin(l, [l EXCEPT !.nr[e] = n]) /\ Kin(l, Renumbered(l)) /\ Kin(l, [l EXCEPT !.count = n])
<1>1. Kin(l, l)
  BY DEF Kin, SameClass
<1>2. Kin(l, SetNext(l, e, n))
  BY DEF Kin, SameClass, SetNext
<1>3. Kin(l, SetPrev(l, e, n))
  BY DEF Kin, SameClass, SetPrev
<1>4. Kin(l, Removed(l, e))
  BY DEF Kin, SameClass, Removed
<1>5. Kin(l, SetTail(l, e))
  BY DEF Kin, SameClass, SetTail
<1>6. Kin(l, Crashed(l)) /\ Kin(l, Hanging(l))
  BY DEF Kin, SameClass, Crashed, Hanging
<1>7. Kin(l, [l EXCEPT !.inside = @ \cup {e}])
  BY DEF Kin, SameClass
<1>8. Kin(l, Counted(l))
  BY DEF Kin, SameClass, Counted
<1>9. Kin(l, [l EXCEPT !.renumber = TRUE])
  BY DEF Kin, SameClass
<1>10. Kin(l, [l EXCEPT !.curr = e])
  BY DEF Kin, SameClass
<1>11. Kin(l, AfterFind(l, e))
  BY DEF Kin, SameClass, AfterFind
<1>12. Kin(l, [l EXCEPT !.nr[e] = n])
  BY DEF Kin, SameClass
<1>13. Kin(l, Renumbered(l))
  <2> DEFINE row == Row(l)
             before(i) == IF i = 2 THEN 1 ELSE l.nr[row[i]]
             given(i) == IF i < Len(row) THEN before(i + 1) + 1 ELSE before(i)
             nr == [x \in Elements |-> IF x \in Range(row) THEN given(PlaceOf(row, x)) ELSE l.nr[x]]
  <2>1. Renumbered(l) = [l EXCEPT !.nr = nr]
    BY DEF Renumbered
  <2> HIDE DEF nr
  <2> QED
    BY <2>1 DEF Kin, SameClass
<1>14. Kin(l, [l EXCEPT !.count = n])
  BY DEF Kin, SameClass
<1> QED
  BY <1>1, <1>2, <1>3, <1>4, <1>5, <1>6, <1>7, <1>8, <1>9, <1>10, <1>11, <1>12, <1>13, <1>14, Zenon

\* The same for those without an argument.
LEMMA KinSelf ==
  ASSUME NEW l
  PROVE  /\ Kin(l, l) /\ Kin(l, Crashed(l)) /\ Kin(l, Hanging(l)) /\ Kin(l, Counted(l)) /\ Kin(l, Renumbered(l))
         /\ Kin(l, [l EXCEPT !.renumber = TRUE])
BY KinSteps

\* Nor does setting the head,
LEMMA KinSetHead == ASSUME NEW l, NEW e PROVE Kin(l, SetHead(l, e))
<1> DEFINE first == [[l EXCEPT !.nr[e] = 0] EXCEPT !.head = e]
<1>1. Kin(l, first)
  BY DEF Kin, SameClass
<1>2. SetHead(l, e) \in {Crashed(l), Hanging(first), Renumbered(first)}
  BY DEF SetHead
<1> HIDE DEF first
<1>3. Kin(first, Hanging(first)) /\ Kin(first, Renumbered(first)) /\ Kin(l, Crashed(l))
  BY KinSteps
<1> QED
  BY <1>1, <1>2, <1>3, KinOn

\* linking an element in,
LEMMA KinLinked == ASSUME NEW l, NEW e, NEW x PROVE Kin(l, InsertNext(l, e, x)) /\ Kin(l, InsertBefore(l, e, x))
<1> DEFINE i == [l EXCEPT !.inside = @ \cup {x}]
           b == GetNext(l, e)
           p == l.prev[e]
           one == SetNext(i, x, b)
           two == SetPrev(one, x, e)
           three == SetNext(two, e, x)
           far == SetNext(i, x, e)
           near == SetPrev(far, x, p)
           here == SetPrev(near, e, x)
<1>1. Kin(l, i)
  BY KinSteps
<1>2. InsertNext(l, e, x) \in {SetNext(one, e, x), SetPrev(three, b, x)}
  BY DEF InsertNext
<1>3. InsertBefore(l, e, x) \in {far, here, SetNext(here, p, x)}
  BY DEF InsertBefore, InsertPrev
<1> HIDE DEF i, b, p
<1>4. Kin(l, one) /\ Kin(l, far)
  BY <1>1, KinSteps, KinOn
<1> HIDE DEF one, far
<1>5. Kin(l, two) /\ Kin(l, near) /\ Kin(l, SetNext(one, e, x))
  BY <1>4, KinSteps, KinOn
<1> HIDE DEF two, near
<1>6. Kin(l, three) /\ Kin(l, here)
  BY <1>5, KinSteps, KinOn
<1> HIDE DEF three, here
<1>7. Kin(l, SetPrev(three, b, x)) /\ Kin(l, SetNext(here, p, x))
  BY <1>6, KinSteps, KinOn
<1> QED
  BY <1>2, <1>3, <1>4, <1>5, <1>6, <1>7

\* taking one out,
LEMMA KinDetach == ASSUME NEW l, NEW e PROVE Kin(l, Detach(l, e))
<1> DEFINE gone == Removed(l, e)
           p == l.prev[e]
           n == l.next[e]
           joined == IF p \in {NullPtr, e} THEN gone ELSE SetNext(gone, p, n)
           mirrored == IF n \in {NullPtr, e} THEN joined ELSE SetPrev(joined, n, p)
           cleared == SetPrev(mirrored, e, NullPtr)
<1>1. Kin(l, gone)
  BY KinSteps
<1>2. Detach(l, e) \in {SetNext(gone, e, NullPtr), SetNext(cleared, e, NullPtr)}
  BY DEF Detach
<1> HIDE DEF gone, p, n
<1>3. Kin(l, joined) /\ Kin(l, SetNext(gone, e, NullPtr))
  BY <1>1, KinSteps, KinOn
<1> HIDE DEF joined
<1>4. Kin(l, mirrored)
  BY <1>3, KinSteps, KinOn
<1> HIDE DEF mirrored
<1>5. Kin(l, cleared)
  BY <1>4, KinSteps, KinOn
<1> HIDE DEF cleared
<1>6. Kin(l, SetNext(cleared, e, NullPtr))
  BY <1>5, KinSteps, KinOn
<1> QED
  BY <1>2, <1>3, <1>6

\* closing the ring,
LEMMA KinConnect == ASSUME NEW l PROVE Kin(l, Connect(l))
<1> DEFINE forth == IF GetNext(l, l.tail) = l.head THEN l ELSE SetNext(l, l.tail, l.head)
<1>1. Kin(l, forth)
  BY KinSteps
<1>2. Connect(l) \in {l, forth, SetPrev(forth, l.head, l.tail)}
  BY DEF Connect
<1> HIDE DEF forth
<1>3. Kin(l, SetPrev(forth, l.head, l.tail)) /\ Kin(l, l)
  BY <1>1, KinSteps, KinOn
<1> QED
  BY <1>1, <1>2, <1>3

\* an insertion,
LEMMA KinInsert == ASSUME NEW l, NEW p, NEW e PROVE Kin(l, ProtInsert(l, p, e)) /\ Kin(l, Insert(l, p, e))
<1> DEFINE n == IF l.kind = "set" THEN l ELSE [l EXCEPT !.curr = e]
           numbered == [n EXCEPT !.nr[e] = l.nr[l.tail] + 1]
           i == [n EXCEPT !.inside = @ \cup {e}]
           only == SetHead(i, e)
           r == [n EXCEPT !.renumber = TRUE]
           before == InsertBefore(n, l.head, e)
           last == InsertNext(numbered, p, e)
<1>1. ProtInsert(l, p, e) \in {Counted(SetTail(only, e)), Counted(SetHead(before, e)), Counted(SetTail(last, e)),
                                Counted(InsertNext(r, p, e))}
  BY DEF ProtInsert
<1>2. Kin(l, n) /\ Kin(l, l)
  BY KinSteps
<1> HIDE DEF n
<1>3. Kin(l, i) /\ Kin(l, r) /\ Kin(l, numbered) /\ Kin(l, before)
  BY <1>2, KinSteps, KinOn, KinLinked
<1> HIDE DEF i, r, numbered, before
<1>4. Kin(l, only) /\ Kin(l, SetHead(before, e)) /\ Kin(l, last) /\ Kin(l, InsertNext(r, p, e))
  BY <1>3, KinSetHead, KinOn, KinLinked
<1> HIDE DEF only, last
<1>5. Kin(l, SetTail(only, e)) /\ Kin(l, SetTail(last, e))
  BY <1>4, KinSteps, KinOn
<1>6. \A m : Kin(l, m) => Kin(l, Counted(m))
  BY KinSelf, KinOn
<1>7. Kin(l, ProtInsert(l, p, e))
  BY <1>1, <1>4, <1>5, <1>6
<1> QED
  BY <1>2, <1>7 DEF Insert

\* counting down,
LEMMA KinUncounted == ASSUME NEW l PROVE Kin(l, Uncounted(l))
<1> DEFINE less == [l EXCEPT !.count = @ - 1]
           none == [[l EXCEPT !.count = @ - 1] EXCEPT !.curr = NullPtr]
<1>1. Uncounted(l) \in {l, less, SetTail(SetHead(none, NullPtr), NullPtr)}
  BY DEF Uncounted
<1>2. Kin(l, l) /\ Kin(l, less) /\ Kin(l, none)
  BY DEF Kin, SameClass
<1> HIDE DEF less, none
<1>3. Kin(l, SetHead(none, NullPtr))
  BY <1>2, KinSetHead, KinOn
<1>4. Kin(l, SetTail(SetHead(none, NullPtr), NullPtr))
  BY <1>3, KinSteps, KinOn
<1> QED
  BY <1>1, <1>2, <1>4

\* a removal by any of the methods,
LEMMA KinRemoved ==
  ASSUME NEW l, NEW e
  PROVE  Kin(l, PrivRemove(l, e).list) /\ Kin(l, RemoveNext(l, e).list) /\ Kin(l, RemoveHead(l).list) /\ Kin(l, RemoveAfter(l, e).list)
<1>1. \A d : Kin(l, PrivRemove(l, d).list)
  <2> TAKE d
  <2> DEFINE off == IF d = l.head THEN SetHead(l, GetNext(l, d))
                    ELSE IF d = l.tail THEN SetTail(l, GetPrev(l, d))
                    ELSE [l EXCEPT !.renumber = TRUE]
  <2>1. PrivRemove(l, d).list \in {l, off, Uncounted(Detach(off, d))}
    BY DEF PrivRemove, Unlink
  <2>2. Kin(l, off) /\ Kin(l, l)
    BY KinSetHead, KinSteps, KinSelf
  <2> HIDE DEF off
  <2>3. Kin(l, Detach(off, d))
    BY <2>2, KinDetach, KinOn
  <2>4. Kin(l, Uncounted(Detach(off, d)))
    BY <2>3, KinUncounted, KinOn
  <2> QED
    BY <2>1, <2>2, <2>4
<1>2. \A d : Kin(l, RemoveNext(l, d).list)
  <2> TAKE d
  <2> DEFINE x == l.next[d]
             joined == SetNext(l, d, GetNext(l, x))
             unlinked == Detach(joined, x)
             marked == [l EXCEPT !.renumber = TRUE]
             one == SetTail(unlinked, d)
             two == [unlinked EXCEPT !.renumber = TRUE]
  <2>1. RemoveNext(l, d).list \in {marked, Uncounted(one), Uncounted(two)}
    BY DEF RemoveNext
  <2>2. Kin(l, marked) /\ Kin(l, joined)
    BY KinSteps, KinSelf
  <2> HIDE DEF marked, joined
  <2>3. Kin(l, unlinked)
    BY <2>2, KinDetach, KinOn
  <2> HIDE DEF unlinked
  <2>4. Kin(l, one) /\ Kin(l, two)
    <3>1. Kin(unlinked, one) /\ Kin(unlinked, two)
      BY KinSteps, KinSelf
    <3> QED
      BY <2>3, <3>1, KinOn
  <2> HIDE DEF one, two
  <2>5. Kin(l, Uncounted(one)) /\ Kin(l, Uncounted(two))
    BY <2>4, KinUncounted, KinOn
  <2> QED
    BY <2>1, <2>2, <2>5
<1>3. Kin(l, RemoveHead(l).list)
  <2> DEFINE off == SetHead(l, GetNext(l, l.head))
  <2>1. RemoveHead(l).list \in {l, off, Uncounted(Detach(off, l.head))}
    BY DEF RemoveHead, Unlink
  <2>2. Kin(l, off) /\ Kin(l, l)
    BY KinSetHead, KinSelf
  <2> HIDE DEF off
  <2>3. Kin(l, Detach(off, l.head))
    BY <2>2, KinDetach, KinOn
  <2>4. Kin(l, Uncounted(Detach(off, l.head)))
    BY <2>3, KinUncounted, KinOn
  <2> QED
    BY <2>1, <2>2, <2>4
<1>4. Kin(l, RemoveAfter(l, e).list)
  <2>1. RemoveAfter(l, e).list \in {l, RemoveHead(l).list, RemoveNext(l, e).list, PrivRemove(l, l.head).list,
                                   PrivRemove(l, GetNext(l, e)).list}
    BY DEF RemoveAfter
  <2>2. Kin(l, l)
    BY KinSelf
  <2> QED
    BY <1>1, <1>2, <1>3, <2>1, <2>2
<1> QED
  BY <1>1, <1>2, <1>3, <1>4

\* the operator [],
LEMMA KinGet == ASSUME NEW l, NEW i PROVE Kin(l, GetByIndex(l, i).list)
<1> DEFINE marked == [l EXCEPT !.renumber = FALSE]
           nr == [e \in Elements |-> IF e \in Range(Row(l)) THEN 0 ELSE l.nr[e]]
           numbered == [marked EXCEPT !.nr = nr]
           r == ProtRenumber(l)
<1>1. r \in {l, Hanging(marked), numbered}
  BY DEF ProtRenumber
<1> HIDE DEF nr
<1>2. Kin(l, marked) /\ Kin(l, numbered)
  BY DEF Kin, SameClass
<1> HIDE DEF marked, numbered, r
<1>3. Kin(l, r)
  <2>1. Kin(l, Hanging(marked)) /\ Kin(l, l)
    BY <1>2, KinSelf, KinOn
  <2> QED
    BY <1>1, <1>2, <2>1
<1>4. \A e : Kin(l, [r EXCEPT !.curr = e])
  BY <1>3, KinSteps, KinOn
<1>5. Kin(l, Crashed(r)) /\ Kin(l, l)
  BY <1>3, KinSelf, KinOn
<1> DEFINE idx == (IF i < 0 THEN l.count - (-i % l.count) ELSE i) % l.count
<1> DEFINE Moved(e) == [at |-> e, list |-> [r EXCEPT !.curr = e]]
           Found(e) == [at |-> e, list |-> r]
<1>6. \/ GetByIndex(l, i) = [at |-> NullPtr, list |-> l]
      \/ \E e : GetByIndex(l, i) = Found(e)
      \/ GetByIndex(l, i) = [at |-> NullPtr, list |-> Crashed(r)]
      \/ \E e : GetByIndex(l, i) = Moved(e)
  <2> DEFINE w == WalkTo(r, idx)
  <2>1. GetByIndex(l, i) =
          IF l.count = 0 THEN [at |-> NullPtr, list |-> l]
          ELSE IF ~Running(r) THEN Found(NullPtr)
          ELSE IF idx = r.nr[Curr(r)] THEN Found(Curr(r))
          ELSE IF idx = 0 THEN Found(r.head)
          ELSE IF idx = r.count - 1 THEN Found(r.tail)
          ELSE IF idx = r.nr[Curr(r)] + 1 THEN Moved(GetNext(r, Curr(r)))
          ELSE IF ~Single(r) /\ idx = r.nr[Curr(r)] - 1 THEN Moved(GetPrev(r, Curr(r)))
          ELSE IF w = NullPtr THEN [at |-> NullPtr, list |-> Crashed(r)] ELSE Moved(w)
    BY DEF GetByIndex, AtNumber, r
  <2> HIDE DEF idx, w, Found, Moved
  <2> QED
    BY <2>1
<1>7. \A e : GetByIndex(l, i) = Found(e) => Kin(l, GetByIndex(l, i).list)
  BY <1>3
<1>8. \A e : GetByIndex(l, i) = Moved(e) => Kin(l, GetByIndex(l, i).list)
  BY <1>4
<1>9. GetByIndex(l, i) = [at |-> NullPtr, list |-> l] \/ GetByIndex(l, i) = [at |-> NullPtr, list |-> Crashed(r)] => Kin(l, GetByIndex(l, i).list)
  BY <1>5
<1> HIDE DEF Found, Moved
<1> QED
  BY <1>6, <1>7, <1>8, <1>9, Zenon

\* What the calls that find or remove something return.
With(a, m) == [at |-> a, list |-> m]

\* The two fields of what a search and a removal give back.
LEMMA WithIs == \A a, m : With(a, m).at = a /\ With(a, m).list = m
BY DEF With

\* A sorted insertion looks for a place, and a look only moves the current element.
LEMMA KinSought ==
  ASSUME NEW l, NEW d
  PROVE  Kin(l, FindPrev(l, d).list) /\ Kin(l, GreaterNext(l, d).list)
<1>1. Kin(l, FindPrev(l, d).list)
  <2> DEFINE cur == Curr(l)
             up == Up(l, IF Single(l) THEN l.head ELSE cur)
             down == Down(l, cur)
             above == {i \in 1 .. Len(up) - 1 : up[i + 1] = d}
             below == {i \in 1 .. Len(down) : down[i] = d /\ down[i] # l.head}
             k == CHOOSE i \in below : TRUE
             upper == up[CHOOSE i \in above : TRUE]
             lower == IF k = 1 THEN GetPrev(l, cur) ELSE down[k - 1]
             mine == IF Find(l, d) = NullPtr THEN NullPtr ELSE GetPrev(l, d)
             moved == [l EXCEPT !.curr = d]
  <2>1. \/ FindPrev(l, d) = With(mine, l)
        \/ FindPrev(l, d) = With(upper, moved)
        \/ FindPrev(l, d) = With(NullPtr, l)
        \/ FindPrev(l, d) = With(lower, moved)
    <3>1. FindPrev(l, d) =
            IF l.kind = "set" THEN With(mine, l)
            ELSE IF above # {} THEN With(upper, moved)
            ELSE IF Single(l) \/ below = {} THEN With(NullPtr, l)
            ELSE With(lower, moved)
      BY DEF FindPrev, With
    <3> HIDE DEF up, down, above, below, k, upper, lower, mine, moved
    <3> QED
      BY <3>1
  <2>2. FindPrev(l, d).list \in {l, moved}
    <3> HIDE DEF up, down, above, below, k, upper, lower, mine, moved
    <3> QED
      BY <2>1, WithIs
  <2>3. Kin(l, moved)
    BY KinSteps
  <2>4. Kin(l, l)
    BY KinSelf
  <2> QED
    BY <2>2, <2>3, <2>4
<1>2. Kin(l, GreaterNext(l, d).list)
  <2> DEFINE cur == Curr(l)
             nxt == GetNext(l, cur)
             prv == GetPrev(l, cur)
             Less(e) == Value[e] < d
             start == IF Single(l) THEN GetNext(l, l.head) ELSE prv
             up == Up(l, IF Less(cur) THEN cur ELSE start)
             down == Down(l, start)
             Is(e, less) == e # NullPtr /\ Less(e) = less
             goal == {i \in DOMAIN up : Is(GetNext(l, up[i]), FALSE)}
             floor == {i \in DOMAIN down : Is(GetPrev(l, down[i]), TRUE)}
             Least(I) == CHOOSE i \in I : \A j \in I : i <= j
             moved(c) == [l EXCEPT !.curr = c]
             here == down[Least(floor)]
             there == up[Least(goal)]
  <2>1. GreaterNext(l, d) =
          IF l.count = 0 THEN With(NullPtr, l)
          ELSE IF Less(cur) /\ (nxt = NullPtr \/ ~Less(nxt)) THEN With(nxt, l)
          ELSE IF ~Single(l) /\ ~Less(cur) /\ (prv = NullPtr \/ Less(prv)) THEN With(cur, l)
          ELSE IF ~Less(l.head) THEN With(l.head, moved(l.head))
          ELSE IF Less(l.tail) THEN With(NullPtr, moved(l.tail))
          ELSE IF ~Single(l) /\ ~Less(cur) THEN With(here, moved(GetPrev(l, here)))
          ELSE IF nxt = NullPtr THEN With(NullPtr, l)
          ELSE IF goal = {} THEN With(NullPtr, moved(l.tail))
          ELSE With(GetNext(l, there), moved(there))
    BY DEF GreaterNext, With
  <2>2. GreaterNext(l, d).list = l \/ \E c : GreaterNext(l, d).list = [l EXCEPT !.curr = c]
    <3>1. \/ \E a : GreaterNext(l, d) = With(a, l)
          \/ \E a, c : GreaterNext(l, d) = With(a, moved(c))
      <4> HIDE DEF cur, nxt, prv, Less, start, goal, here, there, moved
      <4> QED
        BY <2>1
    <3> HIDE DEF moved
    <3>2. GreaterNext(l, d).list = l \/ \E c : GreaterNext(l, d).list = moved(c)
      BY <3>1, WithIs
    <3> QED
      BY <3>2 DEF moved
  <2>3. \A c : Kin(l, [l EXCEPT !.curr = c])
    BY KinSteps
  <2>4. Kin(l, l)
    BY KinSelf
  <2> QED
    BY <2>2, <2>3, <2>4
<1> QED
  BY <1>1, <1>2

\* clear() and pop_back(),
LEMMA KinClear == ASSUME NEW l PROVE Kin(l, Clear(l)) /\ Kin(l, PopBack(l).list)
<1> DEFINE none == [[l EXCEPT !.count = 0] EXCEPT !.curr = NullPtr]
           g == GetByIndex(l, -2)
<1>1. Clear(l) \in {l, SetHead(none, NullPtr)}
  BY DEF Clear
<1>2. Kin(l, l) /\ Kin(l, none)
  BY DEF Kin, SameClass
<1> HIDE DEF none
<1>3. Kin(l, SetHead(none, NullPtr))
  BY <1>2, KinSetHead, KinOn
<1>4. PopBack(l).list \in {l, PrivRemove(l, l.tail).list, RemoveAfter(l, NullPtr).list, RemoveAfter(g.list, g.at).list, g.list}
  <2>1. PopBack(l) \in {[at |-> NullPtr, list |-> l], PrivRemove(l, l.tail), RemoveAfter(l, NullPtr), RemoveAfter(g.list, g.at), g}
    <3>1. PopBack(l) = IF ~Single(l) THEN (IF l.tail = NullPtr THEN [at |-> NullPtr, list |-> l] ELSE PrivRemove(l, l.tail))
             ELSE IF l.count <= 1 THEN RemoveAfter(l, NullPtr)
             ELSE IF Running(g.list) THEN RemoveAfter(g.list, g.at) ELSE g
      BY DEF PopBack
    <3> HIDE DEF g
    <3> QED
      BY <3>1
  <2> HIDE DEF g
  <2> QED
    BY <2>1
<1>5. Kin(l, g.list)
  BY KinGet
<1> HIDE DEF g
<1>6. Kin(l, RemoveAfter(g.list, g.at).list)
  BY <1>5, KinRemoved, KinOn
<1> QED
  BY <1>1, <1>2, <1>3, <1>4, <1>5, <1>6, KinRemoved

\* The operators += and -=, one element at a time.
Added(f, l, s, D) ==
  /\ f[0] = l
  /\ \A i \in 1 .. Len(s) :
       f[i] = IF Running(f[i - 1]) /\ s[i] \in D THEN Insert(f[i - 1], f[i - 1].tail, s[i]) ELSE f[i - 1]

\* The lists of a -= : one for each element of the other list, as long as the program runs.
Subtracting(f, l, s) ==
  f[0] = l /\ \A i \in 1 .. Len(s) : f[i] = IF Running(f[i - 1]) THEN SubtractOne(f[i - 1], s[i]) ELSE f[i - 1]

\* The += of the model is the last of such lists,
LEMMA AddThoseIs ==
  ASSUME NEW l, NEW s, Len(s) \in Nat, NEW D
  PROVE  \E f : Added(f, l, s, D) /\ AddThose(l, s, D) = f[Len(s)]
<1> DEFINE n == Len(s)
           step(m, i) == IF Running(m) /\ s[i] \in D THEN Insert(m, m.tail, s[i]) ELSE m
           goes(sum) == sum = [i \in 0 .. n |-> IF i = 0 THEN l ELSE step(sum[i - 1], i)]
<1>0. n \in Nat
  OBVIOUS
<1>1. \E f : goes(f)
  <2>1. PICK f : Stages("add", <<s, D>>, l, f, n)
    BY <1>0, SomeStages
  <2> DEFINE h == [i \in 0 .. n |-> IF i = 0 THEN l ELSE step(f[i - 1], i)]
             g == [i \in 0 .. n |-> Stage("add", <<s, D>>, l, f, i)]
  <2>2. \A i \in 0 .. n : h[i] = g[i]
    BY DEF Stage, Advance
  <2>3. h = [i \in 0 .. n |-> h[i]] /\ g = [i \in 0 .. n |-> g[i]]
    OBVIOUS
  <2> HIDE DEF g, h
  <2>4. h = g
    BY <2>2, <2>3
  <2>5. f = h
    BY <2>1, <2>4 DEF Stages, g
  <2> QED
    BY <2>5 DEF h
<1>2. PICK f : goes(f) /\ AddThose(l, s, D) = f[n]
  <2> DEFINE f == CHOOSE sum : goes(sum)
  <2>1. AddThose(l, s, D) = f[n]
    BY DEF AddThose
  <2> HIDE DEF goes
  <2>2. goes(f)
    BY <1>1
  <2> QED
    BY <2>1, <2>2
<1>3. f[0] = l
  BY <1>0, <1>2
<1>4. ASSUME NEW i \in 1 .. n
      PROVE  f[i] = step(f[i - 1], i)
  <2>1. i \in 0 .. n /\ i # 0
    BY <1>0
  <2> HIDE DEF step
  <2> QED
    BY <1>2, <2>1
<1> QED
  BY <1>2, <1>3, <1>4 DEF Added

\* and the -= the last of those.
LEMMA SubtractAllIs ==
  ASSUME NEW l, NEW s \in Seq(Elements)
  PROVE  \E f : Subtracting(f, l, s) /\ SubtractAll(l, s) = f[Len(s)]
<1> DEFINE n == Len(s)
           step(m, i) == IF Running(m) THEN SubtractOne(m, s[i]) ELSE m
           goes(less) == less = [i \in 0 .. n |-> IF i = 0 THEN l ELSE step(less[i - 1], i)]
<1>0. n \in Nat
  BY LenProperties
<1>1. \E f : goes(f)
  <2>1. PICK f : Stages("subtract", s, l, f, n)
    BY <1>0, SomeStages
  <2> DEFINE h == [i \in 0 .. n |-> IF i = 0 THEN l ELSE step(f[i - 1], i)]
             g == [i \in 0 .. n |-> Stage("subtract", s, l, f, i)]
  <2>2. \A i \in 0 .. n : h[i] = g[i]
    BY DEF Stage, Advance
  <2>3. h = [i \in 0 .. n |-> h[i]] /\ g = [i \in 0 .. n |-> g[i]]
    OBVIOUS
  <2> HIDE DEF g, h
  <2>4. h = g
    BY <2>2, <2>3
  <2>5. f = h
    BY <2>1, <2>4 DEF Stages, g
  <2> QED
    BY <2>5 DEF h
<1>2. PICK f : goes(f) /\ SubtractAll(l, s) = f[n]
  <2> DEFINE f == CHOOSE less : goes(less)
  <2>1. SubtractAll(l, s) = f[n]
    BY DEF SubtractAll
  <2> HIDE DEF goes
  <2>2. goes(f)
    BY <1>1
  <2> QED
    BY <2>1, <2>2
<1>3. f[0] = l
  BY <1>0, <1>2
<1>4. ASSUME NEW i \in 1 .. n
      PROVE  f[i] = step(f[i - 1], i)
  <2>1. i \in 0 .. n /\ i # 0
    BY <1>0
  <2> HIDE DEF step
  <2> QED
    BY <1>2, <2>1
<1> QED
  BY <1>2, <1>3, <1>4 DEF Subtracting

\* or the operators.
LEMMA KinOperators ==
  ASSUME NEW l, NEW s \in Seq(Elements), NEW D
  PROVE  Kin(l, AddThose(l, s, D)) /\ Kin(l, SubtractAll(l, s))
<1>0. Len(s) \in Nat
  BY LenProperties
<1>1. Kin(l, l)
  BY KinSelf
<1>2. Kin(l, AddThose(l, s, D))
  <2>1. PICK f : Added(f, l, s, D) /\ AddThose(l, s, D) = f[Len(s)]
    BY <1>0, AddThoseIs
  <2> DEFINE bad == {i \in 0 .. Len(s) : ~Kin(l, f[i])}
  <2>2. bad = {}
    <3> SUFFICES ASSUME bad # {}
                 PROVE  FALSE
      OBVIOUS
    <3>1. bad \subseteq Nat
      OBVIOUS
    <3>2. PICK k \in bad : \A i \in bad : k <= i
      BY <3>1, LeastNumber
    <3>3. k # 0
      BY <1>1, <2>1, <3>2 DEF Added
    <3>4. k \in 1 .. Len(s) /\ k - 1 \in 0 .. Len(s) /\ ~(k <= k - 1)
      BY <1>0, <3>2, <3>3
    <3>5. Kin(l, f[k - 1])
      BY <3>2, <3>4
    <3>6. Kin(f[k - 1], f[k])
      <4> DEFINE m == f[k - 1]
                 more == Insert(m, m.tail, s[k])
      <4>1. f[k] = IF Running(m) /\ s[k] \in D THEN more ELSE m
        BY <2>1, <3>4 DEF Added
      <4>2. Kin(m, more) /\ Kin(m, m)
        BY KinInsert, KinSelf
      <4> HIDE DEF more
      <4> QED
        BY <4>1, <4>2
    <3>7. Kin(l, f[k])
      BY <3>5, <3>6, KinOn
    <3> QED
      BY <3>2, <3>7
  <2>3. Len(s) \in 0 .. Len(s)
    BY <1>0
  <2> QED
    BY <2>1, <2>2, <2>3
<1>3. Kin(l, SubtractAll(l, s))
  <2>1. PICK f : Subtracting(f, l, s) /\ SubtractAll(l, s) = f[Len(s)]
    BY SubtractAllIs
  <2> DEFINE bad == {i \in 0 .. Len(s) : ~Kin(l, f[i])}
  <2>2. bad = {}
    <3> SUFFICES ASSUME bad # {}
                 PROVE  FALSE
      OBVIOUS
    <3>1. bad \subseteq Nat
      OBVIOUS
    <3>2. PICK k \in bad : \A i \in bad : k <= i
      BY <3>1, LeastNumber
    <3>3. k # 0
      BY <1>1, <2>1, <3>2 DEF Subtracting
    <3>4. k \in 1 .. Len(s) /\ k - 1 \in 0 .. Len(s) /\ ~(k <= k - 1)
      BY <1>0, <3>2, <3>3
    <3>5. Kin(l, f[k - 1])
      BY <3>2, <3>4
    <3>6. \A m, d : Kin(m, SubtractOne(m, d))
      <4> TAKE m, d
      <4> DEFINE p == FindPrev(m, d)
                 one == RemoveAfter(m, NullPtr).list
                 two == RemoveAfter(p.list, p.at).list
      <4>1. SubtractOne(m, d) \in {Crashed(m), Connect(one), p.list, Connect(two)}
        <5>1. SubtractOne(m, d) = IF m.head = NullPtr THEN Crashed(m)
                ELSE IF d = m.head THEN Connect(one)
                ELSE IF p.at = NullPtr THEN p.list
                ELSE Connect(two)
          BY DEF SubtractOne
        <5> HIDE DEF p, one, two
        <5> QED
          BY <5>1
      <4>2. Kin(m, Crashed(m)) /\ Kin(m, p.list) /\ Kin(m, one)
        BY KinSelf, KinSought, KinRemoved
      <4>3. Kin(m, two)
        <5>1. Kin(p.list, two)
          BY KinRemoved
        <5> QED
          BY <4>2, <5>1, KinOn
      <4> HIDE DEF p, one, two
      <4>4. Kin(m, Connect(one)) /\ Kin(m, Connect(two))
        BY <4>2, <4>3, KinConnect, KinOn
      <4> QED
        BY <4>1, <4>2, <4>4
    <3>7. Kin(f[k - 1], f[k])
      <4> DEFINE m == f[k - 1]
      <4>1. f[k] = IF Running(m) THEN SubtractOne(m, s[k]) ELSE m
        BY <2>1, <3>4 DEF Subtracting
      <4>2. Kin(m, m)
        BY KinSelf
      <4> HIDE DEF m
      <4>3. Kin(m, f[k])
        BY <3>6, <4>1, <4>2
      <4> QED
        BY <4>3 DEF m
    <3>8. Kin(l, f[k])
      BY <3>5, <3>7, KinOn
    <3> QED
      BY <3>2, <3>8
  <2>3. Len(s) \in 0 .. Len(s)
    BY <1>0
  <2> QED
    BY <2>1, <2>2, <2>3
<1> QED
  BY <1>2, <1>3

\* In front of the row.  A ring that was closed is left closed too early.
LEMMA LinkedInFront ==
  ASSUME NEW l, NEW s, InOrder(l, s), Len(s) # 0, NEW x \in Elements \ SetOfRow(s),
         l.kind = "single" => l.next[LastIn(s)] = NullPtr,
         NEW m, m = InsertBefore(l, s[1], x), NEW t, t = InsertAt(s, 1, x)
  PROVE  /\ Leads(m.next, t) /\ FirstIn(t) = x /\ m \in ListRecord /\ SameRest(l, m) /\ m.curr = l.curr /\ m.inside = l.inside \cup {x}
         /\ l.next[LastIn(s)] = NullPtr => InOrder(m, t) /\ m.next[LastIn(t)] = NullPtr
         /\ l.next[LastIn(s)] # NullPtr => m.next[LastIn(t)] = x /\ LastIn(t) # x
<1> DEFINE n == Len(s)
           e == s[1]
           b == l.prev[e]
<1>1. /\ n \in Nat /\ 1 \in 1 .. n /\ n \in 1 .. n /\ 1 \in 1 .. n + 1 /\ s \in Seq(Elements) /\ Injective(s) /\ x \in Elements
      /\ l \in ListRecord /\ n > 0
  BY LenProperties DEF InOrder, LinkShape, Leads
<1>2. /\ \A i \in 1 .. n : s[i] \in Elements /\ s[i] # NullPtr /\ s[i] \in SetOfRow(s)
      /\ \A y \in SetOfRow(s) : \E i \in 1 .. n : s[i] = y
      /\ FirstIn(s) = s[1] /\ LastIn(s) = s[n]
  BY <1>1, RowFacts
<1>3. /\ t \in Seq(Elements) /\ Injective(t) /\ Len(t) = n + 1 /\ SetOfRow(t) = SetOfRow(s) \cup {x}
      /\ \A i \in 1 .. n + 1 : t[i] = IF i < 1 THEN s[i] ELSE IF i = 1 THEN x ELSE s[i - 1]
  <2>1. RowWith(t, s, 1, x)
    BY <1>1, InsertedRow
  <2> QED
    BY <2>1 DEF RowWith
<1>4. /\ \A i, j \in 1 .. n : s[i] = s[j] => i = j
      /\ \A i \in 1 .. n : s[i] # x
  BY <1>1, <1>2 DEF Injective
<1>5. /\ \A i \in 1 .. n - 1 : l.next[s[i]] = s[i + 1]
      /\ l.next[s[n]] = NullPtr \/ (l.ring /\ l.next[s[n]] = s[1])
      /\ l.kind # "single" =>
           /\ \A i \in 2 .. n : l.prev[s[i]] = s[i - 1]
           /\ l.prev[s[1]] = IF l.next[s[n]] = NullPtr THEN NullPtr ELSE s[n]
      /\ \A y \in Elements \ SetOfRow(s) : l.next[y] = NullPtr /\ (l.kind # "single" => l.prev[y] = NullPtr)
  BY <1>1, <1>2 DEF InOrder, LinkShape, Leads
<1>6. e \in Elements /\ e # x /\ (l.kind # "single" => b # x) /\ x # NullPtr
  BY <1>1, <1>2, <1>4, <1>5, ElementsAssumption
<1>7. /\ m \in ListRecord /\ SameRest(l, m) /\ m.curr = l.curr
      /\ m.inside = l.inside \cup {x}
      /\ m.next[x] = e /\ (l.kind # "single" /\ b # NullPtr => m.next[b] = x)
      /\ \A y \in Elements : y # x /\ (l.kind = "single" \/ y # b) => m.next[y] = l.next[y]
      /\ l.kind = "single" => m.prev = l.prev
      /\ l.kind # "single" => m.prev[x] = b /\ m.prev[e] = x /\ \A y \in Elements : y \notin {x, e} => m.prev[y] = l.prev[y]
  <2>1. m = InsertBefore(l, e, x) /\ b = l.prev[e]
    OBVIOUS
  <2> HIDE DEF e, b
  <2> QED
    BY <1>1, <1>6, <2>1, InsertBeforeIs
<1>8. \A i \in 1 .. n : t[i + 1] = s[i]
  <2> TAKE i \in 1 .. n
  <2>1. i + 1 \in 1 .. n + 1 /\ ~(i + 1 < 1) /\ i + 1 # 1 /\ (i + 1) - 1 = i
    BY <1>1
  <2> QED
    BY <1>3, <2>1
<1>9. t[1] = x /\ FirstIn(t) = x /\ LastIn(t) = s[n]
  <2>1. n + 1 # 0 /\ ~(1 < 1)
    BY <1>1
  <2> QED
    BY <1>1, <1>3, <1>8, <2>1 DEF FirstIn, LastIn
<1>10. ASSUME NEW i \in 1 .. n, l.next[s[n]] = NullPtr \/ i # n
       PROVE  m.next[s[i]] = l.next[s[i]]
  <2>1. l.kind = "single" \/ s[i] # b
    <3>1. CASE l.next[s[n]] = NullPtr
      BY <1>2, <1>5, <3>1
    <3>2. CASE l.next[s[n]] # NullPtr
      BY <1>1, <1>4, <1>5, <1>10, <3>2
    <3> QED
      BY <3>1, <3>2
  <2> HIDE DEF e, b
  <2> QED
    BY <1>2, <1>4, <1>7, <2>1
<1>11. \A i \in 1 .. n - 1 : m.next[s[i]] = s[i + 1]
  <2> TAKE i \in 1 .. n - 1
  <2>1. i \in 1 .. n /\ i # n
    BY <1>1
  <2> QED
    BY <1>5, <1>10, <2>1
<1>12. m.next[s[n]] = IF l.next[s[n]] = NullPtr THEN NullPtr ELSE x
  <2>1. CASE l.next[s[n]] = NullPtr
    BY <1>1, <1>10, <2>1
  <2>2. CASE l.next[s[n]] # NullPtr
    <3>1. l.kind # "single" /\ b = s[n] /\ b # NullPtr
      BY <1>1, <1>2, <1>5, <2>2
    <3> HIDE DEF b
    <3> QED
      BY <1>7, <2>2, <3>1
  <2> QED
    BY <2>1, <2>2
<1>13. \A i \in 1 .. n : m.next[t[i]] = t[i + 1]
  <2> TAKE i \in 1 .. n
  <2>1. CASE i = 1
    BY <1>7, <1>8, <1>9, <2>1
  <2>2. CASE i # 1
    <3>1. i - 1 \in 1 .. n /\ i - 1 \in 1 .. n - 1 /\ (i - 1) + 1 = i
      BY <1>1, <2>2
    <3>2. t[i] = s[i - 1] /\ t[i + 1] = s[i]
      BY <1>8, <3>1
    <3> QED
      BY <1>11, <3>1, <3>2
  <2> QED
    BY <2>1, <2>2
<1>14. Leads(m.next, t)
  <2>1. \A i \in 1 .. Len(t) - 1 : m.next[t[i]] = t[i + 1]
    <3>1. (n + 1) - 1 = n
      BY <1>1
    <3> QED
      BY <1>3, <1>13, <3>1
  <2>2. m.next[LastIn(t)] \in SetOfRow(t) \cup {NullPtr}
    BY <1>3, <1>9, <1>12
  <2> QED
    BY <1>3, <2>1, <2>2 DEF Leads
<1>15. ASSUME l.next[s[n]] = NullPtr
       PROVE  InOrder(m, t)
  <2>1. ASSUME l.kind # "single", NEW i \in 2 .. n + 1
        PROVE  m.prev[t[i]] = t[i - 1]
    <3>1. i - 1 \in 1 .. n /\ (i - 1) + 1 = i
      BY <1>1
    <3>2. t[i] = s[i - 1]
      BY <1>8, <3>1
    <3>3. CASE i = 2
      BY <1>7, <1>9, <2>1, <3>2, <3>3
    <3>4. CASE i # 2
      <4>1. i - 1 \in 2 .. n /\ i - 1 # 1 /\ (i - 1) - 1 \in 1 .. n /\ ((i - 1) - 1) + 1 = i - 1
        BY <1>1, <3>4
      <4>2. s[i - 1] # e /\ s[i - 1] # x /\ s[i - 1] \in Elements
        BY <1>1, <1>2, <1>4, <3>1, <4>1
      <4>3. l.prev[s[i - 1]] = s[(i - 1) - 1]
        BY <1>5, <2>1, <4>1
      <4>4. t[i - 1] = s[(i - 1) - 1]
        BY <1>8, <4>1
      <4> HIDE DEF e, b
      <4> QED
        BY <1>7, <2>1, <3>2, <4>2, <4>3, <4>4
    <3> QED
      BY <3>3, <3>4
  <2>2. l.kind # "single" => m.prev[t[1]] = NullPtr
    BY <1>5, <1>7, <1>9, <1>15
  <2>3. \A y \in Elements \ SetOfRow(t) : m.next[y] = NullPtr /\ (l.kind # "single" => m.prev[y] = NullPtr)
    <3> TAKE y \in Elements \ SetOfRow(t)
    <3>1. y \in Elements /\ y # x /\ y \notin SetOfRow(s) /\ y # e
      BY <1>1, <1>2, <1>3
    <3>2. l.kind # "single" => b = NullPtr
      BY <1>5, <1>15
    <3>3. y # NullPtr
      BY <3>1, ElementsAssumption
    <3>4. l.next[y] = NullPtr /\ (l.kind # "single" => l.prev[y] = NullPtr)
      BY <1>5, <3>1
    <3> HIDE DEF e, b
    <3> QED
      BY <1>7, <3>1, <3>2, <3>3, <3>4
  <2>4. m.kind = l.kind /\ m.ring = l.ring
    BY <1>7 DEF SameRest, SameClass
  <2>5. m.next[LastIn(t)] = NullPtr
    BY <1>9, <1>12, <1>15
  <2> HIDE DEF n, e, b
  <2> QED
    BY <1>3, <1>7, <1>14, <2>1, <2>2, <2>3, <2>4, <2>5 DEF InOrder, LinkShape
<1>16. LastIn(t) # x
  BY <1>1, <1>4, <1>9
<1> QED
  BY <1>2, <1>7, <1>9, <1>12, <1>14, <1>15, <1>16

-----------------------------------------------------------------------------
(* Insertion *)

\* What is neither a link nor an end can change.
LEMMA CurrIs ==
  ASSUME NEW l \in ListRecord, NEW c \in Places, NEW m, m = [l EXCEPT !.curr = c]
  PROVE  m \in ListRecord /\ SameRest(l, m) /\ SameLinks(l, m) /\ m.inside = l.inside /\ m.curr = c /\ m.nr = l.nr
BY DEF ListRecord, SameRest, SameClass, SameEnds, SameLinks

\* The note that the numbers are stale touches nothing else,
LEMMA MarkedIs ==
  ASSUME NEW l \in ListRecord, NEW m, m = [l EXCEPT !.renumber = TRUE]
  PROVE  m \in ListRecord /\ SameRest(l, m) /\ SameLinks(l, m) /\ m.inside = l.inside /\ m.curr = l.curr
BY DEF ListRecord, SameRest, SameClass, SameEnds, SameLinks

\* nor does a number.
LEMMA NumberIs ==
  ASSUME NEW l \in ListRecord, NEW e \in Elements, NEW v \in Int, NEW m, m = [l EXCEPT !.nr[e] = v]
  PROVE  m \in ListRecord /\ SameRest(l, m) /\ SameLinks(l, m) /\ m.inside = l.inside /\ m.curr = l.curr
<1> DEFINE nr == [l.nr EXCEPT ![e] = v]
<1>1. nr \in [Elements -> Int]
  BY DEF ListRecord
<1>2. m = [l EXCEPT !.nr = nr]
  BY DEF ListRecord
<1> HIDE DEF nr
<1> QED
  BY <1>1, <1>2 DEF ListRecord, SameRest, SameClass, SameEnds, SameLinks

\* Setting the tail and counting up change just that; a program that stopped counts no more.
LEMMA EndsAre ==
  ASSUME NEW l \in ListRecord, NEW e \in Places
  PROVE  /\ LET m == SetTail(l, e)
            IN /\ m \in ListRecord /\ SameClass(l, m) /\ SameLinks(l, m) /\ m.inside = l.inside /\ m.curr = l.curr
               /\ m.head = l.head /\ m.tail = e /\ m.count = l.count /\ m.status = l.status
         /\ Running(l) => LET m == Counted(l)
            IN /\ m \in ListRecord /\ SameClass(l, m) /\ SameLinks(l, m) /\ m.inside = l.inside /\ m.curr = l.curr
               /\ m.head = l.head /\ m.tail = l.tail /\ m.count = l.count + 1 /\ m.status = l.status
         /\ ~Running(l) => Counted(l) = l
BY DEF SetTail, Counted, Running, ListRecord, SameClass, SameLinks

\* The links stay in order if they stay.
LEMMA OrderStays ==
  ASSUME NEW l, NEW m, NEW s, InOrder(l, s), m \in ListRecord, SameClass(l, m), SameLinks(l, m)
  PROVE  InOrder(m, s)
BY DEF InOrder, SameClass, SameLinks

\* The list is the row s exactly if its links are and its own fields agree.
LEMMA ShapeIs ==
  ASSUME NEW l, NEW s
  PROVE  Shape(l, s) <=> /\ InOrder(l, s) /\ Running(l) /\ ~(l.kind = "single" /\ l.ring)
                         /\ EndShape(l, s)
BY DEF Shape, InOrder

\* Where an element is.
LEMMA PlaceIs ==
  ASSUME NEW s \in Seq(Elements), Injective(s), NEW p \in SetOfRow(s)
  PROVE  PlaceOf(s, p) \in 1 .. Len(s) /\ s[PlaceOf(s, p)] = p /\ \A i \in 1 .. Len(s) : s[i] = p => PlaceOf(s, p) = i
<1>1. \E i \in DOMAIN s : s[i] = p
  BY RowFacts
<1>2. PlaceOf(s, p) \in DOMAIN s /\ s[PlaceOf(s, p)] = p
  BY <1>1 DEF PlaceOf
<1>3. DOMAIN s = 1 .. Len(s)
  BY LenProperties
<1> QED
  BY <1>2, <1>3 DEF Injective

\* A row with an element in front.
LEMMA FrontInserted ==
  ASSUME NEW s \in Seq(Elements), NEW e \in Elements, NEW t, t = InsertAt(s, 1, e)
  PROVE  t \in Seq(Elements) /\ Len(t) = Len(s) + 1 /\ t[1] = e
<1> DEFINE k == 1
<1>1. k \in 1 .. Len(s) + 1 /\ t = InsertAt(s, k, e)
  BY LenProperties
<1> HIDE DEF k
<1>2. /\ t \in Seq(Elements) /\ Len(t) = Len(s) + 1
      /\ \A i \in 1 .. Len(s) + 1 : t[i] = IF i < k THEN s[i] ELSE IF i = k THEN e ELSE s[i - 1]
  <2>1. InsertedAs(t, s, k, e)
    BY <1>1, InsertedAt
  <2> QED
    BY <2>1 DEF InsertedAs
<1>3. t[k] = e
  BY <1>1, <1>2
<1> QED
  BY <1>2, <1>3 DEF k

\* The first element of all.
LEMMA FirstInserted ==
  ASSUME NEW l, NEW s, Shape(l, s), Len(s) = 0, NEW e \in Elements, NEW t, t = InsertAt(s, 1, e)
  PROVE  InOrder(l, t) /\ l.next[LastIn(t)] = NullPtr /\ FirstIn(t) = e /\ LastIn(t) = e /\ Len(t) = 1 /\ Len(t) > 0 /\ SetOfRow(t) = {e}
<1>1. s \in Seq(Elements) /\ Injective(s) /\ SetOfRow(s) = {} /\ 1 \in 1 .. Len(s) + 1 /\ e \in Elements \ SetOfRow(s)
  <2>1. s \in Seq(Elements) /\ Injective(s)
    BY ShapeFacts
  <2>2. SetOfRow(s) = {}
    BY DEF SetOfRow
  <2>3. 1 \in 1 .. Len(s) + 1
    OBVIOUS
  <2> QED
    BY <2>1, <2>2, <2>3, Zenon
<1>2. t \in Seq(Elements) /\ Len(t) = 1 /\ t[1] = e
  <2>1. t \in Seq(Elements) /\ Len(t) = Len(s) + 1 /\ t[1] = e
    BY <1>1, FrontInserted, Zenon
  <2> QED
    BY <2>1
<1>3. Injective(t) /\ SetOfRow(t) = {e}
  BY <1>2 DEF SetOfRow, Injective
<1>4. FirstIn(t) = e /\ LastIn(t) = e
  BY <1>2 DEF FirstIn, LastIn
<1>5. /\ l \in ListRecord
      /\ \A y \in Elements : l.next[y] = NullPtr /\ (l.kind # "single" => l.prev[y] = NullPtr)
  BY <1>1 DEF Shape, LinkShape
<1>6. Leads(l.next, t)
  BY <1>2, <1>3, <1>4, <1>5 DEF Leads
<1>7. Len(t) > 0
  BY <1>2
<1> QED
  BY <1>2, <1>3, <1>4, <1>5, <1>6, <1>7 DEF InOrder, LinkShape

\* An insertion puts the element where it is asked for, or hangs, in a ring.
LEMMA ProtInsertIs ==
  ASSUME NEW l, NEW s, Shape(l, s), NEW p, p \in SetOfRow(s) \cup {NullPtr}, NEW e \in Elements \ SetOfRow(s),
         NEW m, m = ProtInsert(l, p, e), NEW k, k = (IF p = NullPtr THEN 1 ELSE PlaceOf(s, p) + 1),
         NEW t, t = InsertAt(s, k, e)
  PROVE  /\ Running(m) => Shape(m, t)
         /\ Running(m) \/ l.ring
<1> DEFINE n == IF l.kind = "set" THEN l ELSE [l EXCEPT !.curr = e]
           numbered == [n EXCEPT !.nr[e] = l.nr[l.tail] + 1]
           i == [n EXCEPT !.inside = @ \cup {e}]
           only == SetHead(i, e)
           marked == [n EXCEPT !.renumber = TRUE]
           before == InsertBefore(n, l.head, e)
           last == InsertNext(numbered, p, e)
           mid == InsertNext(marked, p, e)
           done == IF l.count = 0 THEN SetTail(only, e) ELSE IF p = NullPtr THEN SetHead(before, e)
                   ELSE IF p = l.tail THEN SetTail(last, e) ELSE mid
<1>1. m = Counted(done)
  BY DEF ProtInsert
<1>2. /\ InOrder(l, s) /\ Running(l) /\ ~(l.kind = "single" /\ l.ring) /\ EndShape(l, s)
      /\ l \in ListRecord /\ s \in Seq(Elements) /\ Injective(s) /\ Leads(l.next, s) /\ e \in Elements /\ e \in Places /\ e # NullPtr
  BY ShapeIs, ShapeFacts, ElementsAssumption DEF Places
<1>3. /\ Len(s) \in Nat /\ SetOfRow(s) \subseteq Elements /\ (Len(s) = 0 <=> SetOfRow(s) = {})
      /\ Len(s) # 0 => FirstIn(s) = s[1] /\ LastIn(s) = s[Len(s)] /\ FirstIn(s) \in SetOfRow(s) /\ LastIn(s) \in SetOfRow(s)
      /\ \A j \in 1 .. Len(s) : s[j] \in SetOfRow(s)
  BY <1>2, RowFacts, Zenon
<1>4. l.inside = SetOfRow(s) /\ l.count = Len(s) /\ l.head = FirstIn(s) /\ l.tail = LastIn(s) /\ l.curr \in SetOfRow(s) \cup {NullPtr}
  BY <1>2 DEF EndShape
<1>5. /\ n \in ListRecord /\ SameRest(l, n) /\ SameLinks(l, n) /\ n.inside = l.inside /\ n.curr \in SetOfRow(s) \cup {NullPtr, e}
      /\ n.nr = l.nr
  <2>1. CASE l.kind = "set"
    BY <1>2, <1>4, <2>1 DEF SameRest, SameClass, SameEnds, SameLinks
  <2>2. CASE l.kind # "set"
    <3> DEFINE c == [l EXCEPT !.curr = e]
    <3>1. c \in ListRecord /\ SameRest(l, c) /\ SameLinks(l, c) /\ c.inside = l.inside /\ c.curr = e /\ c.nr = l.nr
      BY <1>2, CurrIs
    <3>2. n = c
      BY <2>2
    <3> HIDE DEF c, n
    <3> QED
      BY <3>1, <3>2
  <2> QED
    BY <2>1, <2>2
<1> HIDE DEF n
<1>6. /\ n.kind = l.kind /\ n.ring = l.ring /\ n.next = l.next /\ n.prev = l.prev /\ n.head = l.head /\ n.tail = l.tail /\ n.count = l.count
      /\ n.status = l.status /\ Running(n)
  BY <1>2, <1>5 DEF SameRest, SameClass, SameEnds, SameLinks, Running
<1>7. InOrder(n, s)
  BY <1>2, <1>5, OrderStays DEF SameRest
<1>8. CASE Len(s) = 0
  <2>1. k = 1 /\ p = NullPtr
    BY <1>3, <1>8
  <2>2. InOrder(l, t) /\ l.next[LastIn(t)] = NullPtr /\ FirstIn(t) = e /\ LastIn(t) = e /\ Len(t) = 1 /\ Len(t) > 0 /\ SetOfRow(t) = {e}
    <3>1. t = InsertAt(s, 1, e)
      BY <2>1
    <3>2. e \in Elements
      BY <1>2
    <3> QED
      BY <1>8, <3>1, <3>2, ShapeIs, FirstInserted
  <2>3. /\ i \in ListRecord /\ SameRest(n, i) /\ SameLinks(n, i) /\ i.curr = n.curr /\ i.inside = n.inside \cup {e}
    BY <1>2, <1>5, JoinIs
  <2> HIDE DEF i
  <2>4. Running(i) /\ Leads(i.next, t) /\ i.next[LastIn(t)] = NullPtr /\ e = FirstIn(t) /\ InOrder(i, t) /\ Len(t) > 0
    <3>1. InOrder(i, t)
      BY <1>6, <2>2, <2>3, OrderStays DEF SameRest, SameClass, SameLinks
    <3>2. i.next = l.next /\ i.status = l.status
      BY <1>6, <2>3 DEF SameRest, SameEnds, SameLinks
    <3>3. Leads(i.next, t) /\ Running(i)
      BY <1>2, <3>1, <3>2 DEF Running, InOrder, LinkShape
    <3> QED
      BY <2>2, <3>1, <3>2, <3>3
  <2>5. /\ Running(only) /\ only \in ListRecord /\ SameClass(i, only) /\ SameLinks(i, only) /\ only.inside = i.inside /\ only.curr = i.curr
        /\ only.tail = i.tail /\ only.count = i.count /\ only.head = e
    BY <2>3, <2>4, SetHeadIs
  <2> HIDE DEF only
  <2>6. done = SetTail(only, e)
    BY <1>4, <1>8
  <2> HIDE DEF done
  <2>7. /\ done \in ListRecord /\ SameClass(only, done) /\ SameLinks(only, done) /\ done.inside = only.inside /\ done.curr = only.curr
        /\ done.head = only.head /\ done.tail = e /\ done.count = only.count /\ done.status = only.status
    BY <1>2, <2>5, <2>6, EndsAre
  <2>8. Running(done)
    BY <2>5, <2>7 DEF Running
  <2>9. /\ m \in ListRecord /\ SameClass(done, m) /\ SameLinks(done, m) /\ m.inside = done.inside /\ m.curr = done.curr
        /\ m.head = done.head /\ m.tail = done.tail /\ m.count = done.count + 1 /\ m.status = done.status
    BY <1>1, <1>2, <2>7, <2>8, EndsAre
  <2>10. InOrder(m, t)
    BY <2>4, <2>5, <2>7, <2>9, OrderStays DEF SameClass, SameLinks
  <2>11. Running(m) /\ ~(m.kind = "single" /\ m.ring)
    BY <1>2, <1>6, <2>3, <2>5, <2>7, <2>8, <2>9 DEF Running, SameClass, SameRest
  <2>12. EndShape(m, t)
    <3>1. m.inside = {e} /\ m.head = e /\ m.tail = e /\ m.curr \in {e, NullPtr}
      BY <1>3, <1>4, <1>5, <1>8, <2>3, <2>5, <2>7, <2>9
    <3>2. m.count = 1
      BY <1>4, <1>6, <1>8, <2>3, <2>5, <2>7, <2>9 DEF SameRest, SameEnds
    <3> QED
      BY <2>2, <3>1, <3>2 DEF EndShape
  <2> QED
    BY <2>10, <2>11, <2>12, ShapeIs
<1>9. CASE Len(s) # 0 /\ p = NullPtr
  <2>1. k = 1 /\ l.head = s[1] /\ before = InsertBefore(n, s[1], e) /\ t = InsertAt(s, 1, e)
    BY <1>3, <1>4, <1>9
  <2>2. n.kind = "single" => n.next[LastIn(s)] = NullPtr
    BY <1>2, <1>3, <1>6, <1>9 DEF InOrder, LinkShape
  <2> HIDE DEF before
  <2>3. /\ Leads(before.next, t) /\ FirstIn(t) = e /\ before \in ListRecord /\ SameRest(n, before) /\ before.curr = n.curr
        /\ before.inside = n.inside \cup {e}
        /\ n.next[LastIn(s)] = NullPtr => InOrder(before, t) /\ before.next[LastIn(t)] = NullPtr
        /\ n.next[LastIn(s)] # NullPtr => before.next[LastIn(t)] = e /\ LastIn(t) # e
    BY <1>7, <1>9, <2>1, <2>2, LinkedInFront
  <2>4. Running(before)
    BY <1>6, <2>3 DEF Running, SameRest, SameEnds
  <2> DEFINE h == SetHead(before, e)
  <2>5. /\ Running(h) <=> Len(t) > 0 /\ before.next[LastIn(t)] \in {NullPtr, LastIn(t)}
        /\ Running(h) => /\ h \in ListRecord /\ SameClass(before, h) /\ SameLinks(before, h) /\ h.inside = before.inside /\ h.curr = before.curr
                         /\ h.tail = before.tail /\ h.count = before.count /\ h.head = e
    BY <2>3, <2>4, SetHeadIs
  <2>6. done = h
    BY <1>4, <1>9
  <2> HIDE DEF done, h
  <2>7. /\ t \in Seq(Elements) /\ Len(t) = Len(s) + 1 /\ SetOfRow(t) = SetOfRow(s) \cup {e} /\ LastIn(t) = LastIn(s)
    <3>1. k \in 1 .. Len(s) + 1
      BY <1>3, <2>1
    <3>2. /\ t \in Seq(Elements) /\ Len(t) = Len(s) + 1 /\ SetOfRow(t) = SetOfRow(s) \cup {e}
          /\ \A j \in 1 .. Len(s) : t[IF j < k THEN j ELSE j + 1] = s[j]
      <4>1. RowWith(t, s, k, e)
        BY <1>2, <3>1, InsertedRow
      <4> QED
        BY <4>1 DEF RowWith
    <3>3. t[Len(s) + 1] = s[Len(s)]
      BY <1>3, <1>9, <2>1, <3>2
    <3> QED
      BY <1>3, <1>9, <3>2, <3>3 DEF LastIn
  <2>8. CASE n.next[LastIn(s)] = NullPtr
    <3>1. Running(h) /\ InOrder(before, t)
      BY <1>3, <2>3, <2>5, <2>7, <2>8
    <3>2. /\ m \in ListRecord /\ SameClass(h, m) /\ SameLinks(h, m) /\ m.inside = h.inside /\ m.curr = h.curr
          /\ m.head = h.head /\ m.tail = h.tail /\ m.count = h.count + 1 /\ m.status = h.status
      BY <1>1, <1>2, <2>5, <2>6, <3>1, EndsAre
    <3>3. InOrder(m, t)
      BY <2>5, <3>1, <3>2, OrderStays DEF SameClass, SameLinks
    <3>4. Running(m) /\ ~(m.kind = "single" /\ m.ring)
      BY <1>2, <1>6, <2>3, <2>5, <3>1, <3>2 DEF Running, SameClass, SameRest
    <3>5. EndShape(m, t)
      <4>1. m.inside = n.inside \cup {e} /\ m.curr = n.curr /\ m.head = e /\ FirstIn(t) = e
        BY <2>3, <2>5, <3>1, <3>2
      <4>2. n.inside = SetOfRow(s) /\ n.curr \in SetOfRow(s) \cup {NullPtr, e}
        BY <1>4, <1>5
      <4>3. SetOfRow(t) = SetOfRow(s) \cup {e}
        BY <2>7
      <4>4. m.inside = SetOfRow(t) /\ m.curr \in SetOfRow(t) \cup {NullPtr} /\ m.head = FirstIn(t)
        BY <4>1, <4>2, <4>3
      <4>5. m.count = Len(t) /\ m.tail = LastIn(t)
        BY <1>4, <1>6, <2>3, <2>5, <2>7, <3>1, <3>2 DEF SameRest, SameEnds
      <4> QED
        BY <4>4, <4>5 DEF EndShape
    <3> QED
      BY <3>3, <3>4, <3>5, ShapeIs
  <2>9. CASE n.next[LastIn(s)] # NullPtr
    <3>1. ~Running(h)
      BY <1>2, <2>3, <2>5, <2>9
    <3>2. m = h
      BY <1>1, <1>2, <2>3, <2>6, <3>1, EndsAre DEF Counted
    <3>3. l.ring
      BY <1>2, <1>3, <1>6, <1>9, <2>9 DEF InOrder, LinkShape
    <3> QED
      BY <3>1, <3>2, <3>3
  <2> QED
    BY <2>8, <2>9
<1>10. CASE Len(s) # 0 /\ p # NullPtr
  <2> DEFINE j == PlaceOf(s, p)
             from == IF p = l.tail THEN numbered ELSE marked
             linked == InsertNext(from, p, e)
  <2>1. p \in SetOfRow(s)
    BY <1>10
  <2>2. j \in 1 .. Len(s) /\ s[j] = p /\ k = j + 1 /\ p \in Elements /\ (p = l.tail <=> ~(j < Len(s)))
    <3>1. j \in 1 .. Len(s) /\ s[j] = p /\ k = j + 1 /\ p \in Elements
      BY <1>2, <1>3, <1>10, <2>1, PlaceIs
    <3>2. p = l.tail <=> j = Len(s)
      <4>1. Len(s) \in 1 .. Len(s) /\ l.tail = s[Len(s)]
        BY <1>3, <1>4, <1>10
      <4> HIDE DEF j
      <4> QED
        BY <1>2, <3>1, <4>1 DEF Injective
    <3> HIDE DEF j
    <3> QED
      BY <1>3, <3>1, <3>2
  <2> HIDE DEF j
  <2>3. /\ from \in ListRecord /\ SameRest(n, from) /\ SameLinks(n, from) /\ from.inside = n.inside /\ from.curr = n.curr
    <3>1. l.nr[l.tail] + 1 \in Int
      <4>1. l.tail \in Elements /\ l.nr \in [Elements -> Int]
        BY <1>2, <1>3, <1>4, <1>10 DEF ListRecord
      <4> QED
        BY <4>1
    <3>3. /\ marked \in ListRecord /\ SameRest(n, marked) /\ SameLinks(n, marked) /\ marked.inside = n.inside /\ marked.curr = n.curr
      BY <1>5, MarkedIs
    <3>4. /\ numbered \in ListRecord /\ SameRest(n, numbered) /\ SameLinks(n, numbered) /\ numbered.inside = n.inside
          /\ numbered.curr = n.curr
      BY <1>2, <1>5, <3>1, NumberIs
    <3> HIDE DEF marked, numbered
    <3> QED
      BY <3>3, <3>4
  <2>4. done = IF p = l.tail THEN SetTail(linked, e) ELSE linked
    <3> HIDE DEF only, before, numbered, marked
    <3> QED
      BY <1>4, <1>10
  <2> HIDE DEF from, done
  <2>5. InOrder(from, s)
    BY <1>7, <2>3, OrderStays DEF SameRest
  <2>6. /\ InOrder(linked, t) /\ SameRest(from, linked) /\ linked.curr = from.curr /\ linked.inside = from.inside \cup {e}
        /\ FirstIn(t) = FirstIn(s) /\ LastIn(t) = IF j < Len(s) THEN LastIn(s) ELSE e
    BY <2>2, <2>5, LinkedBehind
  <2> HIDE DEF linked
  <2>7. linked \in ListRecord /\ Running(linked) /\ linked.kind = l.kind /\ linked.ring = l.ring /\ linked.head = l.head /\ linked.tail = l.tail
        /\ linked.count = l.count /\ linked.curr = n.curr /\ linked.inside = l.inside \cup {e}
    BY <1>2, <1>5, <1>6, <2>3, <2>6 DEF InOrder, SameRest, SameClass, SameEnds, Running
  <2>8. /\ done \in ListRecord /\ SameClass(linked, done) /\ SameLinks(linked, done) /\ done.inside = linked.inside /\ done.curr = linked.curr
        /\ done.head = linked.head /\ done.count = linked.count /\ done.status = linked.status
        /\ done.tail = LastIn(t)
    <3>1. CASE p = l.tail
      BY <1>2, <2>2, <2>4, <2>6, <2>7, <3>1, EndsAre
    <3>2. CASE p # l.tail
      BY <1>4, <2>2, <2>4, <2>6, <2>7, <3>2 DEF SameClass, SameLinks
    <3> QED
      BY <3>1, <3>2
  <2>9. Running(done)
    BY <2>7, <2>8 DEF Running
  <2>10. /\ m \in ListRecord /\ SameClass(done, m) /\ SameLinks(done, m) /\ m.inside = done.inside /\ m.curr = done.curr
         /\ m.head = done.head /\ m.tail = done.tail /\ m.count = done.count + 1 /\ m.status = done.status
    BY <1>1, <1>2, <2>8, <2>9, EndsAre
  <2>11. InOrder(m, t)
    BY <2>6, <2>8, <2>10, OrderStays DEF SameClass, SameLinks
  <2>12. Running(m) /\ ~(m.kind = "single" /\ m.ring)
    BY <1>2, <2>7, <2>8, <2>9, <2>10 DEF Running, SameClass
  <2>13. k \in 1 .. Len(s) + 1
    BY <1>3, <2>2
  <2>14. Len(t) = Len(s) + 1 /\ SetOfRow(t) = SetOfRow(s) \cup {e}
    <3>1. RowWith(t, s, k, e)
      BY <1>2, <2>13, InsertedRow
    <3> QED
      BY <3>1 DEF RowWith
  <2>15. EndShape(m, t)
    BY <1>4, <1>5, <2>6, <2>7, <2>8, <2>10, <2>14 DEF EndShape
  <2> QED
    BY <2>11, <2>12, <2>15, ShapeIs
<1> QED
  BY <1>8, <1>9, <1>10

\* A ring closes itself; whatever has ended stays as it is.
LEMMA ConnectIs ==
  ASSUME NEW l, NEW s, Shape(l, s), NEW m, m = Connect(l)
  PROVE  Shape(m, s) /\ m.inside = l.inside /\ m.curr = l.curr
<1>1. /\ InOrder(l, s) /\ Running(l) /\ ~(l.kind = "single" /\ l.ring) /\ EndShape(l, s)
      /\ l \in ListRecord /\ s \in Seq(Elements) /\ Injective(s)
  BY ShapeIs, ShapeFacts
<1>2. CASE m = l
  BY <1>2
<1>3. CASE m # l
  <2> DEFINE forth == IF GetNext(l, l.tail) = l.head THEN l ELSE SetNext(l, l.tail, l.head)
             last == LastIn(s)
             first == s[1]
  <2>1. l.ring /\ l.head # NullPtr /\ l.kind # "single"
    BY <1>1, <1>3 DEF Connect
  <2>2. m = IF GetPrev(forth, l.head) = l.tail THEN forth ELSE SetPrev(forth, l.head, l.tail)
    BY <1>1, <1>3, <2>1 DEF Connect, Single
  <2>3. Len(s) # 0 /\ Len(s) > 0 /\ Len(s) \in Nat
    <3>1. Len(s) # 0
      BY <1>1, <2>1 DEF EndShape, FirstIn
    <3> QED
      BY <1>1, <3>1, LenProperties
  <2>4. /\ last \in Elements /\ first \in Elements /\ last \in SetOfRow(s) /\ first \in SetOfRow(s) /\ l.tail = last /\ l.head = first
        /\ first # NullPtr /\ last = s[Len(s)] /\ FirstIn(s) = first
    BY <1>1, <2>3, RowFacts DEF EndShape
  <2>5. l.next \in [Elements -> Places] /\ l.prev \in [Elements -> Places] /\ first \in Places /\ last \in Places
    BY <1>1, <2>4 DEF ListRecord, Places
  <2> HIDE DEF last, first
  <2>6. /\ forth \in ListRecord /\ SameRest(l, forth) /\ forth.curr = l.curr /\ forth.inside = l.inside
        /\ forth.next = [l.next EXCEPT ![last] = first] /\ forth.prev = l.prev
    <3>1. CASE l.next[last] = first
      <4>1. forth = l
        BY <2>4, <3>1 DEF GetNext
      <4>2. l.next = [l.next EXCEPT ![last] = first]
        BY <2>4, <2>5, <3>1
      <4> QED
        BY <1>1, <4>1, <4>2 DEF SameRest, SameClass, SameEnds
    <3>2. CASE l.next[last] # first
      <4>1. forth = SetNext(l, last, first)
        BY <2>4, <3>2 DEF GetNext
      <4> HIDE DEF forth
      <4> QED
        BY <1>1, <2>4, <2>5, <4>1, SetNextIs
    <3> QED
      BY <3>1, <3>2
  <2> HIDE DEF forth
  <2>7. /\ m \in ListRecord /\ SameRest(forth, m) /\ m.curr = forth.curr /\ m.inside = forth.inside
        /\ m.prev = [l.prev EXCEPT ![first] = last] /\ m.next = forth.next
    <3>1. CASE l.prev[first] = last
      <4>1. m = forth
        BY <2>2, <2>4, <2>6, <3>1 DEF GetPrev
      <4>2. l.prev = [l.prev EXCEPT ![first] = last]
        BY <2>4, <2>5, <3>1
      <4> QED
        BY <2>6, <4>1, <4>2 DEF SameRest, SameClass, SameEnds
    <3>2. CASE l.prev[first] # last
      <4>1. m = SetPrev(forth, first, last)
        BY <2>2, <2>4, <2>6, <3>2 DEF GetPrev
      <4> QED
        BY <2>4, <2>5, <2>6, <4>1, SetPrevIs
    <3> QED
      BY <3>1, <3>2
  <2>8. /\ m.next[last] = first /\ \A y \in Elements : y # last => m.next[y] = l.next[y]
        /\ m.prev[first] = last /\ \A y \in Elements : y # first => m.prev[y] = l.prev[y]
    BY <2>4, <2>5, <2>6, <2>7
  <2>9. \A i \in 1 .. Len(s) : s[i] \in Elements /\ (i # 1 => s[i] # first) /\ (i # Len(s) => s[i] # last)
    <3>1. 1 \in 1 .. Len(s) /\ Len(s) \in 1 .. Len(s)
      BY <2>3
    <3>2. \A i \in 1 .. Len(s) : s[i] \in Elements
      BY <1>1, RowFacts
    <3>3. \A i, j \in 1 .. Len(s) : s[i] = s[j] => i = j
      BY <1>1 DEF Injective
    <3>4. first = s[1]
      BY DEF first
    <3> QED
      BY <2>4, <3>1, <3>2, <3>3, <3>4
  <2>10. /\ \A i \in 1 .. Len(s) - 1 : l.next[s[i]] = s[i + 1]
         /\ \A i \in 2 .. Len(s) : l.prev[s[i]] = s[i - 1]
         /\ \A y \in Elements \ SetOfRow(s) : l.next[y] = NullPtr /\ l.prev[y] = NullPtr
    BY <1>1, <2>1 DEF InOrder, LinkShape, Leads
  <2>11. \A i \in 1 .. Len(s) - 1 : m.next[s[i]] = s[i + 1]
    <3> TAKE i \in 1 .. Len(s) - 1
    <3>1. i \in 1 .. Len(s) /\ i # Len(s)
      BY <2>3
    <3> QED
      BY <2>8, <2>9, <2>10, <3>1
  <2>12. \A i \in 2 .. Len(s) : m.prev[s[i]] = s[i - 1]
    <3> TAKE i \in 2 .. Len(s)
    <3>1. i \in 1 .. Len(s) /\ i # 1
      BY <2>3
    <3> QED
      BY <2>8, <2>9, <2>10, <3>1
  <2>13. \A y \in Elements \ SetOfRow(s) : m.next[y] = NullPtr /\ m.prev[y] = NullPtr
    BY <2>4, <2>8, <2>10
  <2>14. Leads(m.next, s)
    BY <1>1, <2>4, <2>8, <2>11 DEF Leads, last
  <2>15. m.kind = l.kind /\ m.ring = l.ring /\ m.head = l.head /\ m.tail = l.tail /\ m.count = l.count /\ m.status = l.status
    BY <2>6, <2>7 DEF SameRest, SameClass, SameEnds
  <2>16. InOrder(m, s)
    <3>1. Len(s) > 0 => m.next[LastIn(s)] = NullPtr \/ (m.ring /\ m.next[LastIn(s)] = s[1])
      BY <2>1, <2>8, <2>15 DEF last, first
    <3>2. Len(s) > 0 => m.prev[s[1]] = IF m.next[LastIn(s)] = NullPtr THEN NullPtr ELSE LastIn(s)
      BY <2>4, <2>8 DEF last, first
    <3> QED
      BY <2>7, <2>12, <2>13, <2>14, <3>1, <3>2 DEF InOrder, LinkShape
  <2>17. EndShape(m, s) /\ Running(m) /\ ~(m.kind = "single" /\ m.ring)
    BY <1>1, <2>6, <2>7, <2>15 DEF EndShape, Running
  <2> QED
    BY <2>6, <2>7, <2>16, <2>17, ShapeIs
<1> QED
  BY <1>2, <1>3

\* A program that stopped closes no ring.
LEMMA ConnectStopped == \A l : ~Running(l) => Connect(l) = l
BY DEF Connect

\* A list in order, or one that no method is called of any more.
InRow(l, s) == Running(l) => Shape(l, s)

\* Closing the ring leaves the row as it is.
LEMMA ConnectRow == ASSUME NEW l, NEW s, InRow(l, s) PROVE InRow(Connect(l), s)
BY ConnectIs, ConnectStopped DEF InRow

\* A search by value gives an element of the list with that value, or the null pointer if there is none.
LEMMA MemberIs ==
  ASSUME NEW l, NEW v
  PROVE  /\ Member(l, v) = NullPtr \/ (Member(l, v) \in l.inside /\ Value[Member(l, v)] = v)
         /\ l.inside \subseteq Elements => (Member(l, v) = NullPtr <=> v \notin Values(l.inside))
<1> DEFINE same == {e \in l.inside : Value[e] = v}
<1>1. CASE same = {}
  BY <1>1 DEF Member, Values
<1>2. CASE same # {}
  <2>1. Member(l, v) \in same
    BY <1>2 DEF Member
  <2> QED
    BY <2>1, ElementsAssumption DEF Values
<1> QED
  BY <1>1, <1>2

\* A set takes what compares equal to nothing it has; the others take all.
LEMMA InsertIs ==
  ASSUME NEW l, NEW s, Shape(l, s), NEW p, p \in SetOfRow(s) \cup {NullPtr}, NEW e \in Elements,
         l.kind # "set" => e \notin SetOfRow(s),
         NEW m, m = Insert(l, p, e), NEW k, k = (IF p = NullPtr THEN 1 ELSE PlaceOf(s, p) + 1),
         NEW taken, taken = (l.kind # "set" \/ Value[e] \notin Values(SetOfRow(s)))
  PROVE  /\ InRow(m, IF taken THEN InsertAt(s, k, e) ELSE s)
         /\ Running(m) \/ l.ring
         /\ taken => e \notin SetOfRow(s)
<1>1. l.inside = SetOfRow(s) /\ SetOfRow(s) \subseteq Elements /\ Running(l)
  <2>1. s \in Seq(Elements) /\ l.inside = SetOfRow(s) /\ Running(l)
    BY ShapeFacts
  <2> QED
    BY <2>1, RowFacts
<1>2. l.kind = "set" /\ Member(l, Value[e]) # NullPtr <=> ~taken
  BY <1>1, MemberIs
<1>3. taken => e \notin SetOfRow(s)
  BY DEF Values
<1>4. CASE taken
  <2>1. m = ProtInsert(l, p, e)
    BY <1>2, <1>4 DEF Insert
  <2> DEFINE t == InsertAt(s, k, e)
  <2>2. (Running(m) => Shape(m, t)) /\ (Running(m) \/ l.ring)
    BY <1>3, <1>4, <2>1, ProtInsertIs
  <2> HIDE DEF t
  <2>3. InRow(m, t)
    BY <2>2 DEF InRow
  <2> QED
    BY <1>3, <1>4, <2>2, <2>3 DEF t
<1>5. CASE ~taken
  <2>1. m = l
    BY <1>2, <1>5 DEF Insert
  <2> QED
    BY <1>1, <1>5, <2>1 DEF InRow
<1> QED
  BY <1>4, <1>5

-----------------------------------------------------------------------------
(* Links with one element less *)

\* The neighbours of the k-th element take over what it points to, the others keep what they have.
BridgesNext(f, g, s, n, k) ==
  \A i \in 1 .. n : i # k =>
    g[s[i]] = IF i = k - 1 \/ (k = 1 /\ i = n /\ f[s[n]] # NullPtr) THEN f[s[k]] ELSE f[s[i]]

\* g leads back as f did, but past the k-th element of s; z is what the first led back to.
BridgesPrev(f, g, s, n, k, z) ==
  \A i \in 1 .. n : i # k =>
    g[s[i]] = IF i = k + 1 \/ (k = n /\ i = 1 /\ z # NullPtr) THEN f[s[k]] ELSE f[s[i]]

\* The next pointers, when the one before the k-th element takes over what it points to.
LEMMA NextOut ==
  ASSUME NEW f, NEW s, Leads(f, s), NEW n, n = Len(s), NEW k \in 1 .. n, f[s[n]] \in {NullPtr, s[1]}, NEW g,
         BridgesNext(f, g, s, n, k),
         NEW t, t = RemoveAt(s, k)
  PROVE  /\ Leads(g, t)
         /\ n # 1 => Len(t) # 0
         /\ n # 1 => g[LastIn(t)] = IF f[s[n]] = NullPtr THEN NullPtr ELSE t[1]
         /\ n # 1 => LastIn(t) = IF k = n THEN s[n - 1] ELSE s[n]
         /\ n # 1 => t[1] = IF k = 1 THEN s[2] ELSE s[1]
         /\ n = 1 => Len(t) = 0
<1>0. \A i \in 1 .. n : i # k =>
        g[s[i]] = IF i = k - 1 \/ (k = 1 /\ i = n /\ f[s[n]] # NullPtr) THEN f[s[k]] ELSE f[s[i]]
  BY DEF BridgesNext
<1> DEFINE a(i) == IF i < k THEN i ELSE i + 1
<1>1. /\ n \in Nat /\ k \in 1 .. n /\ s \in Seq(Elements) /\ Injective(s) /\ n > 0
      /\ \A i \in 1 .. n - 1 : f[s[i]] = s[i + 1]
  BY LenProperties DEF Leads
<1>2. /\ t \in Seq(Elements) /\ Injective(t) /\ Len(t) = n - 1 /\ SetOfRow(t) = SetOfRow(s) \ {s[k]}
      /\ \A i \in 1 .. n - 1 : t[i] = IF i < k THEN s[i] ELSE s[i + 1]
  <2>1. k \in 1 .. Len(s)
    BY <1>1
  <2>2. /\ t \in Seq(Elements) /\ Injective(t) /\ Len(t) = Len(s) - 1 /\ SetOfRow(t) = SetOfRow(s) \ {s[k]}
        /\ \A i \in 1 .. Len(s) - 1 : t[i] = IF i < k THEN s[i] ELSE s[i + 1]
    <3>1. s \in Seq(Elements) /\ Injective(s)
      BY <1>1
    <3>2. RowWithout(t, s, k)
      BY <2>1, <3>1, RemovedRow
    <3> QED
      BY <3>2 DEF RowWithout
  <2> QED
    BY <2>2
<1>3. \A i \in 1 .. n - 1 : a(i) \in 1 .. n /\ a(i) # k /\ t[i] = s[a(i)]
  BY <1>1, <1>2
<1>4. ASSUME NEW i \in 1 .. n - 2
      PROVE  g[t[i]] = t[i + 1]
  <2>1. i \in 1 .. n - 1 /\ i + 1 \in 1 .. n - 1 /\ n \in Nat
    BY <1>1
  <2>2. CASE i = k - 1
    <3>1. a(i) = k - 1 /\ a(i + 1) = k + 1 /\ k \in 1 .. n - 1
      BY <1>1, <2>1, <2>2
    <3>2. t[i] = s[k - 1] /\ t[i + 1] = s[k + 1] /\ k - 1 \in 1 .. n /\ k - 1 # k
      BY <1>1, <1>3, <2>1, <3>1
    <3>3. g[s[k - 1]] = f[s[k]]
      BY <1>0, <3>2
    <3> QED
      BY <1>1, <3>1, <3>2, <3>3
  <2>3. CASE i # k - 1
    <3>1. a(i) \in 1 .. n - 1 /\ a(i) # k - 1 /\ a(i) # n /\ a(i) + 1 = a(i + 1)
      BY <1>1, <2>1, <2>3
    <3>2. a(i) \in 1 .. n /\ a(i) # k /\ t[i] = s[a(i)] /\ t[i + 1] = s[a(i + 1)]
      BY <1>3, <2>1
    <3> HIDE DEF a
    <3>3. g[s[a(i)]] = f[s[a(i)]] /\ f[s[a(i)]] = s[a(i) + 1]
      BY <1>0, <1>1, <3>1, <3>2
    <3> QED
      BY <3>1, <3>2, <3>3
  <2> QED
    BY <2>2, <2>3
<1>5. CASE n = 1
  <2>1. Len(t) = 0
    BY <1>2, <1>5
  <2>2. \A i \in 1 .. Len(t) - 1 : g[t[i]] = t[i + 1]
    BY <1>2, <1>5
  <2>3. ~(Len(t) > 0)
    BY <2>1
  <2>4. t \in Seq(Elements) /\ Injective(t)
    BY <1>2
  <2>5. Leads(g, t)
    BY <2>2, <2>3, <2>4 DEF Leads
  <2> QED
    BY <1>5, <2>1, <2>5
<1>6. CASE n # 1
  <2>1. n - 1 # 0 /\ n - 1 > 0 /\ n - 1 \in 1 .. n - 1 /\ 1 \in 1 .. n - 1 /\ n \in 1 .. n /\ 1 \in 1 .. n
    BY <1>1, <1>6
  <2>2. LastIn(t) = t[n - 1] /\ Len(t) # 0
    BY <1>2, <2>1 DEF LastIn
  <2>3. t[n - 1] = IF k = n THEN s[n - 1] ELSE s[n]
    <3>1. n - 1 < k <=> k = n
      BY <1>1
    <3>2. (n - 1) + 1 = n
      BY <1>1
    <3> QED
      BY <1>2, <2>1, <3>1, <3>2
  <2>4. t[1] = IF k = 1 THEN s[2] ELSE s[1]
    <3>1. 1 < k <=> k # 1
      BY <1>1
    <3> QED
      BY <1>2, <2>1, <3>1
  <2>5. g[LastIn(t)] = IF f[s[n]] = NullPtr THEN NullPtr ELSE t[1]
    <3>1. CASE k = n
      <4>1. n - 1 \in 1 .. n /\ n - 1 # k /\ n - 1 = k - 1 /\ k # 1
        BY <1>1, <1>6, <3>1
      <4>2. g[s[n - 1]] = f[s[k]]
        BY <1>0, <4>1
      <4> QED
        BY <2>2, <2>3, <2>4, <3>1, <4>1, <4>2
    <3>2. CASE k # n
      <4>1. n # k - 1
        BY <1>1
      <4>2. CASE k = 1 /\ f[s[n]] # NullPtr
        <5>1. g[s[n]] = f[s[k]]
          BY <1>0, <2>1, <3>2, <4>2
        <5>2. f[s[1]] = s[2]
          BY <1>1, <2>1
        <5> QED
          BY <2>2, <2>3, <2>4, <3>2, <4>2, <5>1, <5>2
      <4>3. CASE ~(k = 1 /\ f[s[n]] # NullPtr)
        <5>1. g[s[n]] = f[s[n]]
          BY <1>0, <2>1, <3>2, <4>1, <4>3
        <5> QED
          BY <2>2, <2>3, <2>4, <3>2, <4>3, <5>1
      <4> QED
        BY <4>2, <4>3
    <3> QED
      BY <3>1, <3>2
  <2>6. t[1] \in SetOfRow(t)
    BY <1>2, <2>1 DEF SetOfRow
  <2>7. Leads(g, t)
    <3>1. (n - 1) - 1 = n - 2
      BY <1>1
    <3>2. \A i \in 1 .. Len(t) - 1 : g[t[i]] = t[i + 1]
      BY <1>2, <1>4, <3>1
    <3> QED
      BY <1>2, <2>5, <2>6, <3>2 DEF Leads
  <2> QED
    BY <1>6, <2>2, <2>3, <2>4, <2>5, <2>7
<1> QED
  BY <1>5, <1>6

\* f leads back along s.
LeadsBack(f, s, n) == \A i \in 2 .. n : f[s[i]] = s[i - 1]

\* The prev pointers likewise.
LeadsBackFrom(f, t, n, z) == LeadsBack(f, t, n) /\ f[t[1]] = IF z = NullPtr THEN NullPtr ELSE t[n]

\* So g leads back along the row without its k-th element, and from its first to its last if f closed the ring.
LEMMA PrevOut ==
  ASSUME NEW f, NEW s \in Seq(Elements), Injective(s), NEW n, n = Len(s), n > 1, NEW k \in 1 .. n,
         NEW z, z \in {NullPtr, s[n]}, f[s[1]] = z, LeadsBack(f, s, n), NEW g,
         BridgesPrev(f, g, s, n, k, z),
         NEW t, t = RemoveAt(s, k)
  PROVE  LeadsBackFrom(g, t, n - 1, z)
<1>0. \A i \in 1 .. n : i # k =>
        g[s[i]] = IF i = k + 1 \/ (k = n /\ i = 1 /\ z # NullPtr) THEN f[s[k]] ELSE f[s[i]]
  BY DEF BridgesPrev
<1>b. \A i \in 2 .. n : f[s[i]] = s[i - 1]
  BY DEF LeadsBack
<1> DEFINE a(i) == IF i < k THEN i ELSE i + 1
<1>1. n \in Nat /\ k \in 1 .. n
  BY LenProperties
<1>2. /\ t \in Seq(Elements) /\ Injective(t) /\ Len(t) = n - 1 /\ SetOfRow(t) = SetOfRow(s) \ {s[k]}
      /\ \A i \in 1 .. n - 1 : t[i] = IF i < k THEN s[i] ELSE s[i + 1]
  <2>1. k \in 1 .. Len(s)
    BY <1>1
  <2>2. /\ t \in Seq(Elements) /\ Injective(t) /\ Len(t) = Len(s) - 1 /\ SetOfRow(t) = SetOfRow(s) \ {s[k]}
        /\ \A i \in 1 .. Len(s) - 1 : t[i] = IF i < k THEN s[i] ELSE s[i + 1]
    <3>1. RowWithout(t, s, k)
      BY <2>1, RemovedRow
    <3> QED
      BY <3>1 DEF RowWithout
  <2> QED
    BY <2>2
<1>3. \A i \in 1 .. n - 1 : a(i) \in 1 .. n /\ a(i) # k /\ t[i] = s[a(i)]
  <2> SUFFICES ASSUME NEW i \in 1 .. n - 1
               PROVE  a(i) \in 1 .. n /\ a(i) # k /\ t[i] = s[a(i)]
    OBVIOUS
  <2>1. t[i] = s[a(i)]
    BY <1>2
  <2>2. a(i) \in 1 .. n /\ a(i) # k
    BY <1>1
  <2> QED
    BY <2>1, <2>2
<1>4. ASSUME NEW i \in 2 .. n - 1
      PROVE  g[t[i]] = t[i - 1]
  <2>1. i \in 1 .. n - 1 /\ i - 1 \in 1 .. n - 1
    BY <1>1
  <2>2. CASE i = k
    <3>1. a(i) = k + 1 /\ a(i - 1) = k - 1 /\ k \in 2 .. n /\ k + 1 \in 1 .. n /\ k + 1 # k
      BY <1>1, <2>1, <2>2
    <3>2. t[i] = s[k + 1] /\ t[i - 1] = s[k - 1]
      BY <1>3, <2>1, <3>1
    <3>3. g[s[k + 1]] = f[s[k]] /\ f[s[k]] = s[k - 1]
      BY <1>0, <1>b, <3>1
    <3> QED
      BY <3>2, <3>3
  <2>3. CASE i # k
    <3>1. a(i) \in 2 .. n /\ a(i) # k + 1 /\ a(i) # 1 /\ a(i) - 1 = a(i - 1)
      BY <1>1, <2>1, <2>3
    <3>2. a(i) \in 1 .. n /\ a(i) # k /\ t[i] = s[a(i)] /\ t[i - 1] = s[a(i - 1)]
      BY <1>3, <2>1
    <3> HIDE DEF a
    <3>3. g[s[a(i)]] = f[s[a(i)]] /\ f[s[a(i)]] = s[a(i) - 1]
      BY <1>0, <1>b, <3>1, <3>2
    <3> QED
      BY <3>1, <3>2, <3>3
  <2> QED
    BY <2>2, <2>3
<1>5. /\ t[1] = (IF k = 1 THEN s[2] ELSE s[1])
      /\ t[n - 1] = (IF k = n THEN s[n - 1] ELSE s[n])
  <2>1. 1 \in 1 .. n - 1 /\ n - 1 \in 1 .. n - 1 /\ (n - 1) + 1 = n /\ (1 < k <=> k # 1) /\ (n - 1 < k <=> k = n)
    BY <1>1
  <2> QED
    BY <1>2, <2>1
<1>6. g[t[1]] = IF z = NullPtr THEN NullPtr ELSE t[n - 1]
  <2>1. CASE k = 1
    <3>1. 2 \in 1 .. n /\ 2 # k /\ 2 = k + 1 /\ k # n
      BY <1>1, <2>1
    <3>2. g[s[2]] = f[s[1]]
      BY <1>0, <2>1, <3>1
    <3> QED
      BY <1>5, <2>1, <3>1, <3>2
  <2>2. CASE k # 1
    <3>1. 1 \in 1 .. n /\ 1 # k /\ 1 # k + 1
      BY <1>1, <2>2
    <3>2. CASE k = n /\ z # NullPtr
      <4>1. g[s[1]] = f[s[k]] /\ k \in 2 .. n
        BY <1>0, <1>1, <2>2, <3>1, <3>2
      <4>2. f[s[k]] = s[k - 1]
        BY <1>b, <4>1
      <4> QED
        BY <1>5, <2>2, <3>2, <4>1, <4>2
    <3>3. CASE ~(k = n /\ z # NullPtr)
      <4>1. g[s[1]] = f[s[1]]
        BY <1>0, <3>1, <3>3
      <4> QED
        BY <1>5, <2>2, <3>3, <4>1
    <3> QED
      BY <3>2, <3>3
  <2> QED
    BY <2>1, <2>2
<1> QED
  BY <1>4, <1>6 DEF LeadsBack, LeadsBackFrom

\* An element of a double list that has others in it.
LEMMA Unlinked ==
  ASSUME NEW l, NEW s, InOrder(l, s), l.kind # "single", NEW n, n = Len(s), n > 1, NEW k \in 1 .. n,
         NEW m, m = Detach(l, s[k]), NEW t, t = RemoveAt(s, k)
  PROVE  /\ InOrder(m, t) /\ SameRest(l, m) /\ m.inside = l.inside \ {s[k]}
         /\ m.curr = (IF l.curr = s[k] THEN NullPtr ELSE l.curr)
         /\ LastIn(t) = (IF k = n THEN s[n - 1] ELSE s[n])
         /\ FirstIn(t) = (IF k = 1 THEN s[2] ELSE s[1])
         /\ Len(t) = n - 1 /\ SetOfRow(t) = SetOfRow(s) \ {s[k]}
<1>1. /\ n \in Nat /\ k \in 1 .. n /\ s \in Seq(Elements) /\ Injective(s) /\ Leads(l.next, s)
      /\ l \in ListRecord /\ n # 0 /\ n # 1 /\ n > 0 /\ 1 \in 1 .. n /\ n \in 1 .. n /\ n - 1 # 0 /\ n - 1 > 0
  BY LenProperties DEF InOrder, LinkShape, Leads
<1>2. /\ \A i \in 1 .. n : s[i] \in Elements /\ s[i] # NullPtr /\ s[i] \in SetOfRow(s)
      /\ \A y \in SetOfRow(s) : \E i \in 1 .. n : s[i] = y
      /\ FirstIn(s) = s[1] /\ LastIn(s) = s[n]
  BY <1>1, RowFacts
<1>3. \A i, j \in 1 .. n : s[i] = s[j] => i = j
  BY <1>1 DEF Injective
<1>4. /\ \A i \in 1 .. n - 1 : l.next[s[i]] = s[i + 1]
      /\ l.next[s[n]] = NullPtr \/ (l.ring /\ l.next[s[n]] = s[1])
      /\ \A i \in 2 .. n : l.prev[s[i]] = s[i - 1]
      /\ l.prev[s[1]] = IF l.next[s[n]] = NullPtr THEN NullPtr ELSE s[n]
      /\ \A y \in Elements \ SetOfRow(s) : l.next[y] = NullPtr /\ l.prev[y] = NullPtr
  BY <1>1, <1>2 DEF InOrder, LinkShape, Leads
<1> DEFINE e == s[k]
           p == l.prev[e]
           x == l.next[e]
           z == l.prev[s[1]]
<1>5. p = IF k = 1 THEN z ELSE s[k - 1]
  BY <1>1, <1>4
<1>6. x = IF k = n THEN l.next[s[n]] ELSE s[k + 1]
  BY <1>1, <1>4
<1>7. /\ z \in {NullPtr, s[n]} /\ l.next[s[n]] \in {NullPtr, s[1]} /\ (z = NullPtr <=> l.next[s[n]] = NullPtr)
  BY <1>1, <1>2, <1>4
<1>8. p # e /\ x # e
  <2>1. CASE k = 1
    <3>1. k + 1 \in 1 .. n /\ k + 1 # k /\ k # n
      BY <1>1, <2>1
    <3> QED
      BY <1>1, <1>2, <1>3, <1>5, <1>6, <1>7, <2>1, <3>1
  <2>2. CASE k = n
    <3>1. k - 1 \in 1 .. n /\ k - 1 # k /\ k # 1
      BY <1>1, <2>2
    <3> QED
      BY <1>1, <1>2, <1>3, <1>5, <1>6, <1>7, <2>2, <3>1
  <2>3. CASE k \notin {1, n}
    <3>1. k - 1 \in 1 .. n /\ k - 1 # k /\ k + 1 \in 1 .. n /\ k + 1 # k
      BY <1>1, <2>3
    <3> QED
      BY <1>1, <1>2, <1>3, <1>5, <1>6, <1>7, <2>3, <3>1
  <2> QED
    BY <2>1, <2>2, <2>3
<1>9. /\ m \in ListRecord /\ SameRest(l, m) /\ m.inside = l.inside \ {e}
      /\ m.curr = (IF l.curr = e THEN NullPtr ELSE l.curr)
      /\ m.next[e] = NullPtr /\ m.prev[e] = NullPtr
      /\ p # NullPtr => m.next[p] = x
      /\ x # NullPtr => m.prev[x] = p
      /\ \A y \in Elements : y \notin {p, e} => m.next[y] = l.next[y]
      /\ \A y \in Elements : y \notin {x, e} => m.prev[y] = l.prev[y]
  <2>1. e \in Elements /\ m = Detach(l, e) /\ p = l.prev[e] /\ x = l.next[e]
    BY <1>1, <1>2
  <2> HIDE DEF e, p, x
  <2> QED
    BY <1>1, <1>8, <2>1, DetachIs
<1>10. \A i \in 1 .. n : i # k =>
         m.next[s[i]] = IF i = k - 1 \/ (k = 1 /\ i = n /\ l.next[s[n]] # NullPtr) THEN l.next[s[k]] ELSE l.next[s[i]]
  <2> SUFFICES ASSUME NEW i \in 1 .. n, i # k
               PROVE  m.next[s[i]] = IF i = k - 1 \/ (k = 1 /\ i = n /\ l.next[s[n]] # NullPtr) THEN x ELSE l.next[s[i]]
    OBVIOUS
  <2>1. s[i] \in Elements /\ s[i] # e /\ s[i] # NullPtr
    BY <1>1, <1>2, <1>3
  <2>2. CASE i = k - 1 \/ (k = 1 /\ i = n /\ l.next[s[n]] # NullPtr)
    <3>1. s[i] = p
      BY <1>1, <1>5, <1>7, <2>2
    <3> HIDE DEF e, p, x
    <3> QED
      BY <1>9, <2>1, <2>2, <3>1
  <2>3. CASE ~(i = k - 1 \/ (k = 1 /\ i = n /\ l.next[s[n]] # NullPtr))
    <3>1. s[i] # p
      <4>1. CASE k = 1
        BY <1>1, <1>3, <1>5, <1>7, <2>1, <2>3, <4>1
      <4>2. CASE k # 1
        <5>1. k - 1 \in 1 .. n
          BY <1>1, <4>2
        <5> QED
          BY <1>3, <1>5, <2>3, <4>2, <5>1
      <4> QED
        BY <4>1, <4>2
    <3> HIDE DEF e, p, x
    <3> QED
      BY <1>9, <2>1, <2>3, <3>1
  <2> QED
    BY <2>2, <2>3
<1>11. \A i \in 1 .. n : i # k =>
         m.prev[s[i]] = IF i = k + 1 \/ (k = n /\ i = 1 /\ z # NullPtr) THEN l.prev[s[k]] ELSE l.prev[s[i]]
  <2> SUFFICES ASSUME NEW i \in 1 .. n, i # k
               PROVE  m.prev[s[i]] = IF i = k + 1 \/ (k = n /\ i = 1 /\ z # NullPtr) THEN p ELSE l.prev[s[i]]
    OBVIOUS
  <2>1. s[i] \in Elements /\ s[i] # e /\ s[i] # NullPtr
    BY <1>1, <1>2, <1>3
  <2>2. CASE i = k + 1 \/ (k = n /\ i = 1 /\ z # NullPtr)
    <3>1. s[i] = x
      BY <1>1, <1>6, <1>7, <2>2
    <3> HIDE DEF e, p, x, z
    <3> QED
      BY <1>9, <2>1, <2>2, <3>1
  <2>3. CASE ~(i = k + 1 \/ (k = n /\ i = 1 /\ z # NullPtr))
    <3>1. s[i] # x
      <4>1. CASE k = n
        BY <1>1, <1>3, <1>6, <1>7, <2>1, <2>3, <4>1
      <4>2. CASE k # n
        <5>1. k + 1 \in 1 .. n
          BY <1>1, <4>2
        <5> QED
          BY <1>3, <1>6, <2>3, <4>2, <5>1
      <4> QED
        BY <4>1, <4>2
    <3> HIDE DEF e, p, x, z
    <3> QED
      BY <1>9, <2>1, <2>3, <3>1
  <2> QED
    BY <2>2, <2>3
<1>12. /\ Leads(m.next, t) /\ Len(t) # 0
       /\ m.next[LastIn(t)] = (IF l.next[s[n]] = NullPtr THEN NullPtr ELSE t[1])
       /\ LastIn(t) = (IF k = n THEN s[n - 1] ELSE s[n])
       /\ t[1] = (IF k = 1 THEN s[2] ELSE s[1])
  <2> SUFFICES ASSUME NEW f, f = l.next, NEW g, g = m.next
               PROVE  /\ Leads(g, t) /\ Len(t) # 0
                      /\ g[LastIn(t)] = (IF f[s[n]] = NullPtr THEN NullPtr ELSE t[1])
                      /\ LastIn(t) = (IF k = n THEN s[n - 1] ELSE s[n])
                      /\ t[1] = (IF k = 1 THEN s[2] ELSE s[1])
    OBVIOUS
  <2>1. /\ Leads(f, s) /\ k \in 1 .. n /\ f[s[n]] \in {NullPtr, s[1]} /\ n # 1
        /\ BridgesNext(f, g, s, n, k)
    BY <1>1, <1>7, <1>10 DEF BridgesNext
  <2> HIDE DEF e, p, x, z
  <2> QED
    BY <2>1, NextOut
<1>13. /\ \A i \in 2 .. n - 1 : m.prev[t[i]] = t[i - 1]
       /\ m.prev[t[1]] = (IF z = NullPtr THEN NullPtr ELSE t[n - 1])
  <2> SUFFICES ASSUME NEW f, f = l.prev, NEW g, g = m.prev
               PROVE  LeadsBackFrom(g, t, n - 1, z)
    BY DEF LeadsBack, LeadsBackFrom
  <2>1. z \in {NullPtr, s[n]} /\ f[s[1]] = z /\ s \in Seq(Elements) /\ Injective(s) /\ k \in 1 .. n
    BY <1>1, <1>7
  <2>2. LeadsBack(f, s, n)
    BY <1>4 DEF LeadsBack
  <2>3. BridgesPrev(f, g, s, n, k, z)
    BY <1>11 DEF BridgesPrev
  <2> HIDE DEF e, p, x, z
  <2> QED
    BY <2>1, <2>2, <2>3, PrevOut
<1>14. t \in Seq(Elements) /\ Len(t) = n - 1 /\ SetOfRow(t) = SetOfRow(s) \ {e}
  <2>1. k \in 1 .. Len(s)
    BY <1>1
  <2>2. t \in Seq(Elements) /\ Len(t) = Len(s) - 1 /\ SetOfRow(t) = SetOfRow(s) \ {s[k]}
    <3>1. RowWithout(t, s, k)
      BY <1>1, <2>1, RemovedRow
    <3> QED
      BY <3>1 DEF RowWithout
  <2> QED
    BY <2>2
<1>15. \A y \in Elements \ SetOfRow(t) : m.next[y] = NullPtr /\ m.prev[y] = NullPtr
  <2> SUFFICES ASSUME NEW y \in Elements \ SetOfRow(t), y # e
               PROVE  m.next[y] = NullPtr /\ m.prev[y] = NullPtr
    BY <1>9
  <2>1. y \in Elements \ SetOfRow(s)
    BY <1>14
  <2>2. p \in SetOfRow(s) \cup {NullPtr} /\ x \in SetOfRow(s) \cup {NullPtr}
    <3>1. k # 1 => k - 1 \in 1 .. n
      BY <1>1
    <3>2. k # n => k + 1 \in 1 .. n
      BY <1>1
    <3>3. p \in SetOfRow(s) \cup {NullPtr}
      BY <1>1, <1>2, <1>5, <1>7, <3>1
    <3>4. x \in SetOfRow(s) \cup {NullPtr}
      BY <1>1, <1>2, <1>6, <1>7, <3>2
    <3> QED
      BY <3>3, <3>4
  <2>3. y \notin {p, e} /\ y \notin {x, e}
    <3>1. y # NullPtr
      BY <2>1, ElementsAssumption
    <3>2. y # e
      BY <1>1, <1>2, <2>1
    <3> HIDE DEF e, p, x
    <3> QED
      BY <2>1, <2>2, <3>1, <3>2
  <2>4. l.next[y] = NullPtr /\ l.prev[y] = NullPtr
    BY <1>4, <2>1
  <2> HIDE DEF e, p, x
  <2> QED
    BY <1>9, <2>1, <2>3, <2>4
<1>16. LastIn(t) = t[n - 1] /\ FirstIn(t) = t[1]
  BY <1>12, <1>14 DEF LastIn, FirstIn
<1>17. LinkShape(l.kind, l.ring, m.next, m.prev, t)
  <2>1. Len(t) > 0 => m.next[LastIn(t)] = NullPtr \/ (l.ring /\ m.next[LastIn(t)] = t[1])
    BY <1>4, <1>12
  <2>2. \A i \in 2 .. Len(t) : m.prev[t[i]] = t[i - 1]
    BY <1>13, <1>14
  <2>3. Len(t) > 0 => m.prev[t[1]] = IF m.next[LastIn(t)] = NullPtr THEN NullPtr ELSE LastIn(t)
    <3>1. t[1] # NullPtr
      BY <1>1, <1>14, RowFacts
    <3> QED
      BY <1>7, <1>12, <1>13, <1>16, <3>1
  <2> QED
    BY <1>12, <1>15, <2>1, <2>2, <2>3 DEF LinkShape
<1>18. InOrder(m, t)
  BY <1>9, <1>17 DEF InOrder, SameRest, SameClass
<1> QED
  BY <1>9, <1>12, <1>14, <1>16, <1>18

\* An element of a single list that has others in it.
LEMMA UnlinkedSingle ==
  ASSUME NEW l, NEW s, InOrder(l, s), l.kind = "single", NEW n, n = Len(s), n > 1, NEW k \in 1 .. n, l.next[s[n]] = NullPtr,
         NEW m \in ListRecord, SameClass(l, m), BridgesNext(l.next, m.next, s, n, k), m.next[s[k]] = NullPtr,
         \A y \in Elements \ SetOfRow(s) : m.next[y] = NullPtr, NEW t, t = RemoveAt(s, k)
  PROVE  /\ InOrder(m, t)
         /\ LastIn(t) = (IF k = n THEN s[n - 1] ELSE s[n])
         /\ FirstIn(t) = (IF k = 1 THEN s[2] ELSE s[1])
         /\ Len(t) = n - 1 /\ SetOfRow(t) = SetOfRow(s) \ {s[k]}
<1>1. /\ n \in Nat /\ k \in 1 .. n /\ s \in Seq(Elements) /\ Injective(s) /\ Leads(l.next, s) /\ n # 1
  BY LenProperties DEF InOrder, LinkShape, Leads
<1>2. /\ Leads(m.next, t) /\ Len(t) # 0
      /\ m.next[LastIn(t)] = (IF l.next[s[n]] = NullPtr THEN NullPtr ELSE t[1])
      /\ LastIn(t) = (IF k = n THEN s[n - 1] ELSE s[n])
      /\ t[1] = (IF k = 1 THEN s[2] ELSE s[1])
  <2> SUFFICES ASSUME NEW f, f = l.next, NEW g, g = m.next
               PROVE  /\ Leads(g, t) /\ Len(t) # 0
                      /\ g[LastIn(t)] = (IF f[s[n]] = NullPtr THEN NullPtr ELSE t[1])
                      /\ LastIn(t) = (IF k = n THEN s[n - 1] ELSE s[n])
                      /\ t[1] = (IF k = 1 THEN s[2] ELSE s[1])
    OBVIOUS
  <2>1. Leads(f, s) /\ k \in 1 .. n /\ f[s[n]] \in {NullPtr, s[1]} /\ n # 1 /\ BridgesNext(f, g, s, n, k)
    BY <1>1
  <2> QED
    BY <2>1, NextOut
<1>3. t \in Seq(Elements) /\ Len(t) = n - 1 /\ SetOfRow(t) = SetOfRow(s) \ {s[k]}
  <2>1. k \in 1 .. Len(s)
    BY <1>1
  <2>2. t \in Seq(Elements) /\ Len(t) = Len(s) - 1 /\ SetOfRow(t) = SetOfRow(s) \ {s[k]}
    <3>1. RowWithout(t, s, k)
      BY <1>1, <2>1, RemovedRow
    <3> QED
      BY <3>1 DEF RowWithout
  <2> QED
    BY <2>2
<1>4. \A y \in Elements \ SetOfRow(t) : m.next[y] = NullPtr
  BY <1>3
<1>5. FirstIn(t) = t[1]
  BY <1>2 DEF FirstIn
<1>6. LinkShape(l.kind, l.ring, m.next, m.prev, t)
  <2>1. Len(t) > 0 => m.next[LastIn(t)] = NullPtr \/ (l.ring /\ m.next[LastIn(t)] = t[1])
    BY <1>2
  <2> QED
    BY <1>2, <1>4, <2>1 DEF LinkShape
<1>7. InOrder(m, t)
  BY <1>6 DEF InOrder, SameClass
<1> QED
  BY <1>2, <1>3, <1>5, <1>7

\* The count of a list that has lost one of several elements, and how it ends when it was the last one.
LEMMA UncountedIs ==
  ASSUME NEW l \in ListRecord, Running(l), NEW m, m = Uncounted(l)
  PROVE  /\ Running(m) => l.count > 1
         /\ l.count > 1 => /\ m \in ListRecord /\ SameClass(l, m) /\ SameLinks(l, m) /\ m.inside = l.inside /\ m.curr = l.curr
                           /\ m.head = l.head /\ m.tail = l.tail /\ m.count = l.count - 1 /\ m.status = l.status
<1>1. l.count \in Nat
  BY DEF ListRecord
<1>2. CASE l.count > 1
  <2>1. m = [l EXCEPT !.count = @ - 1]
    BY <1>2 DEF Uncounted
  <2>2. l.count - 1 \in Nat
    BY <1>1, <1>2
  <2> QED
    BY <1>2, <2>1, <2>2 DEF ListRecord, SameClass, SameLinks
<1>3. CASE ~(l.count > 1)
  <2> DEFINE w == [l EXCEPT !.count = @ - 1, !.curr = NullPtr]
  <2>1. m = SetTail(SetHead(w, NullPtr), NullPtr)
    BY <1>3 DEF Uncounted
  <2>2. SetHead(w, NullPtr) = [w EXCEPT !.status = "crashed"]
    BY DEF SetHead, Crashed
  <2>3. "status" \in DOMAIN w
    BY DEF ListRecord
  <2> HIDE DEF w
  <2>4. m.status = "crashed"
    BY <2>1, <2>2, <2>3 DEF SetTail
  <2> QED
    BY <1>3, <2>4 DEF Running
<1> QED
  BY <1>2, <1>3

\* A closed row can be gone through from its second element, too.
LEMMA Turned ==
  ASSUME NEW f, NEW s, Leads(f, s), NEW n, n = Len(s), n > 1, f[s[n]] = s[1]
  PROVE  \E r : Leads(f, r) /\ FirstIn(r) = s[2] /\ LastIn(r) = s[1] /\ Len(r) > 0
<1> DEFINE a(i) == IF i < n THEN i + 1 ELSE 1
           r == [i \in 1 .. n |-> s[a(i)]]
<1>1. n \in Nat /\ n # 0 /\ s \in Seq(Elements) /\ Injective(s) /\ \A i \in 1 .. n - 1 : f[s[i]] = s[i + 1]
  BY LenProperties DEF Leads
<1>2. \A i, j \in 1 .. n : a(i) \in 1 .. n /\ (a(i) = a(j) => i = j)
  BY <1>1
<1>3. /\ \A i \in 1 .. n : s[i] \in Elements
      /\ \A i, j \in 1 .. n : s[i] = s[j] => i = j
  BY <1>1, RowFacts DEF Injective
<1>4. r \in [1 .. n -> Elements]
  BY <1>2, <1>3
<1>5. r \in Seq(Elements) /\ Len(r) = n
  <2> HIDE DEF r
  <2> QED
    BY <1>1, <1>4, SeqDef, LenProperties
<1>6. Injective(r)
  <2> SUFFICES ASSUME NEW i \in 1 .. n, NEW j \in 1 .. n, r[i] = r[j]
               PROVE  i = j
    BY <1>5 DEF Injective
  <2>1. s[a(i)] = s[a(j)] /\ a(i) \in 1 .. n /\ a(j) \in 1 .. n
    BY <1>2
  <2>2. a(i) = a(j)
    BY <1>3, <2>1
  <2> QED
    BY <1>2, <2>2
<1>7. \A i \in 1 .. n - 1 : f[r[i]] = r[i + 1]
  <2> SUFFICES ASSUME NEW i \in 1 .. n - 1
               PROVE  f[r[i]] = r[i + 1]
    OBVIOUS
  <2>1. i \in 1 .. n /\ i + 1 \in 1 .. n /\ a(i) = i + 1
    BY <1>1
  <2>2. r[i] = s[i + 1] /\ r[i + 1] = s[a(i + 1)]
    BY <2>1
  <2>3. CASE i + 1 < n
    <3>1. i + 1 \in 1 .. n - 1 /\ a(i + 1) = (i + 1) + 1
      BY <1>1, <2>3
    <3>2. f[s[i + 1]] = s[(i + 1) + 1]
      BY <1>1, <3>1
    <3> HIDE DEF r, a
    <3> QED
      BY <2>2, <3>1, <3>2
  <2>4. CASE ~(i + 1 < n)
    <3>1. i + 1 = n /\ a(i + 1) = 1
      BY <1>1, <2>4
    <3> HIDE DEF r, a
    <3> QED
      BY <2>2, <3>1
  <2> QED
    BY <2>3, <2>4
<1>8. r[1] = s[2] /\ r[n] = s[1]
  <2>1. 1 \in 1 .. n /\ n \in 1 .. n /\ a(1) = 2 /\ a(n) = 1
    BY <1>1
  <2> QED
    BY <2>1
<1> HIDE DEF r
<1>9. FirstIn(r) = s[2] /\ LastIn(r) = s[1]
  BY <1>1, <1>5, <1>8 DEF FirstIn, LastIn
<1>10. Len(r) > 0
  BY <1>1, <1>5
<1>11. f[LastIn(r)] \in SetOfRow(r) \cup {NullPtr}
  <2>1. 1 \in 1 .. n /\ 1 \in 1 .. n - 1 /\ 1 \in 1 .. Len(r)
    BY <1>1, <1>5
  <2>2. f[s[1]] = r[1]
    BY <1>1, <1>8, <2>1
  <2> QED
    BY <1>9, <2>1, <2>2 DEF SetOfRow
<1>12. Leads(f, r)
  <2>1. \A i \in 1 .. Len(r) - 1 : f[r[i]] = r[i + 1]
    BY <1>5, <1>7
  <2> QED
    BY <1>5, <1>6, <1>11, <2>1 DEF Leads
<1> QED
  BY <1>9, <1>10, <1>12

\* The head goes to the second element, unless the list is closed.
LEMMA HeadMoves ==
  ASSUME NEW l, NEW s, InOrder(l, s), Running(l), NEW n, n = Len(s), n > 1, NEW m, m = SetHead(l, s[2])
  PROVE  Running(m) => /\ l.next[s[n]] = NullPtr
                       /\ m \in ListRecord /\ SameClass(l, m) /\ SameLinks(l, m) /\ m.inside = l.inside /\ m.curr = l.curr
                       /\ m.tail = l.tail /\ m.count = l.count /\ m.head = s[2]
<1>1. /\ n \in Nat /\ n # 0 /\ n # 1 /\ n > 0 /\ 1 \in 1 .. n /\ n \in 1 .. n /\ 2 \in 1 .. n /\ 1 \in 1 .. n - 1
      /\ s \in Seq(Elements) /\ Injective(s) /\ Leads(l.next, s) /\ l \in ListRecord
  BY LenProperties DEF InOrder, LinkShape, Leads
<1>2. /\ \A i \in 1 .. n : s[i] \in Elements /\ s[i] # NullPtr
      /\ LastIn(s) = s[n]
  BY <1>1, RowFacts
<1>3. l.next[s[n]] \in {NullPtr, s[1]} /\ l.next[s[1]] = s[2]
  BY <1>1, <1>2 DEF InOrder, LinkShape, Leads
<1>4. s[1] # s[2]
  BY <1>1 DEF Injective
<1>5. CASE l.next[s[n]] = NullPtr
  <2> DEFINE t == RemoveAt(s, 1)
  <2>1. Leads(l.next, t) /\ t[1] = s[2] /\ Len(t) # 0
    <3> SUFFICES ASSUME NEW f, f = l.next
                 PROVE  Leads(f, t) /\ t[1] = s[2] /\ Len(t) # 0
      OBVIOUS
    <3>1. Leads(f, s) /\ f[s[n]] \in {NullPtr, s[1]} /\ f[s[n]] = NullPtr
      BY <1>1, <1>5
    <3>2. BridgesNext(f, f, s, n, 1)
      BY <1>1, <3>1 DEF BridgesNext
    <3> HIDE DEF t
    <3>3. t = RemoveAt(s, 1)
      BY DEF t
    <3> QED
      BY <1>1, <3>1, <3>2, <3>3, NextOut
  <2> HIDE DEF t
  <2>2. FirstIn(t) = s[2]
    BY <2>1 DEF FirstIn
  <2> QED
    BY <1>1, <1>5, <2>1, <2>2, SetHeadIs
<1>6. CASE l.next[s[n]] = s[1]
  <2>1. PICK r : Leads(l.next, r) /\ FirstIn(r) = s[2] /\ LastIn(r) = s[1] /\ Len(r) > 0
    <3> SUFFICES ASSUME NEW f, f = l.next
                 PROVE  \E r : Leads(f, r) /\ FirstIn(r) = s[2] /\ LastIn(r) = s[1] /\ Len(r) > 0
      OBVIOUS
    <3> QED
      BY <1>1, <1>6, Turned
  <2>2. Running(m) => l.next[LastIn(r)] \in {NullPtr, LastIn(r)}
    BY <1>1, <2>1, SetHeadIs
  <2> QED
    BY <1>1, <1>2, <1>3, <1>4, <2>1, <2>2
<1> QED
  BY <1>3, <1>5, <1>6

\* What is taken out of a row of several, by a class of its own.
LEMMA TakenFrom ==
  ASSUME NEW l, NEW s, Shape(l, s), NEW n, n = Len(s), n > 1, NEW k \in 1 .. n, NEW t, Len(t) = n - 1,
         SetOfRow(t) = SetOfRow(s) \ {s[k]}, NEW o, InOrder(o, t), SameClass(l, o), Running(o),
         o.inside = l.inside \ {s[k]}, o.curr = (IF l.curr = s[k] THEN NullPtr ELSE l.curr),
         o.head = FirstIn(t), o.tail = LastIn(t), o.count = n, NEW m, m = Uncounted(o)
  PROVE  Shape(m, t)
<1>1. l.inside = SetOfRow(s) /\ l.curr \in SetOfRow(s) \cup {NullPtr} /\ ~(l.kind = "single" /\ l.ring)
  BY ShapeFacts DEF Shape
<1>2. o \in ListRecord /\ o.count > 1
  BY DEF InOrder
<1>3. /\ m \in ListRecord /\ SameClass(o, m) /\ SameLinks(o, m) /\ m.inside = o.inside /\ m.curr = o.curr
      /\ m.head = o.head /\ m.tail = o.tail /\ m.count = o.count - 1 /\ m.status = o.status
  BY <1>2, UncountedIs
<1>4. InOrder(m, t)
  BY <1>3, OrderStays
<1>5. EndShape(m, t)
  <2>1. m.inside = SetOfRow(t) /\ m.curr \in SetOfRow(t) \cup {NullPtr}
    BY <1>1, <1>3
  <2>2. m.count = Len(t)
    BY <1>3
  <2> QED
    BY <1>3, <2>1, <2>2 DEF EndShape
<1> QED
  BY <1>1, <1>3, <1>4, <1>5, ShapeIs DEF Running, SameClass

\* privRemove() of the double list.
LEMMA PrivRemoveIs ==
  ASSUME NEW l, NEW s, Shape(l, s), l.kind # "single", NEW e \in SetOfRow(s), NEW r, r = PrivRemove(l, e),
         NEW t, t = RemoveAt(s, PlaceOf(s, e))
  PROVE  r.at = e /\ InRow(r.list, t)
<1> DEFINE n == Len(s)
           k == PlaceOf(s, e)
           off == IF e = l.head THEN SetHead(l, GetNext(l, e))
                  ELSE IF e = l.tail THEN SetTail(l, GetPrev(l, e))
                  ELSE [l EXCEPT !.renumber = TRUE]
           gone == Detach(off, e)
<1>1. /\ l \in ListRecord /\ Running(l) /\ s \in Seq(Elements) /\ Injective(s) /\ Leads(l.next, s)
      /\ l.inside = SetOfRow(s) /\ l.count = n /\ l.head = FirstIn(s) /\ l.tail = LastIn(s) /\ InOrder(l, s)
  BY ShapeFacts, ShapeIs
<1>2. /\ n \in Nat /\ e \in Elements /\ n # 0 /\ n > 0 /\ k \in 1 .. n /\ s[k] = e /\ \A i \in 1 .. n : s[i] = e => k = i
      /\ FirstIn(s) = s[1] /\ LastIn(s) = s[n] /\ 1 \in 1 .. n /\ n \in 1 .. n
  <2>1. e \in Elements /\ n \in Nat /\ n # 0 /\ FirstIn(s) = s[1] /\ LastIn(s) = s[n] /\ 1 \in 1 .. n /\ n \in 1 .. n
    BY <1>1, RowFacts
  <2>2. k \in 1 .. n /\ s[k] = e /\ \A i \in 1 .. n : s[i] = e => k = i
    BY <1>1, PlaceIs
  <2>3. n > 0
    BY <2>1
  <2> QED
    BY <2>1, <2>2, <2>3
<1> HIDE DEF k
<1>3. r = With(e, IF Running(off) THEN Uncounted(gone) ELSE off)
  BY <1>1 DEF PrivRemove, Unlink, With
<1>4. r.at = e /\ r.list = (IF Running(off) THEN Uncounted(gone) ELSE off)
  BY <1>3, WithIs
<1>5. /\ \A i \in 1 .. n - 1 : l.next[s[i]] = s[i + 1]
      /\ \A i \in 2 .. n : l.prev[s[i]] = s[i - 1]
      /\ l.next[s[n]] \in {NullPtr, s[1]}
  BY <1>1, <1>2 DEF InOrder, LinkShape, Leads
<1>6. Running(off) => /\ off \in ListRecord /\ SameClass(l, off) /\ SameLinks(l, off) /\ off.inside = l.inside /\ off.curr = l.curr
                      /\ off.count = n
                      /\ n > 1 => /\ off.head = (IF k = 1 THEN s[2] ELSE s[1])
                                  /\ off.tail = (IF k = n THEN s[n - 1] ELSE s[n])
  <2>1. CASE e = l.head
    <3>1. k = 1 /\ off = SetHead(l, l.next[s[1]])
      BY <1>1, <1>2, <2>1 DEF GetNext
    <3>2. CASE n > 1
      <4>1. l.next[s[1]] = s[2] /\ k # n /\ 1 # n
        <5>1. 1 \in 1 .. n - 1 /\ k # n /\ 1 # n /\ 1 + 1 = 2
          BY <1>2, <3>1, <3>2
        <5> QED
          BY <1>5, <5>1
      <4> HIDE DEF off, n
      <4>2. off = SetHead(l, s[2]) /\ n = Len(s)
        BY <3>1, <4>1 DEF n
      <4>3. Running(off) => /\ off \in ListRecord /\ SameClass(l, off) /\ SameLinks(l, off) /\ off.inside = l.inside /\ off.curr = l.curr
                       /\ off.tail = l.tail /\ off.count = l.count /\ off.head = s[2]
        BY <1>1, <3>2, <4>2, HeadMoves
      <4> QED
        BY <1>1, <1>2, <3>1, <4>1, <4>3
    <3>3. CASE ~(n > 1)
      <4>1. n = 1 /\ l.next[s[1]] \in {NullPtr, s[1]}
        <5>1. n \in Nat /\ n > 0 /\ l.next[s[n]] \in {NullPtr, s[1]}
          BY <1>2, <1>5
        <5> HIDE DEF n
        <5>2. n = 1
          BY <3>3, <5>1
        <5> QED
          BY <5>1, <5>2
      <4>2. CASE l.next[s[1]] = NullPtr
        <5>1. off = Crashed(l)
          BY <3>1, <4>2 DEF SetHead
        <5> QED
          BY <1>1, <5>1 DEF Crashed, Running, ListRecord
      <4>3. CASE l.next[s[1]] = s[1]
        <5>1. off = SetHead(l, s[1]) /\ s[1] = FirstIn(s)
          BY <1>2, <3>1, <4>3
        <5> HIDE DEF off
        <5>2. Running(off) => /\ off \in ListRecord /\ SameClass(l, off) /\ SameLinks(l, off) /\ off.inside = l.inside /\ off.curr = l.curr
                     /\ off.tail = l.tail /\ off.count = l.count
          BY <1>1, <5>1, SetHeadIs
        <5> QED
          BY <1>1, <3>3, <5>2
      <4> QED
        BY <4>1, <4>2, <4>3
    <3> QED
      BY <3>2, <3>3
  <2>2. CASE e # l.head /\ e = l.tail
    <3>1. k = n /\ k # 1 /\ off = SetTail(l, s[n - 1]) /\ s[n - 1] \in Places
      <4>1. k = n /\ k # 1
        BY <1>1, <1>2, <2>2
      <4>2. n \in 2 .. n /\ n - 1 \in 1 .. n
        BY <1>2, <4>1
      <4>3. off = SetTail(l, s[n - 1])
        BY <1>2, <1>5, <2>2, <4>1, <4>2 DEF GetPrev
      <4>4. s[n - 1] \in Elements
        BY <1>1, <4>2, RowFacts
      <4> QED
        BY <4>1, <4>3, <4>4 DEF Places
    <3> HIDE DEF off
    <3>2. /\ off \in ListRecord /\ SameClass(l, off) /\ SameLinks(l, off) /\ off.inside = l.inside /\ off.curr = l.curr
          /\ off.head = l.head /\ off.tail = s[n - 1] /\ off.count = l.count
      BY <1>1, <3>1, EndsAre
    <3> QED
      BY <1>1, <1>2, <3>1, <3>2
  <2>3. CASE e # l.head /\ e # l.tail
    <3>1. k # 1 /\ k # n
      BY <1>1, <1>2, <2>3
    <3>2. off = [l EXCEPT !.renumber = TRUE]
      BY <2>3
    <3> HIDE DEF off
    <3>3. off \in ListRecord /\ SameRest(l, off) /\ SameLinks(l, off) /\ off.inside = l.inside /\ off.curr = l.curr
      BY <1>1, <3>2, MarkedIs
    <3> QED
      BY <1>1, <1>2, <3>1, <3>3 DEF SameRest, SameEnds
  <2> QED
    BY <2>1, <2>2, <2>3
<1> HIDE DEF off
<1>7. ASSUME Running(off)
      PROVE  InRow(Uncounted(gone), t)
  <2>1. off \in ListRecord /\ SameClass(l, off) /\ SameLinks(l, off) /\ off.inside = l.inside /\ off.curr = l.curr /\ off.count = n
    BY <1>6, <1>7
  <2>2. InOrder(off, s) /\ off.kind # "single"
    BY <1>1, <2>1, OrderStays DEF SameClass
  <2>3. gone \in ListRecord /\ SameRest(off, gone)
    BY <1>2, <2>1, DetachIs
  <2>4. Running(gone) /\ gone.count = n
    BY <1>7, <2>1, <2>3 DEF SameRest, SameEnds, Running
  <2>5. CASE n > 1
    <3>1. /\ InOrder(gone, t) /\ gone.inside = off.inside \ {e}
          /\ gone.curr = (IF off.curr = e THEN NullPtr ELSE off.curr)
          /\ LastIn(t) = (IF k = n THEN s[n - 1] ELSE s[n])
          /\ FirstIn(t) = (IF k = 1 THEN s[2] ELSE s[1])
          /\ Len(t) = n - 1 /\ SetOfRow(t) = SetOfRow(s) \ {e}
      <4>1. gone = Detach(off, s[k]) /\ t = RemoveAt(s, k) /\ e = s[k]
        BY <1>2 DEF k
      <4> HIDE DEF gone
      <4> QED
        BY <1>2, <2>2, <2>5, <4>1, Unlinked
    <3>2. gone.head = FirstIn(t) /\ gone.tail = LastIn(t) /\ SameClass(l, gone)
      BY <1>6, <1>7, <2>1, <2>3, <2>5, <3>1 DEF SameRest, SameEnds, SameClass
    <3>3. gone.inside = l.inside \ {s[k]} /\ gone.curr = (IF l.curr = s[k] THEN NullPtr ELSE l.curr) /\ SetOfRow(t) = SetOfRow(s) \ {s[k]}
      BY <1>2, <2>1, <3>1
    <3>4. k \in 1 .. Len(s) /\ Len(s) > 1 /\ Len(t) = Len(s) - 1 /\ gone.count = Len(s) /\ InOrder(gone, t)
      BY <1>2, <2>4, <2>5, <3>1
    <3> HIDE DEF gone, n
    <3>5. Shape(Uncounted(gone), t)
      BY <2>4, <3>2, <3>3, <3>4, TakenFrom
    <3> QED
      BY <3>5 DEF InRow
  <2>6. CASE ~(n > 1)
    <3> HIDE DEF gone
    <3>1. ~Running(Uncounted(gone))
      BY <2>3, <2>4, <2>6, UncountedIs
    <3> QED
      BY <3>1 DEF InRow
  <2> QED
    BY <2>5, <2>6
<1> QED
  BY <1>4, <1>7 DEF InRow

\* removeNext() of an element in a single list.
LEMMA RemoveNextIs ==
  ASSUME NEW l, NEW s, Shape(l, s), l.kind = "single", NEW p \in SetOfRow(s), NEW r, r = RemoveNext(l, p),
         NEW e, e = l.next[p]
  PROVE  /\ e = NullPtr => r.at = NullPtr /\ Shape(r.list, s)
         /\ e # NullPtr => e \in SetOfRow(s) /\ r.at = e /\ InRow(r.list, RemoveAt(s, PlaceOf(s, e)))
<1> DEFINE n == Len(s)
           k == PlaceOf(s, p)
           marked == [l EXCEPT !.renumber = TRUE]
           base == SetNext(l, p, l.next[e])
           unlinked == Detach(base, e)
           counted == IF l.next[p] = l.tail /\ e = l.tail THEN SetTail(unlinked, p) ELSE [unlinked EXCEPT !.renumber = TRUE]
<1>1. /\ l \in ListRecord /\ Running(l) /\ s \in Seq(Elements) /\ Injective(s) /\ Leads(l.next, s)
      /\ l.inside = SetOfRow(s) /\ l.count = n /\ l.head = FirstIn(s) /\ l.tail = LastIn(s) /\ InOrder(l, s) /\ ~l.ring
  BY ShapeFacts, ShapeIs
<1>2. /\ n \in Nat /\ p \in Elements /\ p # NullPtr /\ n # 0 /\ n > 0 /\ k \in 1 .. n /\ s[k] = p /\ \A i \in 1 .. n : s[i] = p => k = i
      /\ FirstIn(s) = s[1] /\ LastIn(s) = s[n] /\ 1 \in 1 .. n /\ n \in 1 .. n /\ NullPtr \notin SetOfRow(s)
      /\ \A i \in 1 .. n : s[i] \in Elements /\ s[i] \in SetOfRow(s)
      /\ \A i, j \in 1 .. n : s[i] = s[j] => i = j
  <2>1. /\ p \in Elements /\ n \in Nat /\ n # 0 /\ FirstIn(s) = s[1] /\ LastIn(s) = s[n] /\ 1 \in 1 .. n /\ n \in 1 .. n /\ NullPtr \notin SetOfRow(s)
        /\ \A i \in 1 .. n : s[i] \in Elements /\ s[i] \in SetOfRow(s)
    BY <1>1, RowFacts
  <2>2. k \in 1 .. n /\ s[k] = p /\ \A i \in 1 .. n : s[i] = p => k = i
    BY <1>1, PlaceIs
  <2>3. n > 0
    BY <2>1
  <2>4. \A i, j \in 1 .. n : s[i] = s[j] => i = j
    BY <1>1 DEF Injective
  <2>5. p # NullPtr
    BY <2>1
  <2> QED
    BY <2>1, <2>2, <2>3, <2>4, <2>5
<1> HIDE DEF k
<1>3. /\ \A i \in 1 .. n - 1 : l.next[s[i]] = s[i + 1]
      /\ l.next[s[n]] = NullPtr
      /\ \A y \in Elements \ SetOfRow(s) : l.next[y] = NullPtr
  BY <1>1, <1>2 DEF InOrder, LinkShape, Leads
<1>4. CASE k = n
  <2>1. e = NullPtr
    BY <1>2, <1>3, <1>4
  <2>2. r = With(NullPtr, marked)
    BY <2>1 DEF RemoveNext, With
  <2>3. marked \in ListRecord /\ SameRest(l, marked) /\ SameLinks(l, marked) /\ marked.inside = l.inside /\ marked.curr = l.curr
    BY <1>1, MarkedIs
  <2> HIDE DEF marked
  <2>4. InOrder(marked, s)
    BY <1>1, <2>3, OrderStays DEF SameRest
  <2>5. Shape(marked, s)
    <3>1. EndShape(l, s)
      BY DEF Shape
    <3>2. EndShape(marked, s)
      BY <2>3, <3>1 DEF EndShape, SameRest, SameEnds
    <3>3. Running(marked) /\ ~(marked.kind = "single" /\ marked.ring)
      BY <1>1, <2>3 DEF SameRest, SameEnds, SameClass, Running
    <3> QED
      BY <2>4, <3>2, <3>3, ShapeIs
  <2> QED
    BY <2>1, <2>2, <2>5, WithIs
<1>5. CASE k # n
  <2> DEFINE K == k + 1
             t == RemoveAt(s, K)
  <2>1. K \in 1 .. n /\ k \in 1 .. n - 1 /\ K - 1 = k /\ K # k /\ K # 1 /\ n > 1
    BY <1>2, <1>5
  <2>2. e = s[K] /\ e \in SetOfRow(s) /\ e \in Elements /\ e # p /\ e # NullPtr
    BY <1>2, <1>3, <2>1
  <2>3. PlaceOf(s, e) = K
    BY <1>1, <2>1, <2>2, PlaceIs
  <2>4. r = With(e, Uncounted(counted))
    <3>1. ~(e = NullPtr \/ e = p)
      BY <2>2
    <3> QED
      BY <3>1 DEF RemoveNext, GetNext, With
  <2>5. /\ base \in ListRecord /\ SameRest(l, base) /\ base.curr = l.curr /\ base.inside = l.inside
        /\ base.next = [l.next EXCEPT ![p] = l.next[e]]
    BY <1>1, <1>2, <2>2, LinkTypes, SetNextIs
  <2> HIDE DEF base
  <2>6. base.kind = "single"
    BY <2>5 DEF SameRest, SameClass
  <2>7. /\ unlinked \in ListRecord /\ SameRest(base, unlinked)
        /\ unlinked.curr = (IF base.curr = e THEN NullPtr ELSE base.curr)
        /\ unlinked.inside = base.inside \ {e}
        /\ unlinked.next[e] = NullPtr /\ \A y \in Elements : y # e => unlinked.next[y] = base.next[y]
    <3>1. e \in Elements /\ base \in ListRecord /\ unlinked = Detach(base, e)
      BY <2>2, <2>5
    <3> HIDE DEF unlinked
    <3> QED
      BY <2>6, <3>1, DetachIs
  <2> HIDE DEF unlinked
  <2>8. unlinked.next[p] = l.next[e] /\ \A y \in Elements : y \notin {e, p} => unlinked.next[y] = l.next[y]
    <3>1. l.next \in [Elements -> Places]
      BY <1>1 DEF ListRecord
    <3> QED
      BY <1>2, <2>2, <2>5, <2>7, <3>1
  <2>9. BridgesNext(l.next, unlinked.next, s, n, K)
    <3> SUFFICES ASSUME NEW i \in 1 .. n, i # K
                 PROVE  unlinked.next[s[i]] = IF i = K - 1 \/ (K = 1 /\ i = n /\ l.next[s[n]] # NullPtr) THEN l.next[s[K]] ELSE l.next[s[i]]
      BY DEF BridgesNext
    <3>1. s[i] \in Elements /\ s[i] # e
      BY <1>2, <2>1, <2>2
    <3>2. CASE i = k
      BY <1>2, <2>1, <2>2, <2>8, <3>2
    <3>3. CASE i # k
      <4>1. s[i] # p
        BY <1>2, <3>3
      <4>2. ~(i = K - 1 \/ (K = 1 /\ i = n /\ l.next[s[n]] # NullPtr))
        BY <2>1, <3>3
      <4> QED
        BY <2>8, <3>1, <4>1, <4>2
    <3> QED
      BY <3>2, <3>3
  <2>10. /\ InOrder(unlinked, t)
         /\ LastIn(t) = (IF K = n THEN s[n - 1] ELSE s[n])
         /\ FirstIn(t) = (IF K = 1 THEN s[2] ELSE s[1])
         /\ Len(t) = n - 1 /\ SetOfRow(t) = SetOfRow(s) \ {s[K]}
    <3>1. SameClass(l, unlinked)
      BY <2>5, <2>7 DEF SameRest, SameClass
    <3>2. \A y \in Elements \ SetOfRow(s) : unlinked.next[y] = NullPtr
      BY <1>3, <2>2, <2>8
    <3>3. unlinked.next[s[K]] = NullPtr /\ l.next[s[n]] = NullPtr
      BY <1>3, <2>2, <2>7
    <3> HIDE DEF K, t
    <3>4. t = RemoveAt(s, K)
      BY DEF t
    <3> QED
      BY <1>1, <2>1, <2>7, <2>9, <3>1, <3>2, <3>3, <3>4, UnlinkedSingle
  <2>11. /\ counted \in ListRecord /\ SameClass(l, counted) /\ SameLinks(unlinked, counted)
         /\ counted.inside = unlinked.inside /\ counted.curr = unlinked.curr /\ counted.head = unlinked.head
         /\ counted.count = unlinked.count /\ counted.status = unlinked.status
         /\ counted.tail = IF K = n THEN p ELSE unlinked.tail
    <3>1. l.next[p] = l.tail /\ e = l.tail <=> K = n
      BY <1>1, <1>2, <2>1, <2>2
    <3>2. CASE K = n
      <4>1. counted = SetTail(unlinked, p)
        BY <3>1, <3>2
      <4>2. p \in Places
        BY <1>2 DEF Places
      <4> HIDE DEF counted
      <4>3. /\ counted \in ListRecord /\ SameClass(unlinked, counted) /\ SameLinks(unlinked, counted) /\ counted.inside = unlinked.inside
            /\ counted.curr = unlinked.curr /\ counted.head = unlinked.head /\ counted.tail = p /\ counted.count = unlinked.count /\ counted.status = unlinked.status
        BY <2>7, <4>1, <4>2, EndsAre
      <4> QED
        BY <2>5, <2>7, <3>2, <4>3 DEF SameClass, SameRest
    <3>3. CASE K # n
      <4>1. counted = [unlinked EXCEPT !.renumber = TRUE]
        BY <3>1, <3>3
      <4> HIDE DEF counted
      <4>2. counted \in ListRecord /\ SameRest(unlinked, counted) /\ SameLinks(unlinked, counted) /\ counted.inside = unlinked.inside /\ counted.curr = unlinked.curr
        BY <2>7, <4>1, MarkedIs
      <4> QED
        BY <2>5, <2>7, <3>3, <4>2 DEF SameClass, SameRest, SameEnds
    <3> QED
      BY <3>2, <3>3
  <2> HIDE DEF counted
  <2>12. /\ counted.head = FirstIn(t) /\ counted.tail = LastIn(t) /\ counted.count = Len(s) /\ Running(counted)
         /\ counted.inside = l.inside \ {s[K]} /\ counted.curr = (IF l.curr = s[K] THEN NullPtr ELSE l.curr)
    <3>1. unlinked.head = l.head /\ unlinked.tail = l.tail /\ unlinked.count = l.count /\ unlinked.status = l.status
      BY <2>5, <2>7 DEF SameRest, SameEnds
    <3>2. p = s[n - 1] \/ K # n
      BY <1>2, <2>1
    <3>3. counted.tail = LastIn(t) /\ counted.head = FirstIn(t)
      BY <1>1, <1>2, <2>1, <2>10, <2>11, <3>1, <3>2
    <3>4. counted.count = Len(s) /\ Running(counted)
      BY <1>1, <2>11, <3>1 DEF Running
    <3> QED
      BY <2>2, <2>5, <2>7, <2>11, <3>3, <3>4
  <2>13. InOrder(counted, t)
    <3>1. SameClass(unlinked, counted)
      BY <2>5, <2>7, <2>11 DEF SameRest, SameClass
    <3> QED
      BY <2>10, <2>11, <3>1, OrderStays
  <2>14. Shape(Uncounted(counted), t)
    <3>1. K \in 1 .. Len(s) /\ Len(s) > 1 /\ Len(t) = Len(s) - 1 /\ SetOfRow(t) = SetOfRow(s) \ {s[K]}
      BY <2>1, <2>10
    <3> HIDE DEF K, t, n
    <3> QED
      BY <2>11, <2>12, <2>13, <3>1, TakenFrom
  <2> QED
    BY <2>2, <2>3, <2>4, <2>14, WithIs DEF InRow
<1> QED
  BY <1>4, <1>5

\* The head of a single list.
LEMMA RemoveHeadIs ==
  ASSUME NEW l, NEW s, Shape(l, s), l.kind = "single", l.head # NullPtr, NEW r, r = RemoveHead(l)
  PROVE  r.at = l.head /\ InRow(r.list, RemoveAt(s, 1))
<1> DEFINE n == Len(s)
           e == l.head
           off == SetHead(l, l.next[e])
           gone == Detach(off, e)
           t == RemoveAt(s, 1)
<1>1. /\ l \in ListRecord /\ Running(l) /\ s \in Seq(Elements) /\ Injective(s) /\ Leads(l.next, s)
      /\ l.inside = SetOfRow(s) /\ l.count = n /\ l.head = FirstIn(s) /\ l.tail = LastIn(s) /\ InOrder(l, s) /\ ~l.ring
  BY ShapeFacts, ShapeIs
<1>2. /\ n \in Nat /\ n # 0 /\ n > 0 /\ 1 \in 1 .. n /\ n \in 1 .. n /\ e = s[1] /\ LastIn(s) = s[n] /\ e \in Elements /\ e \in SetOfRow(s)
      /\ \A i \in 1 .. n : s[i] \in Elements
  <2>1. n \in Nat /\ n # 0
    BY <1>1, RowFacts
  <2>2. n > 0
    BY <2>1
  <2> QED
    BY <1>1, <2>1, <2>2, RowFacts
<1>3. l.next[s[n]] = NullPtr /\ (n > 1 => l.next[s[1]] = s[2]) /\ \A y \in Elements \ SetOfRow(s) : l.next[y] = NullPtr
  <2>1. n > 1 => 1 \in 1 .. n - 1
    BY <1>2
  <2> QED
    BY <1>1, <1>2, <2>1 DEF InOrder, LinkShape, Leads
<1>4. r = With(e, IF Running(off) THEN Uncounted(gone) ELSE off)
  BY DEF RemoveHead, Unlink, With, GetNext
<1>5. CASE ~(n > 1)
  <2>1. n = 1
    <3>1. n \in Nat /\ n > 0
      BY <1>2
    <3> HIDE DEF n
    <3> QED
      BY <1>5, <3>1
  <2>2. off = Crashed(l)
    BY <1>2, <1>3, <2>1 DEF SetHead
  <2>3. ~Running(off)
    BY <1>1, <2>2 DEF Crashed, Running, ListRecord
  <2> HIDE DEF off, gone
  <2> QED
    BY <1>4, <2>3, WithIs DEF InRow
<1>6. CASE n > 1
  <2>1. off = SetHead(l, s[2])
    BY <1>2, <1>3, <1>6
  <2> HIDE DEF off
  <2>2. Running(off) => /\ off \in ListRecord /\ SameClass(l, off) /\ SameLinks(l, off) /\ off.inside = l.inside /\ off.curr = l.curr
                        /\ off.tail = l.tail /\ off.count = l.count /\ off.head = s[2]
    BY <1>1, <1>6, <2>1, HeadMoves
  <2>3. ASSUME Running(off)
        PROVE  Shape(Uncounted(gone), t)
    <3>1. /\ off \in ListRecord /\ SameClass(l, off) /\ SameLinks(l, off) /\ off.inside = l.inside /\ off.curr = l.curr
          /\ off.tail = l.tail /\ off.count = l.count /\ off.head = s[2] /\ off.kind = "single"
      BY <2>2, <2>3 DEF SameClass
    <3>2. /\ gone \in ListRecord /\ SameRest(off, gone)
          /\ gone.curr = (IF off.curr = e THEN NullPtr ELSE off.curr)
          /\ gone.inside = off.inside \ {e}
          /\ gone.next[e] = NullPtr /\ \A y \in Elements : y # e => gone.next[y] = off.next[y]
      <4>1. e \in Elements /\ gone = Detach(off, e)
        BY <1>2
      <4> HIDE DEF gone, e
      <4> QED
        BY <3>1, <4>1, DetachIs
    <3> HIDE DEF gone
    <3>3. BridgesNext(l.next, gone.next, s, n, 1)
      <4> SUFFICES ASSUME NEW i \in 1 .. n, i # 1
                   PROVE  gone.next[s[i]] = IF i = 1 - 1 \/ (1 = 1 /\ i = n /\ l.next[s[n]] # NullPtr) THEN l.next[s[1]] ELSE l.next[s[i]]
        BY DEF BridgesNext
      <4>1. s[i] \in Elements /\ s[i] # e
        BY <1>1, <1>2 DEF Injective
      <4>2. i # 1 - 1
        BY <1>2
      <4> QED
        BY <1>3, <3>1, <3>2, <4>1, <4>2 DEF SameLinks
    <3>4. /\ InOrder(gone, t)
          /\ LastIn(t) = (IF 1 = n THEN s[n - 1] ELSE s[n])
          /\ FirstIn(t) = (IF 1 = 1 THEN s[2] ELSE s[1])
          /\ Len(t) = n - 1 /\ SetOfRow(t) = SetOfRow(s) \ {s[1]}
      <4>1. SameClass(l, gone)
        BY <3>1, <3>2 DEF SameRest, SameClass
      <4>2. \A y \in Elements \ SetOfRow(s) : gone.next[y] = NullPtr
        BY <1>2, <1>3, <3>1, <3>2 DEF SameLinks
      <4>3. gone.next[s[1]] = NullPtr /\ l.next[s[n]] = NullPtr
        BY <1>2, <1>3, <3>2
      <4>4. PICK k : k = 1
        OBVIOUS
      <4>5. BridgesNext(l.next, gone.next, s, n, k) /\ gone.next[s[k]] = NullPtr /\ k \in 1 .. n /\ t = RemoveAt(s, k)
        BY <1>2, <3>3, <4>3, <4>4
      <4> HIDE DEF t
      <4>6. /\ InOrder(gone, t)
            /\ LastIn(t) = (IF k = n THEN s[n - 1] ELSE s[n])
            /\ FirstIn(t) = (IF k = 1 THEN s[2] ELSE s[1])
            /\ Len(t) = n - 1 /\ SetOfRow(t) = SetOfRow(s) \ {s[k]}
        BY <1>1, <1>6, <3>2, <4>1, <4>2, <4>3, <4>5, UnlinkedSingle
      <4> QED
        BY <4>4, <4>6
    <3>5. gone.head = FirstIn(t) /\ gone.tail = LastIn(t) /\ gone.count = n /\ Running(gone) /\ SameClass(l, gone)
      BY <1>1, <1>2, <1>6, <2>3, <3>1, <3>2, <3>4 DEF SameRest, SameEnds, SameClass, Running
    <3>6. gone.inside = l.inside \ {s[1]} /\ gone.curr = (IF l.curr = s[1] THEN NullPtr ELSE l.curr)
      BY <1>2, <3>1, <3>2
    <3>7. PICK k : k = 1
      OBVIOUS
    <3>8. /\ k \in 1 .. Len(s) /\ Len(s) > 1 /\ Len(t) = Len(s) - 1 /\ SetOfRow(t) = SetOfRow(s) \ {s[k]}
          /\ gone.inside = l.inside \ {s[k]} /\ gone.curr = (IF l.curr = s[k] THEN NullPtr ELSE l.curr) /\ gone.count = Len(s)
      BY <1>2, <1>6, <3>4, <3>5, <3>6, <3>7
    <3> HIDE DEF t, n
    <3> QED
      BY <3>4, <3>5, <3>8, TakenFrom
  <2> HIDE DEF gone, t
  <2> QED
    BY <1>4, <2>3, WithIs DEF InRow, t
<1> QED
  BY <1>5, <1>6

\* What privRemoveAfterElement() takes out: the element behind p, or the head.
TakesOut(r, s, e) ==
  /\ r.at = e
  /\ InRow(r.list, IF e = NullPtr THEN s ELSE RemoveAt(s, PlaceOf(s, e)))

\* delNext() and removeNext() take out the element that follows p, or the head for the null pointer.
LEMMA RemoveAfterIs ==
  ASSUME NEW l, NEW s, Shape(l, s), NEW p, p \in SetOfRow(s) \cup {NullPtr}, NEW r, r = RemoveAfter(l, p),
         NEW e, e = (IF p = NullPtr THEN l.head ELSE l.next[p])
  PROVE  TakesOut(r, s, e) /\ e \in SetOfRow(s) \cup {NullPtr}
<1> USE DEF TakesOut
<1>1. /\ l \in ListRecord /\ Running(l) /\ s \in Seq(Elements) /\ Injective(s) /\ Leads(l.next, s)
      /\ l.head = FirstIn(s) /\ InOrder(l, s) /\ NullPtr \notin SetOfRow(s) /\ Shape(l, s)
  BY ShapeFacts, ShapeIs, RowFacts
<1>2. InRow(l, s)
  BY <1>1 DEF InRow
<1>3. l.head \in SetOfRow(s) \cup {NullPtr} /\ (l.head # NullPtr => l.head = s[1] /\ 1 \in 1 .. Len(s))
  BY <1>1, RowFacts
<1>4. p # NullPtr => l.next[p] \in SetOfRow(s) \cup {NullPtr}
  <2> SUFFICES ASSUME p \in SetOfRow(s)
               PROVE  l.next[p] \in SetOfRow(s) \cup {NullPtr}
    OBVIOUS
  <2>1. PICK i \in 1 .. Len(s) : s[i] = p
    BY <1>1, RowFacts
  <2>2. Len(s) \in Nat
    BY <1>1, RowFacts
  <2>3. CASE i = Len(s)
    <3>1. LastIn(s) = p /\ Len(s) > 0
      BY <2>1, <2>2, <2>3 DEF LastIn
    <3> QED
      BY <1>1, <3>1 DEF Leads
  <2>4. CASE i # Len(s)
    <3>1. i \in 1 .. Len(s) - 1 /\ i + 1 \in 1 .. Len(s)
      BY <2>2, <2>4
    <3> QED
      BY <1>1, <2>1, <3>1 DEF Leads, SetOfRow
  <2> QED
    BY <2>3, <2>4
<1>5. CASE l.kind = "single"
  <2>1. CASE p = NullPtr
    <3>1. r = RemoveHead(l) /\ e = l.head
      BY <1>5, <2>1 DEF RemoveAfter, Single
    <3>2. CASE l.head = NullPtr
      <4>1. r = With(NullPtr, l)
        BY <3>1, <3>2 DEF RemoveHead, Unlink, With
      <4> QED
        BY <1>2, <3>1, <3>2, <4>1, WithIs
    <3>3. CASE l.head # NullPtr
      <4>1. r.at = e /\ InRow(r.list, RemoveAt(s, 1))
        BY <1>5, <3>1, <3>3, RemoveHeadIs
      <4>2. PlaceOf(s, e) = 1
        BY <1>1, <1>3, <3>1, <3>3, PlaceIs
      <4> QED
        BY <1>3, <3>1, <3>3, <4>1, <4>2
    <3> QED
      BY <3>2, <3>3
  <2>2. CASE p # NullPtr
    <3>1. r = RemoveNext(l, p) /\ e = l.next[p] /\ p \in SetOfRow(s)
      BY <1>5, <2>2 DEF RemoveAfter, Single
    <3>2. /\ e = NullPtr => r.at = NullPtr /\ Shape(r.list, s)
          /\ e # NullPtr => e \in SetOfRow(s) /\ r.at = e /\ InRow(r.list, RemoveAt(s, PlaceOf(s, e)))
      BY <1>5, <3>1, RemoveNextIs
    <3> QED
      BY <3>2 DEF InRow
  <2> QED
    BY <2>1, <2>2
<1>6. CASE l.kind # "single"
  <2>1. r = IF e = NullPtr THEN With(NullPtr, l) ELSE PrivRemove(l, e)
    BY <1>6 DEF RemoveAfter, Single, GetNext, With
  <2>2. e \in SetOfRow(s) \cup {NullPtr}
    BY <1>3, <1>4
  <2>3. CASE e = NullPtr
    BY <1>2, <2>1, <2>3, WithIs
  <2>4. CASE e # NullPtr
    <3>1. r.at = e /\ InRow(r.list, RemoveAt(s, PlaceOf(s, e)))
      BY <1>6, <2>1, <2>2, <2>4, PrivRemoveIs
    <3> QED
      BY <2>2, <2>4, <3>1
  <2> QED
    BY <2>3, <2>4
<1> QED
  BY <1>5, <1>6

-----------------------------------------------------------------------------
(* Searching *)

\* The places a names in a row, one after another; f leads from one to the next; w is what is found there.
Names(a, m, s) == a \in [1 .. m -> 1 .. Len(s)] /\ \A i, j \in 1 .. m : a[i] = a[j] => i = j
LeadsAlong(f, a, m, s) == f[s[a[m]]] = NullPtr /\ \A j \in 1 .. m - 1 : f[s[a[j]]] = s[a[j + 1]]
ReadAlong(w, a, m, s) == w \in Seq(Elements) /\ Len(w) = m /\ \A j \in 1 .. m : w[j] = s[a[j]]

\* A walk from a place in a row reads what the links lead through.
LEMMA PartWalk ==
  ASSUME NEW s \in Seq(Elements), Injective(s), NEW m \in Nat, m > 0, NEW a, Names(a, m, s), NEW f, LeadsAlong(f, a, m, s),
         NEW e, e = s[a[1]], NEW w, w = Walk(f, e)
  PROVE  ReadAlong(w, a, m, s)
<1>a. /\ a \in [1 .. m -> 1 .. Len(s)] /\ \A i, j \in 1 .. m : a[i] = a[j] => i = j
      /\ f[s[a[m]]] = NullPtr /\ \A j \in 1 .. m - 1 : f[s[a[j]]] = s[a[j + 1]]
  BY DEF Names, LeadsAlong
<1> DEFINE r == [j \in 1 .. m |-> s[a[j]]]
<1>1. /\ \A i \in 1 .. Len(s) : s[i] \in Elements
      /\ \A i, j \in 1 .. Len(s) : s[i] = s[j] => i = j
      /\ 1 \in 1 .. m /\ m \in 1 .. m /\ m # 0
  BY RowFacts DEF Injective
<1>2. r \in [1 .. m -> Elements] /\ \A j \in 1 .. m : r[j] = s[a[j]]
  BY <1>1, <1>a
<1> HIDE DEF r
<1>3. r \in Seq(Elements) /\ Len(r) = m
  BY <1>2, SeqDef, LenProperties
<1>4. Injective(r)
  <2> SUFFICES ASSUME NEW i \in 1 .. m, NEW j \in 1 .. m, r[i] = r[j]
               PROVE  i = j
    BY <1>3 DEF Injective
  <2>1. s[a[i]] = s[a[j]] /\ a[i] \in 1 .. Len(s) /\ a[j] \in 1 .. Len(s)
    BY <1>2, <1>a
  <2>2. a[i] = a[j]
    BY <1>1, <2>1
  <2> QED
    BY <1>a, <2>2
<1>5. \A j \in 1 .. m - 1 : f[r[j]] = r[j + 1]
  <2> SUFFICES ASSUME NEW j \in 1 .. m - 1
               PROVE  f[r[j]] = r[j + 1]
    OBVIOUS
  <2>1. j \in 1 .. m /\ j + 1 \in 1 .. m
    OBVIOUS
  <2> QED
    BY <1>2, <1>a, <2>1
<1>6. LastIn(r) = r[m] /\ FirstIn(r) = r[1] /\ f[r[m]] = NullPtr /\ r[1] = e
  BY <1>1, <1>2, <1>3, <1>a DEF LastIn, FirstIn
<1>7. Leads(f, r)
  <2>1. \A j \in 1 .. Len(r) - 1 : f[r[j]] = r[j + 1]
    BY <1>3, <1>5
  <2> QED
    BY <1>3, <1>4, <1>6, <2>1 DEF Leads
<1>8. w = r
  BY <1>6, <1>7, WalkIs
<1> QED
  BY <1>2, <1>3, <1>8 DEF ReadAlong

\* w is the part of s from i on; w is the part of s up to i, backwards.
ReadsUp(w, s, i) == w \in Seq(Elements) /\ Len(w) = Len(s) - i + 1 /\ \A j \in 1 .. Len(s) - i + 1 : w[j] = s[i + j - 1]
ReadsDown(w, s, i) == w \in Seq(Elements) /\ Len(w) = i /\ \A j \in 1 .. i : w[j] = s[i + 1 - j]

\* From the i-th element up to the tail.
LEMMA UpIs ==
  ASSUME NEW l, NEW s, Shape(l, s), NEW i \in 1 .. Len(s), NEW w, w = Up(l, s[i])
  PROVE  ReadsUp(w, s, i)
<1> DEFINE n == Len(s)
           m == n - i + 1
           a == [j \in 1 .. m |-> i + j - 1]
           f == [l.next EXCEPT ![l.tail] = NullPtr]
<1>1. /\ l \in ListRecord /\ s \in Seq(Elements) /\ Injective(s) /\ Leads(l.next, s) /\ l.tail = LastIn(s)
  BY ShapeFacts
<1>2. n \in Nat /\ n # 0 /\ n \in 1 .. n /\ LastIn(s) = s[n] /\ m \in Nat /\ m > 0
  BY <1>1, RowFacts
<1>3. l.next \in [Elements -> Places] /\ \A j \in 1 .. n : s[j] \in Elements
  BY <1>1, RowFacts DEF ListRecord
<1>4. \A j \in 1 .. n - 1 : l.next[s[j]] = s[j + 1]
  BY <1>1 DEF Leads
<1>5. \A j, k \in 1 .. n : s[j] = s[k] => j = k
  BY <1>1 DEF Injective
<1>6. f[s[n]] = NullPtr /\ \A j \in 1 .. n - 1 : f[s[j]] = s[j + 1]
  <2>1. f[s[n]] = NullPtr
    BY <1>1, <1>2, <1>3
  <2>2. ASSUME NEW j \in 1 .. n - 1
        PROVE  f[s[j]] = s[j + 1]
    <3>1. j \in 1 .. n /\ j # n
      BY <1>2
    <3>2. s[j] # s[n]
      BY <1>2, <1>5, <3>1
    <3> QED
      BY <1>1, <1>2, <1>3, <1>4, <3>1, <3>2
  <2> QED
    BY <2>1, <2>2
<1>7. w = Walk(f, s[i])
  BY DEF Up, Through
<1>8. a \in [1 .. m -> 1 .. n] /\ (\A j, k \in 1 .. m : a[j] = a[k] => j = k) /\ a[m] = n /\ a[1] = i
  BY <1>2
<1> HIDE DEF f
<1>9. \A j \in 1 .. m - 1 : f[s[a[j]]] = s[a[j + 1]]
  <2> SUFFICES ASSUME NEW j \in 1 .. m - 1
               PROVE  f[s[a[j]]] = s[a[j + 1]]
    OBVIOUS
  <2>1. j \in 1 .. m /\ j + 1 \in 1 .. m /\ a[j] \in 1 .. n - 1 /\ a[j + 1] = a[j] + 1
    BY <1>2
  <2> HIDE DEF a, m
  <2> QED
    BY <1>6, <2>1
<1>10. w \in Seq(Elements) /\ Len(w) = m /\ \A j \in 1 .. m : w[j] = s[a[j]]
  <2> HIDE DEF a, m
  <2>1. f[s[a[m]]] = NullPtr /\ s[i] = s[a[1]]
    BY <1>6, <1>8
  <2>2. Names(a, m, s) /\ LeadsAlong(f, a, m, s)
    BY <1>8, <1>9, <2>1 DEF Names, LeadsAlong
  <2>3. ReadAlong(w, a, m, s)
    BY <1>1, <1>2, <1>7, <2>1, <2>2, PartWalk
  <2> QED
    BY <2>3 DEF ReadAlong
<1> QED
  BY <1>10 DEF ReadsUp

\* From the i-th element of a double list down to the head.
LEMMA DownIs ==
  ASSUME NEW l, NEW s, Shape(l, s), l.kind # "single", NEW i \in 1 .. Len(s), NEW w, w = Down(l, s[i])
  PROVE  ReadsDown(w, s, i)
<1> DEFINE n == Len(s)
           a == [j \in 1 .. i |-> i + 1 - j]
           f == [l.prev EXCEPT ![l.head] = NullPtr]
<1>1. /\ l \in ListRecord /\ s \in Seq(Elements) /\ Injective(s) /\ l.head = FirstIn(s)
  BY ShapeFacts
<1>2. n \in Nat /\ n # 0 /\ 1 \in 1 .. n /\ FirstIn(s) = s[1] /\ i \in Nat /\ i > 0
  BY <1>1, RowFacts
<1>3. l.prev \in [Elements -> Places] /\ \A j \in 1 .. n : s[j] \in Elements
  BY <1>1, RowFacts DEF ListRecord
<1>4. \A j \in 2 .. n : l.prev[s[j]] = s[j - 1]
  BY DEF Shape, LinkShape
<1>5. \A j, k \in 1 .. n : s[j] = s[k] => j = k
  BY <1>1 DEF Injective
<1>6. f[s[1]] = NullPtr /\ \A j \in 2 .. n : f[s[j]] = s[j - 1]
  <2>1. f[s[1]] = NullPtr
    BY <1>1, <1>2, <1>3
  <2>2. ASSUME NEW j \in 2 .. n
        PROVE  f[s[j]] = s[j - 1]
    <3>1. j \in 1 .. n /\ j # 1
      BY <1>2
    <3>2. s[j] # s[1]
      BY <1>2, <1>5, <3>1
    <3> QED
      BY <1>1, <1>2, <1>3, <1>4, <3>1, <3>2
  <2> QED
    BY <2>1, <2>2
<1>7. w = Walk(f, s[i])
  BY DEF Down
<1>8. a \in [1 .. i -> 1 .. n] /\ (\A j, k \in 1 .. i : a[j] = a[k] => j = k) /\ a[i] = 1 /\ a[1] = i
  BY <1>2
<1> HIDE DEF f
<1>9. \A j \in 1 .. i - 1 : f[s[a[j]]] = s[a[j + 1]]
  <2> SUFFICES ASSUME NEW j \in 1 .. i - 1
               PROVE  f[s[a[j]]] = s[a[j + 1]]
    OBVIOUS
  <2>1. j \in 1 .. i /\ j + 1 \in 1 .. i /\ a[j] \in 2 .. n /\ a[j + 1] = a[j] - 1
    BY <1>2
  <2> HIDE DEF a
  <2> QED
    BY <1>6, <2>1
<1>10. w \in Seq(Elements) /\ Len(w) = i /\ \A j \in 1 .. i : w[j] = s[a[j]]
  <2> HIDE DEF a
  <2>1. f[s[a[i]]] = NullPtr /\ s[i] = s[a[1]]
    BY <1>6, <1>8
  <2>2. Names(a, i, s) /\ LeadsAlong(f, a, i, s)
    BY <1>8, <1>9, <2>1 DEF Names, LeadsAlong
  <2>3. ReadAlong(w, a, i, s)
    BY <1>1, <1>2, <1>7, <2>1, <2>2, PartWalk
  <2> QED
    BY <2>3 DEF ReadAlong
<1> QED
  BY <1>10 DEF ReadsDown

\* From nowhere.
LEMMA NoWalk == ASSUME NEW f, NEW w, w = Walk(f, NullPtr) PROVE w = <<>> /\ w \in Seq(Elements) /\ Len(w) = 0
<1> DEFINE r == <<>>
<1>1. r \in Seq(Elements) /\ Len(r) = 0 /\ \A i \in 1 .. Len(r) : FALSE
  OBVIOUS
<1> HIDE DEF r
<1>2. FirstIn(r) = NullPtr /\ Leads(f, r)
  BY <1>1 DEF FirstIn, Leads, Injective
<1>3. w = r
  BY <1>2, WalkIs
<1> QED
  BY <1>1, <1>3 DEF r

\* What is on the way up or down, and that there is something to start from.
LEMMA OnTheWay ==
  ASSUME NEW l, NEW s, Shape(l, s), NEW e, e \in SetOfRow(s) \cup {NullPtr}
  PROVE  /\ Up(l, e) \in Seq(Elements) /\ SetOfRow(Up(l, e)) \subseteq SetOfRow(s)
         /\ \A i \in 1 .. Len(s) : e = s[i] => \A j \in i .. Len(s) : s[j] \in SetOfRow(Up(l, e))
         /\ l.kind # "single" =>
              /\ Down(l, e) \in Seq(Elements) /\ SetOfRow(Down(l, e)) \subseteq SetOfRow(s)
              /\ \A i \in 1 .. Len(s) : e = s[i] => \A j \in 1 .. i : s[j] \in SetOfRow(Down(l, e))
<1>1. s \in Seq(Elements) /\ Len(s) \in Nat /\ (\A i \in 1 .. Len(s) : s[i] \in SetOfRow(s) /\ s[i] # NullPtr)
      /\ \A x \in SetOfRow(s) : \E i \in 1 .. Len(s) : s[i] = x
  BY ShapeFacts, RowFacts
<1>2. CASE e = NullPtr
  <2>1. Up(l, e) \in Seq(Elements) /\ Len(Up(l, e)) = 0 /\ Down(l, e) \in Seq(Elements) /\ Len(Down(l, e)) = 0
    BY <1>2, NoWalk DEF Up, Through, Down
  <2>2. SetOfRow(Up(l, e)) = {} /\ SetOfRow(Down(l, e)) = {}
    BY <2>1, RowFacts
  <2> QED
    BY <1>1, <1>2, <2>1, <2>2
<1>3. ASSUME NEW i \in 1 .. Len(s), e = s[i]
      PROVE  /\ Up(l, e) \in Seq(Elements) /\ SetOfRow(Up(l, e)) \subseteq SetOfRow(s)
             /\ \A j \in i .. Len(s) : s[j] \in SetOfRow(Up(l, e))
  <2> DEFINE w == Up(l, e)
  <2>1. w \in Seq(Elements) /\ Len(w) = Len(s) - i + 1 /\ \A j \in 1 .. Len(s) - i + 1 : w[j] = s[i + j - 1]
    <3>1. ReadsUp(w, s, i)
      BY <1>3, UpIs
    <3> QED
      BY <3>1 DEF ReadsUp
  <2> HIDE DEF w
  <2>2. ASSUME NEW j \in 1 .. Len(w)
        PROVE  w[j] \in SetOfRow(s)
    <3>1. j \in 1 .. Len(s) - i + 1 /\ i + j - 1 \in 1 .. Len(s)
      BY <1>1, <2>1
    <3> QED
      BY <1>1, <2>1, <3>1
  <2>3. ASSUME NEW j \in i .. Len(s)
        PROVE  s[j] \in SetOfRow(w)
    <3>1. j - i + 1 \in 1 .. Len(w) /\ i + (j - i + 1) - 1 = j /\ j - i + 1 \in 1 .. Len(s) - i + 1
      BY <1>1, <2>1
    <3>2. w[j - i + 1] = s[j]
      BY <2>1, <3>1
    <3> QED
      BY <3>1, <3>2 DEF SetOfRow
  <2>4. SetOfRow(w) \subseteq SetOfRow(s)
    BY <2>2 DEF SetOfRow
  <2> QED
    BY <2>1, <2>3, <2>4 DEF w
<1>4. ASSUME l.kind # "single", NEW i \in 1 .. Len(s), e = s[i]
      PROVE  /\ Down(l, e) \in Seq(Elements) /\ SetOfRow(Down(l, e)) \subseteq SetOfRow(s)
             /\ \A j \in 1 .. i : s[j] \in SetOfRow(Down(l, e))
  <2> DEFINE w == Down(l, e)
  <2>1. w \in Seq(Elements) /\ Len(w) = i /\ \A j \in 1 .. i : w[j] = s[i + 1 - j]
    <3>1. ReadsDown(w, s, i)
      BY <1>4, DownIs
    <3> QED
      BY <3>1 DEF ReadsDown
  <2> HIDE DEF w
  <2>2. ASSUME NEW j \in 1 .. Len(w)
        PROVE  w[j] \in SetOfRow(s)
    <3>1. j \in 1 .. i /\ i + 1 - j \in 1 .. Len(s)
      BY <1>1, <2>1
    <3> QED
      BY <1>1, <2>1, <3>1
  <2>3. ASSUME NEW j \in 1 .. i
        PROVE  s[j] \in SetOfRow(w)
    <3>1. i + 1 - j \in 1 .. Len(w) /\ i + 1 - (i + 1 - j) = j /\ i + 1 - j \in 1 .. i
      BY <1>1, <2>1
    <3>2. w[i + 1 - j] = s[j]
      BY <2>1, <3>1
    <3> QED
      BY <3>1, <3>2 DEF SetOfRow
  <2>4. SetOfRow(w) \subseteq SetOfRow(s)
    BY <2>2 DEF SetOfRow
  <2> QED
    BY <2>1, <2>3, <2>4 DEF w
<1>5. CASE e # NullPtr
  <2>1. PICK i \in 1 .. Len(s) : s[i] = e
    BY <1>1, <1>5
  <2>2. /\ Up(l, e) \in Seq(Elements) /\ SetOfRow(Up(l, e)) \subseteq SetOfRow(s)
        /\ l.kind # "single" => Down(l, e) \in Seq(Elements) /\ SetOfRow(Down(l, e)) \subseteq SetOfRow(s)
    BY <1>3, <1>4, <2>1
  <2> QED
    BY <1>3, <1>4, <2>2
<1> QED
  BY <1>2, <1>5

\* Where a thread stands in a list that is not empty.
LEMMA CurrentIs ==
  ASSUME NEW l, NEW s, Shape(l, s), Len(s) # 0
  PROVE  /\ Curr(l) \in SetOfRow(s) /\ l.head \in SetOfRow(s) /\ l.tail \in SetOfRow(s)
         /\ l.head = s[1] /\ l.tail = s[Len(s)] /\ 1 \in 1 .. Len(s) /\ Len(s) \in 1 .. Len(s)
<1>1. /\ s \in Seq(Elements) /\ l.head = FirstIn(s) /\ l.tail = LastIn(s) /\ l.curr \in SetOfRow(s) \cup {NullPtr}
  BY ShapeFacts
<1> QED
  BY <1>1, RowFacts DEF Curr

\* The neighbours of an element.
LEMMA NeighboursAre ==
  ASSUME NEW l, NEW s, Shape(l, s), NEW e \in SetOfRow(s)
  PROVE  /\ GetNext(l, e) \in SetOfRow(s) \cup {NullPtr}
         /\ l.kind # "single" => GetPrev(l, e) \in SetOfRow(s) \cup {NullPtr}
         /\ \A i \in 1 .. Len(s) - 1 : s[i] = e => GetNext(l, e) = s[i + 1]
         /\ l.kind # "single" => \A i \in 2 .. Len(s) : s[i] = e => GetPrev(l, e) = s[i - 1]
<1>1. /\ s \in Seq(Elements) /\ Len(s) \in Nat /\ (\A i \in 1 .. Len(s) : s[i] \in SetOfRow(s) /\ s[i] # NullPtr)
      /\ \A x \in SetOfRow(s) : \E i \in 1 .. Len(s) : s[i] = x
      /\ Len(s) # 0 => LastIn(s) = s[Len(s)] /\ LastIn(s) \in SetOfRow(s)
  BY ShapeFacts, RowFacts
<1>2. PICK k \in 1 .. Len(s) : s[k] = e
  BY <1>1
<1>3. Len(s) # 0 /\ Len(s) > 0
  BY <1>1, <1>2
<1>4. /\ \A i \in 1 .. Len(s) - 1 : l.next[s[i]] = s[i + 1]
      /\ l.next[LastIn(s)] \in SetOfRow(s) \cup {NullPtr}
      /\ l.kind # "single" => /\ \A i \in 2 .. Len(s) : l.prev[s[i]] = s[i - 1]
                              /\ l.prev[s[1]] \in {NullPtr, LastIn(s)}
  BY <1>1, <1>3 DEF Shape, LinkShape, Leads
<1>5. GetNext(l, e) \in SetOfRow(s) \cup {NullPtr}
  <2>1. CASE k = Len(s)
    BY <1>1, <1>2, <1>3, <1>4, <2>1 DEF GetNext
  <2>2. CASE k # Len(s)
    <3>1. k \in 1 .. Len(s) - 1 /\ k + 1 \in 1 .. Len(s)
      BY <1>1, <2>2
    <3> QED
      BY <1>1, <1>2, <1>4, <3>1 DEF GetNext
  <2> QED
    BY <2>1, <2>2
<1>6. l.kind # "single" => GetPrev(l, e) \in SetOfRow(s) \cup {NullPtr}
  <2>1. CASE k = 1
    BY <1>1, <1>2, <1>3, <1>4, <2>1 DEF GetPrev
  <2>2. CASE k # 1
    <3>1. k \in 2 .. Len(s) /\ k - 1 \in 1 .. Len(s)
      BY <1>1, <2>2
    <3> QED
      BY <1>1, <1>2, <1>4, <3>1 DEF GetPrev
  <2> QED
    BY <2>1, <2>2
<1> QED
  BY <1>4, <1>5, <1>6 DEF GetNext, GetPrev

\* Two walks, one after the other.
LEMMA JoinedIs ==
  ASSUME NEW u \in Seq(Elements), NEW w \in Seq(Elements)
  PROVE  u \o w \in Seq(Elements) /\ SetOfRow(u \o w) = SetOfRow(u) \cup SetOfRow(w)
<1>1. u \o w \in Seq(Elements) /\ Len(u \o w) = Len(u) + Len(w) /\ Len(u) \in Nat /\ Len(w) \in Nat
  BY LenProperties, ConcatProperties
<1>2. \A i \in 1 .. Len(u) + Len(w) : (u \o w)[i] = IF i <= Len(u) THEN u[i] ELSE w[i - Len(u)]
  BY ConcatProperties
<1> DEFINE c == u \o w
<1> HIDE DEF c
<1>3. ASSUME NEW i \in 1 .. Len(c)
      PROVE  c[i] \in SetOfRow(u) \cup SetOfRow(w)
  <2>1. CASE i <= Len(u)
    <3>1. i \in 1 .. Len(u) /\ i \in 1 .. Len(u) + Len(w)
      BY <1>1, <2>1 DEF c
    <3> QED
      BY <1>2, <2>1, <3>1 DEF SetOfRow, c
  <2>2. CASE ~(i <= Len(u))
    <3>1. i - Len(u) \in 1 .. Len(w) /\ i \in 1 .. Len(u) + Len(w)
      BY <1>1, <2>2 DEF c
    <3> QED
      BY <1>2, <2>2, <3>1 DEF SetOfRow, c
  <2> QED
    BY <2>1, <2>2
<1>4. ASSUME NEW i \in 1 .. Len(u)
      PROVE  u[i] \in SetOfRow(c)
  <2>1. i \in 1 .. Len(c) /\ i \in 1 .. Len(u) + Len(w) /\ i <= Len(u)
    BY <1>1 DEF c
  <2>2. c[i] = u[i]
    BY <1>2, <2>1 DEF c
  <2> QED
    BY <2>1, <2>2 DEF SetOfRow
<1>5. ASSUME NEW i \in 1 .. Len(w)
      PROVE  w[i] \in SetOfRow(c)
  <2>1. Len(u) + i \in 1 .. Len(c) /\ Len(u) + i \in 1 .. Len(u) + Len(w) /\ ~(Len(u) + i <= Len(u)) /\ (Len(u) + i) - Len(u) = i
    BY <1>1 DEF c
  <2>2. c[Len(u) + i] = w[i]
    BY <1>2, <2>1 DEF c
  <2> QED
    BY <2>1, <2>2 DEF SetOfRow
<1>6. SetOfRow(c) = SetOfRow(u) \cup SetOfRow(w)
  BY <1>3, <1>4, <1>5 DEF SetOfRow
<1> QED
  BY <1>1, <1>6 DEF c

\* A walk of one element, of three, or of none.
LEMMA FewAre ==
  ASSUME NEW a \in Elements, NEW b \in Elements, NEW c \in Elements
  PROVE  /\ <<a>> \in Seq(Elements) /\ SetOfRow(<<a>>) = {a}
         /\ <<a, b, c>> \in Seq(Elements) /\ SetOfRow(<<a, b, c>>) = {a, b, c}
         /\ <<>> \in Seq(Elements) /\ SetOfRow(<<>>) = {}
<1>1. <<a>> \in Seq(Elements) /\ Len(<<a>>) = 1 /\ <<a>>[1] = a /\ 1 .. 1 = {1}
  OBVIOUS
<1>2. /\ <<a, b, c>> \in Seq(Elements) /\ Len(<<a, b, c>>) = 3 /\ <<a, b, c>>[1] = a /\ <<a, b, c>>[2] = b /\ <<a, b, c>>[3] = c
      /\ 1 .. 3 = {1, 2, 3}
  OBVIOUS
<1>3. <<>> \in Seq(Elements) /\ Len(<<>>) = 0
  OBVIOUS
<1>4. SetOfRow(<<a>>) = {a}
  BY <1>1 DEF SetOfRow
<1>5. SetOfRow(<<a, b, c>>) = {a, b, c}
  BY <1>2 DEF SetOfRow
<1>6. SetOfRow(<<>>) = {}
  BY <1>3, RowFacts
<1> QED
  BY <1>1, <1>2, <1>3, <1>4, <1>5, <1>6

\* The search comes by all that is there, and by nothing else.
LEMMA VisitedIs ==
  ASSUME NEW l, NEW s, Shape(l, s), NEW by, NEW v, v = Visited(l, by)
  PROVE  v \in Seq(Elements) /\ SetOfRow(v) = SetOfRow(s)
<1> DEFINE n == Len(s)
           cur == Curr(l)
           whole == by = "data"
           ahead == Up(l, GetNext(l, l.head))
           up == IF whole \/ cur # l.tail THEN Up(l, GetNext(l, cur)) ELSE <<>>
           down == IF whole \/ cur # l.head THEN Down(l, GetPrev(l, cur)) ELSE <<>>
           rest == IF Single(l) THEN ahead ELSE up \o down
<1>1. s \in Seq(Elements) /\ n \in Nat /\ l.count = n /\ SetOfRow(s) \subseteq Elements
      /\ (n = 0 => SetOfRow(s) = {}) /\ (\A x \in SetOfRow(s) : \E i \in 1 .. Len(s) : s[i] = x)
  BY ShapeFacts, RowFacts
<1>2. v = IF l.count = 0 THEN <<>> ELSE IF l.count = 1 THEN <<cur>> ELSE <<cur, l.head, l.tail>> \o rest
  BY DEF Visited
<1> HIDE DEF rest
<1>3. CASE n = 0
  <2>1. v = <<>>
    BY <1>1, <1>2, <1>3
  <2>2. <<>> \in Seq(Elements) /\ Len(<<>>) = 0
    OBVIOUS
  <2> QED
    BY <1>1, <1>3, <2>1, <2>2, RowFacts
<1>4. CASE n # 0
  <2>1. /\ cur \in SetOfRow(s) /\ l.head \in SetOfRow(s) /\ l.tail \in SetOfRow(s)
        /\ l.head = s[1] /\ l.tail = s[n] /\ 1 \in 1 .. n /\ n \in 1 .. n /\ cur \in Elements /\ l.head \in Elements /\ l.tail \in Elements
    BY <1>1, <1>4, CurrentIs
  <2>2. PICK c \in 1 .. n : s[c] = cur
    BY <1>1, <2>1
  <2> HIDE DEF cur
  <2>3. CASE n = 1
    <3>1. v = <<cur>>
      BY <1>1, <1>2, <2>3
    <3>2. SetOfRow(s) = {s[1]}
      BY <2>3 DEF SetOfRow
    <3> QED
      BY <2>1, <3>1, <3>2, FewAre
  <2>4. CASE n # 1
    <3>1. v = <<cur, l.head, l.tail>> \o rest
      BY <1>1, <1>2, <1>4, <2>4
    <3>2. /\ rest \in Seq(Elements) /\ SetOfRow(rest) \subseteq SetOfRow(s)
          /\ \A i \in 1 .. n : i \notin {1, c, n} => s[i] \in SetOfRow(rest)
      <4>1. CASE l.kind = "single"
        <5>1. rest = ahead
          BY <4>1 DEF rest, Single
        <5>2. GetNext(l, l.head) = s[2] /\ 2 \in 1 .. n /\ GetNext(l, l.head) \in SetOfRow(s) \cup {NullPtr}
          <6>1. 1 \in 1 .. n - 1 /\ 2 \in 1 .. n /\ 1 + 1 = 2
            BY <1>1, <1>4, <2>4
          <6> QED
            BY <2>1, <6>1, NeighboursAre
        <5> HIDE DEF ahead, n
        <5>3. ahead \in Seq(Elements) /\ SetOfRow(ahead) \subseteq SetOfRow(s) /\ \A j \in 2 .. Len(s) : s[j] \in SetOfRow(ahead)
          BY <5>2, OnTheWay DEF ahead, n
        <5>4. \A i \in 1 .. n : i # 1 => i \in 2 .. Len(s)
          BY <1>1 DEF n
        <5> QED
          BY <5>1, <5>3, <5>4
      <4>2. CASE l.kind # "single"
        <5>1. rest = up \o down
          BY <4>2 DEF rest, Single
        <5>2. /\ GetNext(l, cur) \in SetOfRow(s) \cup {NullPtr} /\ GetPrev(l, cur) \in SetOfRow(s) \cup {NullPtr}
              /\ c # n => c + 1 \in 1 .. n /\ GetNext(l, cur) = s[c + 1] /\ cur # l.tail
              /\ c # 1 => c - 1 \in 1 .. n /\ GetPrev(l, cur) = s[c - 1] /\ cur # l.head
          <6>1. (c # n => c \in 1 .. n - 1 /\ c + 1 \in 1 .. n) /\ (c # 1 => c \in 2 .. n /\ c - 1 \in 1 .. n)
            BY <1>1
          <6>2. (c # n => cur # l.tail) /\ (c # 1 => cur # l.head)
            BY <2>1, <2>2, ShapeFacts DEF Injective
          <6> QED
            BY <2>1, <2>2, <4>2, <6>1, <6>2, NeighboursAre
        <5>3. <<>> \in Seq(Elements) /\ SetOfRow(<<>>) = {}
          BY <2>1, FewAre
        <5>4. up \in Seq(Elements) /\ SetOfRow(up) \subseteq SetOfRow(s) /\ (c # n => \A j \in c + 1 .. Len(s) : s[j] \in SetOfRow(up))
          BY <5>2, <5>3, OnTheWay
        <5>5. down \in Seq(Elements) /\ SetOfRow(down) \subseteq SetOfRow(s) /\ (c # 1 => \A j \in 1 .. c - 1 : s[j] \in SetOfRow(down))
          BY <4>2, <5>2, <5>3, OnTheWay
        <5> HIDE DEF up, down
        <5>6. rest \in Seq(Elements) /\ SetOfRow(rest) = SetOfRow(up) \cup SetOfRow(down)
          BY <5>1, <5>4, <5>5, JoinedIs
        <5>7. \A i \in 1 .. n : i = c \/ (c # n /\ i \in c + 1 .. Len(s)) \/ (c # 1 /\ i \in 1 .. c - 1)
          BY <1>1
        <5> HIDE DEF n
        <5> QED
          BY <5>4, <5>5, <5>6, <5>7
      <4> QED
        BY <4>1, <4>2
    <3>3. <<cur, l.head, l.tail>> \in Seq(Elements) /\ SetOfRow(<<cur, l.head, l.tail>>) = {cur, l.head, l.tail}
      <4>1. \A a, b, d \in Elements : <<a, b, d>> \in Seq(Elements) /\ SetOfRow(<<a, b, d>>) = {a, b, d}
        BY FewAre
      <4> QED
        BY <2>1, <4>1
    <3>4. v \in Seq(Elements) /\ SetOfRow(v) = {cur, l.head, l.tail} \cup SetOfRow(rest)
      BY <3>1, <3>2, <3>3, JoinedIs
    <3>5. \A x \in SetOfRow(s) : x \in {cur, l.head, l.tail} \cup SetOfRow(rest)
      <4> SUFFICES ASSUME NEW i \in 1 .. n
                   PROVE  s[i] \in {cur, l.head, l.tail} \cup SetOfRow(rest)
        BY <1>1
      <4> QED
        BY <2>1, <2>2, <3>2
    <3> QED
      BY <2>1, <3>2, <3>4, <3>5
  <2> QED
    BY <2>3, <2>4
<1> QED
  BY <1>3, <1>4

\* The first of a walk that is in T.
LEMMA FirstOfIs ==
  ASSUME NEW v \in Seq(Elements), NEW T, NEW a, a = FirstOf(v, T)
  PROVE  /\ SetOfRow(v) \cap T # {} => a \in SetOfRow(v) \cap T
         /\ SetOfRow(v) \cap T = {} => a = NullPtr
<1> DEFINE at == {i \in DOMAIN v : v[i] \in T}
<1>1. DOMAIN v = 1 .. Len(v) /\ Len(v) \in Nat /\ (\A x \in SetOfRow(v) : \E i \in 1 .. Len(v) : v[i] = x)
      /\ \A i \in 1 .. Len(v) : v[i] \in SetOfRow(v)
  BY RowFacts
<1>2. a = IF at = {} THEN NullPtr ELSE v[CHOOSE i \in at : \A j \in at : i <= j]
  BY DEF FirstOf
<1>3. at \subseteq Nat /\ \A i \in at : v[i] \in SetOfRow(v) \cap T
  BY <1>1
<1>4. at = {} <=> SetOfRow(v) \cap T = {}
  BY <1>1
<1> HIDE DEF at
<1>5. CASE at = {}
  BY <1>2, <1>4, <1>5
<1>6. CASE at # {}
  <2>1. \E i \in at : \A j \in at : i <= j
    BY <1>3, <1>6, LeastNumber
  <2>2. (CHOOSE i \in at : \A j \in at : i <= j) \in at
    BY <2>1
  <2> QED
    BY <1>2, <1>3, <1>4, <1>6, <2>2
<1> QED
  BY <1>5, <1>6

\* A set has no two that compare equal.
Distinct(l) == l.kind = "set" => \A d, e \in l.inside : Value[d] = Value[e] => d = e

\* find() finds what is there.
LEMMA FindIs ==
  ASSUME NEW l, NEW s, Shape(l, s), Distinct(l), NEW d \in Elements
  PROVE  Find(l, d) = IF d \in l.inside THEN d ELSE NullPtr
<1>1. l.inside = SetOfRow(s) /\ s \in Seq(Elements) /\ d # NullPtr
  BY ShapeFacts, ElementsAssumption
<1>2. CASE l.kind = "set"
  <2>1. Find(l, d) = IF Member(l, Value[d]) = d THEN d ELSE NullPtr
    BY <1>2 DEF Find
  <2>2. CASE d \in l.inside
    <3>1. Value[d] \in Values(l.inside) /\ l.inside \subseteq Elements
      BY <1>1, <2>2, RowFacts DEF Values
    <3>2. Member(l, Value[d]) \in l.inside /\ Value[Member(l, Value[d])] = Value[d]
      BY <3>1, MemberIs
    <3>3. Member(l, Value[d]) = d
      BY <1>2, <2>2, <3>2 DEF Distinct
    <3> QED
      BY <2>1, <2>2, <3>3
  <2>3. CASE d \notin l.inside
    BY <1>1, <2>1, <2>3, MemberIs
  <2> QED
    BY <2>2, <2>3
<1>3. CASE l.kind # "set"
  <2> DEFINE v == Visited(l, "data")
  <2>1. v \in Seq(Elements) /\ SetOfRow(v) = SetOfRow(s)
    BY VisitedIs
  <2>2. Find(l, d) = FirstOf(v, {d})
    BY <1>3 DEF Find
  <2> HIDE DEF v
  <2>3. /\ SetOfRow(v) \cap {d} # {} => Find(l, d) \in SetOfRow(v) \cap {d}
        /\ SetOfRow(v) \cap {d} = {} => Find(l, d) = NullPtr
    BY <2>1, <2>2, FirstOfIs
  <2> QED
    BY <1>1, <2>1, <2>3
<1> QED
  BY <1>2, <1>3

\* findData() finds one that compares equal.
LEMMA FindDataIs ==
  ASSUME NEW l, NEW s, Shape(l, s), NEW v
  PROVE  /\ v \in Values(l.inside) => FindData(l, v) \in l.inside /\ Value[FindData(l, v)] = v
         /\ v \notin Values(l.inside) => FindData(l, v) = NullPtr
<1>1. l.inside = SetOfRow(s) /\ s \in Seq(Elements) /\ SetOfRow(s) \subseteq Elements /\ NullPtr \notin SetOfRow(s)
  BY ShapeFacts, RowFacts
<1>2. CASE l.kind = "set"
  <2>1. FindData(l, v) = Member(l, v)
    BY <1>2 DEF FindData
  <2> QED
    BY <1>1, <2>1, MemberIs
<1>3. CASE l.kind # "set"
  <2> DEFINE w == Visited(l, "value")
             T == {e \in Elements : Value[e] = v}
  <2>1. w \in Seq(Elements) /\ SetOfRow(w) = SetOfRow(s)
    BY VisitedIs
  <2>2. FindData(l, v) = FirstOf(w, T)
    BY <1>3 DEF FindData
  <2>3. v \in Values(l.inside) <=> SetOfRow(s) \cap T # {}
    BY <1>1 DEF Values
  <2> HIDE DEF w
  <2>4. /\ SetOfRow(w) \cap T # {} => FindData(l, v) \in SetOfRow(w) \cap T
        /\ SetOfRow(w) \cap T = {} => FindData(l, v) = NullPtr
    BY <2>1, <2>2, FirstOfIs
  <2> QED
    BY <1>1, <2>1, <2>3, <2>4
<1> QED
  BY <1>2, <1>3

\* The current element can be any that is inside.
LEMMA CurrentMoves ==
  ASSUME NEW l, NEW s, Shape(l, s), NEW e, e \in SetOfRow(s) \cup {NullPtr}, NEW m, m = [l EXCEPT !.curr = e]
  PROVE  Shape(m, s) /\ m.inside = l.inside /\ SameClass(l, m)
<1>1. l \in ListRecord /\ InOrder(l, s) /\ EndShape(l, s) /\ Running(l) /\ ~(l.kind = "single" /\ l.ring)
  BY ShapeFacts, ShapeIs
<1>2. e \in Places
  BY ShapeFacts, RowFacts DEF Places
<1>3. m \in ListRecord /\ SameRest(l, m) /\ SameLinks(l, m) /\ m.inside = l.inside /\ m.curr = e
  BY <1>1, <1>2, CurrIs
<1>4. SameClass(l, m) /\ SameEnds(l, m)
  BY <1>3 DEF SameRest
<1>5. InOrder(m, s)
  BY <1>1, <1>3, <1>4, OrderStays
<1>6. EndShape(m, s)
  BY <1>1, <1>3, <1>4 DEF EndShape, SameEnds
<1>7. Running(m) /\ ~(m.kind = "single" /\ m.ring)
  BY <1>1, <1>4 DEF SameEnds, SameClass, Running
<1> QED
  BY <1>3, <1>4, <1>5, <1>6, <1>7, ShapeIs

\* What is found is the current element from now on.
LEMMA AfterFindIs ==
  ASSUME NEW l, NEW s, Shape(l, s), NEW e, e \in SetOfRow(s) \cup {NullPtr}, NEW m, m = AfterFind(l, e)
  PROVE  Shape(m, s) /\ m.inside = l.inside /\ SameClass(l, m)
<1>1. m = l \/ m = [l EXCEPT !.curr = e]
  BY DEF AfterFind
<1>2. SameClass(l, l)
  BY DEF SameClass
<1>3. CASE m = l
  BY <1>2, <1>3
<1>4. CASE m = [l EXCEPT !.curr = e]
  BY <1>4, CurrentMoves
<1> QED
  BY <1>1, <1>3, <1>4

\* The element in front of another one.
LEMMA FindPrevIs ==
  ASSUME NEW l, NEW s, Shape(l, s), Len(s) # 0, NEW d \in Elements, NEW r, r = FindPrev(l, d)
  PROVE  r.at \in SetOfRow(s) \cup {NullPtr} /\ Shape(r.list, s) /\ r.list.inside = l.inside /\ SameClass(l, r.list)
<1> DEFINE cur == Curr(l)
           begin == IF Single(l) THEN l.head ELSE cur
           up == Up(l, begin)
           down == Down(l, cur)
           above == {i \in 1 .. Len(up) - 1 : up[i + 1] = d}
           below == {i \in 1 .. Len(down) : down[i] = d /\ down[i] # l.head}
           k == CHOOSE i \in below : TRUE
           j == CHOOSE i \in above : TRUE
           lower == IF k = 1 THEN GetPrev(l, cur) ELSE down[k - 1]
           mine == IF Find(l, d) = NullPtr THEN NullPtr ELSE GetPrev(l, d)
           moved == [l EXCEPT !.curr = d]
<1>1. r = IF l.kind = "set" THEN With(mine, l)
          ELSE IF above # {} THEN With(up[j], moved)
          ELSE IF Single(l) \/ below = {} THEN With(NullPtr, l)
          ELSE With(lower, moved)
  BY DEF FindPrev, With
<1>2. /\ l.inside = SetOfRow(s) /\ s \in Seq(Elements) /\ NullPtr \notin SetOfRow(s) /\ d # NullPtr /\ Shape(l, s)
      /\ cur \in SetOfRow(s) /\ l.head \in SetOfRow(s) /\ SameClass(l, l)
  BY ShapeFacts, RowFacts, CurrentIs, ElementsAssumption DEF SameClass
<1>3. up \in Seq(Elements) /\ SetOfRow(up) \subseteq SetOfRow(s)
  <2>1. begin \in SetOfRow(s) \cup {NullPtr}
    BY <1>2
  <2> HIDE DEF begin
  <2> QED
    BY <2>1, OnTheWay
<1>4. l.kind # "single" => down \in Seq(Elements) /\ SetOfRow(down) \subseteq SetOfRow(s)
  BY <1>2, OnTheWay
<1>5. d \in SetOfRow(s) => Shape(moved, s) /\ moved.inside = l.inside /\ SameClass(l, moved)
  BY CurrentMoves
<1> HIDE DEF up, down, moved
<1>6. above # {} => j \in 1 .. Len(up) - 1 /\ up[j + 1] = d
  <2>1. above # {} => j \in above
    OBVIOUS
  <2> QED
    BY <2>1
<1>7. below # {} => k \in 1 .. Len(down) /\ down[k] = d
  <2>1. below # {} => k \in below
    OBVIOUS
  <2> QED
    BY <2>1
<1> HIDE DEF above, below, j, k
<1>8. CASE l.kind = "set"
  <2>1. mine \in SetOfRow(s) \cup {NullPtr}
    <3>1. Find(l, d) = IF Member(l, Value[d]) = d THEN d ELSE NullPtr
      BY <1>8 DEF Find
    <3>2. Find(l, d) # NullPtr => d \in SetOfRow(s)
      BY <1>2, <3>1, MemberIs
    <3>3. d \in SetOfRow(s) => GetPrev(l, d) \in SetOfRow(s) \cup {NullPtr}
      BY <1>8, NeighboursAre
    <3> QED
      BY <3>2, <3>3
  <2> HIDE DEF mine
  <2>2. r = With(mine, l)
    BY <1>1, <1>8
  <2> QED
    BY <1>2, <2>1, <2>2, WithIs
<1>9. CASE l.kind # "set" /\ above # {}
  <2>1. r = With(up[j], moved)
    BY <1>1, <1>9
  <2>2. Len(up) \in Nat
    BY <1>3, LenProperties
  <2>3. j \in 1 .. Len(up) /\ j + 1 \in 1 .. Len(up)
    BY <1>6, <1>9, <2>2
  <2>4. up[j] \in SetOfRow(s) /\ d \in SetOfRow(s)
    BY <1>3, <1>6, <1>9, <2>3 DEF SetOfRow
  <2> QED
    BY <1>5, <2>1, <2>4, WithIs
<1>10. CASE l.kind # "set" /\ above = {} /\ (Single(l) \/ below = {})
  <2>1. r = With(NullPtr, l)
    BY <1>1, <1>10
  <2> QED
    BY <1>2, <2>1, WithIs
<1>11. CASE l.kind # "set" /\ above = {} /\ ~(Single(l) \/ below = {})
  <2>1. r = With(lower, moved) /\ l.kind # "single"
    BY <1>1, <1>11 DEF Single
  <2>2. k \in 1 .. Len(down) /\ down[k] = d /\ down \in Seq(Elements) /\ SetOfRow(down) \subseteq SetOfRow(s)
    BY <1>4, <1>7, <1>11, <2>1
  <2>3. Len(down) \in Nat
    BY <2>2, LenProperties
  <2>4. k # 1 => k - 1 \in 1 .. Len(down)
    BY <2>2, <2>3
  <2>5. d \in SetOfRow(s) /\ (k # 1 => down[k - 1] \in SetOfRow(s))
    BY <2>2, <2>4 DEF SetOfRow
  <2>6. GetPrev(l, cur) \in SetOfRow(s) \cup {NullPtr}
    BY <1>2, <2>1, NeighboursAre
  <2>7. lower \in SetOfRow(s) \cup {NullPtr}
    BY <2>5, <2>6
  <2> HIDE DEF lower
  <2> QED
    BY <1>5, <2>1, <2>5, <2>7, WithIs
<1> QED
  BY <1>8, <1>9, <1>10, <1>11

\* One of the data that operator-= takes out.
LEMMA SubtractOneIs ==
  ASSUME NEW l, NEW s, Shape(l, s), NEW d \in Elements, NEW m, m = SubtractOne(l, d)
  PROVE  Running(m) => \E t : Shape(m, t) /\ SetOfRow(t) \subseteq SetOfRow(s)
<1> DEFINE p == FindPrev(l, d)
           front == RemoveAfter(l, NullPtr)
           behind == RemoveAfter(p.list, p.at)
<1>1. m = IF l.head = NullPtr THEN Crashed(l)
          ELSE IF d = l.head THEN Connect(front.list)
          ELSE IF p.at = NullPtr THEN p.list
          ELSE Connect(behind.list)
  BY DEF SubtractOne
<1>2. s \in Seq(Elements) /\ NullPtr \notin SetOfRow(s) /\ l.head = FirstIn(s) /\ l \in ListRecord /\ Injective(s)
  BY ShapeFacts, RowFacts
\* What is left of the row when one of its elements has gone.
<1>3. \A e \in SetOfRow(s) : SetOfRow(RemoveAt(s, PlaceOf(s, e))) \subseteq SetOfRow(s)
  <2> SUFFICES ASSUME NEW e \in SetOfRow(s), NEW k, k = PlaceOf(s, e)
               PROVE  SetOfRow(RemoveAt(s, k)) \subseteq SetOfRow(s)
    OBVIOUS
  <2>1. k \in 1 .. Len(s)
    BY <1>2, PlaceIs
  <2>2. SetOfRow(RemoveAt(s, k)) = SetOfRow(s) \ {s[k]}
    <3>1. RowWithout(RemoveAt(s, k), s, k)
      BY <1>2, <2>1, RemovedRow
    <3> QED
      BY <3>1 DEF RowWithout
  <2> QED
    BY <2>2
<1>4. \A r, e : TakesOut(r, s, e) /\ e \in SetOfRow(s) \cup {NullPtr} /\ Running(Connect(r.list)) =>
        \E t : Shape(Connect(r.list), t) /\ SetOfRow(t) \subseteq SetOfRow(s)
  <2> SUFFICES ASSUME NEW r, NEW e, TakesOut(r, s, e), e \in SetOfRow(s) \cup {NullPtr}, Running(Connect(r.list)),
                      NEW t, t = (IF e = NullPtr THEN s ELSE RemoveAt(s, PlaceOf(s, e)))
               PROVE  Shape(Connect(r.list), t) /\ SetOfRow(t) \subseteq SetOfRow(s)
    OBVIOUS
  <2>1. InRow(r.list, t)
    BY DEF TakesOut
  <2>2. InRow(Connect(r.list), t)
    BY <2>1, ConnectRow
  <2> QED
    BY <1>3, <2>2 DEF InRow
<1> HIDE DEF p, front, behind
<1>5. CASE l.head = NullPtr
  <2>1. m = Crashed(l)
    BY <1>1, <1>5
  <2> QED
    BY <1>2, <2>1 DEF Crashed, Running, ListRecord
<1>6. CASE l.head # NullPtr /\ d = l.head
  <2>1. TakesOut(front, s, l.head) /\ l.head \in SetOfRow(s) \cup {NullPtr}
    BY RemoveAfterIs DEF front
  <2>2. m = Connect(front.list)
    BY <1>1, <1>6
  <2> QED
    BY <1>4, <2>1, <2>2
<1>7. CASE l.head # NullPtr /\ d # l.head
  <2>1. Len(s) # 0
    BY <1>2, <1>7, RowFacts
  <2>2. p.at \in SetOfRow(s) \cup {NullPtr} /\ Shape(p.list, s)
    BY <2>1, FindPrevIs DEF p
  <2>3. CASE p.at = NullPtr
    BY <1>1, <1>7, <2>2, <2>3
  <2>4. CASE p.at # NullPtr
    <3>1. m = Connect(behind.list)
      BY <1>1, <1>7, <2>4
    <3>2. TakesOut(behind, s, p.list.next[p.at]) /\ p.list.next[p.at] \in SetOfRow(s) \cup {NullPtr}
      BY <2>2, <2>4, RemoveAfterIs DEF behind
    <3> QED
      BY <1>4, <3>1, <3>2
  <2> QED
    BY <2>3, <2>4
<1> QED
  BY <1>5, <1>6, <1>7

\* All of them.
LEMMA SubtractAllIsRow ==
  ASSUME NEW l, NEW s, Shape(l, s), NEW o \in Seq(Elements), NEW m, m = SubtractAll(l, o)
  PROVE  Running(m) => \E t : Shape(m, t) /\ SetOfRow(t) \subseteq SetOfRow(s)
<1>1. PICK f : Subtracting(f, l, o) /\ m = f[Len(o)]
  BY SubtractAllIs
<1> DEFINE Good(x) == Running(x) => \E t : Shape(x, t) /\ SetOfRow(t) \subseteq SetOfRow(s)
           Bad == {i \in 0 .. Len(o) : ~Good(f[i])}
<1>2. Len(o) \in Nat /\ \A i \in 1 .. Len(o) : o[i] \in Elements
  BY RowFacts
<1>3. Good(f[0])
  BY <1>1 DEF Subtracting
<1>4. ASSUME NEW i \in 1 .. Len(o), Good(f[i - 1])
      PROVE  Good(f[i])
  <2>1. f[i] = IF Running(f[i - 1]) THEN SubtractOne(f[i - 1], o[i]) ELSE f[i - 1]
    BY <1>1 DEF Subtracting
  <2>2. CASE ~Running(f[i - 1])
    BY <2>1, <2>2
  <2>3. CASE Running(f[i - 1])
    <3>1. PICK t : Shape(f[i - 1], t) /\ SetOfRow(t) \subseteq SetOfRow(s)
      BY <1>4, <2>3
    <3>2. Running(f[i]) => \E u : Shape(f[i], u) /\ SetOfRow(u) \subseteq SetOfRow(t)
      BY <1>2, <2>1, <2>3, <3>1, SubtractOneIs
    <3> QED
      BY <3>1, <3>2
  <2> QED
    BY <2>2, <2>3
<1> HIDE DEF Good
<1>5. Bad = {}
  <2> SUFFICES ASSUME Bad # {}
               PROVE  FALSE
    OBVIOUS
  <2>1. Bad \subseteq Nat
    BY <1>2
  <2>2. PICK i \in Bad : \A j \in Bad : i <= j
    BY <2>1, LeastNumber
  <2>3. i # 0 /\ i \in 0 .. Len(o)
    BY <1>3, <2>2
  <2>4. i \in 1 .. Len(o) /\ i - 1 \in 0 .. Len(o) /\ ~(i <= i - 1)
    BY <1>2, <2>3
  <2>5. Good(f[i - 1])
    BY <2>2, <2>4
  <2> QED
    BY <1>4, <2>2, <2>4, <2>5
<1>6. Len(o) \in 0 .. Len(o)
  BY <1>2
<1> QED
  BY <1>1, <1>5, <1>6 DEF Good

\* Where a sorted insertion is to go.
LEMMA GreaterNextIs ==
  ASSUME NEW l, NEW s, Shape(l, s), NEW d, NEW r, r = GreaterNext(l, d)
  PROVE  r.at \in SetOfRow(s) \cup {NullPtr} /\ Shape(r.list, s) /\ r.list.inside = l.inside /\ SameClass(l, r.list)
<1> DEFINE cur == Curr(l)
           nxt == GetNext(l, cur)
           prv == GetPrev(l, cur)
           Less(e) == Value[e] < d
           start == IF Single(l) THEN GetNext(l, l.head) ELSE prv
           begin == IF Less(cur) THEN cur ELSE start
           up == Up(l, begin)
           down == Down(l, start)
           Is(e, less) == e # NullPtr /\ Less(e) = less
           goal == {i \in DOMAIN up : Is(GetNext(l, up[i]), FALSE)}
           floor == {i \in DOMAIN down : Is(GetPrev(l, down[i]), TRUE)}
           Least(I) == CHOOSE i \in I : \A j \in I : i <= j
           moved(c) == [l EXCEPT !.curr = c]
           g == Least(goal)
           k == Least(floor)
           here == down[k]
           there == up[g]
<1>1. r = IF l.count = 0 THEN With(NullPtr, l)
          ELSE IF Less(cur) /\ (nxt = NullPtr \/ ~Less(nxt)) THEN With(nxt, l)
          ELSE IF ~Single(l) /\ ~Less(cur) /\ (prv = NullPtr \/ Less(prv)) THEN With(cur, l)
          ELSE IF ~Less(l.head) THEN With(l.head, moved(l.head))
          ELSE IF Less(l.tail) THEN With(NullPtr, moved(l.tail))
          ELSE IF ~Single(l) /\ ~Less(cur) THEN With(here, moved(GetPrev(l, here)))
          ELSE IF nxt = NullPtr THEN With(NullPtr, l)
          ELSE IF goal = {} THEN With(NullPtr, moved(l.tail))
          ELSE With(GetNext(l, there), moved(there))
  BY DEF GreaterNext, With
<1>2. l.inside = SetOfRow(s) /\ s \in Seq(Elements) /\ l.count = Len(s) /\ SameClass(l, l) /\ Len(s) \in Nat /\ Injective(s) /\ Shape(l, s)
  BY ShapeFacts, RowFacts DEF SameClass
<1>3. \A c \in SetOfRow(s) \cup {NullPtr} : Shape(moved(c), s) /\ moved(c).inside = l.inside /\ SameClass(l, moved(c))
  BY CurrentMoves
<1> DEFINE Fine(q) == q.at \in SetOfRow(s) \cup {NullPtr} /\ Shape(q.list, s) /\ q.list.inside = l.inside /\ SameClass(l, q.list)
<1> HIDE DEF moved
<1>4. \A a \in SetOfRow(s) \cup {NullPtr} : Fine(With(a, l)) /\ \A c \in SetOfRow(s) \cup {NullPtr} : Fine(With(a, moved(c)))
  BY <1>2, <1>3, WithIs
<1> HIDE DEF Fine
<1>5. CASE l.count = 0
  BY <1>1, <1>4, <1>5 DEF Fine
<1>6. CASE l.count # 0
  <2>1. /\ cur \in SetOfRow(s) /\ l.head \in SetOfRow(s) /\ l.tail \in SetOfRow(s) /\ l.head = s[1] /\ 1 \in 1 .. Len(s)
    BY <1>2, <1>6, CurrentIs
  <2> HIDE DEF cur
  <2>2. /\ nxt \in SetOfRow(s) \cup {NullPtr} /\ GetNext(l, l.head) \in SetOfRow(s) \cup {NullPtr}
        /\ l.kind # "single" => prv \in SetOfRow(s) \cup {NullPtr}
    BY <2>1, NeighboursAre
  <2>3. start \in SetOfRow(s) \cup {NullPtr}
    BY <2>2 DEF Single
  <2>4. begin \in SetOfRow(s) \cup {NullPtr}
    BY <2>1, <2>3
  <2> HIDE DEF start, begin
  <2>5. ASSUME goal # {}
        PROVE  there \in SetOfRow(s) /\ GetNext(l, there) \in SetOfRow(s) \cup {NullPtr}
    <3>1. up \in Seq(Elements) /\ SetOfRow(up) \subseteq SetOfRow(s)
      BY <2>4, OnTheWay
    <3> HIDE DEF up
    <3>2. DOMAIN up = 1 .. Len(up) /\ Len(up) \in Nat
      BY <3>1, RowFacts
    <3>3. goal \subseteq Nat /\ goal \subseteq 1 .. Len(up)
      BY <3>2
    <3> HIDE DEF goal
    <3>4. \E i \in goal : \A j \in goal : i <= j
      BY <2>5, <3>3, LeastNumber
    <3>5. g \in goal
      BY <3>4
    <3> HIDE DEF g
    <3>6. there \in SetOfRow(s)
      BY <3>1, <3>3, <3>5 DEF SetOfRow
    <3> QED
      BY <3>6, NeighboursAre
  <2>6. ASSUME ~Single(l), ~Less(cur), ~(prv = NullPtr \/ Less(prv)), Less(l.head)
        PROVE  here \in SetOfRow(s) /\ GetPrev(l, here) \in SetOfRow(s) \cup {NullPtr}
    <3>1. start = prv /\ prv \in SetOfRow(s) /\ l.kind # "single"
      BY <2>2, <2>6 DEF start, Single
    <3>2. PICK b \in 1 .. Len(s) : s[b] = prv
      BY <1>2, <3>1, RowFacts
    <3>3. down \in Seq(Elements) /\ Len(down) = b /\ (\A j \in 1 .. b : down[j] = s[b + 1 - j]) /\ SetOfRow(down) \subseteq SetOfRow(s)
      <4>1. ReadsDown(down, s, b)
        BY <3>1, <3>2, DownIs
      <4> QED
        BY <3>1, <4>1, OnTheWay DEF ReadsDown
    <3> HIDE DEF down
    <3>4. DOMAIN down = 1 .. Len(down) /\ Len(down) \in Nat
      BY <3>3, RowFacts
    <3>5. floor \subseteq Nat /\ floor \subseteq 1 .. Len(down)
      BY <3>4
    <3>6. b # 1
      BY <2>1, <2>6, <3>2
    <3>7. b - 1 \in floor
      <4>1. b - 1 \in 1 .. b /\ b + 1 - (b - 1) = 2 /\ 2 \in 2 .. Len(s) /\ 2 \in 1 .. Len(s)
        BY <1>2, <3>2, <3>6
      <4>2. down[b - 1] = s[2]
        BY <3>3, <4>1
      <4>3. GetPrev(l, s[2]) = s[1]
        <5>1. s[2] \in SetOfRow(s) /\ 2 - 1 = 1
          BY <4>1 DEF SetOfRow
        <5> QED
          BY <3>1, <4>1, <5>1, NeighboursAre
      <4>4. s[1] # NullPtr
        BY <1>2, <2>1, RowFacts
      <4> QED
        BY <2>1, <2>6, <3>3, <3>4, <4>1, <4>2, <4>3, <4>4
    <3> HIDE DEF floor
    <3>8. \E i \in floor : \A j \in floor : i <= j
      BY <3>5, <3>7, LeastNumber
    <3>9. k \in floor
      BY <3>8
    <3> HIDE DEF k
    <3>10. here \in SetOfRow(s)
      BY <3>3, <3>5, <3>9 DEF SetOfRow
    <3> QED
      BY <3>1, <3>10, NeighboursAre
  <2> HIDE DEF nxt, prv, Less, goal, here, there
  <2>7. Fine(r)
    <3>1. CASE Less(cur) /\ (nxt = NullPtr \/ ~Less(nxt))
      BY <1>1, <1>4, <1>6, <2>2, <3>1
    <3>2. CASE ~(Less(cur) /\ (nxt = NullPtr \/ ~Less(nxt))) /\ ~Single(l) /\ ~Less(cur) /\ (prv = NullPtr \/ Less(prv))
      BY <1>1, <1>4, <1>6, <2>1, <3>2
    <3>3. CASE ~(Less(cur) /\ (nxt = NullPtr \/ ~Less(nxt))) /\ ~(~Single(l) /\ ~Less(cur) /\ (prv = NullPtr \/ Less(prv)))
      <4>1. CASE ~Less(l.head)
        BY <1>1, <1>4, <1>6, <2>1, <3>3, <4>1
      <4>2. CASE Less(l.head) /\ Less(l.tail)
        BY <1>1, <1>4, <1>6, <2>1, <3>3, <4>2
      <4>3. CASE Less(l.head) /\ ~Less(l.tail) /\ ~Single(l) /\ ~Less(cur)
        <5>1. r = With(here, moved(GetPrev(l, here)))
          BY <1>1, <1>6, <3>3, <4>3
        <5>2. here \in SetOfRow(s) /\ GetPrev(l, here) \in SetOfRow(s) \cup {NullPtr}
          BY <2>6, <3>3, <4>3
        <5> QED
          BY <1>4, <5>1, <5>2
      <4>4. CASE Less(l.head) /\ ~Less(l.tail) /\ ~(~Single(l) /\ ~Less(cur))
        <5>1. CASE nxt = NullPtr
          BY <1>1, <1>4, <1>6, <3>3, <4>4, <5>1
        <5>2. CASE nxt # NullPtr /\ goal = {}
          BY <1>1, <1>4, <1>6, <2>1, <3>3, <4>4, <5>2
        <5>3. CASE nxt # NullPtr /\ goal # {}
          <6>1. r = With(GetNext(l, there), moved(there))
            BY <1>1, <1>6, <3>3, <4>4, <5>3
          <6> QED
            BY <1>4, <2>5, <5>3, <6>1
        <5> QED
          BY <5>1, <5>2, <5>3
      <4> QED
        BY <4>1, <4>2, <4>3, <4>4
    <3> QED
      BY <3>1, <3>2, <3>3
  <2> QED
    BY <2>7 DEF Fine
<1> QED
  BY <1>5, <1>6

-----------------------------------------------------------------------------
(* An element by its index *)

\* A walk does not leave a set that no step leaves.
LEMMA IterateStays ==
  ASSUME NEW T, T \subseteq Places, NEW f, \A x \in T \ {NullPtr} : f[x] \in T, NEW e \in T, NEW n \in Nat
  PROVE  \A i \in 0 .. n : Iterate(f, e, n)[i] \in T
<1> DEFINE at == Iterate(f, e, n)
           Bad == {i \in 0 .. n : at[i] \notin T}
<1>1. at[0] = e /\ \A i \in 1 .. n : at[i] = Onward(f)[at[i - 1]]
  BY IterateIs
<1>2. \A x \in T : Onward(f)[x] \in T
  BY DEF Onward, Places
<1> HIDE DEF at
<1>3. Bad = {}
  <2> SUFFICES ASSUME Bad # {}
               PROVE  FALSE
    OBVIOUS
  <2>1. Bad \subseteq Nat
    OBVIOUS
  <2>2. PICK i \in Bad : \A j \in Bad : i <= j
    BY <2>1, LeastNumber
  <2>3. i # 0 /\ i \in 0 .. n
    BY <1>1, <2>2
  <2>4. i \in 1 .. n /\ i - 1 \in 0 .. n /\ ~(i <= i - 1)
    BY <2>3
  <2>5. at[i - 1] \in T
    BY <2>2, <2>4
  <2>6. at[i] \in T
    BY <1>1, <1>2, <2>4, <2>5
  <2> QED
    BY <2>2, <2>6
<1> QED
  BY <1>3 DEF at

\* Steps around the ends of a row end in it.
LEMMA StepsStay ==
  ASSUME NEW l, NEW s, Shape(l, s), Len(s) # 0, NEW e, e \in SetOfRow(s) \cup {NullPtr}, NEW n \in Nat, NEW up,
         up \/ l.kind # "single"
  PROVE  Steps(l, e, n, up) \in SetOfRow(s) \cup {NullPtr}
<1> DEFINE end == IF up THEN l.head ELSE l.tail
           onward(x) == IF up THEN (IF x = l.tail THEN l.head ELSE GetNext(l, x))
                        ELSE (IF x = l.head THEN l.tail ELSE GetPrev(l, x))
           f == [x \in Elements |-> IF onward(x) = NullPtr THEN end ELSE onward(x)]
           T == SetOfRow(s) \cup {NullPtr}
<1>1. Steps(l, e, n, up) = Iterate(f, e, n)[n]
  BY DEF Steps
<1>2. l.head \in SetOfRow(s) /\ l.tail \in SetOfRow(s) /\ SetOfRow(s) \subseteq Elements /\ NullPtr \notin SetOfRow(s)
  BY CurrentIs, ShapeFacts, RowFacts
<1>3. \A x \in SetOfRow(s) : onward(x) \in T
  BY <1>2, NeighboursAre
<1> HIDE DEF onward
<1>4. \A x \in T \ {NullPtr} : f[x] \in T
  BY <1>2, <1>3
<1>5. T \subseteq Places /\ e \in T
  BY <1>2 DEF Places
<1> HIDE DEF f, T
<1>6. Iterate(f, e, n)[n] \in T
  <2>1. n \in 0 .. n
    OBVIOUS
  <2> QED
    BY <1>4, <1>5, <2>1, IterateStays
<1> QED
  BY <1>1, <1>6 DEF T

\* The walk to an index that is not that of the current element, nor that of the next one.
LEMMA WalkToStays ==
  ASSUME NEW l, NEW s, Shape(l, s), Len(s) # 0, NEW idx \in 0 .. Len(s) - 1, idx # 0, idx # l.nr[Curr(l)], idx # l.nr[Curr(l)] + 1
  PROVE  WalkTo(l, idx) \in SetOfRow(s) \cup {NullPtr}
<1> DEFINE cur == Curr(l)
           nr == l.nr[cur]
           dist == IF idx < nr THEN nr - idx ELSE idx - nr
<1>1. /\ WalkTo(l, idx) =
           IF Single(l)
           THEN IF idx < nr THEN Steps(l, GetNext(l, l.head), idx - 1, TRUE)
                ELSE Steps(l, GetNext(l, cur), idx - nr - 1, TRUE)
           ELSE IF idx < dist THEN Steps(l, l.head, idx, TRUE)
           ELSE IF l.count - idx < dist
           THEN Steps(l, l.tail, l.count - 1 - idx, FALSE)
           ELSE IF idx < nr THEN Steps(l, GetPrev(l, cur), dist - 1, FALSE)
           ELSE Steps(l, GetNext(l, cur), dist - 1, TRUE)
  BY DEF WalkTo
<1>2. /\ cur \in SetOfRow(s) /\ l.head \in SetOfRow(s) /\ l.tail \in SetOfRow(s) /\ SetOfRow(s) \subseteq Elements
      /\ l.count = Len(s) /\ Len(s) \in Nat /\ l \in ListRecord
  BY CurrentIs, ShapeFacts, RowFacts
<1>3. nr \in Int
  BY <1>2 DEF ListRecord
<1>4. /\ GetNext(l, cur) \in SetOfRow(s) \cup {NullPtr} /\ GetNext(l, l.head) \in SetOfRow(s) \cup {NullPtr}
      /\ l.kind # "single" => GetPrev(l, cur) \in SetOfRow(s) \cup {NullPtr}
  BY <1>2, NeighboursAre
<1>5. idx \in Nat /\ idx - 1 \in Nat /\ l.count - 1 - idx \in Nat
  BY <1>2
<1> HIDE DEF cur
<1>6. idx # nr /\ idx # nr + 1
  BY DEF cur
<1> HIDE DEF nr
<1>7. (~(idx < nr) => idx - nr - 1 \in Nat) /\ dist - 1 \in Nat
  BY <1>3, <1>5, <1>6
<1> HIDE DEF dist
<1>a. \A e \in SetOfRow(s) \cup {NullPtr}, n \in Nat : Steps(l, e, n, TRUE) \in SetOfRow(s) \cup {NullPtr}
  <2> SUFFICES ASSUME NEW e \in SetOfRow(s) \cup {NullPtr}, NEW n \in Nat, NEW up, up = TRUE
               PROVE  Steps(l, e, n, up) \in SetOfRow(s) \cup {NullPtr}
    OBVIOUS
  <2> QED
    BY StepsStay
<1>b. l.kind # "single" => \A e \in SetOfRow(s) \cup {NullPtr}, n \in Nat : Steps(l, e, n, FALSE) \in SetOfRow(s) \cup {NullPtr}
  <2> SUFFICES ASSUME l.kind # "single", NEW e \in SetOfRow(s) \cup {NullPtr}, NEW n \in Nat, NEW up, up = FALSE
               PROVE  Steps(l, e, n, up) \in SetOfRow(s) \cup {NullPtr}
    OBVIOUS
  <2> QED
    BY StepsStay
<1>8. CASE Single(l)
  BY <1>1, <1>2, <1>4, <1>5, <1>7, <1>8, <1>a
<1>9. CASE ~Single(l)
  <2>1. l.kind # "single"
    BY <1>9 DEF Single
  <2> QED
    BY <1>1, <1>2, <1>4, <1>5, <1>7, <1>9, <1>a, <1>b, <2>1
<1> QED
  BY <1>8, <1>9

\* The numbers are made, and nothing else changes.
LEMMA ProtRenumberIs ==
  ASSUME NEW l, NEW s, Shape(l, s), NEW m, m = ProtRenumber(l)
  PROVE  /\ InRow(m, s) /\ m.next = l.next /\ m.inside = l.inside /\ m \in ListRecord /\ m.count = l.count
<1> DEFINE marked == [l EXCEPT !.renumber = FALSE]
           nr == [e \in Elements |-> IF e \in Range(Row(l)) THEN 0 ELSE l.nr[e]]
           numbered == [l EXCEPT !.renumber = FALSE, !.nr = nr]
<1>1. m = IF ~l.renumber THEN l ELSE IF GoesOnForEver(l, l.head) THEN Hanging(marked) ELSE numbered
  BY DEF ProtRenumber
<1>2. /\ l \in ListRecord /\ From(l, l.head) = s /\ InOrder(l, s) /\ EndShape(l, s) /\ Running(l) /\ ~(l.kind = "single" /\ l.ring)
      /\ l.count = Len(s) /\ s \in Seq(Elements)
  BY ShapeFacts, ShapeIs
<1>3. nr \in [Elements -> Int]
  BY <1>2 DEF ListRecord
<1> HIDE DEF nr
<1>4. CASE m = l
  BY <1>2, <1>4 DEF InRow
<1>5. CASE m = numbered
  <2>1. m \in ListRecord /\ SameRest(l, m) /\ SameLinks(l, m) /\ m.inside = l.inside /\ m.curr = l.curr
    BY <1>2, <1>3, <1>5 DEF ListRecord, SameRest, SameClass, SameEnds, SameLinks
  <2> HIDE DEF numbered
  <2>2. SameClass(l, m) /\ SameEnds(l, m)
    BY <2>1 DEF SameRest
  <2>3. InOrder(m, s)
    BY <1>2, <2>1, <2>2, OrderStays
  <2>4. EndShape(m, s)
    BY <1>2, <2>1, <2>2 DEF EndShape, SameEnds
  <2>5. Running(m) /\ ~(m.kind = "single" /\ m.ring)
    BY <1>2, <2>2 DEF SameEnds, SameClass, Running
  <2>6. Shape(m, s)
    BY <2>3, <2>4, <2>5, ShapeIs
  <2> QED
    BY <2>1, <2>2, <2>5, <2>6 DEF InRow, SameLinks, SameEnds
<1>6. CASE m = Hanging(marked) /\ m # l /\ l.renumber /\ GoesOnForEver(l, l.head)
  <2>1. m = [l EXCEPT !.renumber = FALSE, !.status = "hangs"]
    BY <1>6 DEF Hanging
  <2>2. m \in ListRecord /\ ~Running(m) /\ m.next = l.next /\ m.inside = l.inside /\ m.count = l.count
    BY <1>2, <2>1 DEF ListRecord, Running
  <2> QED
    BY <2>2 DEF InRow
<1> QED
  BY <1>1, <1>4, <1>5, <1>6

\* privGetElementByIndex() gives an element of the row, if any, and moves nothing but the current element.
LEMMA GetIs ==
  ASSUME NEW l, NEW s, Shape(l, s), NEW i \in Int, NEW g, g = GetByIndex(l, i)
  PROVE  /\ g.at \in SetOfRow(s) \cup {NullPtr} /\ InRow(g.list, s) /\ g.list.next = l.next /\ g.list \in ListRecord
         /\ ~Running(g.list) => g.at = NullPtr
<1> DEFINE idx == (IF i < 0 THEN l.count - (-i % l.count) ELSE i) % l.count
           r == ProtRenumber(l)
           cur == Curr(r)
           Moved(e) == [r EXCEPT !.curr = e]
           w == WalkTo(r, idx)
           row == SetOfRow(s) \cup {NullPtr}
<1>1. g = IF l.count = 0 THEN With(NullPtr, l)
          ELSE IF ~Running(r) THEN With(NullPtr, r)
          ELSE IF idx = r.nr[cur] THEN With(cur, r)
          ELSE IF idx = 0 THEN With(r.head, r)
          ELSE IF idx = r.count - 1 THEN With(r.tail, r)
          ELSE IF idx = r.nr[cur] + 1 THEN With(GetNext(r, cur), Moved(GetNext(r, cur)))
          ELSE IF ~Single(r) /\ idx = r.nr[cur] - 1 THEN With(GetPrev(r, cur), Moved(GetPrev(r, cur)))
          ELSE IF w = NullPtr THEN With(NullPtr, Crashed(r)) ELSE With(w, Moved(w))
  BY DEF GetByIndex, AtNumber, With
<1>2. InRow(l, s) /\ l \in ListRecord /\ l.count = Len(s) /\ l.count \in Nat /\ Running(l)
  BY ShapeFacts, RowFacts DEF InRow
<1>3. InRow(r, s) /\ r.next = l.next /\ r \in ListRecord /\ r.count = l.count
  BY ProtRenumberIs
<1> HIDE DEF r
<1>4. CASE l.count = 0
  <2>1. g = With(NullPtr, l)
    BY <1>1, <1>4
  <2> QED
    BY <1>2, <2>1, WithIs
<1>5. CASE l.count # 0 /\ ~Running(r)
  <2>1. g = With(NullPtr, r)
    BY <1>1, <1>5
  <2> QED
    BY <1>3, <2>1, WithIs
<1>6. CASE l.count # 0 /\ Running(r)
  <2>1. Shape(r, s) /\ Len(s) # 0
    BY <1>2, <1>3, <1>6 DEF InRow
  <2>2. idx \in 0 .. Len(s) - 1
    <3>1. (IF i < 0 THEN l.count - (-i % l.count) ELSE i) \in Int
      BY <1>2, <1>6
    <3>2. \A a \in Int : a % l.count \in 0 .. l.count - 1
      BY <1>2, <1>6
    <3> QED
      BY <1>2, <3>1, <3>2
  <2>3. cur \in SetOfRow(s) /\ r.head \in SetOfRow(s) /\ r.tail \in SetOfRow(s)
    BY <2>1, CurrentIs
  <2>4. GetNext(r, cur) \in row /\ (r.kind # "single" => GetPrev(r, cur) \in row)
    BY <2>1, <2>3, NeighboursAre
  <2>5. \A e \in row : InRow(Moved(e), s) /\ Moved(e).next = l.next /\ Moved(e) \in ListRecord /\ Running(Moved(e))
    <3> SUFFICES ASSUME NEW e \in row, NEW m, m = [r EXCEPT !.curr = e]
                 PROVE  InRow(m, s) /\ m.next = l.next /\ m \in ListRecord /\ Running(m)
      OBVIOUS
    <3>1. Shape(m, s)
      BY <2>1, CurrentMoves
    <3>2. m.next = r.next
      BY <1>3 DEF ListRecord
    <3> QED
      BY <1>3, <3>1, <3>2, ShapeFacts DEF InRow
  <2>6. ~(idx = 0) /\ idx # r.nr[cur] /\ idx # r.nr[cur] + 1 => w \in row
    <3> HIDE DEF idx
    <3> QED
      BY <2>1, <2>2, WalkToStays
  <2>7. Crashed(r).next = l.next /\ Crashed(r) \in ListRecord /\ ~Running(Crashed(r))
    BY <1>3 DEF Crashed, ListRecord, Running
  <2> DEFINE Fine(q) == q.at \in row /\ InRow(q.list, s) /\ q.list.next = l.next /\ q.list \in ListRecord /\ (~Running(q.list) => q.at = NullPtr)
  <2> HIDE DEF Moved, cur, idx, w
  <2>8. /\ \A e \in row : Fine(With(e, r)) /\ Fine(With(e, Moved(e)))
        /\ Fine(With(NullPtr, Crashed(r)))
    BY <1>3, <1>6, <2>5, <2>7, WithIs DEF InRow
  <2> HIDE DEF Fine
  <2>9. Fine(g)
    <3>1. CASE idx = r.nr[cur]
      BY <1>1, <1>6, <2>3, <2>8, <3>1
    <3>2. CASE idx # r.nr[cur] /\ idx = 0
      BY <1>1, <1>6, <2>3, <2>8, <3>2
    <3>3. CASE idx # r.nr[cur] /\ idx # 0 /\ idx = r.count - 1
      BY <1>1, <1>6, <2>3, <2>8, <3>3
    <3>4. CASE idx # r.nr[cur] /\ idx # 0 /\ idx # r.count - 1 /\ idx = r.nr[cur] + 1
      BY <1>1, <1>6, <2>4, <2>8, <3>4
    <3>5. CASE idx # r.nr[cur] /\ idx # 0 /\ idx # r.count - 1 /\ idx # r.nr[cur] + 1
      <4>1. CASE ~Single(r) /\ idx = r.nr[cur] - 1
        <5>1. g = With(GetPrev(r, cur), Moved(GetPrev(r, cur))) /\ r.kind # "single"
          BY <1>1, <1>6, <3>5, <4>1 DEF Single
        <5> QED
          BY <2>4, <2>8, <5>1
      <4>2. CASE ~(~Single(r) /\ idx = r.nr[cur] - 1)
        BY <1>1, <1>6, <2>6, <2>8, <3>5, <4>2
      <4> QED
        BY <4>1, <4>2
    <3> QED
      BY <3>1, <3>2, <3>3, <3>4, <3>5
  <2> QED
    BY <2>9 DEF Fine
<1> QED
  BY <1>4, <1>5, <1>6

\* Once the program has ended, nothing is found any more.
LEMMA GetStopped ==
  ASSUME NEW l \in ListRecord, ~Running(l), NEW i, NEW g, g = GetByIndex(l, i)
  PROVE  g.at = NullPtr /\ g.list.next = l.next
<1> DEFINE marked == [l EXCEPT !.renumber = FALSE]
           nr == [e \in Elements |-> IF e \in Range(Row(l)) THEN 0 ELSE l.nr[e]]
           numbered == [l EXCEPT !.renumber = FALSE, !.nr = nr]
           r == ProtRenumber(l)
<1>1. r = IF ~l.renumber THEN l ELSE IF GoesOnForEver(l, l.head) THEN Hanging(marked) ELSE numbered
  BY DEF ProtRenumber
<1> HIDE DEF nr, r
<1>2. \A m \in {l, Hanging(marked), numbered} : ~Running(m) /\ m.next = l.next
  BY DEF ListRecord, Hanging, Running
<1>3. ~Running(r) /\ r.next = l.next
  BY <1>1, <1>2
<1>4. g = With(NullPtr, l) \/ g = With(NullPtr, r)
  BY <1>3 DEF GetByIndex, AtNumber, With, r
<1> QED
  BY <1>3, <1>4, WithIs

-----------------------------------------------------------------------------
(* The operators that add *)

\* What an addition of elements of D that are in T makes of l.
Grown(l, m, T, D) ==
  /\ SameClass(l, m) /\ (Running(m) \/ l.ring)
  /\ Running(m) => /\ \E t : Shape(m, t)
                   /\ Distinct(m) /\ m.inside \subseteq l.inside \cup T
                   /\ l.kind = "set" => Values(m.inside) = Values(l.inside) \cup Values(T \cap D)

\* The class of a list in order is a class.
LEMMA ShapeKin ==
  ASSUME NEW l, NEW s, Shape(l, s), NEW m, Kin(l, m)
  PROVE  SameClass(l, m) /\ l.kind \in Kinds /\ l.ring \in BOOLEAN
<1>1. l \in ListRecord
  BY ShapeFacts
<1>2. {"kind", "ring"} \subseteq DOMAIN l /\ l.kind \in Kinds /\ l.ring \in BOOLEAN
  BY <1>1 DEF ListRecord
<1> QED
  BY <1>2 DEF Kin

\* One element more, behind p or at the front.
LEMMA InsertGrows ==
  ASSUME NEW l, NEW q, Shape(l, q), Distinct(l), NEW p, p \in l.inside \cup {NullPtr}, NEW e \in Elements,
         NEW D, e \in D, l.kind # "set" => e \notin l.inside, NEW m, m = Insert(l, p, e)
  PROVE  Grown(l, m, {e}, D)
<1> DEFINE k == IF p = NullPtr THEN 1 ELSE PlaceOf(q, p) + 1
           taken == l.kind # "set" \/ Value[e] \notin Values(SetOfRow(q))
           t == IF taken THEN InsertAt(q, k, e) ELSE q
<1>1. l.inside = SetOfRow(q) /\ q \in Seq(Elements) /\ Injective(q) /\ l.tail = LastIn(q)
  BY ShapeFacts
<1>2. p \in SetOfRow(q) \cup {NullPtr}
  BY <1>1
<1>3. InRow(m, t) /\ (Running(m) \/ l.ring) /\ (taken => e \notin SetOfRow(q))
  <2>1. k = (IF p = NullPtr THEN 1 ELSE PlaceOf(q, p) + 1) /\ taken = (l.kind # "set" \/ Value[e] \notin Values(SetOfRow(q)))
    OBVIOUS
  <2>2. l.kind # "set" => e \notin SetOfRow(q)
    BY <1>1
  <2> HIDE DEF k, taken
  <2> QED
    BY <1>2, <2>1, <2>2, InsertIs
<1>4. SameClass(l, m)
  BY KinInsert, ShapeKin
<1>5. taken => SetOfRow(InsertAt(q, k, e)) = SetOfRow(q) \cup {e}
  <2> SUFFICES ASSUME taken
               PROVE  SetOfRow(InsertAt(q, k, e)) = SetOfRow(q) \cup {e}
    OBVIOUS
  <2>1. e \in Elements \ SetOfRow(q)
    BY <1>3
  <2>2. k \in 1 .. Len(q) + 1
    <3>1. p # NullPtr => PlaceOf(q, p) \in 1 .. Len(q)
      BY <1>1, <1>2, PlaceIs
    <3>2. Len(q) \in Nat
      BY <1>1, RowFacts
    <3> QED
      BY <3>1, <3>2
  <2> HIDE DEF k
  <2>3. RowWith(InsertAt(q, k, e), q, k, e)
    BY <1>1, <2>1, <2>2, InsertedRow
  <2> QED
    BY <2>3 DEF RowWith
<1>6. Running(m) => m.inside = SetOfRow(t) /\ Shape(m, t)
  BY <1>3, ShapeFacts DEF InRow
<1>7. ~taken => Value[e] \in Values(l.inside) /\ l.kind = "set"
  BY <1>1
<1>8. Running(m) => m.inside = IF taken THEN l.inside \cup {e} ELSE l.inside
  BY <1>1, <1>5, <1>6
<1>9. taken => l.kind # "set" \/ Value[e] \notin Values(l.inside)
  BY <1>1
<1> HIDE DEF taken, t
<1>10. Running(m) => Distinct(m)
  BY <1>4, <1>8, <1>9 DEF Distinct, SameClass, Values
<1>11. Running(m) => m.inside \subseteq l.inside \cup {e}
  BY <1>8
<1>12. Running(m) /\ l.kind = "set" => Values(m.inside) = Values(l.inside) \cup Values({e} \cap D)
  BY <1>7, <1>8 DEF Values
<1> QED
  BY <1>3, <1>4, <1>6, <1>10, <1>11, <1>12 DEF Grown

\* One element more, at the end.
LEMMA AddOneIs ==
  ASSUME NEW l, NEW q, Shape(l, q), Distinct(l), NEW e \in Elements, NEW D, e \in D, l.kind # "set" => e \notin l.inside,
         NEW m, m = Insert(l, l.tail, e)
  PROVE  Grown(l, m, {e}, D)
<1> DEFINE p == l.tail
<1>1. p \in l.inside \cup {NullPtr}
  BY ShapeFacts, RowFacts
<1>2. m = Insert(l, p, e)
  OBVIOUS
<1> HIDE DEF p
<1> QED
  BY <1>1, <1>2, InsertGrows

\* One list grown from another by T, and a third from that by one more element.
LEMMA GrownOn ==
  ASSUME NEW l, NEW k, NEW m, NEW T, NEW D, NEW e, Grown(l, k, T, D), Running(k), Grown(k, m, {e}, D)
  PROVE  Grown(l, m, T \cup {e}, D)
<1>1. SameClass(l, m) /\ (Running(m) \/ l.ring) /\ k.kind = l.kind
  BY DEF Grown, SameClass
<1>2. Running(m) => (\E t : Shape(m, t)) /\ Distinct(m) /\ m.inside \subseteq l.inside \cup (T \cup {e})
  BY DEF Grown
<1>3. Running(m) /\ l.kind = "set" => Values(m.inside) = Values(l.inside) \cup Values((T \cup {e}) \cap D)
  <2>1. Running(m) /\ l.kind = "set" => /\ Values(m.inside) = Values(k.inside) \cup Values({e} \cap D)
                                        /\ Values(k.inside) = Values(l.inside) \cup Values(T \cap D)
    BY <1>1 DEF Grown
  <2>2. Values((T \cup {e}) \cap D) = Values(T \cap D) \cup Values({e} \cap D)
    BY DEF Values
  <2> QED
    BY <2>1, <2>2
<1> QED
  BY <1>1, <1>2, <1>3 DEF Grown

\* The operator += adds what belongs to D: a list that has none of it takes all.
LEMMA AddThoseGrows ==
  ASSUME NEW l, NEW q, Shape(l, q), Distinct(l), NEW s, Len(s) \in Nat, NEW D, D \subseteq Elements,
         l.kind # "set" => Injective(s) /\ SetOfRow(s) \cap l.inside = {}, NEW m, m = AddThose(l, s, D)
  PROVE  Grown(l, m, SetOfRow(s), D)
<1>1. PICK f : Added(f, l, s, D) /\ m = f[Len(s)]
  BY AddThoseIs
<1> DEFINE first(i) == {s[j] : j \in 1 .. i}
           bad == {i \in 0 .. Len(s) : ~Grown(l, f[i], first(i), D)}
<1>2. bad = {}
  <2> SUFFICES ASSUME bad # {}
               PROVE  FALSE
    OBVIOUS
  <2>1. bad \subseteq Nat
    OBVIOUS
  <2>2. PICK k \in bad : \A i \in bad : k <= i
    BY <2>1, LeastNumber
  <2>3. k # 0
    <3>1. f[0] = l
      BY <1>1 DEF Added
    <3>2. first(0) = {}
      OBVIOUS
    <3>3. Grown(l, l, {}, D)
      <4>1. Running(l)
        BY ShapeFacts
      <4> QED
        BY <4>1 DEF Grown, SameClass, Values
    <3> QED
      BY <2>2, <3>1, <3>2, <3>3
  <2>4. k \in 1 .. Len(s) /\ k - 1 \in 0 .. Len(s) /\ ~(k <= k - 1)
    BY <2>2, <2>3
  <2>5. Grown(l, f[k - 1], first(k - 1), D)
    BY <2>2, <2>4
  <2> DEFINE o == f[k - 1]
             more == Insert(o, o.tail, s[k])
  <2>6. f[k] = IF Running(o) /\ s[k] \in D THEN more ELSE o
    BY <1>1, <2>4 DEF Added
  <2>7. first(k) = first(k - 1) \cup {s[k]}
    <3>1. 1 .. k = (1 .. k - 1) \cup {k}
      BY <2>4
    <3> QED
      BY <3>1
  <2>8. CASE Running(o) /\ s[k] \in D
    <3>1. PICK u : Shape(o, u)
      BY <2>5, <2>8 DEF Grown
    <3>2. Distinct(o) /\ SameClass(l, o) /\ o.inside \subseteq l.inside \cup first(k - 1)
      BY <2>5, <2>8 DEF Grown
    <3>3. o.kind # "set" => s[k] \notin o.inside
      <4> SUFFICES ASSUME o.kind # "set", s[k] \in o.inside
                   PROVE  FALSE
        OBVIOUS
      <4>1. Injective(s) /\ SetOfRow(s) \cap l.inside = {}
        BY <3>2 DEF SameClass
      <4>2. s[k] \notin l.inside
        BY <2>4, <4>1 DEF SetOfRow
      <4>3. PICK j \in 1 .. k - 1 : s[j] = s[k]
        BY <3>2, <4>2
      <4>4. j \in 1 .. Len(s) /\ j # k
        BY <2>4
      <4> QED
        BY <2>4, <4>1, <4>3, <4>4 DEF Injective
    <3> HIDE DEF first, bad, o
    <3>4. Grown(o, more, {s[k]}, D)
      <4>1. s[k] \in Elements
        BY <2>8
      <4> HIDE DEF more
      <4>2. more = Insert(o, o.tail, s[k])
        BY DEF more
      <4> QED
        BY <2>8, <3>1, <3>2, <3>3, <4>1, <4>2, AddOneIs
    <3> HIDE DEF more
    <3>5. Grown(l, o, first(k - 1), D)
      BY <2>5 DEF o
    <3>6. Grown(l, more, first(k - 1) \cup {s[k]}, D)
      BY <2>8, <3>4, <3>5, GrownOn
    <3>7. f[k] = more
      BY <2>6, <2>8
    <3>8. Grown(l, f[k], first(k), D)
      BY <2>7, <3>6, <3>7
    <3> QED
      BY <2>2, <3>8 DEF bad
  <2>9. CASE ~(Running(o) /\ s[k] \in D)
    <3>1. f[k] = o
      BY <2>6, <2>9
    <3>2. Running(o) => first(k) \cap D = first(k - 1) \cap D
      BY <2>7, <2>9
    <3> HIDE DEF first, o
    <3>3. Grown(l, o, first(k - 1), D)
      BY <2>5 DEF o
    <3>4. Grown(l, o, first(k), D)
      BY <2>7, <3>2, <3>3 DEF Grown
    <3> QED
      BY <2>2, <3>1, <3>4
  <2> QED
    BY <2>8, <2>9
<1>3. Len(s) \in 0 .. Len(s) /\ first(Len(s)) = SetOfRow(s)
  BY DEF SetOfRow
<1> HIDE DEF first
<1>4. Grown(l, f[Len(s)], first(Len(s)), D)
  BY <1>2, <1>3
<1> QED
  BY <1>1, <1>3, <1>4

-----------------------------------------------------------------------------
(* Sets *)

\* A walk that does not leave T finds nothing else.
LEMMA WalkWithin ==
  ASSUME NEW T, T \subseteq Elements, NEW f, \A x \in T : f[x] \in T \cup {NullPtr}, NEW e \in T \cup {NullPtr},
         NEW w, w = Walk(f, e)
  PROVE  Len(w) \in Nat /\ SetOfRow(w) \subseteq T \cup {NullPtr}
<1> DEFINE N == Cardinality(Elements)
           at == Iterate(f, e, N)
           met == Range(at) \ {NullPtr}
           c == Cardinality(met)
           U == T \cup {NullPtr}
<1>1. N \in Nat /\ IsFiniteSet(Elements)
  BY ElementsAssumption, FS_CardinalityType
<1>2. \A i \in 0 .. N : at[i] \in U
  <2>1. U \subseteq Places /\ e \in U /\ \A x \in U \ {NullPtr} : f[x] \in U
    BY DEF Places
  <2> HIDE DEF U, N
  <2> QED
    BY <1>1, <2>1, IterateStays
<1>3. DOMAIN at = 0 .. N
  BY <1>1, IterateIs
<1>4. met \subseteq Elements
  BY <1>2, <1>3 DEF Range
<1>5. IsFiniteSet(met) /\ c \in Nat /\ c <= N
  <2>1. met \in SUBSET Elements
    BY <1>4
  <2> HIDE DEF met
  <2> QED
    BY <1>1, <2>1, FS_Subset, FS_CardinalityType
<1>6. w = [i \in 1 .. c |-> at[i - 1]]
  BY DEF Walk
<1> HIDE DEF c, at, U, N
<1>7. w \in [1 .. c -> U]
  <2>1. \A i \in 1 .. c : i - 1 \in 0 .. N
    BY <1>1, <1>5
  <2> QED
    BY <1>2, <1>6, <2>1
<1>8. w \in Seq(U) /\ Len(w) = c
  BY <1>5, <1>7, SeqDef, LenProperties
<1> QED
  BY <1>5, <1>7, <1>8 DEF SetOfRow, U

\* Between the element with the index 0 and the one with -1 is nothing that is not in the list.
LEMMA BetweenIs ==
  ASSUME NEW l, NEW s, Shape(l, s), NEW b, b = Between(l)
  PROVE  Len(b) \in Nat /\ SetOfRow(b) \subseteq SetOfRow(s) \cup {NullPtr}
<1> DEFINE first == GetByIndex(l, 0)
           z == -1
           last == GetByIndex(first.list, z)
           f == [last.list.next EXCEPT ![last.at] = NullPtr]
<1>1. first.at \in SetOfRow(s) \cup {NullPtr} /\ InRow(first.list, s) /\ first.list.next = l.next /\ first.list \in ListRecord
  <2>1. PICK i \in Int : i = 0
    OBVIOUS
  <2>2. first = GetByIndex(l, i)
    BY <2>1
  <2> HIDE DEF first
  <2> QED
    BY <2>2, GetIs
<1>2. last.list.next = l.next
  <2>1. PICK i \in Int : i = z
    OBVIOUS
  <2> DEFINE k == first.list
  <2>2. last = GetByIndex(k, i)
    BY <2>1
  <2>3. k.next = l.next /\ k \in ListRecord /\ InRow(k, s)
    BY <1>1
  <2> HIDE DEF last, k
  <2>4. CASE Running(k)
    <3>1. Shape(k, s)
      BY <2>3, <2>4 DEF InRow
    <3> QED
      BY <2>2, <2>3, <3>1, GetIs
  <2>5. CASE ~Running(k)
    BY <2>2, <2>3, <2>5, GetStopped
  <2> QED
    BY <2>4, <2>5
<1>3. b = Walk(f, first.at)
  BY DEF Between, Through
<1> HIDE DEF first, last
<1>4. \A x \in SetOfRow(s) : f[x] \in SetOfRow(s) \cup {NullPtr}
  <2> SUFFICES ASSUME NEW x \in SetOfRow(s)
               PROVE  f[x] \in SetOfRow(s) \cup {NullPtr}
    OBVIOUS
  <2>1. l.next[x] \in SetOfRow(s) \cup {NullPtr}
    BY NeighboursAre DEF GetNext
  <2>2. l.next \in [Elements -> Places] /\ x \in Elements
    BY ShapeFacts, RowFacts DEF ListRecord
  <2>3. f[x] \in {NullPtr, l.next[x]}
    BY <1>2, <2>2
  <2> QED
    BY <2>1, <2>3
<1>5. SetOfRow(s) \subseteq Elements
  BY ShapeFacts, RowFacts
<1> HIDE DEF f
<1> QED
  BY <1>1, <1>3, <1>4, <1>5, WalkWithin

\* The constructors make lists in order.
LEMMA EmptyIs ==
  ASSUME NEW kind \in Kinds, NEW ring \in BOOLEAN, NEW l, l = Empty(kind, ring)
  PROVE  /\ l \in ListRecord /\ l.kind = kind /\ l.ring = ring /\ Running(l) /\ l.inside = {} /\ Distinct(l)
         /\ ~(kind = "single" /\ ring) => Shape(l, <<>>)
<1>1. /\ l.kind = kind /\ l.ring = ring /\ l.next = Nowhere /\ l.prev = Nowhere /\ l.inside = {} /\ l.head = NullPtr
      /\ l.tail = NullPtr /\ l.count = 0 /\ l.curr = NullPtr /\ Running(l)
  BY DEF Empty, Running
<1>2. l \in ListRecord
  BY DEF Empty, ListRecord, Nowhere, Places
<1>3. Distinct(l)
  BY <1>1 DEF Distinct
<1> DEFINE s == <<>>
<1>4. s \in Seq(Elements) /\ Len(s) = 0 /\ Injective(s) /\ SetOfRow(s) = {} /\ FirstIn(s) = NullPtr /\ LastIn(s) = NullPtr
  BY DEF Injective, SetOfRow, FirstIn, LastIn
<1> HIDE DEF s
<1>5. Leads(l.next, s)
  BY <1>4 DEF Leads
<1>6. \A e \in Elements : l.next[e] = NullPtr /\ l.prev[e] = NullPtr
  BY <1>1 DEF Nowhere
<1>7. LinkShape(l.kind, l.ring, l.next, l.prev, s)
  BY <1>4, <1>5, <1>6 DEF LinkShape
<1>8. EndShape(l, s)
  BY <1>1, <1>4 DEF EndShape
<1>9. ~(kind = "single" /\ ring) => Shape(l, s)
  BY <1>1, <1>2, <1>7, <1>8 DEF Shape
<1> QED
  BY <1>1, <1>2, <1>3, <1>9 DEF s

\* A set in order.
IsSet(l) == l.kind = "set" /\ ~l.ring /\ Distinct(l) /\ \E t : Shape(l, t)

\* m is the set l with elements of T, one for each value in T and D that was missing.
Enlarged(l, m, T, D) ==
  IsSet(m) /\ m.inside \subseteq l.inside \cup T /\ Values(m.inside) = Values(l.inside) \cup Values(T \cap D)

\* += makes of a set a set that has gained the values of the other's elements.
LEMMA AddedToSet ==
  ASSUME NEW l, IsSet(l), NEW s, Len(s) \in Nat, NEW D, D \subseteq Elements, NEW m, m = AddThose(l, s, D)
  PROVE  Enlarged(l, m, SetOfRow(s), D)
<1>1. PICK q : Shape(l, q)
  BY DEF IsSet
<1>2. l.kind = "set" /\ ~l.ring /\ Distinct(l)
  BY DEF IsSet
<1>3. Grown(l, m, SetOfRow(s), D)
  BY <1>1, <1>2, AddThoseGrows
<1>4. Running(m) /\ m.kind = "set" /\ ~m.ring
  BY <1>2, <1>3 DEF Grown, SameClass
<1> QED
  BY <1>2, <1>3, <1>4 DEF Grown, IsSet, Enlarged

\* A set filled from a row has the values of the row's elements, each once.
LEMMA SetOfIs ==
  ASSUME NEW s, Len(s) \in Nat, NEW m, m = SetOf(s)
  PROVE  /\ IsSet(m) /\ m.inside \subseteq SetOfRow(s) /\ m.inside \subseteq Elements
         /\ Values(m.inside) = Values(SetOfRow(s) \cap Elements)
<1> DEFINE o == Empty("set", FALSE)
<1>1. IsSet(o) /\ o.inside = {}
  <2>1. PICK k \in Kinds, r \in BOOLEAN : k = "set" /\ ~r /\ o = Empty(k, r)
    BY DEF Kinds
  <2> HIDE DEF o
  <2>2. o.kind = k /\ o.ring = r /\ o.inside = {} /\ Distinct(o) /\ Shape(o, <<>>)
    BY <2>1, EmptyIs
  <2> QED
    BY <2>1, <2>2 DEF IsSet
<1>2. m = AddThose(o, s, Elements)
  BY DEF SetOf, AddAll
<1> HIDE DEF o
<1>3. /\ IsSet(m) /\ m.inside \subseteq o.inside \cup SetOfRow(s)
      /\ Values(m.inside) = Values(o.inside) \cup Values(SetOfRow(s) \cap Elements)
  <2>1. PICK D : D = Elements
    OBVIOUS
  <2>2. D \subseteq Elements /\ m = AddThose(o, s, D)
    BY <1>2, <2>1
  <2>3. Enlarged(o, m, SetOfRow(s), D)
    BY <1>1, <2>2, AddedToSet
  <2> QED
    BY <2>1, <2>3 DEF Enlarged
<1>4. Values({}) = {}
  BY DEF Values
<1>5. m.inside \subseteq Elements
  <2>1. PICK t : Shape(m, t)
    BY <1>3 DEF IsSet
  <2> QED
    BY <2>1, ShapeFacts, RowFacts
<1> QED
  BY <1>1, <1>3, <1>4, <1>5

\* What a set holds is in its row, and counted; an element is nothing it holds if it is none at all.
LEMMA SetFacts ==
  ASSUME NEW l, IsSet(l)
  PROVE  /\ Row(l) \in Seq(Elements) /\ Len(Row(l)) \in Nat /\ SetOfRow(Row(l)) = l.inside /\ l.inside \subseteq Elements
         /\ Injective(Row(l)) /\ Running(l) /\ Shape(l, Row(l)) /\ l.count = Len(Row(l))
         /\ IsFiniteSet(l.inside) /\ l.count = Cardinality(l.inside)
         /\ l.count = 0 <=> l.inside = {}
         /\ \A d, e \in l.inside : Value[d] = Value[e] => d = e
         /\ \A v : Member(l, v) # NullPtr <=> v \in Values(l.inside)
<1>1. PICK t : Shape(l, t)
  BY DEF IsSet
<1>2. /\ Row(l) = t /\ t \in Seq(Elements) /\ Injective(t) /\ l.inside = SetOfRow(t) /\ l.count = Len(t) /\ Running(l)
  BY <1>1, ShapeFacts
<1>3. Len(t) \in Nat /\ SetOfRow(t) \subseteq Elements /\ (Len(t) = 0 <=> SetOfRow(t) = {})
  BY <1>2, RowFacts
<1>4. Cardinality(SetOfRow(t)) = Len(t) /\ IsFiniteSet(SetOfRow(t))
  BY <1>2, RowFits
<1>5. \A d, e \in l.inside : Value[d] = Value[e] => d = e
  BY DEF IsSet, Distinct
<1>6. \A v : Member(l, v) # NullPtr <=> v \in Values(l.inside)
  <2> SUFFICES ASSUME NEW v
               PROVE  Member(l, v) # NullPtr <=> v \in Values(l.inside)
    OBVIOUS
  <2> QED
    BY <1>2, <1>3, MemberIs
<1> QED
  BY <1>1, <1>2, <1>3, <1>4, <1>5, <1>6

\* The union has what either has.
LEMMA SetUnionIs ==
  ASSUME NEW l, IsSet(l), NEW r, IsSet(r), NEW m, m = SetUnion(l, r)
  PROVE  /\ IsSet(m) /\ m.inside \subseteq l.inside \cup r.inside
         /\ Values(m.inside) = Values(l.inside) \cup Values(r.inside)
<1> DEFINE o == SetOf(Row(l))
<1>1. SetOfRow(Row(l)) = l.inside /\ l.inside \subseteq Elements /\ Len(Row(l)) \in Nat
  BY SetFacts
<1>2. SetOfRow(Row(r)) = r.inside /\ r.inside \subseteq Elements /\ Len(Row(r)) \in Nat
  BY SetFacts
<1>3. IsSet(o) /\ o.inside \subseteq l.inside /\ Values(o.inside) = Values(l.inside)
  <2>1. SetOfRow(Row(l)) \cap Elements = l.inside
    BY <1>1
  <2> HIDE DEF o
  <2>2. o = SetOf(Row(l))
    BY DEF o
  <2> QED
    BY <1>1, <2>1, <2>2, SetOfIs
<1>4. PICK D : D = Elements
  OBVIOUS
<1>5. m = AddThose(o, Row(r), D) /\ D \subseteq Elements
  BY <1>4 DEF SetUnion, AddAll
<1> HIDE DEF o
<1>6. /\ IsSet(m) /\ m.inside \subseteq o.inside \cup r.inside
      /\ Values(m.inside) = Values(o.inside) \cup Values(r.inside \cap D)
  <2>1. Enlarged(o, m, SetOfRow(Row(r)), D)
    BY <1>2, <1>3, <1>5, AddedToSet
  <2> QED
    BY <1>2, <2>1 DEF Enlarged
<1>7. r.inside \cap D = r.inside
  BY <1>2, <1>4
<1> QED
  BY <1>3, <1>6, <1>7

\* Those whose data a set has.
LEMMA HasIs ==
  ASSUME NEW l, IsSet(l)
  PROVE  Has(l) = {e \in Elements : Value[e] \in Values(l.inside)}
<1>1. \A v : Member(l, v) # NullPtr <=> v \in Values(l.inside)
  BY SetFacts
<1> QED
  BY <1>1 DEF Has

\* What is added of a set's elements to nothing.
LEMMA PartOfSet ==
  ASSUME NEW l, IsSet(l), NEW D, D \subseteq Elements, NEW m, m = AddThose(SetOf(<<>>), Between(l), D)
  PROVE  IsSet(m) /\ m.inside \subseteq l.inside /\ Values(m.inside) \subseteq Values(l.inside \cap D)
<1> DEFINE o == SetOf(<<>>)
           b == Between(l)
<1>1. IsSet(o) /\ o.inside = {}
  <2>1. PICK q : q = <<>>
    OBVIOUS
  <2>2. Len(q) \in Nat /\ SetOfRow(q) = {} /\ o = SetOf(q)
    BY <2>1 DEF SetOfRow
  <2> HIDE DEF o
  <2> QED
    BY <2>2, SetOfIs
<1>2. Len(b) \in Nat /\ SetOfRow(b) \subseteq l.inside \cup {NullPtr}
  <2>1. PICK t : Shape(l, t)
    BY DEF IsSet
  <2>2. SetOfRow(t) = l.inside
    BY <2>1, ShapeFacts
  <2> QED
    BY <2>1, <2>2, BetweenIs
<1>3. m = AddThose(o, b, D)
  OBVIOUS
<1> HIDE DEF o, b
<1>4. /\ IsSet(m) /\ m.inside \subseteq o.inside \cup SetOfRow(b)
      /\ Values(m.inside) = Values(o.inside) \cup Values(SetOfRow(b) \cap D)
  <2>1. Enlarged(o, m, SetOfRow(b), D)
    BY <1>1, <1>2, <1>3, AddedToSet
  <2> QED
    BY <2>1 DEF Enlarged
<1>5. m.inside \subseteq Elements
  BY <1>4, SetFacts
<1>6. SetOfRow(b) \cap D \subseteq l.inside \cap D
  BY <1>2, ElementsAssumption
<1>7. Values({}) = {} /\ Values(SetOfRow(b) \cap D) \subseteq Values(l.inside \cap D)
  BY <1>6 DEF Values
<1>8. m.inside \subseteq l.inside
  BY <1>1, <1>2, <1>4, <1>5, ElementsAssumption
<1> QED
  BY <1>1, <1>4, <1>7, <1>8

\* A set filled from nothing is empty.
LEMMA NothingIn ==
  ASSUME NEW m, m = SetOf(<<>>)
  PROVE  IsSet(m) /\ m.inside = {} /\ Values(m.inside) = {}
<1>1. PICK q : q = <<>>
  OBVIOUS
<1>2. Len(q) \in Nat /\ SetOfRow(q) = {} /\ m = SetOf(q)
  BY <1>1 DEF SetOfRow
<1>3. IsSet(m) /\ m.inside = {}
  BY <1>2, SetOfIs
<1> QED
  BY <1>3 DEF Values

\* The difference has nothing that the other has.
LEMMA SetDifferenceIs ==
  ASSUME NEW l, IsSet(l), NEW r, IsSet(r), NEW m, m = SetDifference(l, r)
  PROVE  /\ IsSet(m) /\ m.inside \subseteq l.inside
         /\ Values(m.inside) \subseteq Values(l.inside) \ Values(r.inside)
<1>1. CASE l.count = 0
  <2>1. m = SetOf(<<>>)
    BY <1>1 DEF SetDifference
  <2> QED
    BY <2>1, NothingIn
<1>2. CASE l.count # 0 /\ r.count = 0
  <2>1. m = SetOf(Row(l))
    BY <1>2 DEF SetDifference
  <2>2. SetOfRow(Row(l)) = l.inside /\ l.inside \subseteq Elements /\ Len(Row(l)) \in Nat
    BY SetFacts
  <2>3. SetOfRow(Row(l)) \cap Elements = l.inside
    BY <2>2
  <2>4. IsSet(m) /\ m.inside \subseteq l.inside /\ Values(m.inside) = Values(l.inside)
    BY <2>1, <2>2, <2>3, SetOfIs
  <2>5. r.inside = {}
    BY <1>2, SetFacts
  <2>6. Values(r.inside) = {}
    BY <2>5 DEF Values
  <2> QED
    BY <2>4, <2>6
<1>3. CASE l.count # 0 /\ r.count # 0
  <2>1. PICK D : D = Elements \ Has(r)
    OBVIOUS
  <2>2. m = AddThose(SetOf(<<>>), Between(l), D) /\ D \subseteq Elements
    BY <1>3, <2>1 DEF SetDifference
  <2>3. IsSet(m) /\ m.inside \subseteq l.inside /\ Values(m.inside) \subseteq Values(l.inside \cap D)
    BY <2>2, PartOfSet
  <2>4. \A e \in D : Value[e] \notin Values(r.inside)
    BY <2>1, HasIs
  <2>5. Values(l.inside \cap D) \subseteq Values(l.inside) \ Values(r.inside)
    BY <2>4 DEF Values
  <2> QED
    BY <2>3, <2>5
<1> QED
  BY <1>1, <1>2, <1>3

\* The intersection has nothing that not both have.
LEMMA SetIntersectionIs ==
  ASSUME NEW l, IsSet(l), NEW r, IsSet(r), NEW m, m = SetIntersection(l, r)
  PROVE  /\ IsSet(m) /\ m.inside \subseteq l.inside
         /\ Values(m.inside) \subseteq Values(l.inside) \cap Values(r.inside)
<1>1. CASE l.count = 0 \/ r.count = 0
  <2>1. m = SetOf(<<>>)
    BY <1>1 DEF SetIntersection
  <2> QED
    BY <2>1, NothingIn
<1>2. CASE ~(l.count = 0 \/ r.count = 0)
  <2>1. PICK D : D = Has(r)
    OBVIOUS
  <2>2. m = AddThose(SetOf(<<>>), Between(l), D) /\ D \subseteq Elements
    BY <1>2, <2>1 DEF SetIntersection, Has
  <2>3. IsSet(m) /\ m.inside \subseteq l.inside /\ Values(m.inside) \subseteq Values(l.inside \cap D)
    BY <2>2, PartOfSet
  <2>4. \A e \in D : Value[e] \in Values(r.inside)
    BY <2>1, HasIs
  <2>5. Values(l.inside \cap D) \subseteq Values(l.inside) \cap Values(r.inside)
    BY <2>4 DEF Values
  <2> QED
    BY <2>3, <2>5
<1> QED
  BY <1>1, <1>2

\* isSubsetOf() compares the values of two sets,
LEMMA IsSubsetOfIs ==
  ASSUME NEW l, IsSet(l), NEW r, IsSet(r)
  PROVE  IsSubsetOf(l, r) <=> Values(l.inside) \subseteq Values(r.inside)
<1>1. Row(l) \in Seq(Elements) /\ SetOfRow(Row(l)) = l.inside /\ (l.count = 0 <=> l.inside = {})
  BY SetFacts
<1>2. \A v : Member(r, v) # NullPtr <=> v \in Values(r.inside)
  BY SetFacts
<1>3. DOMAIN Row(l) = 1 .. Len(Row(l))
  BY <1>1, RowFacts
<1>4. l.inside = {Row(l)[i] : i \in DOMAIN Row(l)}
  BY <1>1, <1>3 DEF SetOfRow
<1>5. IsSubsetOf(l, r) <=> l.inside = {} \/ \A i \in DOMAIN Row(l) : Value[Row(l)[i]] \in Values(r.inside)
  BY <1>1, <1>2 DEF IsSubsetOf
<1>6. (\A i \in DOMAIN Row(l) : Value[Row(l)[i]] \in Values(r.inside)) <=> \A e \in l.inside : Value[e] \in Values(r.inside)
  BY <1>4
<1>7. (\A e \in l.inside : Value[e] \in Values(r.inside)) <=> Values(l.inside) \subseteq Values(r.inside)
  BY DEF Values
<1>8. l.inside = {} => \A e \in l.inside : Value[e] \in Values(r.inside)
  OBVIOUS
<1> QED
  BY <1>5, <1>6, <1>7, <1>8

\* Nothing is twice in a set, so it holds as many elements as values.
LEMMA AsManyValues ==
  ASSUME NEW l, IsSet(l)
  PROVE  IsFiniteSet(Values(l.inside)) /\ Cardinality(Values(l.inside)) = l.count
<1> DEFINE f == [e \in l.inside |-> Value[e]]
           T == Values(l.inside)
<1>1. IsFiniteSet(l.inside) /\ l.count = Cardinality(l.inside) /\ \A d, e \in l.inside : Value[d] = Value[e] => d = e
  BY SetFacts
<1>2. f \in [l.inside -> T] /\ \A v \in T : \E e \in l.inside : f[e] = v
  BY DEF Values
<1>3. \A d, e \in l.inside : f[d] = f[e] => d = e
  BY <1>1
<1>4. f \in Surjection(l.inside, T)
  BY <1>2 DEF Surjection
<1>5. f \in Injection(l.inside, T)
  <2> HIDE DEF f, T
  <2>1. DOMAIN f = l.inside
    BY <1>2
  <2> QED
    BY <1>2, <1>3, <2>1 DEF Injection, IsInjective
<1> HIDE DEF f, T
<1>6. IsFiniteSet(T) /\ Cardinality(T) = Cardinality(l.inside)
  BY <1>1, <1>4, <1>5, FS_Surjection
<1> QED
  BY <1>1, <1>6 DEF T

\* and so does ==.
LEMMA SetsEqualIs ==
  ASSUME NEW l, IsSet(l), NEW r, IsSet(r)
  PROVE  SetsEqual(l, r) <=> Values(l.inside) = Values(r.inside)
<1> DEFINE S == Values(l.inside)
           T == Values(r.inside)
<1>1. SetsEqual(l, r) <=> l.count = r.count /\ S \subseteq T
  BY IsSubsetOfIs DEF SetsEqual
<1>2. Cardinality(S) = l.count /\ Cardinality(T) = r.count /\ IsFiniteSet(T)
  BY AsManyValues
<1> HIDE DEF S, T
<1>3. S \subseteq T /\ l.count = r.count => S = T
  <2> SUFFICES ASSUME S \subseteq T, l.count = r.count
               PROVE  S = T
    OBVIOUS
  <2>1. S \in SUBSET T /\ Cardinality(S) = Cardinality(T)
    BY <1>2
  <2> QED
    BY <1>2, <2>1, FS_Subset
<1>4. S = T => l.count = r.count /\ S \subseteq T
  BY <1>2
<1> QED
  BY <1>1, <1>3, <1>4 DEF S, T

-----------------------------------------------------------------------------
(* What the methods leave behind *)

\* A list in order, and what a method makes of it, if the program still runs.
Ordered(l) == Distinct(l) /\ \E s : Shape(l, s)
Good(m) == Running(m) => Ordered(m)
Shrunk(l, m) == Running(m) => m.inside \subseteq l.inside /\ \E t : Shape(m, t)

\* A list that only lost elements is still in order.
LEMMA ShrunkGood ==
  ASSUME NEW l, Ordered(l), NEW m, Kin(l, m), Shrunk(l, m)
  PROVE  Good(m)
<1>1. PICK s : Shape(l, s)
  BY DEF Ordered
<1>2. SameClass(l, m)
  BY <1>1, ShapeKin
<1>3. Running(m) => Distinct(m)
  BY <1>2 DEF Ordered, Shrunk, Distinct, SameClass
<1> QED
  BY <1>3 DEF Good, Ordered, Shrunk

\* So is one whose ring was closed,
LEMMA ConnectGood ==
  ASSUME NEW l, NEW m, m = Connect(l), Good(l)
  PROVE  Good(m)
<1>1. CASE Running(l)
  <2>1. PICK s : Shape(l, s)
    BY <1>1 DEF Good, Ordered
  <2>2. Shape(m, s) /\ m.inside = l.inside
    BY <2>1, ConnectIs
  <2>3. SameClass(l, m)
    BY <2>1, KinConnect, ShapeKin
  <2>4. Distinct(m)
    BY <1>1, <2>2, <2>3 DEF Distinct, SameClass, Good, Ordered
  <2> QED
    BY <2>2, <2>4 DEF Good, Ordered
<1>2. CASE ~Running(l)
  <2>1. m = l
    BY <1>2, ConnectStopped
  <2> QED
    BY <2>1
<1> QED
  BY <1>1, <1>2

\* and one that was grown.
LEMMA GrownGood ==
  ASSUME NEW l, NEW m, NEW T, NEW D, Grown(l, m, T, D)
  PROVE  Good(m) /\ (Running(m) => m.inside \subseteq l.inside \cup T)
BY DEF Grown, Good, Ordered

\* An insertion behind p or at the front, into a list that is l but for the current element.
LEMMA InsertGood ==
  ASSUME NEW l, Ordered(l), NEW p, p \in l.inside \cup {NullPtr}, NEW e \in Elements, e \notin l.inside, NEW m, m = Insert(l, p, e)
  PROVE  Good(m) /\ Kin(l, m) /\ (Running(m) => m.inside \subseteq l.inside \cup {e})
<1>1. PICK s : Shape(l, s)
  BY DEF Ordered
<1>2. PICK D : D = {e}
  OBVIOUS
<1>3. Grown(l, m, {e}, D)
  BY <1>1, <1>2, InsertGrows DEF Ordered
<1>4. Kin(l, m)
  BY KinInsert
<1> QED
  BY <1>3, <1>4, GrownGood

\* A list with an element less is smaller.
LEMMA TakesOutShrinks ==
  ASSUME NEW l, NEW s, Shape(l, s), NEW r, NEW e, TakesOut(r, s, e), e \in SetOfRow(s) \cup {NullPtr}
  PROVE  Shrunk(l, r.list)
<1>1. l.inside = SetOfRow(s) /\ s \in Seq(Elements) /\ Injective(s)
  BY ShapeFacts
<1> SUFFICES ASSUME Running(r.list)
             PROVE  r.list.inside \subseteq l.inside /\ \E t : Shape(r.list, t)
  BY DEF Shrunk
<1>2. CASE e = NullPtr
  <2>1. Shape(r.list, s)
    BY <1>2 DEF TakesOut, InRow
  <2>2. r.list.inside = SetOfRow(s)
    BY <2>1, ShapeFacts
  <2> QED
    BY <1>1, <2>1, <2>2
<1>3. CASE e # NullPtr
  <2> DEFINE t == RemoveAt(s, PlaceOf(s, e))
  <2>1. Shape(r.list, t)
    BY <1>3 DEF TakesOut, InRow
  <2>2. PlaceOf(s, e) \in 1 .. Len(s)
    BY <1>1, <1>3, PlaceIs
  <2>3. SetOfRow(t) \subseteq SetOfRow(s)
    <3>1. RowWithout(t, s, PlaceOf(s, e))
      BY <1>1, <2>2, RemovedRow
    <3> QED
      BY <3>1 DEF RowWithout
  <2> HIDE DEF t
  <2>4. r.list.inside = SetOfRow(t)
    BY <2>1, ShapeFacts
  <2> QED
    BY <1>1, <2>1, <2>3, <2>4
<1> QED
  BY <1>2, <1>3

\* Every way to take out what a given element is followed by.
LEMMA RemoveAfterShrinks ==
  ASSUME NEW l, NEW s, Shape(l, s), NEW p, p \in SetOfRow(s) \cup {NullPtr}, NEW r, r = RemoveAfter(l, p)
  PROVE  Shrunk(l, r.list)
<1>1. PICK e : e = (IF p = NullPtr THEN l.head ELSE l.next[p])
  OBVIOUS
<1>2. TakesOut(r, s, e) /\ e \in SetOfRow(s) \cup {NullPtr}
  BY <1>1, RemoveAfterIs
<1> QED
  BY <1>2, TakesOutShrinks

\* A double list or a set takes out a given element.
LEMMA BesideIs ==
  ASSUME NEW l, NEW s, Shape(l, s), l.kind # "single", NEW e, e \in SetOfRow(s) \cup {NullPtr}, NEW r, r = Beside(l, e)
  PROVE  TakesOut(r, s, e) /\ Kin(l, r.list)
<1>1. CASE e = NullPtr
  <2>1. r = With(NullPtr, l)
    BY <1>1 DEF Beside, With
  <2>2. r.at = NullPtr /\ r.list = l
    BY <2>1, WithIs
  <2> QED
    BY <1>1, <2>2, KinSelf DEF TakesOut, InRow
<1>2. CASE e # NullPtr
  <2>1. r = PrivRemove(l, e)
    BY <1>2 DEF Beside
  <2>2. r.at = e /\ InRow(r.list, RemoveAt(s, PlaceOf(s, e)))
    BY <1>2, <2>1, PrivRemoveIs
  <2>3. Kin(l, r.list)
    BY <2>1, KinRemoved
  <2> QED
    BY <1>2, <2>2, <2>3 DEF TakesOut
<1> QED
  BY <1>1, <1>2

\* pop_back() of a double list takes out the tail, that of a single list some element.
LEMMA PopBackIs ==
  ASSUME NEW l, NEW s, Shape(l, s), NEW r, r = PopBack(l)
  PROVE  /\ l.kind # "single" => TakesOut(r, s, l.tail)
         /\ Shrunk(l, r.list)
<1>1. l.tail \in SetOfRow(s) \cup {NullPtr} /\ l.inside = SetOfRow(s)
  BY ShapeFacts, RowFacts
<1>2. CASE l.kind # "single"
  <2>1. r = Beside(l, l.tail)
    BY <1>2 DEF PopBack, Beside, Single
  <2>2. TakesOut(r, s, l.tail)
    BY <1>1, <1>2, <2>1, BesideIs
  <2> QED
    BY <1>1, <2>2, TakesOutShrinks
<1>3. CASE l.kind = "single" /\ l.count <= 1
  <2>1. PICK p : p = NullPtr
    OBVIOUS
  <2>2. r = RemoveAfter(l, p)
    BY <1>3, <2>1 DEF PopBack, Single
  <2> QED
    BY <1>3, <2>1, <2>2, RemoveAfterShrinks
<1>4. CASE l.kind = "single" /\ ~(l.count <= 1)
  <2>1. PICK i \in Int : i = -2
    OBVIOUS
  <2>2. PICK g : g = GetByIndex(l, i)
    OBVIOUS
  <2>3. g.at \in SetOfRow(s) \cup {NullPtr} /\ InRow(g.list, s)
    BY <2>2, GetIs
  <2>4. r = IF Running(g.list) THEN RemoveAfter(g.list, g.at) ELSE g
    BY <1>4, <2>1, <2>2 DEF PopBack, Single
  <2>5. CASE Running(g.list)
    <3> DEFINE k == g.list
    <3>1. Shape(k, s)
      BY <2>3, <2>5 DEF InRow
    <3>2. Shrunk(k, r.list)
      BY <2>3, <2>4, <2>5, <3>1, RemoveAfterShrinks
    <3> HIDE DEF k
    <3>3. k.inside = SetOfRow(s)
      BY <3>1, ShapeFacts
    <3> QED
      BY <1>1, <1>4, <3>2, <3>3 DEF Shrunk
  <2>6. CASE ~Running(g.list)
    BY <1>4, <2>4, <2>6 DEF Shrunk
  <2> QED
    BY <2>5, <2>6
<1> QED
  BY <1>2, <1>3, <1>4

\* The program survives clear() only if there is nothing to clear.
LEMMA ClearIs ==
  ASSUME NEW l \in ListRecord, NEW m, m = Clear(l)
  PROVE  Running(m) => m = l
<1> DEFINE z == [l EXCEPT !.count = 0, !.curr = NullPtr]
<1>1. ~Running(Crashed(z))
  BY DEF ListRecord, Crashed, Running
<1> HIDE DEF z
<1>2. m = IF l.count = 0 THEN l ELSE Crashed(z)
  BY DEF Clear, SetHead, z
<1> QED
  BY <1>1, <1>2

\* Nothing is added once the program has ended.
LEMMA AddStopped ==
  ASSUME NEW l, ~Running(l), NEW s, Len(s) \in Nat, NEW D, NEW m, m = AddThose(l, s, D)
  PROVE  m = l
<1>1. PICK f : Added(f, l, s, D) /\ m = f[Len(s)]
  BY AddThoseIs
<1> DEFINE bad == {i \in 0 .. Len(s) : f[i] # l}
<1>2. bad = {}
  <2> SUFFICES ASSUME bad # {}
               PROVE  FALSE
    OBVIOUS
  <2>1. bad \subseteq Nat
    OBVIOUS
  <2>2. PICK k \in bad : \A i \in bad : k <= i
    BY <2>1, LeastNumber
  <2>3. k # 0
    BY <1>1, <2>2 DEF Added
  <2>4. k \in 1 .. Len(s) /\ k - 1 \in 0 .. Len(s) /\ ~(k <= k - 1)
    BY <2>2, <2>3
  <2>5. f[k - 1] = l
    BY <2>2, <2>4
  <2>6. f[k] = l
    BY <1>1, <2>4, <2>5 DEF Added
  <2> QED
    BY <2>2, <2>6
<1>3. Len(s) \in 0 .. Len(s)
  OBVIOUS
<1> QED
  BY <1>1, <1>2, <1>3

-----------------------------------------------------------------------------
(* The invariant *)

\* The class stays, and as long as the methods keep it, the list is in order; what is in it has been used.
ListInv ==
  /\ {"kind", "ring"} \subseteq DOMAIN list
  /\ list.kind = "set" => ~list.ring
  /\ Sound => Ordered(list) /\ Inside \subseteq used

\* A new list is in order.
LEMMA InitKeeps == ListInit => ListInv
<1> SUFFICES ASSUME ListInit
             PROVE  ListInv
  OBVIOUS
<1>1. PICK u \in Uses : list = Empty(u.kind, u.ring)
  BY DEF ListInit
<1>2. u.kind \in Kinds /\ u.ring \in BOOLEAN /\ (u.kind = "set" => ~u.ring)
  <2>1. u \in [as : {"list", "stack", "queue"}, kind : Kinds, ring : BOOLEAN] /\ (u.kind = "set" => ~u.ring)
    BY ListsAssumption DEF Kinds
  <2> QED
    BY <2>1
<1>3. PICK k \in Kinds, r \in BOOLEAN : k = u.kind /\ r = u.ring
  BY <1>2
<1>4. list = Empty(k, r)
  BY <1>1, <1>3
<1>5. PICK l : l = list
  OBVIOUS
<1>6. /\ l \in ListRecord /\ l.kind = k /\ l.ring = r /\ l.inside = {} /\ Distinct(l)
      /\ ~(k = "single" /\ r) => Shape(l, <<>>)
  BY <1>4, <1>5, EmptyIs
<1>7. {"kind", "ring"} \subseteq DOMAIN l
  BY <1>6 DEF ListRecord
<1>8. Sound => Ordered(l)
  BY <1>5, <1>6 DEF Sound, Ordered
<1> QED
  BY <1>2, <1>3, <1>5, <1>6, <1>7, <1>8 DEF ListInv, Inside

\* A step to m keeps the invariant if m is of the same class, in order, and has nothing that is not used.
LEMMA StepKeeps ==
  ASSUME ListInv, Running(list), NEW m, Kin(list, m), list' = m, NEW T, used' = T,
         Sound => Good(m) /\ (Running(m) => m.inside \subseteq T)
  PROVE  ListInv'
<1>1. {"kind", "ring"} \subseteq DOMAIN m /\ m.kind = list.kind /\ m.ring = list.ring
  BY DEF ListInv, Kin, SameClass
<1>2. Sound' => Sound /\ Running(m)
  BY <1>1 DEF Sound
<1>3. Sound' => Ordered(m) /\ m.inside \subseteq T
  BY <1>2 DEF Good
<1>4. (Sound => Ordered(list) /\ Inside \subseteq used)'
  BY <1>3 DEF Inside
<1> QED
  BY <1>1, <1>4 DEF ListInv

\* A method that changes the list to one in order of the same class keeps the invariant,
LEMMA ChangedKeeps ==
  ASSUME ListInv, Running(list), NEW k, Kin(list, k), Sound => Good(k), Changed(k)
  PROVE  ListInv'
<1>1. PICK m : m = Connect(k)
  OBVIOUS
<1>2. list' = m /\ used' = used \cup m.inside
  BY <1>1 DEF Changed
<1>3. Kin(list, m)
  BY <1>1, KinConnect, KinOn
<1>4. Sound => Good(m)
  BY <1>1, ConnectGood
<1>5. PICK T : T = used \cup m.inside
  OBVIOUS
<1>6. m.inside \subseteq T /\ used' = T
  BY <1>2, <1>5
<1> QED
  BY <1>2, <1>3, <1>4, <1>6, StepKeeps

\* so does one that looks for an element,
LEMMA LookedKeeps ==
  ASSUME ListInv, Running(list), NEW m, Kin(list, m), Sound => Good(m) /\ (Running(m) => m.inside \subseteq list.inside), Looked(m)
  PROVE  ListInv'
<1>1. list' = m /\ used' = used
  BY DEF Looked
<1>2. Sound => list.inside \subseteq used
  BY DEF ListInv, Inside
<1>3. PICK T : T = used
  OBVIOUS
<1>4. Sound => Good(m) /\ (Running(m) => m.inside \subseteq T)
  BY <1>2, <1>3
<1> QED
  BY <1>1, <1>3, <1>4, StepKeeps

\* and one that takes an element out.
LEMMA TakenOutKeeps ==
  ASSUME ListInv, Running(list), NEW r, NEW m, m = r.list, Kin(list, m), Sound => Shrunk(list, m), TakenOut(r)
  PROVE  ListInv'
<1>1. Sound => Good(m) /\ (Running(m) => m.inside \subseteq list.inside)
  <2> SUFFICES ASSUME Sound
               PROVE  Good(m) /\ (Running(m) => m.inside \subseteq list.inside)
    OBVIOUS
  <2>1. Ordered(list) /\ Shrunk(list, m)
    BY DEF ListInv
  <2>2. PICK l : l = list
    OBVIOUS
  <2>3. Ordered(l) /\ Shrunk(l, m) /\ Kin(l, m)
    BY <2>1, <2>2
  <2>4. Good(m)
    BY <2>3, ShrunkGood
  <2> QED
    BY <2>1, <2>4 DEF Shrunk
<1>2. Looked(m) \/ Changed(m)
  BY DEF TakenOut
<1> QED
  BY <1>1, <1>2, LookedKeeps, ChangedKeeps

-----------------------------------------------------------------------------
(* The methods *)

\* A search may set the current element to a member, and no more.
LEMMA AfterFindGood ==
  ASSUME NEW l, Ordered(l), NEW e, e \in l.inside \cup {NullPtr}, NEW m, m = AfterFind(l, e)
  PROVE  Ordered(m) /\ m.inside = l.inside
<1>1. PICK s : Shape(l, s)
  BY DEF Ordered
<1>2. l.inside = SetOfRow(s)
  BY <1>1, ShapeFacts
<1>3. Shape(m, s) /\ m.inside = l.inside /\ SameClass(l, m)
  BY <1>1, <1>2, AfterFindIs
<1> QED
  BY <1>3 DEF Ordered, Distinct, SameClass

\* What is looked for is found inside, or not at all.
LEMMA FoundInside ==
  ASSUME NEW l, Ordered(l), NEW d \in Elements
  PROVE  /\ Find(l, d) \in l.inside \cup {NullPtr} /\ FindData(l, Value[d]) \in l.inside \cup {NullPtr}
         /\ Find(l, d) # NullPtr => Find(l, d) = d
<1>1. PICK s : Shape(l, s)
  BY DEF Ordered
<1>2. Find(l, d) = IF d \in l.inside THEN d ELSE NullPtr
  BY <1>1, FindIs DEF Ordered
<1>3. PICK v : v = Value[d]
  OBVIOUS
<1>4. FindData(l, v) \in l.inside \cup {NullPtr}
  BY <1>1, FindDataIs
<1> QED
  BY <1>2, <1>3, <1>4

\* The ends, and the neighbours of what is inside, are inside, too.
LEMMA EndsInside ==
  ASSUME NEW l, Ordered(l)
  PROVE  /\ l.tail \in l.inside \cup {NullPtr} /\ l.head \in l.inside \cup {NullPtr} /\ l.inside \subseteq Elements
         /\ l.kind # "single" => \A e \in l.inside : GetPrev(l, e) \in l.inside \cup {NullPtr}
<1>1. PICK s : Shape(l, s)
  BY DEF Ordered
<1>2. l.inside = SetOfRow(s) /\ l.tail = LastIn(s) /\ l.head = FirstIn(s) /\ s \in Seq(Elements)
  BY <1>1, ShapeFacts
<1>3. l.kind # "single" => \A e \in SetOfRow(s) : GetPrev(l, e) \in SetOfRow(s) \cup {NullPtr}
  BY <1>1, NeighboursAre
<1> QED
  BY <1>2, <1>3, RowFacts

\* An insertion, when what was found has become the current element or when nothing was looked for.
LEMMA InsertedKeeps ==
  ASSUME ListInv, Running(list), NEW l, l = list, NEW a, Kin(l, a), Sound => Ordered(a) /\ a.inside = l.inside,
         NEW p, Sound => p \in l.inside \cup {NullPtr}, NEW e \in Fresh, Changed(Insert(a, p, e))
  PROVE  ListInv'
<1>1. PICK m : m = Insert(a, p, e)
  OBVIOUS
<1>2. Changed(m)
  BY <1>1 DEF Changed
<1>3. Kin(a, m)
  BY <1>1, KinInsert
<1>4. Kin(list, m)
  BY <1>3, KinOn
<1>5. Sound => e \in Elements /\ e \notin l.inside
  BY DEF ListInv, Fresh, Inside
<1>6. Sound => Good(m)
  <2> SUFFICES ASSUME Sound
               PROVE  Good(m)
    OBVIOUS
  <2> QED
    BY <1>1, <1>5, InsertGood
<1> QED
  BY <1>2, <1>4, <1>6, ChangedKeeps

\* The insertions keep the invariant: at the ends, sorted, before and behind a datum or an element.
LEMMA InsertionsKeep ==
  ASSUME ListInv, Running(list), Insertions
  PROVE  ListInv'
<1>1. PICK e \in Fresh :
        \/ PushBack(e) \/ PushFront(e) \/ InsertSorted(e) \/ InsLast(e)
        \/ \E d \in Elements : InsNext(d, e) \/ InsPrev(d, e)
        \/ \E p \in Inside : InsNextElem(p, e) \/ InsPrevElem(p, e)
  BY DEF Insertions
<1>2. PICK l : l = list
  OBVIOUS
<1>3. Sound => Ordered(l) /\ l.inside \subseteq used /\ Inside = l.inside
  BY <1>2 DEF ListInv, Inside
<1>4. Kin(l, l)
  BY KinSelf
<1>5. Sound => l.tail \in l.inside \cup {NullPtr}
  BY <1>3, EndsInside
<1>6. ASSUME NEW p, Sound => p \in l.inside \cup {NullPtr}, Changed(Insert(list, p, e))
      PROVE  ListInv'
  <2>1. Changed(Insert(l, p, e))
    BY <1>2, <1>6 DEF Changed
  <2> QED
    BY <1>2, <1>3, <1>4, <1>6, <2>1, InsertedKeeps
<1>7. CASE PushBack(e)
  BY <1>2, <1>5, <1>6, <1>7 DEF PushBack
<1>8. CASE PushFront(e)
  BY <1>6, <1>8 DEF PushFront
<1>9. CASE InsertSorted(e)
  <2>1. PICK g : g = GreaterNext(list, Value[e])
    OBVIOUS
  <2>2. PICK m : m = ProtInsert(g.list, g.at, e)
    OBVIOUS
  <2>3. ~IsKind({"set"}) /\ list' = m /\ used' = used \cup {e}
    BY <1>9, <2>1, <2>2 DEF InsertSorted
  <2>4. Kin(list, g.list)
    BY <2>1, KinSought
  <2>5. Kin(g.list, m)
    BY <2>2, KinInsert
  <2>6. Kin(list, m)
    BY <2>4, <2>5, KinOn
  <2>7. Sound => Good(m) /\ (Running(m) => m.inside \subseteq used \cup {e})
    <3> SUFFICES ASSUME Sound
                 PROVE  Good(m) /\ (Running(m) => m.inside \subseteq used \cup {e})
      OBVIOUS
    <3>1. PICK s : Shape(l, s)
      BY <1>3 DEF Ordered
    <3>2. PICK v : v = Value[e]
      OBVIOUS
    <3>3. g = GreaterNext(l, v)
      BY <1>2, <2>1, <3>2
    <3>4. g.at \in SetOfRow(s) \cup {NullPtr} /\ Shape(g.list, s) /\ g.list.inside = l.inside /\ SameClass(l, g.list)
      BY <3>1, <3>3, GreaterNextIs
    <3>5. l.inside = SetOfRow(s) /\ l.kind # "set"
      BY <1>2, <2>3, <3>1, ShapeFacts DEF IsKind
    <3>6. PICK k, p : k = g.list /\ p = g.at
      OBVIOUS
    <3>7. k.kind # "set" /\ Ordered(k) /\ k.inside = l.inside
      BY <3>4, <3>5, <3>6 DEF SameClass, Ordered, Distinct
    <3>8. m = Insert(k, p, e)
      BY <2>2, <3>6, <3>7 DEF Insert
    <3>9. e \in Elements /\ e \notin k.inside
      BY <1>3, <3>7 DEF Fresh
    <3>10. p \in k.inside \cup {NullPtr}
      BY <3>4, <3>5, <3>6, <3>7
    <3>11. Good(m) /\ (Running(m) => m.inside \subseteq k.inside \cup {e})
      BY <3>7, <3>8, <3>9, <3>10, InsertGood
    <3> QED
      BY <1>3, <3>7, <3>11
  <2>8. PICK T : T = used \cup {e}
    OBVIOUS
  <2> QED
    BY <2>3, <2>6, <2>7, <2>8, StepKeeps
<1>10. CASE InsLast(e)
  <2>1. PICK p : p = IF IsKind({"set"}) THEN NullPtr ELSE list.tail
    OBVIOUS
  <2>2. Changed(Insert(list, p, e))
    BY <1>10, <2>1 DEF InsLast
  <2>3. Sound => p \in l.inside \cup {NullPtr}
    BY <1>2, <1>5, <2>1
  <2> QED
    BY <1>6, <2>2, <2>3
<1>11. CASE \E d \in Elements : InsNext(d, e) \/ InsPrev(d, e)
  <2>1. PICK d \in Elements : InsNext(d, e) \/ InsPrev(d, e)
    BY <1>11
  <2>2. PICK f : f = Find(l, d)
    OBVIOUS
  <2>3. PICK a : a = AfterFind(l, f)
    OBVIOUS
  <2>4. Kin(l, a)
    BY <2>3, KinSteps
  <2>5. Sound => f \in l.inside \cup {NullPtr}
    BY <1>3, <2>2, FoundInside
  <2>6. Sound => Ordered(a) /\ a.inside = l.inside
    <3> SUFFICES ASSUME Sound
                 PROVE  Ordered(a) /\ a.inside = l.inside
      OBVIOUS
    <3> QED
      BY <1>3, <2>3, <2>5, AfterFindGood
  <2>7. CASE InsNext(d, e)
    <3>1. Changed(Insert(a, f, e))
      BY <1>2, <2>2, <2>3, <2>7 DEF InsNext, Changed
    <3> QED
      BY <1>2, <2>4, <2>5, <2>6, <3>1, InsertedKeeps
  <2>8. CASE InsPrev(d, e)
    <3>1. PICK p : p = GetPrev(l, f)
      OBVIOUS
    <3>2. Changed(Insert(a, p, e)) /\ f # NullPtr /\ l.kind # "single"
      BY <1>2, <2>2, <2>3, <2>8, <3>1 DEF InsPrev, Changed, IsKind
    <3>3. Sound => p \in l.inside \cup {NullPtr}
      BY <1>3, <2>5, <3>1, <3>2, EndsInside
    <3> QED
      BY <1>2, <2>4, <2>6, <3>2, <3>3, InsertedKeeps
  <2> QED
    BY <2>1, <2>7, <2>8
<1>12. CASE \E p \in Inside : InsNextElem(p, e) \/ InsPrevElem(p, e)
  <2>1. PICK p \in Inside : InsNextElem(p, e) \/ InsPrevElem(p, e)
    BY <1>12
  <2>2. CASE InsNextElem(p, e)
    BY <1>3, <1>6, <2>1, <2>2 DEF InsNextElem
  <2>3. CASE InsPrevElem(p, e)
    <3>1. PICK q : q = GetPrev(l, p)
      OBVIOUS
    <3>2. Changed(Insert(list, q, e)) /\ l.kind # "single"
      BY <1>2, <2>3, <3>1 DEF InsPrevElem, Changed, IsKind
    <3>3. Sound => q \in l.inside \cup {NullPtr}
      BY <1>3, <2>1, <3>1, <3>2, EndsInside
    <3> QED
      BY <1>6, <3>2, <3>3
  <2> QED
    BY <2>1, <2>2, <2>3
<1> QED
  BY <1>1, <1>7, <1>8, <1>9, <1>10, <1>11, <1>12

\* Taking out an element that was found or named, or the one behind it.
LEMMA TakenAfterKeeps ==
  ASSUME ListInv, Running(list), NEW a, Kin(list, a), Sound => Ordered(a) /\ a.inside = list.inside,
         NEW p, Sound => p \in a.inside \cup {NullPtr}, NEW r, r = RemoveAfter(a, p) \/ (r = Beside(a, p) /\ a.kind # "single"),
         TakenOut(r)
  PROVE  ListInv'
<1>1. PICK m : m = r.list
  OBVIOUS
<1>2. Kin(a, m)
  <2>1. CASE r = RemoveAfter(a, p)
    BY <1>1, <2>1, KinRemoved
  <2>2. CASE r = Beside(a, p)
    <3>1. r = With(NullPtr, a) \/ r = PrivRemove(a, p)
      BY <2>2 DEF Beside, With
    <3>2. r = With(NullPtr, a) => m = a
      BY <1>1, WithIs
    <3>3. Kin(a, a) /\ Kin(a, PrivRemove(a, p).list)
      BY KinSelf, KinRemoved
    <3> QED
      BY <1>1, <3>1, <3>2, <3>3
  <2> QED
    BY <2>1, <2>2
<1>3. Kin(list, m)
  BY <1>2, KinOn
<1>4. Sound => Shrunk(list, m)
  <2> SUFFICES ASSUME Sound
               PROVE  Shrunk(list, m)
    OBVIOUS
  <2>1. PICK s : Shape(a, s)
    BY DEF Ordered
  <2>2. p \in SetOfRow(s) \cup {NullPtr}
    BY <2>1, ShapeFacts
  <2>3. Shrunk(a, m)
    <3>1. CASE r = RemoveAfter(a, p)
      BY <1>1, <2>1, <2>2, <3>1, RemoveAfterShrinks
    <3>2. CASE r = Beside(a, p) /\ a.kind # "single"
      <4>1. TakesOut(r, s, p)
        BY <2>1, <2>2, <3>2, BesideIs
      <4> QED
        BY <1>1, <2>1, <2>2, <4>1, TakesOutShrinks
    <3> QED
      BY <3>1, <3>2
  <2> QED
    BY <2>3 DEF Shrunk
<1> QED
  BY <1>1, <1>3, <1>4, TakenOutKeeps

\* The removals keep it: at the ends, of a datum or an element, of the one behind or before it, of everything.
LEMMA RemovalsKeep ==
  ASSUME ListInv, Running(list), Removals
  PROVE  ListInv'
<1>1. \/ PopFront \/ PopLast \/ ClearList
      \/ \E d \in Elements : RemNext(d) \/ RemData(d)
      \/ \E p \in Inside : RemNextElem(p) \/ RemPrevElem(p) \/ RemElem(p)
  BY DEF Removals
<1>2. PICK l : l = list
  OBVIOUS
<1>3. Sound => Ordered(l) /\ Inside = l.inside /\ l.inside = list.inside
  BY <1>2 DEF ListInv, Inside
<1>4. Kin(list, l)
  BY <1>2, KinSelf
<1>5. ASSUME NEW p, Sound => p \in l.inside \cup {NullPtr}, NEW r, TakenOut(r),
             r = RemoveAfter(l, p) \/ (r = Beside(l, p) /\ l.kind # "single")
      PROVE  ListInv'
  BY <1>3, <1>4, <1>5, TakenAfterKeeps
<1>6. CASE PopFront
  <2>1. PICK p, r : p = NullPtr /\ r = RemoveAfter(l, p)
    OBVIOUS
  <2>2. TakenOut(r)
    BY <1>2, <1>6, <2>1 DEF PopFront, TakenOut, Looked, Changed
  <2> QED
    BY <1>5, <2>1, <2>2
<1>7. CASE PopLast
  <2>1. PICK r : r = PopBack(l)
    OBVIOUS
  <2>2. PICK m : m = r.list
    OBVIOUS
  <2>3. TakenOut(r)
    BY <1>2, <1>7, <2>1 DEF PopLast, TakenOut, Looked, Changed
  <2>4. Kin(l, m)
    BY <2>1, <2>2, KinClear
  <2>5. Sound => Shrunk(l, m)
    <3> SUFFICES ASSUME Sound
                 PROVE  Shrunk(l, m)
      OBVIOUS
    <3>1. PICK s : Shape(l, s)
      BY <1>3 DEF Ordered
    <3> QED
      BY <2>1, <2>2, <3>1, PopBackIs
  <2> QED
    BY <1>2, <2>2, <2>3, <2>4, <2>5, TakenOutKeeps
<1>8. CASE ClearList
  <2>1. PICK m : m = Clear(l)
    OBVIOUS
  <2>2. Looked(m)
    BY <1>2, <1>8, <2>1 DEF ClearList, Looked
  <2>3. Kin(l, m)
    BY <2>1, KinClear
  <2>4. Sound => Good(m) /\ (Running(m) => m.inside \subseteq l.inside)
    <3> SUFFICES ASSUME Sound
                 PROVE  Running(m) => m = l
      BY <1>3 DEF Good
    <3>1. l \in ListRecord
      BY <1>3, ShapeFacts DEF Ordered
    <3> QED
      BY <2>1, <3>1, ClearIs
  <2> QED
    BY <1>2, <2>2, <2>3, <2>4, LookedKeeps
<1>9. CASE \E d \in Elements : RemNext(d) \/ RemData(d)
  <2>1. PICK d \in Elements : RemNext(d) \/ RemData(d)
    BY <1>9
  <2>2. PICK f : f = Sought(d)
    OBVIOUS
  <2>3. PICK a : a = AfterFind(l, f)
    OBVIOUS
  <2>4. Kin(list, a)
    BY <1>2, <2>3, KinSteps
  <2>5. Sound => f \in l.inside \cup {NullPtr}
    BY <1>2, <1>3, <2>2, FoundInside DEF Sought
  <2>6. Sound => Ordered(a) /\ a.inside = list.inside
    <3> SUFFICES ASSUME Sound
                 PROVE  Ordered(a) /\ a.inside = l.inside
      BY <1>2
    <3> QED
      BY <1>3, <2>3, <2>5, AfterFindGood
  <2>7. Sound => f \in a.inside \cup {NullPtr}
    BY <1>2, <2>5, <2>6
  <2>8. CASE RemNext(d)
    <3>1. CASE f = NullPtr
      <4>1. Looked(l)
        BY <1>2, <2>2, <2>8, <3>1 DEF RemNext, Looked
      <4>2. Sound => Good(l) /\ (Running(l) => l.inside \subseteq list.inside)
        BY <1>3 DEF Good
      <4> QED
        BY <1>4, <4>1, <4>2, LookedKeeps
    <3>2. CASE f # NullPtr
      <4>1. PICK r : r = RemoveAfter(a, f)
        OBVIOUS
      <4>2. TakenOut(r)
        BY <1>2, <2>2, <2>3, <2>8, <3>2, <4>1 DEF RemNext, TakenOut, Looked, Changed
      <4> QED
        BY <2>4, <2>6, <2>7, <4>1, <4>2, TakenAfterKeeps
    <3> QED
      BY <3>1, <3>2
  <2>9. CASE RemData(d)
    <3>1. PICK r : r = Beside(a, f)
      OBVIOUS
    <3>2. TakenOut(r) /\ l.kind # "single"
      BY <1>2, <2>2, <2>3, <2>9, <3>1 DEF RemData, TakenOut, Looked, Changed, IsKind
    <3>3. a.kind # "single"
      BY <1>2, <2>4, <3>2 DEF Kin, SameClass, ListInv
    <3> QED
      BY <2>4, <2>6, <2>7, <3>1, <3>2, <3>3, TakenAfterKeeps
  <2> QED
    BY <2>1, <2>8, <2>9
<1>10. CASE \E p \in Inside : RemNextElem(p) \/ RemPrevElem(p) \/ RemElem(p)
  <2>1. PICK p \in Inside : RemNextElem(p) \/ RemPrevElem(p) \/ RemElem(p)
    BY <1>10
  <2>2. Sound => p \in l.inside \cup {NullPtr} /\ p \in l.inside
    BY <1>3, <2>1
  <2>3. CASE RemNextElem(p)
    <3>1. PICK r : r = RemoveAfter(l, p)
      OBVIOUS
    <3>2. TakenOut(r)
      BY <1>2, <2>3, <3>1 DEF RemNextElem, TakenOut, Looked, Changed
    <3> QED
      BY <1>5, <2>2, <3>1, <3>2
  <2>4. CASE RemPrevElem(p)
    <3>1. PICK q, r : q = GetPrev(l, p) /\ r = Beside(l, q)
      OBVIOUS
    <3>2. TakenOut(r) /\ l.kind # "single"
      BY <1>2, <2>4, <3>1 DEF RemPrevElem, TakenOut, Looked, Changed, IsKind
    <3>3. Sound => q \in l.inside \cup {NullPtr}
      BY <1>3, <2>2, <3>1, <3>2, EndsInside
    <3> QED
      BY <1>5, <3>1, <3>2, <3>3
  <2>5. CASE RemElem(p)
    <3>1. PICK r : r = Beside(l, p)
      OBVIOUS
    <3>2. TakenOut(r) /\ l.kind # "single"
      BY <1>2, <2>5, <3>1 DEF RemElem, TakenOut, Looked, Changed, IsKind
    <3> QED
      BY <1>5, <2>2, <3>1, <3>2
  <2> QED
    BY <2>1, <2>3, <2>4, <2>5
<1> QED
  BY <1>1, <1>6, <1>7, <1>8, <1>9, <1>10

\* The searches keep it: find() by pointer and by value, and the operator [].
LEMMA QueriesKeep ==
  ASSUME ListInv, Running(list), Queries
  PROVE  ListInv'
<1>1. PICK l : l = list
  OBVIOUS
<1>2. Sound => Ordered(l)
  BY <1>1 DEF ListInv
<1>3. CASE \E d \in Elements : FindPointer(d) \/ FindEqual(d)
  <2>1. PICK d \in Elements : FindPointer(d) \/ FindEqual(d)
    BY <1>3
  <2>2. PICK f : f \in {Find(l, d), FindData(l, Value[d])} /\ Looked(AfterFind(list, f))
    BY <1>1, <2>1 DEF FindPointer, FindEqual
  <2>3. PICK m : m = AfterFind(l, f)
    OBVIOUS
  <2>4. Looked(m)
    BY <1>1, <2>2, <2>3 DEF Looked
  <2>5. Kin(l, m)
    BY <2>3, KinSteps
  <2>6. Sound => f \in l.inside \cup {NullPtr}
    BY <1>2, <2>2, FoundInside
  <2>7. Sound => Good(m) /\ (Running(m) => m.inside \subseteq l.inside)
    <3> SUFFICES ASSUME Sound
                 PROVE  Ordered(m) /\ m.inside = l.inside
      BY DEF Good
    <3> QED
      BY <1>2, <2>3, <2>6, AfterFindGood
  <2> QED
    BY <1>1, <2>4, <2>5, <2>7, LookedKeeps
<1>4. CASE \E i \in Indexes : GetIndex(i)
  <2>1. PICK i \in Indexes : GetIndex(i)
    BY <1>4
  <2>2. i \in Int
    BY ListsAssumption
  <2>3. PICK g : g = GetByIndex(l, i)
    OBVIOUS
  <2>4. PICK m : m = g.list
    OBVIOUS
  <2>5. Looked(m)
    BY <1>1, <2>1, <2>3, <2>4 DEF GetIndex, Looked
  <2>6. Kin(l, m)
    BY <2>3, <2>4, KinGet
  <2>7. Sound => Shrunk(l, m)
    <3> SUFFICES ASSUME Sound
                 PROVE  Shrunk(l, m)
      OBVIOUS
    <3>1. PICK s : Shape(l, s)
      BY <1>2 DEF Ordered
    <3>2. InRow(m, s)
      BY <2>2, <2>3, <2>4, <3>1, GetIs
    <3>3. l.inside = SetOfRow(s) /\ (Running(m) => Shape(m, s) /\ m.inside = SetOfRow(s))
      BY <3>1, <3>2, ShapeFacts DEF InRow
    <3> QED
      BY <3>3 DEF Shrunk
  <2>8. Sound => Good(m) /\ (Running(m) => m.inside \subseteq l.inside)
    BY <1>2, <2>6, <2>7, ShrunkGood DEF Shrunk
  <2> QED
    BY <1>1, <2>5, <2>6, <2>8, LookedKeeps
<1> QED
  BY <1>3, <1>4 DEF Queries

\* The other list's content: that of a set is what the set holds of it.
LEMMA OtherIs ==
  ASSUME NEW s \in OtherLists, NEW o, o = Other(s)
  PROVE  o \in Seq(Elements) /\ Len(o) \in Nat /\ Injective(o) /\ SetOfRow(o) \subseteq SetOfRow(s) /\ SetOfRow(s) = Range(s)
<1>1. s \in Seq(Elements) /\ IsInjective(s)
  BY ListsAssumption
<1>2. Len(s) \in Nat /\ DOMAIN s = 1 .. Len(s) /\ SetOfRow(s) = Range(s)
  BY <1>1, RowFacts
<1>3. Injective(s)
  BY <1>1, <1>2 DEF IsInjective, Injective
<1>4. CASE o = s
  BY <1>1, <1>2, <1>3, <1>4
<1>5. CASE o = Row(SetOf(s))
  <2>1. PICK r : r = SetOf(s)
    OBVIOUS
  <2>2. IsSet(r) /\ r.inside \subseteq SetOfRow(s)
    BY <1>2, <2>1, SetOfIs
  <2>3. Row(r) \in Seq(Elements) /\ Len(Row(r)) \in Nat /\ Injective(Row(r)) /\ SetOfRow(Row(r)) = r.inside
    BY <2>2, SetFacts
  <2> QED
    BY <1>2, <1>5, <2>1, <2>2, <2>3
<1> QED
  BY <1>4, <1>5 DEF Other

\* Adding everything of a list whose elements are new.
LEMMA AddAllKeeps ==
  ASSUME ListInv, Running(list), NEW a, Kin(list, a), Sound /\ Running(a) => a = list, NEW s \in OtherLists, Range(s) \cap used = {},
         Changed(AddAll(a, Other(s)))
  PROVE  ListInv'
<1>1. PICK o, m, D : o = Other(s) /\ m = AddThose(a, o, D) /\ D = Elements
  OBVIOUS
<1>2. o \in Seq(Elements) /\ Len(o) \in Nat /\ Injective(o) /\ SetOfRow(o) \cap used = {}
  BY <1>1, OtherIs
<1>3. Changed(m)
  BY <1>1 DEF AddAll, Changed
<1>4. Kin(a, m)
  BY <1>1, <1>2, KinOperators
<1>5. Kin(list, m)
  BY <1>4, KinOn
<1>6. Sound => Good(m)
  <2> SUFFICES ASSUME Sound
               PROVE  Good(m)
    OBVIOUS
  <2>1. CASE Running(a)
    <3>1. PICK l : l = list
      OBVIOUS
    <3>2. Ordered(l) /\ l.inside \subseteq used /\ m = AddThose(l, o, D)
      BY <1>1, <2>1, <3>1 DEF ListInv, Inside
    <3>3. PICK q : Shape(l, q)
      BY <3>2 DEF Ordered
    <3>4. SetOfRow(o) \cap l.inside = {} /\ D \subseteq Elements
      BY <1>1, <1>2, <3>2
    <3>5. Grown(l, m, SetOfRow(o), D)
      BY <1>2, <3>2, <3>3, <3>4, AddThoseGrows DEF Ordered
    <3> QED
      BY <3>5, GrownGood
  <2>2. CASE ~Running(a)
    <3>1. m = a
      BY <1>1, <1>2, <2>2, AddStopped
    <3> QED
      BY <2>2, <3>1 DEF Good
  <2> QED
    BY <2>1, <2>2
<1> QED
  BY <1>3, <1>5, <1>6, ChangedKeeps

\* The set functions' result takes the place of the set.
LEMMA SetMadeKeeps ==
  ASSUME ListInv, Running(list), IsKind({"set"}), NEW m, Sound => IsSet(m), Changed(m)
  PROVE  ListInv'
<1>1. list.kind = "set" /\ ~list.ring
  BY DEF ListInv, IsKind
<1>2. Sound
  BY <1>1 DEF Sound
<1>3. IsSet(m) /\ Ordered(list)
  BY <1>2 DEF ListInv
<1>4. PICK t : Shape(m, t)
  BY <1>3 DEF IsSet
<1>5. m \in ListRecord /\ m.kind = "set" /\ ~m.ring
  BY <1>3, <1>4, ShapeFacts DEF IsSet
<1>6. list.ring \in BOOLEAN /\ m.ring \in BOOLEAN
  <2>1. PICK l : l = list
    OBVIOUS
  <2>2. PICK s : Shape(l, s)
    BY <1>3, <2>1 DEF Ordered
  <2>3. l \in ListRecord
    BY <2>2, ShapeFacts
  <2> QED
    BY <1>5, <2>1, <2>3 DEF ListRecord
<1>7. m.ring = list.ring
  BY <1>1, <1>5, <1>6
<1>8. Kin(list, m)
  BY <1>1, <1>5, <1>7 DEF Kin, SameClass, ListRecord
<1>9. Good(m)
  BY <1>3 DEF Good, Ordered, IsSet
<1> QED
  BY <1>8, <1>9, ChangedKeeps

\* A set in order is a set.
LEMMA SetIs ==
  ASSUME ListInv, Running(list), IsKind({"set"}), NEW l, l = list
  PROVE  Sound /\ IsSet(l)
<1>1. list.kind = "set" /\ ~list.ring
  BY DEF ListInv, IsKind
<1>2. Sound
  BY <1>1 DEF Sound
<1> QED
  BY <1>1, <1>2 DEF ListInv, Ordered, IsSet

\* The operators keep it: +=, -=, = and the set functions.
LEMMA OperatorsKeep ==
  ASSUME ListInv, Running(list), Operators
  PROVE  ListInv'
<1>1. PICK s \in OtherLists :
        \/ Subtract(s) \/ Unite(s) \/ Intersect(s) \/ Subtracted(s)
        \/ Range(s) \cap used = {} /\ (AddList(s) \/ Assign(s))
  BY DEF Operators
<1>2. PICK l, o, r : l = list /\ o = Other(s) /\ r = SetOf(s)
  OBVIOUS
<1>3. Sound => Ordered(l)
  BY <1>2 DEF ListInv
<1>4. IsSet(r)
  <2>1. s \in Seq(Elements)
    BY ListsAssumption
  <2>2. Len(s) \in Nat
    BY <2>1, RowFacts
  <2> QED
    BY <1>2, <2>2, SetOfIs
<1>5. CASE Subtract(s)
  <2>1. PICK m : m = SubtractAll(l, o)
    OBVIOUS
  <2>2. Changed(m)
    BY <1>2, <1>5, <2>1 DEF Subtract, Changed
  <2>3. o \in Seq(Elements)
    BY <1>2, OtherIs
  <2>4. Kin(l, m)
    BY <2>1, <2>3, KinOperators
  <2>5. Sound => Shrunk(l, m)
    <3> SUFFICES ASSUME Sound
                 PROVE  Shrunk(l, m)
      OBVIOUS
    <3>1. PICK q : Shape(l, q)
      BY <1>3 DEF Ordered
    <3>2. Running(m) => \E t : Shape(m, t) /\ SetOfRow(t) \subseteq SetOfRow(q)
      BY <2>1, <2>3, <3>1, SubtractAllIsRow
    <3>3. l.inside = SetOfRow(q)
      BY <3>1, ShapeFacts
    <3>4. \A t : Shape(m, t) => m.inside = SetOfRow(t)
      BY ShapeFacts
    <3> QED
      BY <3>2, <3>3, <3>4 DEF Shrunk
  <2>6. Sound => Good(m)
    BY <1>3, <2>4, <2>5, ShrunkGood
  <2> QED
    BY <1>2, <2>2, <2>4, <2>6, ChangedKeeps
<1>6. CASE Unite(s)
  <2>1. PICK m : m = SetUnion(l, r)
    OBVIOUS
  <2>2. Changed(m) /\ IsKind({"set"})
    BY <1>2, <1>6, <2>1 DEF Unite, Changed
  <2>3. IsSet(l)
    BY <1>2, <2>2, SetIs
  <2>4. IsSet(m)
    BY <1>4, <2>1, <2>3, SetUnionIs
  <2> QED
    BY <2>2, <2>4, SetMadeKeeps
<1>7. CASE Intersect(s)
  <2>1. PICK m : m = SetIntersection(l, r)
    OBVIOUS
  <2>2. Changed(m) /\ IsKind({"set"})
    BY <1>2, <1>7, <2>1 DEF Intersect, Changed
  <2>3. IsSet(l)
    BY <1>2, <2>2, SetIs
  <2>4. IsSet(m)
    BY <1>4, <2>1, <2>3, SetIntersectionIs
  <2> QED
    BY <2>2, <2>4, SetMadeKeeps
<1>8. CASE Subtracted(s)
  <2>1. PICK m : m = SetDifference(l, r)
    OBVIOUS
  <2>2. Changed(m) /\ IsKind({"set"})
    BY <1>2, <1>8, <2>1 DEF Subtracted, Changed
  <2>3. IsSet(l)
    BY <1>2, <2>2, SetIs
  <2>4. IsSet(m)
    BY <1>4, <2>1, <2>3, SetDifferenceIs
  <2> QED
    BY <2>2, <2>4, SetMadeKeeps
<1>9. CASE Range(s) \cap used = {} /\ AddList(s)
  <2>1. Changed(AddAll(l, Other(s)))
    BY <1>2, <1>9 DEF AddList, Changed
  <2>2. Kin(list, l)
    BY <1>2, KinSelf
  <2> QED
    BY <1>2, <1>9, <2>1, <2>2, AddAllKeeps
<1>10. CASE Range(s) \cap used = {} /\ Assign(s)
  <2>1. PICK a : a = Clear(l)
    OBVIOUS
  <2>2. Changed(AddAll(a, Other(s)))
    BY <1>2, <1>10, <2>1 DEF Assign, Changed
  <2>3. Kin(list, a)
    BY <1>2, <2>1, KinClear
  <2>4. Sound /\ Running(a) => a = list
    <3> SUFFICES ASSUME Sound
                 PROVE  Running(a) => a = l
      BY <1>2
    <3>1. l \in ListRecord
      BY <1>3, ShapeFacts DEF Ordered
    <3> QED
      BY <2>1, <3>1, ClearIs
  <2> QED
    BY <1>10, <2>2, <2>3, <2>4, AddAllKeeps
<1> QED
  BY <1>1, <1>5, <1>6, <1>7, <1>8, <1>9, <1>10

\* Every call of a method keeps the invariant.
LEMMA NextKeeps == ListInv /\ [ListNext]_listVars => ListInv'
<1> SUFFICES ASSUME ListInv, [ListNext]_listVars
             PROVE  ListInv'
  OBVIOUS
<1>1. CASE UNCHANGED listVars
  <2>1. list' = list /\ used' = used
    BY <1>1 DEF listVars
  <2> QED
    BY <2>1 DEF ListInv, Sound, Inside
<1>2. CASE ListNext
  <2>1. Running(list)
    BY <1>2 DEF ListNext
  <2>2. Insertions \/ Removals \/ Queries \/ Operators
    <3>1. CASE StackCalls \/ QueueCalls
      BY <3>1 DEF StackCalls, QueueCalls, StackPush, StackPop, StackShift, StackUnshift, QueuePop, QueueShift, QueueUnshift,
                  Insertions, Removals
    <3> QED
      BY <1>2, <3>1 DEF ListNext
  <2> QED
    BY <2>1, <2>2, InsertionsKeep, RemovalsKeep, QueriesKeep, OperatorsKeep
<1> QED
  BY <1>1, <1>2

\* The invariant of the lists holds in every state.
THEOREM Always == ListSpec => []ListInv
<1> QED
  BY InitKeeps, NextKeeps, PTL DEF ListSpec

-----------------------------------------------------------------------------
(* What the runs check *)

\* With the invariant, links, ends, count and members of the list agree, whatever methods were called.
LEMMA IntactHolds == ListInv => ListIntact
<1> SUFFICES ASSUME ListInv, Sound
             PROVE  ListIntact
  BY DEF ListIntact
<1>1. PICK l : l = list
  OBVIOUS
<1>2. PICK s : Shape(l, s)
  BY <1>1 DEF ListInv, Ordered
<1>3. PICK n : n = Len(s)
  OBVIOUS
<1>4. /\ s \in Seq(Elements) /\ Row(l) = s /\ l.inside = SetOfRow(s) /\ l.count = n /\ l.head = FirstIn(s) /\ l.tail = LastIn(s)
      /\ l.curr \in SetOfRow(s) \cup {NullPtr}
  BY <1>2, <1>3, ShapeFacts
<1>5. /\ n \in Nat /\ Range(s) = SetOfRow(s) /\ (n = 0 => LastIn(s) = NullPtr)
      /\ (n # 0 => FirstIn(s) = s[1] /\ LastIn(s) = s[n])
  BY <1>3, <1>4, RowFacts
<1>6. n # 0 => l.next[LastIn(s)] = NullPtr \/ (l.ring /\ l.next[LastIn(s)] = s[1])
  BY <1>2, <1>3, <1>5 DEF Shape, LinkShape
<1>7. l.kind # "single" =>
        /\ \A i \in 2 .. n : l.prev[s[i]] = s[i - 1]
        /\ n # 0 => l.prev[s[1]] = IF l.next[LastIn(s)] = NullPtr THEN NullPtr ELSE LastIn(s)
  BY <1>2, <1>3, <1>5 DEF Shape, LinkShape
<1> DEFINE Loose(e, end) == e \in {NullPtr} \cup (IF l.ring THEN {end} ELSE {})
<1>8. n = 0 \/ Loose(l.next[l.tail], l.head)
  BY <1>4, <1>5, <1>6
<1>9. l.kind # "single" => n = 0 \/ Loose(l.prev[l.head], l.tail)
  BY <1>4, <1>5, <1>6, <1>7
<1>10. Range(s) = l.inside /\ l.tail = IF n = 0 THEN NullPtr ELSE s[n]
  BY <1>4, <1>5
<1>11. ~Single(l) => /\ \A i \in 2 .. n : l.prev[s[i]] = s[i - 1]
                     /\ n = 0 \/ Loose(l.prev[l.head], l.tail)
  BY <1>7, <1>9 DEF Single
<1> HIDE DEF Loose
<1>12. Row(list) = s /\ Len(Row(list)) = n /\ list = l /\ Inside = l.inside
  BY <1>1, <1>3, <1>4 DEF Inside
<1> QED
  BY <1>4, <1>8, <1>10, <1>11, <1>12 DEF ListIntact, Loose

\* With it, find() meets what is there and nothing else.
LEMMA SearchHolds == ListInv => SearchExact
<1> SUFFICES ASSUME ListInv, Sound
             PROVE  SearchExact
  BY DEF SearchExact
<1>1. PICK l : l = list
  OBVIOUS
<1>2. PICK s : Shape(l, s)
  BY <1>1 DEF ListInv, Ordered
<1>3. Distinct(l)
  BY <1>1 DEF ListInv, Ordered
<1>4. \A d \in Elements : Find(l, d) = IF d \in l.inside THEN d ELSE NullPtr
  BY <1>2, <1>3, FindIs
<1>5. \A v : /\ v \in Values(l.inside) => FindData(l, v) \in l.inside /\ Value[FindData(l, v)] = v
             /\ v \notin Values(l.inside) => FindData(l, v) = NullPtr
  BY <1>2, FindDataIs
<1> QED
  BY <1>1, <1>4, <1>5 DEF SearchExact, Inside

\* With it, an insertion at any place puts the element there.
LEMMA InsertedHolds == ListInv => InsertedWhereAsked
<1> SUFFICES ASSUME ListInv, Sound, NEW e \in Fresh, NEW p \in Inside \cup {NullPtr},
                    NEW after, after = Connect(Insert(list, p, e)), Running(after),
                    NEW spot, spot = (IF p = NullPtr THEN 1 ELSE PlaceOf(Row(list), p) + 1),
                    NEW taken, taken = (~IsKind({"set"}) \/ Value[e] \notin Values(Inside))
             PROVE  Row(after) = IF taken THEN InsertAt(Row(list), spot, e) ELSE Row(list)
  BY DEF InsertedWhereAsked
<1>1. PICK l : l = list
  OBVIOUS
<1>2. PICK s : Shape(l, s)
  BY <1>1 DEF ListInv, Ordered
<1>3. Row(l) = s /\ l.inside = SetOfRow(s)
  BY <1>2, ShapeFacts
<1>4. e \in Elements /\ e \notin SetOfRow(s) /\ p \in SetOfRow(s) \cup {NullPtr}
  BY <1>1, <1>3 DEF ListInv, Fresh, Inside
<1>5. taken = (l.kind # "set" \/ Value[e] \notin Values(SetOfRow(s)))
  BY <1>1, <1>3 DEF IsKind, Inside
<1>6. spot = (IF p = NullPtr THEN 1 ELSE PlaceOf(s, p) + 1)
  BY <1>1, <1>3
<1>7. PICK m : m = Insert(l, p, e)
  OBVIOUS
<1>8. PICK t : t = IF taken THEN InsertAt(s, spot, e) ELSE s
  OBVIOUS
<1>9. InRow(m, t)
  BY <1>2, <1>4, <1>5, <1>6, <1>7, <1>8, InsertIs
<1>10. after = Connect(m)
  BY <1>1, <1>7
<1>11. Shape(after, t)
  BY <1>9, <1>10, ConnectRow DEF InRow
<1>12. Row(after) = t
  BY <1>11, ShapeFacts
<1> QED
  BY <1>1, <1>3, <1>8, <1>12

\* What TakesOut says is what RemovedAsAsked asks for.
LEMMA TakesOutIs ==
  ASSUME NEW r, NEW s, NEW e, TakesOut(r, s, e), NEW after, after = Connect(r.list), Running(after)
  PROVE  r.at = e /\ Row(after) = IF e = NullPtr THEN s ELSE RemoveAt(s, PlaceOf(s, e))
<1>1. PICK t, m : t = (IF e = NullPtr THEN s ELSE RemoveAt(s, PlaceOf(s, e))) /\ m = r.list
  OBVIOUS
<1>2. InRow(m, t) /\ r.at = e
  BY <1>1 DEF TakesOut
<1>3. Shape(after, t)
  BY <1>1, <1>2, ConnectRow DEF InRow
<1> QED
  BY <1>1, <1>2, <1>3, ShapeFacts

\* What follows an element in a list in order.
LEMMA BehindIs ==
  ASSUME NEW l, NEW s, Shape(l, s), NEW p \in SetOfRow(s)
  PROVE  l.next[p] = IF p # l.tail THEN s[PlaceOf(s, p) + 1] ELSE IF l.ring THEN l.next[p] ELSE NullPtr
<1>1. s \in Seq(Elements) /\ Injective(s) /\ Leads(l.next, s) /\ l.tail = LastIn(s)
  BY ShapeFacts
<1>2. PICK k \in 1 .. Len(s) : k = PlaceOf(s, p) /\ s[k] = p
  BY <1>1, PlaceIs
<1>3. Len(s) \in Nat /\ Len(s) # 0 /\ LastIn(s) = s[Len(s)]
  BY <1>1, <1>2, RowFacts
<1>4. CASE p # l.tail
  <2>1. k \in 1 .. Len(s) - 1
    BY <1>1, <1>2, <1>3, <1>4
  <2>2. l.next[s[k]] = s[k + 1]
    BY <1>1, <2>1 DEF Leads
  <2> QED
    BY <1>2, <1>4, <2>2
<1>5. CASE p = l.tail /\ ~l.ring
  BY <1>1, <1>3, <1>5 DEF Shape, LinkShape
<1> QED
  BY <1>4, <1>5

\* With it, a removal takes out the element asked for and leaves the others in order.
LEMMA RemovedHolds == ListInv => RemovedAsAsked
<1> SUFFICES ASSUME ListInv, Sound
             PROVE  RemovedAsAsked
  BY DEF RemovedAsAsked
<1>1. PICK l : l = list
  OBVIOUS
<1>2. PICK s : Shape(l, s)
  BY <1>1 DEF ListInv, Ordered
<1>3. Row(l) = s /\ l.inside = SetOfRow(s) /\ l.tail \in SetOfRow(s) \cup {NullPtr}
  BY <1>2, ShapeFacts, RowFacts
<1> DEFINE Behind(p) == IF p # l.tail THEN s[PlaceOf(s, p) + 1] ELSE IF l.ring THEN l.next[p] ELSE NullPtr
           Takes(r, e) == LET after == Connect(r.list)
                          IN Running(after) => /\ r.at = e
                                               /\ Row(after) = IF e = NullPtr THEN s ELSE RemoveAt(s, PlaceOf(s, e))
<1>4. \A r, e : TakesOut(r, s, e) => Takes(r, e)
  BY TakesOutIs
<1>5. Takes(RemoveAfter(l, NullPtr), l.head)
  <2>1. PICK p, r, e : p = NullPtr /\ r = RemoveAfter(l, p) /\ e = IF p = NullPtr THEN l.head ELSE l.next[p]
    OBVIOUS
  <2>2. TakesOut(r, s, e)
    BY <1>2, <2>1, RemoveAfterIs
  <2> HIDE DEF Takes
  <2> QED
    BY <1>4, <2>1, <2>2
<1>6. ASSUME NEW p \in l.inside
      PROVE  Takes(RemoveAfter(l, p), Behind(p))
  <2>1. PICK r, e : r = RemoveAfter(l, p) /\ e = IF p = NullPtr THEN l.head ELSE l.next[p]
    OBVIOUS
  <2>2. p \in SetOfRow(s) /\ p # NullPtr
    BY <1>2, <1>3, ShapeFacts, RowFacts
  <2>3. TakesOut(r, s, e)
    BY <1>2, <2>1, <2>2, RemoveAfterIs
  <2>4. e = Behind(p)
    BY <1>2, <2>1, <2>2, BehindIs
  <2> HIDE DEF Takes, Behind
  <2> QED
    BY <1>4, <2>1, <2>3, <2>4
<1>7. l.kind # "single" => Takes(PopBack(l), l.tail)
  <2>1. PICK r : r = PopBack(l)
    OBVIOUS
  <2>2. l.kind # "single" => TakesOut(r, s, l.tail)
    BY <1>2, <2>1, PopBackIs
  <2> HIDE DEF Takes
  <2> QED
    BY <1>4, <2>1, <2>2
<1>8. ASSUME NEW p \in l.inside, l.kind # "single"
      PROVE  Takes(PrivRemove(l, p), p)
  <2>1. PICK r : r = PrivRemove(l, p)
    OBVIOUS
  <2>2. p \in SetOfRow(s) /\ p # NullPtr
    BY <1>2, <1>3, ShapeFacts, RowFacts
  <2>3. r = Beside(l, p)
    BY <2>1, <2>2 DEF Beside
  <2>4. TakesOut(r, s, p)
    BY <1>2, <1>8, <2>2, <2>3, BesideIs
  <2> HIDE DEF Takes
  <2> QED
    BY <1>4, <2>1, <2>4
<1>9. list = l /\ Row(list) = s /\ Inside = l.inside
  BY <1>1, <1>3 DEF Inside
<1> QED
  BY <1>5, <1>6, <1>7, <1>8, <1>9 DEF RemovedAsAsked, Single

\* With it, and while the program runs, the set functions give what the functions on the sets of values give.
LEMMA SetsHold == ListInv /\ Running(list) => SetsLikeSets
<1> SUFFICES ASSUME ListInv, Running(list), IsKind({"set"})
             PROVE  SetsLikeSets
  BY DEF SetsLikeSets
<1>1. PICK l : l = list
  OBVIOUS
<1>2. IsSet(l)
  BY <1>1, SetIs
<1>3. \A d, e \in l.inside : Value[d] = Value[e] => d = e
  BY <1>2, SetFacts
<1> DEFINE Alike(r) ==
      /\ Values(SetUnion(l, r).inside) = Values(l.inside) \cup Values(r.inside)
      /\ IsSubsetOf(l, r) <=> Values(l.inside) \subseteq Values(r.inside)
      /\ SetsEqual(l, r) <=> Values(l.inside) = Values(r.inside)
      /\ Values(SetDifference(l, r).inside) \subseteq Values(l.inside) \ Values(r.inside)
      /\ Values(SetIntersection(l, r).inside) \subseteq Values(l.inside) \cap Values(r.inside)
<1>4. ASSUME NEW s \in OtherLists
      PROVE  Alike(SetOf(s))
  <2>1. PICK r : r = SetOf(s)
    OBVIOUS
  <2>2. IsSet(r)
    <3>1. s \in Seq(Elements)
      BY ListsAssumption
    <3>2. Len(s) \in Nat
      BY <3>1, RowFacts
    <3> QED
      BY <2>1, <3>2, SetOfIs
  <2>3. Values(SetUnion(l, r).inside) = Values(l.inside) \cup Values(r.inside)
    BY <1>2, <2>2, SetUnionIs
  <2>4. Values(SetDifference(l, r).inside) \subseteq Values(l.inside) \ Values(r.inside)
    BY <1>2, <2>2, SetDifferenceIs
  <2>5. Values(SetIntersection(l, r).inside) \subseteq Values(l.inside) \cap Values(r.inside)
    BY <1>2, <2>2, SetIntersectionIs
  <2>6. Alike(r)
    BY <1>2, <2>2, <2>3, <2>4, <2>5, IsSubsetOfIs, SetsEqualIs
  <2> HIDE DEF Alike
  <2> QED
    BY <2>1, <2>6
<1>5. list = l /\ Inside = l.inside
  BY <1>1 DEF Inside
<1> QED
  BY <1>3, <1>4, <1>5 DEF SetsLikeSets

\* The links, ends, count and members of a list agree after every sequence of calls of its methods.
THEOREM StaysIntact == ListSpec => []ListIntact
<1> QED
  BY Always, IntactHolds, PTL

\* In every state find(), by pointer and by value, meets every element of the list and no other, wherever it starts.
THEOREM MembersAreFound == ListSpec => []SearchExact
<1> QED
  BY Always, SearchHolds, PTL

\* In every state an element goes in behind the one named, or in front, and the others stay in order, unless the insertion hangs.
THEOREM GoesWhereAsked == ListSpec => []InsertedWhereAsked
<1> QED
  BY Always, InsertedHolds, PTL

\* In every state a removal at an end, by element or by the one before it, takes out that one and leaves the others in order.
THEOREM ComesOutAsAsked == ListSpec => []RemovedAsAsked
<1> QED
  BY Always, RemovedHolds, PTL

\* The property asks nothing of a program that has stopped.
LEMMA SetsHoldAlways == ListInv => SetsLikeSets
<1>1. ~Sound => SetsLikeSets
  BY DEF SetsLikeSets
<1> QED
  BY <1>1, SetsHold DEF Sound

\* In every state union, subset and equality are those of the sets of values; difference and intersection give no more than they may.
THEOREM LikeSets == ListSpec => []SetsLikeSets
<1> QED
  BY Always, SetsHoldAlways, PTL
=============================================================================
