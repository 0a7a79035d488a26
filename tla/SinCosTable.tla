----------------------------- MODULE SinCosTable -----------------------------
(***************************************************************************)
(* CSinCosTable: threads change the precision of the tables under a lock,  *)
(* while another looks values up without one.  A circle has Turn degrees   *)
(* instead of 360, and Base stands for 10; angles are in parts of a degree.*)
(*                                                                         *)
(* A table is what it was calculated for and whether that is done; the     *)
(* pointer to it may be null, or dangle once the table is deleted.  A      *)
(* CLockGuard's lock is taken and given back in one step, see CLockable.   *)
(***************************************************************************)
EXTENDS Integers

CONSTANTS Setters, Null,
          Precisions,   \* what setPrecision() is called with
          Angles, Parts,\* the angles, in the Parts of a degree
          Turn, Base,
          IntMax,       \* the largest int32_t
          MaxCalls      \* bound on the calls of a setter

ASSUME SinCosAssumption ==
  /\ Null \notin Setters /\ -1 \in Precisions /\ Precisions \subseteq -1 .. 6
  /\ Angles \subseteq Int /\ {Parts, Turn, Base, IntMax} \subseteq Nat \ {0}

(* So much of powers is needed for tables that are not empty, and whose    *)
(* size is an int32_t: 360 * 10^6 is the largest one.                      *)
ASSUME PowerAssumption ==
  \A p \in Precisions : p > -1 => Base ^ p \in Nat \ {0} /\ Turn * Base ^ p <= IntMax

VARIABLES precision, precision_last, tableMultiplier, tableSize,
          tableCos, tableSin,
          owner,        \* the thread that has the object locked
          building,     \* history: from the deletion of the tables to the end
          doing, new,   \* the step of a setter, and the precision it sets
          calls,        \* how often it has been called
          look          \* the look-up

numbers == <<precision, precision_last>>
sizes == <<tableMultiplier, tableSize>>
tables == <<tableCos, tableSin>>
tableVars == <<numbers, sizes, tables, owner, building, doing, new, calls, look>>

Table(p, full) == [for |-> p, full |-> full]
Dangling == Table(Null, FALSE)
ASSUME TableAssumption == \A p \in Precisions : Table(p, TRUE) # Null

(* What a look-up returns.                                                 *)
Live == <<"live", -1>>
Garbage == <<"garbage", -1>>
NullRead == <<"crash", -1>>
Entry(i, p) == <<"entry", i, p>>
NoLook == [at |-> "idle", fn |-> Null, angle |-> 0, p |-> -1, norm |-> 0,
           result |-> Null, spoilt |-> FALSE]

TableInit ==
  /\ precision = -1 /\ precision_last = -1
  /\ tableMultiplier = 0 /\ tableSize = 0
  /\ tableCos = Null /\ tableSin = Null
  /\ owner = Null /\ building = FALSE
  /\ doing = [t \in Setters |-> "idle"] /\ new = [t \in Setters |-> -1]
  /\ calls = [t \in Setters |-> 0]
  /\ look = NoLook

Goto(t, step) == doing' = [doing EXCEPT ![t] = step]

(* A look-up that meets a change of the tables may find anything.          *)
Spoil == look' = [look EXCEPT !.spoilt = look.at # "idle"]

----------------------------------------------------------------------------
(* setPrecision() and clearTables().                                       *)

Call(t, p) ==
  /\ doing[t] = "idle" /\ calls[t] < MaxCalls
  /\ calls' = [calls EXCEPT ![t] = @ + 1]
  /\ new' = [new EXCEPT ![t] = p]
  /\ Goto(t, IF p = precision THEN "idle" ELSE "lock")
  /\ UNCHANGED <<numbers, sizes, tables, owner, building, look>>

(* Mutant: the tables are always those of the last precision but one.      *)
NeedsTablesLast(p) == p # -1 /\ p # precision_last

(* Neither to live calculation, nor back from it to what there was before. *)
NeedsTables(p) == p # -1 /\ (p # precision_last \/ precision # -1)

Lock(t) ==
  /\ doing[t] = "lock" /\ owner = Null
  /\ owner' = t
  /\ IF NeedsTables(new[t])
     THEN Goto(t, "delete") /\ building' = TRUE /\ Spoil
     ELSE Goto(t, "last") /\ UNCHANGED <<building, look>>
  /\ UNCHANGED <<numbers, sizes, tables, new, calls>>

ClearTables(t) ==
  /\ doing[t] = "idle" /\ calls[t] < MaxCalls /\ owner = Null
  /\ calls' = [calls EXCEPT ![t] = @ + 1]
  /\ owner' = t /\ building' = TRUE /\ Spoil
  /\ Goto(t, "clear")
  /\ UNCHANGED <<numbers, sizes, tables, new>>

Deleted(table) == IF table = Null THEN Null ELSE Dangling

Delete(t) ==
  /\ doing[t] \in {"delete", "clear"}
  /\ tableCos' = Deleted(tableCos) /\ tableSin' = Deleted(tableSin)
  /\ Goto(t, IF doing[t] = "clear" THEN "cleared" ELSE "forget")
  /\ UNCHANGED <<numbers, sizes, owner, building, new, calls, look>>

Forget(t) ==
  /\ doing[t] = "forget"
  /\ tableCos' = Null /\ tableSin' = Null
  /\ Goto(t, "multiplier")
  /\ UNCHANGED <<numbers, sizes, owner, building, new, calls, look>>

Cleared(t) ==
  /\ doing[t] = "cleared"
  /\ tableCos' = Null /\ tableSin' = Null
  /\ owner' = Null /\ building' = FALSE
  /\ Goto(t, "idle")
  /\ UNCHANGED <<numbers, sizes, new, calls, look>>

SetMultiplier(t) ==
  /\ doing[t] = "multiplier"
  /\ tableMultiplier' = Base ^ new[t]
  /\ Goto(t, "size")
  /\ UNCHANGED <<numbers, tableSize, tables, owner, building, new, calls, look>>

SetSize(t) ==
  /\ doing[t] = "size"
  /\ tableSize' = Turn * tableMultiplier
  /\ Goto(t, "new")
  /\ UNCHANGED <<numbers, tableMultiplier, tables, owner, building, new, calls, look>>

New(t) ==
  /\ doing[t] = "new"
  /\ tableCos' = Table(new[t], FALSE) /\ tableSin' = Table(new[t], FALSE)
  /\ Goto(t, "fill")
  /\ UNCHANGED <<numbers, sizes, owner, building, new, calls, look>>

(* Mutant: the exception leaves the object locked.                         *)
NewFailsLocked(t) ==
  /\ doing[t] = "new"
  /\ precision' = -1 /\ precision_last' = -1
  /\ building' = FALSE
  /\ Goto(t, "idle")
  /\ UNCHANGED <<sizes, tables, owner, new, calls, look>>

(* An allocation that fails leads back to live calculation.                *)
NewFails(t) ==
  /\ doing[t] = "new"
  /\ precision' = -1 /\ precision_last' = -1
  /\ owner' = Null /\ building' = FALSE
  /\ Goto(t, "idle")
  /\ UNCHANGED <<sizes, tables, new, calls, look>>

Fill(t) ==
  /\ doing[t] = "fill"
  /\ tableCos' = Table(new[t], TRUE) /\ tableSin' = Table(new[t], TRUE)
  /\ Goto(t, "last")
  /\ UNCHANGED <<numbers, sizes, owner, building, new, calls, look>>

SetLast(t) ==
  /\ doing[t] = "last"
  /\ precision_last' = precision
  /\ Goto(t, "precision")
  /\ UNCHANGED <<precision, sizes, tables, owner, building, new, calls, look>>

SetPrecision(t) ==
  /\ doing[t] = "precision"
  /\ precision' = new[t]
  /\ owner' = Null /\ building' = FALSE
  /\ Goto(t, "idle")
  /\ UNCHANGED <<precision_last, sizes, tables, new, calls, look>>

Change(t) ==
  \/ Lock(t) \/ Delete(t) \/ Forget(t) \/ Cleared(t)
  \/ SetMultiplier(t) \/ SetSize(t) \/ New(t) \/ NewFails(t) \/ Fill(t)
  \/ SetLast(t) \/ SetPrecision(t)

----------------------------------------------------------------------------
(* Look-ups, privGetCos() and privGetSin(): sin() calls the former, too.   *)

Table_of(fn) == IF fn = "privGetSin" THEN tableSin ELSE tableCos
Method(asked) == IF asked = "sincos" THEN "privGetSin" ELSE "privGetCos"

(* std::round(): halves go away from 0.                                    *)
Norm(angle, m) ==
  LET half == (2 * (IF angle < 0 THEN -angle ELSE angle) * m + Parts) \div (2 * Parts)
  IN IF angle < 0 THEN -half ELSE half

Int32 == -IntMax - 1 .. IntMax

(* Of a number no int32_t can hold the cast makes any.                     *)
Cast(n) == IF n \in Int32 THEN {n} ELSE Int32

(* Mutant: only one turn too many is taken off.                            *)
IndexOnce(norm, size) ==
  IF norm >= size THEN norm - size
  ELSE IF norm < 0 THEN size - (-norm % size) ELSE norm

Index(norm, size) ==
  IF norm >= size THEN norm % size
  ELSE IF norm < 0 THEN size - (-norm % size) ELSE norm

(* The lowest int32_t has no negative: the index is anything then.         *)
Indices(norm, size) ==
  IF size = 0 THEN {-1} ELSE IF norm = -IntMax - 1 THEN Int32 ELSE {Index(norm, size)}

LookUp(asked, angle) ==
  /\ look.at \in {"idle", "done"}
  /\ look' = [NoLook EXCEPT !.at = IF precision > -1 THEN "round" ELSE "done",
                            !.fn = Method(asked), !.angle = angle, !.p = precision,
                            !.result = IF precision > -1 THEN Null ELSE Live,
                            !.spoilt = building \/ tableCos = Null]
  /\ UNCHANGED <<numbers, sizes, tables, owner, building, doing, new, calls>>

Round ==
  /\ look.at = "round"
  /\ \E n \in Cast(Norm(look.angle, tableMultiplier)) :
       look' = [look EXCEPT !.at = "read", !.norm = n]
  /\ UNCHANGED <<numbers, sizes, tables, owner, building, doing, new, calls>>

(* Whatever is there if the table is not, or not where the index points.   *)
Read ==
  LET table == Table_of(look.fn)
  IN /\ look.at = "read"
     /\ \E index \in Indices(look.norm, tableSize) :
          look' = [look EXCEPT !.at = "done", !.norm = 0, !.result =
                     IF table = Null THEN NullRead
                     ELSE IF table.full /\ index \in 0 .. Turn * Base ^ table.for - 1
                     THEN Entry(index, table.for) ELSE Garbage]
     /\ UNCHANGED <<numbers, sizes, tables, owner, building, doing, new, calls>>

TableNext ==
  \/ \E t \in Setters :
       \/ \E p \in Precisions : Call(t, p)
       \/ ClearTables(t) \/ Change(t)
  \/ \E asked \in {"cos", "sin", "sincos"}, a \in Angles : LookUp(asked, a)
  \/ Round \/ Read

TableSpec ==
  TableInit /\ [][TableNext]_tableVars /\ \A t \in Setters : WF_tableVars(Change(t))

----------------------------------------------------------------------------

(* Whenever nobody changes the tables they are those of the precision, or  *)
(* of the last one while it is -1, finished and of the size the look-ups   *)
(* reckon with; or they have been cleared.  Threads test the precision     *)
(* before they have the lock, and reuse tables by what precision_last says.*)
TablesMatch ==
  LET p == IF precision > -1 THEN precision ELSE precision_last
  IN owner = Null /\ p > -1 =>
       \/ tableCos = Null /\ tableSin = Null
       \/ /\ tableCos = Table(p, TRUE) /\ tableSin = Table(p, TRUE)
          /\ tableMultiplier = Base ^ p /\ tableSize = Turn * Base ^ p

(* A look-up of tables nobody rebuilds or clears meanwhile finds the entry   *)
(* nearest to its angle, even while other threads switch to live           *)
(* calculation and back.  Two kinds of angles are left out: whole negative *)
(* turns, whose entry is looked for behind the table, and those whose      *)
(* number in the table no int32_t can hold, or negate.                     *)
LookUpRight ==
  LET size == Turn * Base ^ look.p
      norm == Norm(look.angle, Base ^ look.p)
  IN look.at = "done" /\ ~look.spoilt /\ look.p > -1
       /\ norm \in -IntMax .. IntMax /\ ~(norm < 0 /\ norm % size = 0)
     => look.result = Entry(norm % size, look.p)

(* setPrecision() returns, also from an allocation that fails, and lets    *)
(* the next one in.                                                        *)
CallsReturn == \A t \in Setters : doing[t] = "lock" ~> doing[t] = "idle"
=============================================================================
