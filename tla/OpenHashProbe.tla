---------------------------- MODULE OpenHashProbe ----------------------------
(***************************************************************************)
(* The order in which a key's places in an open hash table are looked at   *)
(* (src/src/container/TOpenHash.h): from a base index in steps, both taken *)
(* from hashes of the key. Tables have at least five places: with three,   *)
(* four or six privGetStepping() would never be content with a step.       *)
(***************************************************************************)
EXTENDS Integers, FiniteSets, Sequences, Functions

\* floor( fraction( hash * 0.618 ) * tabSize )
Multiplied(hash, tabSize) == (((hash * 618) % 1000) * tabSize) \div 1000

\* privSetHashMethod(): whether the division method suits a table of this
\* size: an odd one, (almost) prime, far from the powers of two around it.
UsesDivision(tabSize) ==
  /\ tabSize % 2 = 1
  /\ LET lower == 2 ^ (CHOOSE n \in 0 .. 30 : 2 ^ n < tabSize /\ tabSize < 2 ^ (n + 1))
         upper == 2 * lower
         dist  == LET d == (lower + upper) \div 2 - tabSize IN IF d < 0 THEN -d ELSE d
     IN dist < (tabSize - lower) \div 2 /\ dist < (upper - tabSize) \div 2
  /\ Cardinality({d \in {3, 5, 7, 9, 11, 13, 17, 19} : tabSize % d = 0}) < 2

-----------------------------------------------------------------------------
\* One round of privGetStepping()'s search for a step that fits the size.
Adapt(step, tabSize) ==
  LET a == IF \E n \in 3 .. 8 : step = (tabSize * n) \div (n + 1) THEN step + 2 ELSE step
      b == IF tabSize % a = 0 THEN a + 2 ELSE a
  IN IF b > tabSize THEN b % tabSize ELSE b

\* privGetStepping(): the search goes on until a round changes nothing.
Stepping(hash, tabSize, divide) ==
  LET secSize == tabSize - (IF tabSize % 2 = 1 THEN 2 ELSE 1)
      raw     == IF divide THEN hash % secSize ELSE Multiplied(hash, secSize)
      sane    == IF raw >= 3 THEN raw ELSE IF tabSize % 2 = 1 THEN 2 ELSE 3
      other   == IF tabSize % 2 = sane % 2 THEN sane + 1 ELSE sane
      fit[s \in 1 .. tabSize] == IF Adapt(s, tabSize) = s THEN s ELSE fit[Adapt(s, tabSize)]
  IN fit[other]

\* A step that goes round too early is replaced by another one.
OtherStep(step, tabSize) ==
  LET s == step + (IF step % 2 = 1 THEN 2 ELSE 3)
  IN IF s >= tabSize THEN 3 ELSE s

\* The places privGetIndex() looks at, one after the other. The last one is
\* what it returns if it has to give up.
Path(primary, secondary, tabSize, divide) ==
  LET base == Multiplied(primary, tabSize)
      walk[i \in 0 .. tabSize] ==
        IF i = 0
        THEN [places |-> <<base>>, step |-> Stepping(secondary, tabSize, divide)]
        ELSE LET prev == walk[i - 1]
                 next == (prev.places[i] + prev.step) % tabSize
                 new  == OtherStep(prev.step, tabSize)
             IN IF next = base /\ i < tabSize
                THEN [places |-> Append(prev.places, (next + new) % tabSize), step |-> new]
                ELSE [prev EXCEPT !.places = Append(@, next)]
  IN walk[tabSize].places
=============================================================================
