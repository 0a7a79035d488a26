------------------------- MODULE ArgAndTableProofs -------------------------
(***************************************************************************)
(* Proofs about two parts that have nothing to do with each other but a    *)
(* lemma or two: ArgHandler, for any arguments, names and command lines,   *)
(* and SinCosTable, for any threads that change the precision, any number  *)
(* of calls, and tables of any size.                                       *)
(***************************************************************************)
EXTENDS ArgHandler, SinCosTable, SequenceTheorems, FiniteSetTheorems, WellFoundedInduction, TLAPS

-----------------------------------------------------------------------------
(* Division *)

LEMMA Division ==
  ASSUME NEW n \in Int, NEW s \in Nat \ {0}
  PROVE  n \div s \in Int /\ n % s \in 0 .. s - 1 /\ n = s * (n \div s) + (n % s)
  OBVIOUS

LEMMA RemainderUnique ==
  ASSUME NEW s \in Nat \ {0}, NEW a \in Int, NEW b \in Int,
         NEW r \in 0 .. s - 1, NEW q \in 0 .. s - 1, s * a + r = s * b + q
  PROVE  r = q
<1>1. s * (a - b) = q - r  OBVIOUS
<1>2. a - b \in Int  OBVIOUS
<1>3. a - b >= 1 => s * (a - b) >= s  BY <1>2
<1>4. a - b <= -1 => s * (a - b) <= -s  BY <1>2
<1>5. QED  BY <1>1, <1>2, <1>3, <1>4

-----------------------------------------------------------------------------
(* ArgHandler: the inductive invariant *)

WordSet == [dashes : Nat, text : Seq(STRING)]
ErrorSet == {"unknown", "missing", "multiple", "exception", "mandatory"} \X (Targets \cup {Nil})

TargetTypes ==
  /\ added \subseteq Targets /\ todo \in Seq(Targets) /\ pos \in Seq(Targets)
  /\ got \in [Targets -> BOOLEAN] /\ processed \in [Targets -> BOOLEAN]
  /\ times \in [Targets -> Nat]

CallTypes ==
  /\ pc \in {"idle", "read", "args", "params", "crashed"}
  /\ line \in Seq(WordSet) /\ rest \in Seq(WordSet)
  /\ args \in Seq(Targets) /\ params \in Seq(WordSet)
  /\ done \in Seq(Targets \X (WordSet \cup {Nil}))
  /\ errs \in Seq(ErrorSet)

ArgTypes == TargetTypes /\ CallTypes

\* What has not got a parameter has not been set, and what is to be set once at most once.
OnceInv ==
  \A t \in Targets : Type[t] = "set" =>
    /\ ~got[t] => times[t] = 0
    /\ OnlyOnce(t) => times[t] <= 1

-----------------------------------------------------------------------------
(* ArgHandler: what a call of parseArgs() has done so far *)

Parsing == {"read", "args", "params"}

\* What is reported as missing is reported at the end.
ReportInv ==
  /\ line # <<>> => todo = <<>>
  /\ pc \in Parsing => line # <<>> /\ Told("mandatory") = {}
  /\ ReportedTruly

\* The words that have been read, and what they stand for.
Taken == Len(line) - Len(rest)
Words == SubSeq(line, 1, Taken)
Asked == Named(Words)
Offered == Parameters(Words)

LineInv ==
  line # <<>> =>
    /\ Taken \in Nat /\ rest = SubSeq(line, Taken + 1, Len(line))
    /\ \A i \in 1 .. Taken : line[i] # init
    /\ pc \in {"idle", "args", "params"} => rest = <<>> \/ Head(rest) = init

\* The parameters that n arguments have taken.
Used(n) == IF Wanting(Asked, n) < Len(Offered) THEN Wanting(Asked, n) ELSE Len(Offered)

\* The first n arguments have been processed, each with its parameter.
Given(n) ==
  \A i \in 1 .. n : done[i] = <<Asked[i], IF NeedsParameter(Asked[i]) /\ Wanting(Asked, i) <= Len(Offered)
                                      THEN Offered[Wanting(Asked, i)] ELSE Nil>>

\* And n of the parameters that are left have gone to the positional targets.
SharedOut(n) ==
  /\ Len(done) = Len(Asked) + (IF pos = <<>> THEN 0 ELSE n)
  /\ pos # <<>> => \A k \in 1 .. n :
       done[Len(Asked) + k] = <<pos[((k - 1 - n) % Len(pos)) + 1], Offered[Used(Len(Asked)) + k]>>

UnknownTold(n) == Cardinality(Told("unknown")) = Cardinality(UnknownIn(Words)) + n

Spread == Len(Offered) - Used(Len(Asked)) - Len(params)
SpreadInv ==
  /\ Spread >= 0 /\ Given(Len(Asked)) /\ SharedOut(Spread)
  /\ params = SubSeq(Offered, Used(Len(Asked)) + Spread + 1, Len(Offered))
  /\ UnknownTold(IF pos = <<>> THEN Spread ELSE 0)

WorkInv ==
  /\ pc = "read" => args = Asked /\ params = Offered /\ done = <<>> /\ UnknownTold(0)
  /\ pc = "args" =>
       LET n == Len(done)
       IN /\ n <= Len(Asked) /\ Given(n) /\ args = SubSeq(Asked, n + 1, Len(Asked))
          /\ params = SubSeq(Offered, Used(n) + 1, Len(Offered)) /\ UnknownTold(0)
  /\ pc = "params" \/ Ended => SpreadInv
  /\ pc = "params" => args = <<>>
  /\ pc = "idle" => args = <<>> /\ params = <<>>
  /\ Ended /\ errs = <<>> /\ Len(rest) > 1 => passed = Tail(rest)

ParseInv == LineInv /\ WorkInv

-----------------------------------------------------------------------------
(* What FlattenSeq does *)

\* A set of numbers that is not empty has a least one.
LEMMA LeastNumber ==
  ASSUME NEW T, T \subseteq Nat, T # {}
  PROVE  \E x \in T : \A y \in T : x <= y
<1> DEFINE upTo(x) == {y \in T : y <= x}
           Pieces   == {upTo(x) : x \in T}
<1>1. Pieces # {} /\ Pieces \subseteq FiniteSubsetsOf(Nat)
  <2>1. ASSUME NEW x \in T
        PROVE  upTo(x) \in FiniteSubsetsOf(Nat)
    BY FS_BoundedSetOfNaturals DEF FiniteSubsetsOf
  <2> QED
    BY <2>1
<1>2. \E U \in Pieces : \A V \in Pieces : <<V, U>> \notin StrictSubsetOrdering(Nat)
  <2>1. IsWellFoundedOn(StrictSubsetOrdering(Nat), FiniteSubsetsOf(Nat))
    BY FS_StrictSubsetOrderingWellFounded
  <2> QED
    BY <1>1, <2>1, WFMin
<1>3. PICK x \in T : \A V \in Pieces : <<V, upTo(x)>> \notin StrictSubsetOrdering(Nat)
  BY <1>2
<1>4. ASSUME NEW y \in T, y < x
      PROVE  FALSE
  <2>1. \A z \in T : z <= y => z <= x
    BY <1>4
  <2>2. x \in upTo(x) /\ x \notin upTo(y)
    BY <1>4
  <2>3. upTo(y) \subseteq upTo(x)
    BY <2>1
  <2>4. upTo(y) \in Pieces /\ upTo(y) \in SUBSET Nat /\ upTo(x) \in SUBSET Nat
    OBVIOUS
  <2> HIDE DEF upTo, Pieces
  <2>5. <<upTo(y), upTo(x)>> \in StrictSubsetOrdering(Nat)
    BY <2>2, <2>3, <2>4 DEF StrictSubsetOrdering
  <2> QED
    BY <1>3, <2>4, <2>5
<1> QED
  BY <1>4

Joined(s, f, i) == IF i = 1 THEN s[i] ELSE f[i - 1] \o s[i]
JoinsUpTo(s, f, n) == f = [i \in 1 .. n |-> Joined(s, f, i)]

LEMMA SomeJoin ==
  ASSUME NEW s, NEW n \in Nat
  PROVE  \E f : JoinsUpTo(s, f, n)
<1> DEFINE bad == {k \in Nat : ~\E f : JoinsUpTo(s, f, k)}
<1> SUFFICES ASSUME bad # {}
             PROVE  FALSE
  OBVIOUS
<1>1. PICK k \in bad : \A i \in bad : k <= i
  BY LeastNumber
<1>2. k # 0
  <2> DEFINE f == [i \in {} |-> {}]
  <2>1. 1 .. 0 = {}
    OBVIOUS
  <2>2. f = [i \in {} |-> Joined(s, f, i)]
    OBVIOUS
  <2>3. JoinsUpTo(s, f, 0)
    BY <2>1, <2>2 DEF JoinsUpTo
  <2> HIDE DEF f
  <2> QED
    BY <1>1, <2>3
<1>3. k \in Nat /\ k - 1 \in Nat /\ ~(k <= k - 1)
  BY <1>1, <1>2
<1>4. PICK g : JoinsUpTo(s, g, k - 1)
  BY <1>1, <1>3
<1> HIDE DEF bad
<1> DEFINE f == [i \in 1 .. k |-> Joined(s, g, i)]
<1>5. ASSUME NEW i \in 1 .. k
      PROVE  Joined(s, f, i) = Joined(s, g, i)
  <2>1. CASE i = 1
    BY <2>1 DEF Joined
  <2>2. CASE i # 1
    <3>1. i - 1 \in 1 .. k /\ i - 1 \in 1 .. k - 1
      BY <1>3, <2>2
    <3>2. g[i - 1] = Joined(s, g, i - 1)
      BY <1>4, <3>1 DEF JoinsUpTo
    <3>3. f[i - 1] = Joined(s, g, i - 1)
      BY <3>1
    <3> HIDE DEF f
    <3> QED
      BY <3>2, <3>3 DEF Joined
  <2> QED
    BY <2>1, <2>2
<1>6. f = [i \in 1 .. k |-> Joined(s, f, i)]
  <2> DEFINE h == [i \in 1 .. k |-> Joined(s, f, i)]
  <2>1. \A i \in 1 .. k : f[i] = Joined(s, g, i) /\ h[i] = Joined(s, f, i)
    OBVIOUS
  <2>2. f = [i \in 1 .. k |-> f[i]] /\ h = [i \in 1 .. k |-> h[i]]
    OBVIOUS
  <2> HIDE DEF f, h
  <2>3. f = h
    BY <1>5, <2>1, <2>2
  <2> QED
    BY <2>3 DEF h
<1>7. JoinsUpTo(s, f, k)
  BY <1>6 DEF JoinsUpTo
<1> HIDE DEF f
<1> QED
  BY <1>1, <1>7 DEF bad

\* The sequence s up to its i-th element in one.
UpToPlace(s, n) == (CHOOSE f : JoinsUpTo(s, f, n))

LEMMA PlacesJoin ==
  ASSUME NEW s, NEW n \in Nat
  PROVE  \A i \in 1 .. n : UpToPlace(s, n)[i] = Joined(s, UpToPlace(s, n), i)
<1>1. JoinsUpTo(s, UpToPlace(s, n), n)
  BY SomeJoin DEF UpToPlace
<1> QED
  BY <1>1 DEF JoinsUpTo

\* It does not depend on what comes behind.
LEMMA JoinsAgree ==
  ASSUME NEW s, NEW t, NEW m \in Nat, NEW n \in Nat, m <= n, \A i \in 1 .. m : s[i] = t[i]
  PROVE  \A i \in 1 .. m : UpToPlace(s, m)[i] = UpToPlace(t, n)[i]
<1> DEFINE bad == {i \in 1 .. m : UpToPlace(s, m)[i] # UpToPlace(t, n)[i]}
<1> SUFFICES ASSUME bad # {}
             PROVE  FALSE
  OBVIOUS
<1>1. bad \subseteq Nat
  OBVIOUS
<1>2. PICK k \in bad : \A i \in bad : k <= i
  BY <1>1, LeastNumber
<1>3. k \in 1 .. m /\ k \in 1 .. n /\ UpToPlace(s, m)[k] # UpToPlace(t, n)[k]
  BY <1>2
<1>4. UpToPlace(s, m)[k] = Joined(s, UpToPlace(s, m), k) /\ UpToPlace(t, n)[k] = Joined(t, UpToPlace(t, n), k)
  BY <1>3, PlacesJoin
<1>5. CASE k = 1
  BY <1>3, <1>4, <1>5 DEF Joined
<1>6. CASE k # 1
  <2>1. k - 1 \in 1 .. m /\ ~(k <= k - 1)
    BY <1>3, <1>6
  <2>2. UpToPlace(s, m)[k - 1] = UpToPlace(t, n)[k - 1]
    BY <1>2, <2>1
  <2> QED
    BY <1>3, <1>4, <1>6, <2>2 DEF Joined
<1> QED
  BY <1>5, <1>6

LEMMA JoinsAreSeqs ==
  ASSUME NEW T, NEW n \in Nat, NEW s, \A i \in 1 .. n : s[i] \in Seq(T)
  PROVE  \A i \in 1 .. n : UpToPlace(s, n)[i] \in Seq(T)
<1> DEFINE bad == {i \in 1 .. n : UpToPlace(s, n)[i] \notin Seq(T)}
<1> SUFFICES ASSUME bad # {}
             PROVE  FALSE
  OBVIOUS
<1>1. bad \subseteq Nat
  OBVIOUS
<1>2. PICK k \in bad : \A i \in bad : k <= i
  BY <1>1, LeastNumber
<1>3. k \in 1 .. n /\ UpToPlace(s, n)[k] \notin Seq(T)
  BY <1>2
<1>4. UpToPlace(s, n)[k] = Joined(s, UpToPlace(s, n), k)
  BY <1>3, PlacesJoin
<1>5. CASE k = 1
  BY <1>3, <1>4, <1>5 DEF Joined
<1>6. CASE k # 1
  <2>1. k - 1 \in 1 .. n /\ ~(k <= k - 1)
    BY <1>3, <1>6
  <2>2. UpToPlace(s, n)[k - 1] \in Seq(T)
    BY <1>2, <2>1
  <2>3. UpToPlace(s, n)[k - 1] \o s[k] \in Seq(T)
    BY <1>3, <2>2, ConcatProperties
  <2> QED
    BY <1>3, <1>4, <1>6, <2>3 DEF Joined
<1> QED
  BY <1>5, <1>6

LEMMA FlattenIs ==
  ASSUME NEW s
  PROVE  FlattenSeq(s) = IF Len(s) = 0 THEN s ELSE UpToPlace(s, Len(s))[Len(s)]
BY DEF FlattenSeq, UpToPlace, JoinsUpTo, Joined

LEMMA FlattenEmpty == FlattenSeq(<<>>) = <<>>
BY FlattenIs

LEMMA FlattenType ==
  ASSUME NEW T, NEW s \in Seq(Seq(T))
  PROVE  FlattenSeq(s) \in Seq(T)
<1>1. Len(s) \in Nat /\ \A i \in 1 .. Len(s) : s[i] \in Seq(T)
  BY LenProperties, ElementOfSeq
<1>2. CASE Len(s) = 0
  <2>1. s = <<>>
    BY <1>2, EmptySeq
  <2>2. <<>> \in Seq(T)
    BY EmptySeq
  <2> QED
    BY <2>1, <2>2, FlattenEmpty
<1>3. CASE Len(s) # 0
  BY <1>1, <1>3, FlattenIs, JoinsAreSeqs
<1> QED
  BY <1>2, <1>3

LEMMA FlattenAppend ==
  ASSUME NEW T, NEW s \in Seq(Seq(T)), NEW x \in Seq(T)
  PROVE  FlattenSeq(Append(s, x)) = FlattenSeq(s) \o x
<1> DEFINE n == Len(s)
           t == Append(s, x)
<1>1. n \in Nat /\ Len(t) = n + 1 /\ t[n + 1] = x /\ \A i \in 1 .. n : s[i] = t[i]
  BY LenProperties, AppendProperties
<1> HIDE DEF t, n
<1>2. FlattenSeq(t) = UpToPlace(t, n + 1)[n + 1]
  BY <1>1, FlattenIs
<1>3. UpToPlace(t, n + 1)[n + 1] = Joined(t, UpToPlace(t, n + 1), n + 1)
  BY <1>1, PlacesJoin
<1>4. CASE n = 0
  <2>1. s = <<>>
    BY <1>4, EmptySeq DEF n
  <2>2. FlattenSeq(s) \o x = x
    BY <2>1, FlattenEmpty, ConcatEmptySeq
  <2>3. n + 1 = 1
    BY <1>4
  <2>4. FlattenSeq(t) = x
    BY <1>1, <1>2, <1>3, <2>3 DEF Joined
  <2> QED
    BY <2>2, <2>4 DEF t
<1>5. CASE n # 0
  <2>1. n \in 1 .. n /\ n + 1 # 1 /\ n <= n + 1 /\ n + 1 \in Nat /\ n + 1 - 1 = n
    BY <1>1, <1>5
  <2>2. UpToPlace(s, n)[n] = UpToPlace(t, n + 1)[n]
    <3> DEFINE m == n + 1
    <3>1. m \in Nat /\ n <= m
      BY <2>1
    <3> HIDE DEF m
    <3>2. \A i \in 1 .. n : UpToPlace(s, n)[i] = UpToPlace(t, m)[i]
      BY <1>1, <3>1, JoinsAgree
    <3> QED
      BY <2>1, <3>2 DEF m
  <2>3. FlattenSeq(s) = UpToPlace(s, n)[n]
    BY <1>1, <1>5, FlattenIs DEF n
  <2> QED
    BY <1>1, <1>2, <1>3, <2>1, <2>2, <2>3 DEF Joined, t
<1> QED
  BY <1>4, <1>5

-----------------------------------------------------------------------------
(* ArgHandler: targets and words *)

LEMMA TargetFound ==
  ASSUME ArgTypes, NEW w
  PROVE  GetTarget(w) \in Targets \cup {Nil}
BY DEF ArgTypes, TargetTypes, GetTarget

LEMMA MeantAreTargets ==
  ASSUME ArgTypes, NEW w \in WordSet
  PROVE  Meant(w) \in Seq(Targets)
<1>1. CASE GetTarget(w) # Nil
  <2>1. GetTarget(w) \in Targets /\ Meant(w) = <<GetTarget(w)>>
    BY <1>1, TargetFound DEF Meant
  <2> QED
    BY <2>1
<1>2. CASE GetTarget(w) = Nil /\ Combined(w)
  <2>1. w.text \in Seq(STRING) /\ DOMAIN w.text = 1 .. Len(w.text) /\ Len(w.text) \in Nat
    BY LenProperties DEF WordSet
  <2>2. \A i \in 1 .. Len(w.text) : Letters(w)[i] \in Targets
    BY <1>2, <2>1, TargetFound DEF Combined, Letters
  <2>3. Letters(w) = [i \in 1 .. Len(w.text) |-> Letters(w)[i]]
    BY <2>1 DEF Letters
  <2>4. Letters(w) \in [1 .. Len(w.text) -> Targets]
    BY <2>2, <2>3
  <2> QED
    BY <1>2, <2>1, <2>4, SeqDef DEF Meant
<1>3. CASE GetTarget(w) = Nil /\ ~Combined(w)
  BY <1>3 DEF Meant
<1> QED
  BY <1>1, <1>2, <1>3

LEMMA MissingAreTargets ==
  ASSUME ArgTypes
  PROVE  /\ Missing \in Seq(added)
         /\ \A i \in DOMAIN Missing : Mandatory(Missing[i]) /\ ~processed[Missing[i]]
         /\ \A i, j \in DOMAIN Missing : Missing[i] = Missing[j] => i = j
<1> DEFINE short == Walked(ShortArgs, Short)
           long == Walked(LongArgs, Long) \ ShortArgs
           M(T) == {t \in T : Mandatory(t) /\ ~processed[t]}
<1>1. short \subseteq added /\ long \subseteq added /\ short \cap long = {}
  BY DEF Walked, ShortArgs, LongArgs
<1>2. Missing = SetToSeq(M(short)) \o SetToSeq(M(long))
  BY DEF Missing
<1> HIDE DEF short, long
<1>3. ASSUME NEW T \in SUBSET added
      PROVE  /\ SetToSeq(M(T)) \in Seq(added)
             /\ SetToSeq(M(T)) \in Seq(M(T))
             /\ \A i, j \in DOMAIN SetToSeq(M(T)) : SetToSeq(M(T))[i] = SetToSeq(M(T))[j] => i = j
  <2> DEFINE U == M(T)
             n == Cardinality(U)
  <2>1. U \subseteq Targets /\ U \subseteq added
    BY DEF ArgTypes, TargetTypes
  <2>2. IsFiniteSet(U)
    BY <2>1, ArgAssumption, FS_Subset
  <2> HIDE DEF U
  <2>3. n \in Nat /\ ExistsBijection(1 .. n, U)
    BY <2>2, FS_CardinalityType
  <2>4. \E f \in [1 .. n -> U] : IsInjective(f)
    BY <2>3 DEF ExistsBijection, Bijection, Injection, IsInjective
  <2>5. SetToSeq(U) \in [1 .. n -> U] /\ IsInjective(SetToSeq(U))
    BY <2>4 DEF SetToSeq
  <2>6. SetToSeq(U) \in Seq(U)
    BY <2>3, <2>5, SeqDef
  <2>7. SetToSeq(U) \in Seq(added)
    BY <2>1, <2>6, SeqMonotonic
  <2> QED
    BY <2>5, <2>6, <2>7 DEF IsInjective, U
<1> DEFINE s == SetToSeq(M(short))
           t == SetToSeq(M(long))
<1>4. /\ s \in Seq(added) /\ s \in Seq(M(short)) /\ \A i, j \in DOMAIN s : s[i] = s[j] => i = j
      /\ t \in Seq(added) /\ t \in Seq(M(long)) /\ \A i, j \in DOMAIN t : t[i] = t[j] => i = j
  BY <1>1, <1>3
<1>5. Len(s) \in Nat /\ Len(t) \in Nat /\ DOMAIN s = 1 .. Len(s) /\ DOMAIN t = 1 .. Len(t)
  BY <1>4, LenProperties
<1>6. \A i \in 1 .. Len(s) : s[i] \in M(short)
  BY <1>4, <1>5, ElementOfSeq
<1>7. \A i \in 1 .. Len(t) : t[i] \in M(long)
  BY <1>4, <1>5, ElementOfSeq
<1> HIDE DEF s, t
<1>8. /\ s \o t \in Seq(added) /\ DOMAIN (s \o t) = 1 .. Len(s) + Len(t)
      /\ \A i \in 1 .. Len(s) + Len(t) : (s \o t)[i] = IF i <= Len(s) THEN s[i] ELSE t[i - Len(s)]
  BY <1>4, <1>5, ConcatProperties, LenProperties
<1>9. Missing = s \o t
  BY <1>2 DEF s, t
<1>10. ASSUME NEW i \in 1 .. Len(s) + Len(t)
       PROVE  \/ i <= Len(s) /\ i \in 1 .. Len(s) /\ (s \o t)[i] = s[i] /\ s[i] \in M(short)
              \/ /\ i > Len(s) /\ i - Len(s) \in 1 .. Len(t) /\ (s \o t)[i] = t[i - Len(s)]
                 /\ t[i - Len(s)] \in M(long)
  BY <1>5, <1>6, <1>7, <1>8
<1>11. \A i \in DOMAIN (s \o t) : Mandatory((s \o t)[i]) /\ ~processed[(s \o t)[i]]
  BY <1>8, <1>10
<1>12. ASSUME NEW i \in DOMAIN (s \o t), NEW j \in DOMAIN (s \o t), (s \o t)[i] = (s \o t)[j]
       PROVE  i = j
  <2>1. i \in 1 .. Len(s) + Len(t) /\ j \in 1 .. Len(s) + Len(t)
    BY <1>8
  <2>2. CASE i <= Len(s) /\ j <= Len(s)
    BY <1>4, <1>5, <1>10, <1>12, <2>1, <2>2
  <2>3. CASE i > Len(s) /\ j > Len(s)
    <3>1. i - Len(s) = j - Len(s)
      BY <1>4, <1>5, <1>10, <1>12, <2>1, <2>3
    <3> QED
      BY <1>5, <2>1, <3>1
  <2>4. CASE i <= Len(s) /\ j > Len(s)
    BY <1>1, <1>5, <1>10, <1>12, <2>1, <2>4
  <2>5. CASE i > Len(s) /\ j <= Len(s)
    BY <1>1, <1>5, <1>10, <1>12, <2>1, <2>5
  <2> QED
    BY <1>5, <2>1, <2>2, <2>3, <2>4, <2>5
<1> QED
  BY <1>8, <1>9, <1>11, <1>12

LEMMA MandatoryErrors ==
  ASSUME ArgTypes
  PROVE  LET told == [i \in DOMAIN Missing |-> Error("mandatory", Missing[i])]
             all == errs \o told
         IN /\ told \in Seq(ErrorSet) /\ all \in Seq(ErrorSet)
            /\ Len(told) = Len(Missing) /\ Len(all) = Len(errs) + Len(Missing)
            /\ \A i \in 1 .. Len(errs) : all[i] = errs[i]
            /\ \A i \in Len(errs) + 1 .. Len(all) :
                 i - Len(errs) \in DOMAIN Missing /\ all[i] = <<"mandatory", Missing[i - Len(errs)]>>
<1> DEFINE n == Len(Missing)
           told == [i \in DOMAIN Missing |-> Error("mandatory", Missing[i])]
           all == errs \o told
<1>1. n \in Nat /\ DOMAIN Missing = 1 .. n /\ \A i \in 1 .. n : Missing[i] \in Targets
  <2>1. n \in Nat /\ DOMAIN Missing = 1 .. n /\ \A i \in 1 .. n : Missing[i] \in added
    BY MissingAreTargets, LenProperties, ElementOfSeq
  <2> QED
    BY <2>1 DEF ArgTypes, TargetTypes
<1> HIDE DEF n
<1>2. \A i \in 1 .. n : told[i] = <<"mandatory", Missing[i]>> /\ told[i] \in ErrorSet
  BY <1>1 DEF Error, ErrorSet
<1>3. told \in [1 .. n -> ErrorSet]
  BY <1>1, <1>2
<1>4. told \in Seq(ErrorSet) /\ Len(told) = n
  BY <1>1, <1>3, SeqDef, LenProperties
<1> HIDE DEF told
<1>5. errs \in Seq(ErrorSet) /\ Len(errs) \in Nat
  BY LenProperties DEF ArgTypes, CallTypes
<1>6. /\ all \in Seq(ErrorSet) /\ Len(all) = Len(errs) + n
      /\ \A i \in 1 .. Len(errs) + n : all[i] = IF i <= Len(errs) THEN errs[i] ELSE told[i - Len(errs)]
  BY <1>4, <1>5, ConcatProperties
<1> HIDE DEF all
<1>7. \A i \in 1 .. Len(errs) : all[i] = errs[i]
  BY <1>1, <1>5, <1>6
<1>8. ASSUME NEW i \in Len(errs) + 1 .. Len(all)
      PROVE  i - Len(errs) \in 1 .. n /\ all[i] = <<"mandatory", Missing[i - Len(errs)]>>
  BY <1>1, <1>2, <1>5, <1>6
<1> QED
  BY <1>1, <1>4, <1>6, <1>7, <1>8 DEF n, told, all

-----------------------------------------------------------------------------
(* ArgHandler: types, and what is set once *)

LEMMA ProcTargetTypes ==
  ASSUME ArgTypes, OnceInv, NEW t \in Targets, NEW p \in WordSet \cup {Nil}, ProcTarget(t, p)
  PROVE  /\ got' \in [Targets -> BOOLEAN] /\ processed' \in [Targets -> BOOLEAN] /\ times' \in [Targets -> Nat]
         /\ done' \in Seq(Targets \X (WordSet \cup {Nil})) /\ done' = Append(done, <<t, p>>)
         /\ errs' \in Seq(ErrorSet)
         /\ \/ errs' = errs
            \/ \E what \in {"missing", "multiple", "exception"} : errs' = Append(errs, <<what, t>>)
         /\ OnceInv'
<1> DEFINE fails(what) == errs' = Append(errs, <<what, t>>) /\ UNCHANGED targets
<1>1. done' = Append(done, <<t, p>>) /\ done' \in Seq(Targets \X (WordSet \cup {Nil}))
  BY AppendProperties DEF ProcTarget, ArgTypes, CallTypes
<1>2. ASSUME NEW what \in {"missing", "multiple", "exception"}, fails(what)
      PROVE  /\ errs' \in Seq(ErrorSet) /\ errs' = Append(errs, <<what, t>>)
             /\ UNCHANGED <<got, processed, times>>
  <2>1. <<what, t>> \in ErrorSet
    BY DEF ErrorSet
  <2> QED
    BY <1>2, <2>1, AppendProperties DEF ArgTypes, CallTypes, targets
<1>3. \/ \E what \in {"missing", "multiple", "exception"} : fails(what)
      \/ (Processed(t, p) \/ Throws(t)) /\ ~(Type[t] = "set" /\ OnlyOnce(t) /\ got[t])
  BY DEF ProcTarget, Fails, Error
<1>4. CASE \E what \in {"missing", "multiple", "exception"} : fails(what)
  BY <1>1, <1>2, <1>4 DEF ArgTypes, TargetTypes, OnceInv
<1>5. CASE Processed(t, p) /\ ~(Type[t] = "set" /\ OnlyOnce(t) /\ got[t])
  BY <1>1, <1>5 DEF ArgTypes, TargetTypes, CallTypes, Processed, Stored, OnceInv
<1>6. CASE Throws(t) /\ ~(Type[t] = "set" /\ OnlyOnce(t) /\ got[t])
  <2>1. errs' = Append(errs, <<"exception", t>>)
    BY <1>6 DEF Throws, Error
  <2>2. errs' \in Seq(ErrorSet)
    <3>1. <<"exception", t>> \in ErrorSet
      BY DEF ErrorSet
    <3> QED
      BY <2>1, <3>1, AppendProperties DEF ArgTypes, CallTypes
  <2>3. /\ got' \in [Targets -> BOOLEAN] /\ processed' \in [Targets -> BOOLEAN]
        /\ times' \in [Targets -> Nat] /\ OnceInv'
    BY <1>6 DEF ArgTypes, TargetTypes, Throws, Stored, OnceInv
  <2> QED
    BY <1>1, <2>1, <2>2, <2>3
<1> QED
  BY <1>3, <1>4, <1>5, <1>6

LEMMA ArgInit == Init => ArgTypes /\ OnceInv
<1> SUFFICES ASSUME Init PROVE ArgTypes /\ OnceInv
  OBVIOUS
<1>1. TargetTypes
  BY ArgAssumption DEF Init, TargetTypes
<1>2. CallTypes
  BY DEF Init, CallTypes
<1>3. OnceInv
  BY DEF Init, OnceInv
<1> QED
  BY <1>1, <1>2, <1>3 DEF ArgTypes

LEMMA ArgNext == ArgTypes /\ OnceInv /\ [Next]_vars => ArgTypes' /\ OnceInv'
<1> SUFFICES ASSUME ArgTypes, OnceInv, [Next]_vars
             PROVE  ArgTypes' /\ OnceInv'
  OBVIOUS
<1> USE DEF ArgTypes
<1>1. CASE UNCHANGED vars
  BY <1>1 DEF vars, targets, call, TargetTypes, CallTypes, OnceInv
<1>2. CASE AddArg
  <2>1. Head(todo) \in Targets /\ Tail(todo) \in Seq(Targets)
    BY <1>2, HeadTailProperties DEF AddArg, TargetTypes
  <2>2. Append(pos, Head(todo)) \in Seq(Targets)
    BY <2>1, AppendProperties DEF TargetTypes
  <2>3. todo' \in Seq(Targets) /\ pos' \in Seq(Targets) /\ added' \subseteq Targets
    BY <1>2, <2>1, <2>2 DEF AddArg, TargetTypes
  <2> QED
    BY <1>2, <2>3 DEF AddArg, targets, call, TargetTypes, CallTypes, OnceInv
<1>3. CASE AddPassthrough
  BY <1>3 DEF AddPassthrough, targets, call, TargetTypes, CallTypes, OnceInv
<1>4. CASE ResetTargets
  <2>1. /\ got' \in [Targets -> BOOLEAN] /\ processed' \in [Targets -> BOOLEAN] /\ times' \in [Targets -> Nat]
        /\ \A t \in Targets : (got'[t] = got[t] /\ times'[t] = times[t]) \/ times'[t] = 0
    <3>1. PICK T :
            /\ got' = [t \in Targets |-> IF t \in T THEN FALSE ELSE got[t]]
            /\ processed' = [t \in Targets |-> IF t \in T THEN FALSE ELSE processed[t]]
            /\ times' = [t \in Targets |-> IF t \in T THEN 0 ELSE times[t]]
      BY <1>4 DEF ResetTargets
    <3> QED
      BY <3>1 DEF TargetTypes
  <2>2. UNCHANGED <<added, todo, pos, pc, rest, args, params, done, errs>> /\ line' = <<>>
    BY <1>4 DEF ResetTargets
  <2> QED
    BY <2>1, <2>2 DEF TargetTypes, CallTypes, OnceInv
<1>5. CASE ClearArgs
  BY <1>5 DEF ClearArgs, targets, TargetTypes, CallTypes, OnceInv
<1>6. CASE \E l \in Lines : Parse(l)
  <2>1. PICK l \in Lines : Parse(l)
    BY <1>6
  <2>2. l \in Seq(WordSet)
    BY ArgAssumption DEF WordSet
  <2> QED
    BY <2>1, <2>2 DEF Parse, targets, TargetTypes, CallTypes, OnceInv
<1>7. CASE ReadOne
  <2>1. Head(rest) \in WordSet /\ Tail(rest) \in Seq(WordSet)
    BY <1>7, HeadTailProperties DEF ReadOne, Reading, CallTypes
  <2>2. args \o Meant(Head(rest)) \in Seq(Targets)
    BY <2>1, MeantAreTargets, ConcatProperties DEF CallTypes
  <2>3. Append(params, Head(rest)) \in Seq(WordSet)
    BY <2>1, AppendProperties DEF CallTypes
  <2>4. Append(errs, Error("unknown", Nil)) \in Seq(ErrorSet)
    BY AppendProperties DEF CallTypes, Error, ErrorSet
  <2>5. /\ rest' \in Seq(WordSet) /\ args' \in Seq(Targets) /\ params' \in Seq(WordSet)
        /\ errs' \in Seq(ErrorSet)
    BY <1>7, <2>1, <2>2, <2>3, <2>4 DEF ReadOne, CallTypes
  <2> QED
    BY <1>7, <2>5 DEF ReadOne, targets, TargetTypes, CallTypes, OnceInv
<1>8. CASE EndRead
  BY <1>8 DEF EndRead, targets, call, TargetTypes, CallTypes, OnceInv
<1>9. CASE ProcArg
  <2> DEFINE taken == NeedsParameter(Head(args)) /\ params # <<>>
             p == IF taken THEN Head(params) ELSE Nil
  <2>1. Head(args) \in Targets /\ Tail(args) \in Seq(Targets)
    BY <1>9, HeadTailProperties DEF ProcArg, CallTypes
  <2>2. taken => Head(params) \in WordSet /\ Tail(params) \in Seq(WordSet)
    BY HeadTailProperties DEF CallTypes
  <2>3. p \in WordSet \cup {Nil}
    BY <2>2
  <2>4. ProcTarget(Head(args), p)
    BY <1>9 DEF ProcArg
  <2>5. args' \in Seq(Targets) /\ params' \in Seq(WordSet)
    BY <1>9, <2>1, <2>2 DEF ProcArg, CallTypes
  <2> HIDE DEF p
  <2>6. /\ got' \in [Targets -> BOOLEAN] /\ processed' \in [Targets -> BOOLEAN] /\ times' \in [Targets -> Nat]
        /\ done' \in Seq(Targets \X (WordSet \cup {Nil})) /\ errs' \in Seq(ErrorSet) /\ OnceInv'
    BY <2>1, <2>3, <2>4, ProcTargetTypes
  <2> QED
    BY <1>9, <2>5, <2>6 DEF ProcArg, TargetTypes, CallTypes
<1>10. CASE EndArgs
  BY <1>10 DEF EndArgs, targets, call, TargetTypes, CallTypes, OnceInv
<1>11. CASE ProcParam
  <2>1. Head(params) \in WordSet /\ params' \in Seq(WordSet)
    BY <1>11, HeadTailProperties DEF ProcParam, CallTypes
  <2>2. CASE pos = <<>>
    <3>1. Append(errs, Error("unknown", Nil)) \in Seq(ErrorSet)
      BY AppendProperties DEF CallTypes, Error, ErrorSet
    <3> QED
      BY <1>11, <2>1, <2>2, <3>1 DEF ProcParam, targets, TargetTypes, CallTypes, OnceInv
  <2>3. CASE pos # <<>>
    <3>1. Head(pos) \in Targets /\ Append(Tail(pos), Head(pos)) \in Seq(Targets)
      BY <2>3, HeadTailProperties, AppendProperties DEF TargetTypes
    <3>2. ProcTarget(Head(pos), Head(params)) /\ pos' = Append(Tail(pos), Head(pos))
      BY <1>11, <2>3 DEF ProcParam
    <3>3. /\ got' \in [Targets -> BOOLEAN] /\ processed' \in [Targets -> BOOLEAN] /\ times' \in [Targets -> Nat]
          /\ done' \in Seq(Targets \X (WordSet \cup {Nil})) /\ errs' \in Seq(ErrorSet) /\ OnceInv'
      BY <2>1, <3>1, <3>2, ProcTargetTypes
    <3> QED
      BY <1>11, <2>1, <3>1, <3>2, <3>3 DEF ProcParam, TargetTypes, CallTypes
  <2> QED
    BY <2>2, <2>3
<1>12. CASE EndParse
  <2>1. errs' = errs \o [i \in DOMAIN Missing |-> Error("mandatory", Missing[i])]
    BY <1>12 DEF EndParse
  <2>2. errs' \in Seq(ErrorSet)
    BY <2>1, MandatoryErrors
  <2> QED
    BY <1>12, <2>2 DEF EndParse, targets, call, TargetTypes, CallTypes, OnceInv
<1>13. CASE Crash
  BY <1>13 DEF Crash, targets, call, TargetTypes, CallTypes, OnceInv
<1> QED
  BY <1>1, <1>2, <1>3, <1>4, <1>5, <1>6, <1>7, <1>8, <1>9, <1>10, <1>11, <1>12, <1>13 DEF Next

\* A target that is to be set once is set once at most until it is reset, by whichever of
\* its names and in however many calls of parseArgs() (TArgTarget::process()).
THEOREM SetAtMostOnce == Spec => []SetOnce
<1>1. OnceInv => SetOnce
  BY DEF OnceInv, SetOnce
<1> QED
  BY <1>1, ArgInit, ArgNext, PTL DEF Spec

-----------------------------------------------------------------------------
(* ArgHandler: words that are read, and errors that are told *)

LEMMA NamedEmpty ==
  Named(<<>>) = <<>> /\ Parameters(<<>>) = <<>> /\ UnknownIn(<<>>) = {} /\ Cardinality(UnknownIn(<<>>)) = 0
<1>1. DOMAIN <<>> = {}
  OBVIOUS
<1>2. [i \in DOMAIN <<>> |-> Meant(<<>>[i])] = <<>>
      /\ [i \in DOMAIN <<>> |-> IF IsParam(<<>>[i]) THEN <<(<<>>)[i]>> ELSE <<>>] = <<>>
  OBVIOUS
<1> QED
  BY <1>1, <1>2, FlattenEmpty, FS_EmptySet DEF Named, Parameters, UnknownIn

LEMMA NamedTypes ==
  ASSUME ArgTypes, NEW s \in Seq(WordSet)
  PROVE  /\ [i \in DOMAIN s |-> Meant(s[i])] \in Seq(Seq(Targets)) /\ Named(s) \in Seq(Targets)
         /\ [i \in DOMAIN s |-> IF IsParam(s[i]) THEN <<s[i]>> ELSE <<>>] \in Seq(Seq(WordSet))
         /\ Parameters(s) \in Seq(WordSet)
         /\ IsFiniteSet(UnknownIn(s)) /\ UnknownIn(s) \subseteq 1 .. Len(s)
<1>1. DOMAIN s = 1 .. Len(s) /\ Len(s) \in Nat /\ \A i \in 1 .. Len(s) : s[i] \in WordSet
  BY LenProperties, ElementOfSeq
<1>2. \A i \in DOMAIN s : Meant(s[i]) \in Seq(Targets)
  BY <1>1, MeantAreTargets
<1>3. \A i \in DOMAIN s : (IF IsParam(s[i]) THEN <<s[i]>> ELSE <<>>) \in Seq(WordSet)
  BY <1>1
<1>4. [i \in DOMAIN s |-> Meant(s[i])] \in [1 .. Len(s) -> Seq(Targets)]
  BY <1>1, <1>2
<1>5. [i \in DOMAIN s |-> IF IsParam(s[i]) THEN <<s[i]>> ELSE <<>>] \in [1 .. Len(s) -> Seq(WordSet)]
  BY <1>1, <1>3
<1>6. /\ [i \in DOMAIN s |-> Meant(s[i])] \in Seq(Seq(Targets))
      /\ [i \in DOMAIN s |-> IF IsParam(s[i]) THEN <<s[i]>> ELSE <<>>] \in Seq(Seq(WordSet))
  BY <1>1, <1>4, <1>5, SeqDef
<1>7. Named(s) \in Seq(Targets) /\ Parameters(s) \in Seq(WordSet)
  BY <1>6, FlattenType DEF Named, Parameters
<1>8. IsFiniteSet(UnknownIn(s)) /\ UnknownIn(s) \subseteq 1 .. Len(s)
  <2>1. UnknownIn(s) \subseteq 1 .. Len(s)
    BY <1>1 DEF UnknownIn
  <2>2. IsFiniteSet(1 .. Len(s))
    BY <1>1, FS_Interval
  <2> QED
    BY <2>1, <2>2, FS_Subset
<1> QED
  BY <1>6, <1>7, <1>8

LEMMA NamedAppend ==
  ASSUME ArgTypes, NEW s \in Seq(WordSet), NEW w \in WordSet
  PROVE  /\ Named(Append(s, w)) = Named(s) \o Meant(w)
         /\ Parameters(Append(s, w)) = IF IsParam(w) THEN Append(Parameters(s), w) ELSE Parameters(s)
         /\ Cardinality(UnknownIn(Append(s, w)))
              = Cardinality(UnknownIn(s)) + (IF Unknown(w) THEN 1 ELSE 0)
<1> DEFINE n == Len(s)
           t == Append(s, w)
           m(r) == [i \in DOMAIN r |-> Meant(r[i])]
           p(r) == [i \in DOMAIN r |-> IF IsParam(r[i]) THEN <<r[i]>> ELSE <<>>]
           one == IF IsParam(w) THEN <<w>> ELSE <<>>
<1>1. /\ n \in Nat /\ DOMAIN s = 1 .. n /\ t \in Seq(WordSet) /\ DOMAIN t = 1 .. n + 1 /\ t[n + 1] = w
      /\ \A i \in 1 .. n : t[i] = s[i]
  BY LenProperties, AppendProperties
<1>2. /\ m(s) \in Seq(Seq(Targets)) /\ p(s) \in Seq(Seq(WordSet)) /\ IsFiniteSet(UnknownIn(s))
      /\ m(t) \in Seq(Seq(Targets)) /\ p(t) \in Seq(Seq(WordSet)) /\ UnknownIn(s) \subseteq 1 .. n
      /\ Parameters(s) \in Seq(WordSet)
  BY <1>1, NamedTypes
<1>3. Len(m(s)) = n /\ Len(p(s)) = n /\ Len(m(t)) = n + 1 /\ Len(p(t)) = n + 1
  BY <1>1, <1>2, LenProperties
<1>4. Meant(w) \in Seq(Targets) /\ one \in Seq(WordSet)
  BY MeantAreTargets
<1>5. Len(Append(m(s), Meant(w))) = n + 1 /\ Append(m(s), Meant(w)) \in Seq(Seq(Targets))
      /\ \A i \in 1 .. n + 1 : Append(m(s), Meant(w))[i] = m(t)[i]
  <2>1. ASSUME NEW i \in 1 .. n + 1
        PROVE  Append(m(s), Meant(w))[i] = m(t)[i]
    <3>1. CASE i = n + 1
      BY <1>1, <1>2, <1>3, <1>4, <3>1, AppendProperties
    <3>2. CASE i # n + 1
      <4>1. i \in 1 .. n
        BY <1>1, <3>2
      <4>2. Append(m(s), Meant(w))[i] = m(s)[i]
        BY <1>2, <1>3, <1>4, <4>1, AppendProperties
      <4> QED
        BY <1>1, <4>1, <4>2
    <3> QED
      BY <3>1, <3>2
  <2> QED
    BY <1>2, <1>3, <1>4, <2>1, AppendProperties
<1>6. Len(Append(p(s), one)) = n + 1 /\ Append(p(s), one) \in Seq(Seq(WordSet))
      /\ \A i \in 1 .. n + 1 : Append(p(s), one)[i] = p(t)[i]
  <2>1. ASSUME NEW i \in 1 .. n + 1
        PROVE  Append(p(s), one)[i] = p(t)[i]
    <3>1. CASE i = n + 1
      BY <1>1, <1>2, <1>3, <1>4, <3>1, AppendProperties
    <3>2. CASE i # n + 1
      <4>1. i \in 1 .. n
        BY <1>1, <3>2
      <4>2. Append(p(s), one)[i] = p(s)[i]
        BY <1>2, <1>3, <1>4, <4>1, AppendProperties
      <4> QED
        BY <1>1, <4>1, <4>2
    <3> QED
      BY <3>1, <3>2
  <2> QED
    BY <1>2, <1>3, <1>4, <2>1, AppendProperties
<1>7. Named(t) = FlattenSeq(m(t)) /\ Named(s) = FlattenSeq(m(s))
      /\ Parameters(t) = FlattenSeq(p(t)) /\ Parameters(s) = FlattenSeq(p(s))
  BY DEF Named, Parameters
<1>8. UnknownIn(t) = UnknownIn(s) \cup (IF Unknown(w) THEN {n + 1} ELSE {}) /\ n + 1 \notin UnknownIn(s)
  <2> HIDE DEF t, n
  <2>1. UnknownIn(t) = {i \in 1 .. n + 1 : Unknown(t[i])} /\ UnknownIn(s) = {i \in 1 .. n : Unknown(s[i])}
    BY <1>1 DEF UnknownIn
  <2>2. 1 .. n + 1 = (1 .. n) \cup {n + 1} /\ n + 1 \notin 1 .. n
    BY <1>1
  <2> QED
    BY <1>1, <2>1, <2>2
<1> HIDE DEF m, p, t, n
<1>9. m(t) = Append(m(s), Meant(w)) /\ p(t) = Append(p(s), one)
  BY <1>2, <1>3, <1>5, <1>6, SeqEqual
<1>10. Named(t) = Named(s) \o Meant(w)
  BY <1>2, <1>4, <1>7, <1>9, FlattenAppend
<1>11. Parameters(t) = Parameters(s) \o one
  BY <1>2, <1>4, <1>7, <1>9, FlattenAppend
<1>12. Parameters(s) \o one = IF IsParam(w) THEN Append(Parameters(s), w) ELSE Parameters(s)
  BY <1>2, AppendIsConcat, ConcatEmptySeq
<1>13. Cardinality(UnknownIn(t)) = Cardinality(UnknownIn(s)) + (IF Unknown(w) THEN 1 ELSE 0)
  <2>1. Cardinality(UnknownIn(s)) \in Nat
    BY <1>2, FS_CardinalityType
  <2>2. Cardinality(UnknownIn(s) \cup {n + 1}) = Cardinality(UnknownIn(s)) + 1
    BY <1>2, <1>8, FS_AddElement
  <2> QED
    <3>1. CASE Unknown(w)
      BY <1>8, <2>2, <3>1
    <3>2. CASE ~Unknown(w)
      <4>1. UnknownIn(t) = UnknownIn(s)
        BY <1>8, <3>2
      <4> QED
        BY <2>1, <3>2, <4>1
    <3> QED
      BY <3>1, <3>2
<1> QED
  BY <1>10, <1>11, <1>12, <1>13 DEF t

ToldIn(e, what) == {i \in DOMAIN e : e[i][1] = what}

LEMMA ToldAppend ==
  ASSUME NEW e \in Seq(ErrorSet), NEW x \in ErrorSet, NEW what
  PROVE  /\ ToldIn(Append(e, x), what) = ToldIn(e, what) \cup (IF x[1] = what THEN {Len(e) + 1} ELSE {})
         /\ Cardinality(ToldIn(Append(e, x), what))
              = Cardinality(ToldIn(e, what)) + (IF x[1] = what THEN 1 ELSE 0)
<1> DEFINE n == Len(e)
           f == Append(e, x)
<1>1. /\ n \in Nat /\ DOMAIN e = 1 .. n /\ DOMAIN f = 1 .. n + 1 /\ f[n + 1] = x
      /\ \A i \in 1 .. n : f[i] = e[i]
  BY LenProperties, AppendProperties
<1> HIDE DEF n, f
<1>2. ToldIn(f, what) = ToldIn(e, what) \cup (IF x[1] = what THEN {n + 1} ELSE {}) /\ n + 1 \notin ToldIn(e, what)
  BY <1>1 DEF ToldIn
<1>3. IsFiniteSet(ToldIn(e, what))
  <2>1. ToldIn(e, what) \subseteq 1 .. n
    BY <1>1 DEF ToldIn
  <2>2. IsFiniteSet(1 .. n)
    BY <1>1, FS_Interval
  <2> QED
    BY <2>1, <2>2, FS_Subset
<1>4. Cardinality(ToldIn(e, what)) \in Nat
      /\ Cardinality(ToldIn(e, what) \cup {n + 1}) = Cardinality(ToldIn(e, what)) + 1
  BY <1>2, <1>3, FS_CardinalityType, FS_AddElement
<1>5. CASE x[1] = what
  BY <1>2, <1>4, <1>5 DEF n, f
<1>6. CASE x[1] # what
  <2>1. ToldIn(f, what) = ToldIn(e, what)
    BY <1>2, <1>6
  <2> QED
    BY <1>2, <1>4, <1>6, <2>1 DEF n, f
<1> QED
  BY <1>5, <1>6

LEMMA ToldEmpty == \A what : ToldIn(<<>>, what) = {} /\ Cardinality(ToldIn(<<>>, what)) = 0
BY FS_EmptySet DEF ToldIn

LEMMA WantingNext ==
  ASSUME NEW a, NEW n \in Nat
  PROVE  /\ Wanting(a, n) \in Nat /\ Wanting(a, 0) = 0
         /\ Wanting(a, n + 1) = Wanting(a, n) + (IF NeedsParameter(a[n + 1]) THEN 1 ELSE 0)
<1> DEFINE W(k) == {j \in 1 .. k : NeedsParameter(a[j])}
<1>1. W(n + 1) = W(n) \cup (IF NeedsParameter(a[n + 1]) THEN {n + 1} ELSE {}) /\ n + 1 \notin W(n)
  OBVIOUS
<1>2. IsFiniteSet(W(n))
  <2>1. W(n) \subseteq 1 .. n
    OBVIOUS
  <2>2. IsFiniteSet(1 .. n)
    BY FS_Interval
  <2> HIDE DEF W
  <2> QED
    BY <2>1, <2>2, FS_Subset
<1>3. W(0) = {}
  OBVIOUS
<1>4. \A k : Wanting(a, k) = Cardinality(W(k))
  BY DEF Wanting
<1> HIDE DEF W
<1>5. Cardinality(W(n)) \in Nat /\ Cardinality(W(n) \cup {n + 1}) = Cardinality(W(n)) + 1
  BY <1>1, <1>2, FS_CardinalityType, FS_AddElement
<1>6. Cardinality(W(0)) = 0
  BY <1>3, FS_EmptySet
<1>7. CASE NeedsParameter(a[n + 1])
  BY <1>1, <1>4, <1>5, <1>6, <1>7
<1>8. CASE ~NeedsParameter(a[n + 1])
  <2>1. W(n + 1) = W(n)
    BY <1>1, <1>8
  <2> QED
    BY <1>4, <1>5, <1>6, <1>8, <2>1
<1> QED
  BY <1>7, <1>8

LEMMA ToldHere == \A what : Told(what) = ToldIn(errs, what)
BY DEF Told, ToldIn

-----------------------------------------------------------------------------
(* ArgHandler: what is reported as missing *)

LEMMA OtherErrors ==
  ASSUME ArgTypes, NEW x \in ErrorSet, x[1] # "mandatory", errs' = Append(errs, x), Told("mandatory") = {}
  PROVE  Told("mandatory")' = {}
<1>1. errs \in Seq(ErrorSet)
  BY DEF ArgTypes, CallTypes
<1>2. ToldIn(Append(errs, x), "mandatory") = ToldIn(errs, "mandatory")
  <2>1. ToldIn(Append(errs, x), "mandatory")
          = ToldIn(errs, "mandatory") \cup (IF x[1] = "mandatory" THEN {Len(errs) + 1} ELSE {})
    BY <1>1, ToldAppend
  <2> QED
    BY <2>1
<1> QED
  BY <1>2 DEF Told, ToldIn

LEMMA ProcTargetReports ==
  ASSUME ArgTypes, OnceInv, NEW t \in Targets, NEW p \in WordSet \cup {Nil}, ProcTarget(t, p), Told("mandatory") = {}
  PROVE  Told("mandatory")' = {}
<1>1. CASE errs' = errs
  BY <1>1 DEF Told
<1>2. CASE \E what \in {"missing", "multiple", "exception"} : errs' = Append(errs, <<what, t>>)
  <2>1. PICK what \in {"missing", "multiple", "exception"} : errs' = Append(errs, <<what, t>>)
    BY <1>2
  <2>2. <<what, t>> \in ErrorSet /\ <<what, t>>[1] # "mandatory"
    BY DEF ErrorSet
  <2> QED
    BY <2>1, <2>2, OtherErrors
<1> QED
  BY <1>1, <1>2, ProcTargetTypes

LEMMA ArgTaken ==
  ASSUME ArgTypes, ProcArg
  PROVE  LET taken == NeedsParameter(Head(args)) /\ params # <<>>
             p == IF taken THEN Head(params) ELSE Nil
         IN Head(args) \in Targets /\ p \in WordSet \cup {Nil} /\ ProcTarget(Head(args), p)
<1>1. Head(args) \in Targets
  BY HeadTailProperties DEF ProcArg, ArgTypes, CallTypes
<1>2. params # <<>> => Head(params) \in WordSet
  BY HeadTailProperties DEF ArgTypes, CallTypes
<1> QED
  BY <1>1, <1>2 DEF ProcArg

LEMMA ParamTaken ==
  ASSUME ArgTypes, ProcParam
  PROVE  /\ Head(params) \in WordSet
         /\ pos # <<>> => Head(pos) \in Targets /\ ProcTarget(Head(pos), Head(params))
BY HeadTailProperties DEF ProcParam, ArgTypes, TargetTypes, CallTypes

LEMMA ReportNext == ArgTypes /\ OnceInv /\ ReportInv /\ [Next]_vars => ReportInv'
<1> SUFFICES ASSUME ArgTypes, OnceInv, ReportInv, [Next]_vars
             PROVE  ReportInv'
  OBVIOUS
<1> USE DEF ReportInv
<1>1. CASE UNCHANGED vars
  BY <1>1 DEF vars, targets, call, Told, ReportedTruly, Ended, Parsing
<1>2. CASE AddArg \/ AddPassthrough
  <2>1. pc' = "idle" /\ line' = <<>>
    BY <1>2 DEF AddArg, AddPassthrough, call
  <2> QED
    BY <2>1 DEF ReportedTruly, Ended, Parsing
<1>3. CASE ResetTargets \/ ClearArgs
  <2>1. pc' = "idle" /\ line' = <<>>
    BY <1>3 DEF ResetTargets, ClearArgs
  <2> QED
    BY <2>1 DEF ReportedTruly, Ended, Parsing
<1>4. CASE \E l \in Lines : Parse(l)
  <2>1. PICK l \in Lines : Parse(l)
    BY <1>4
  <2>2. todo' = <<>> /\ line' = l /\ errs' = <<>> /\ pc' = IF l = <<>> THEN "idle" ELSE "read"
    BY <2>1 DEF Parse
  <2>3. Told("mandatory")' = {}
    BY <2>2 DEF Told
  <2> QED
    BY <2>2, <2>3 DEF ReportedTruly, Ended, Parsing
<1>5. CASE ReadOne
  <2>1. pc' = "read" /\ UNCHANGED <<line, todo>> /\ line # <<>> /\ Told("mandatory") = {}
        /\ errs' = IF Unknown(Head(rest)) THEN Append(errs, Error("unknown", Nil)) ELSE errs
    BY <1>5 DEF ReadOne, Reading, Parsing
  <2>2. Error("unknown", Nil) \in ErrorSet /\ Error("unknown", Nil)[1] # "mandatory"
    BY DEF Error, ErrorSet
  <2>3. Told("mandatory")' = {}
    <3>1. CASE errs' = errs
      BY <2>1, <3>1 DEF Told
    <3> QED
      BY <2>1, <2>2, <3>1, OtherErrors
  <2> QED
    BY <2>1, <2>3 DEF ReportedTruly, Ended, Parsing
<1>6. CASE EndRead \/ EndArgs
  BY <1>6 DEF EndRead, EndArgs, call, ReportedTruly, Ended, Parsing, Told
<1>7. CASE ProcArg
  <2>1. pc' = "args" /\ UNCHANGED <<line, todo>> /\ line # <<>> /\ Told("mandatory") = {}
    BY <1>7 DEF ProcArg, Parsing
  <2>2. Told("mandatory")' = {}
    BY <1>7, <2>1, ArgTaken, ProcTargetReports
  <2> QED
    BY <2>1, <2>2 DEF ReportedTruly, Ended, Parsing
<1>8. CASE ProcParam
  <2>1. pc' = "params" /\ UNCHANGED <<line, todo>> /\ line # <<>> /\ Told("mandatory") = {}
    BY <1>8 DEF ProcParam, Parsing
  <2>2. CASE pos = <<>>
    <3>1. Error("unknown", Nil) \in ErrorSet /\ Error("unknown", Nil)[1] # "mandatory"
      BY DEF Error, ErrorSet
    <3>2. errs' = Append(errs, Error("unknown", Nil))
      BY <1>8, <2>2 DEF ProcParam
    <3>3. Told("mandatory")' = {}
      BY <2>1, <3>1, <3>2, OtherErrors
    <3> QED
      BY <2>1, <3>3 DEF ReportedTruly, Ended, Parsing
  <2>3. CASE pos # <<>>
    <3>1. Told("mandatory")' = {}
      BY <1>8, <2>1, <2>3, ParamTaken, ProcTargetReports
    <3> QED
      BY <2>1, <3>1 DEF ReportedTruly, Ended, Parsing
  <2> QED
    BY <2>2, <2>3
<1>9. CASE EndParse
  <2>1. /\ pc' = "idle" /\ UNCHANGED <<line, todo, added, processed>> /\ line # <<>> /\ Told("mandatory") = {}
        /\ errs' = errs \o [i \in DOMAIN Missing |-> Error("mandatory", Missing[i])]
    BY <1>9 DEF EndParse, call, targets, Parsing
  <2>2. Len(errs) \in Nat /\ DOMAIN errs = 1 .. Len(errs)
    BY LenProperties DEF ArgTypes, CallTypes
  <2>3. /\ errs' \in Seq(ErrorSet) /\ \A i \in 1 .. Len(errs) : errs'[i] = errs[i]
        /\ \A i \in Len(errs) + 1 .. Len(errs') :
             i - Len(errs) \in DOMAIN Missing /\ errs'[i] = <<"mandatory", Missing[i - Len(errs)]>>
    BY <2>1, MandatoryErrors
  <2>4. Len(errs') \in Nat /\ DOMAIN errs' = 1 .. Len(errs')
    BY <2>3, LenProperties
  <2>5. \A i \in Told("mandatory")' : i \in Len(errs) + 1 .. Len(errs')
    BY <2>1, <2>2, <2>3, <2>4 DEF Told
  <2>6. \A k \in DOMAIN Missing : Missing[k] \in added /\ Mandatory(Missing[k]) /\ ~processed[Missing[k]]
    BY MissingAreTargets, LenProperties, ElementOfSeq
  <2>7. ASSUME NEW i \in Told("mandatory")'
        PROVE  /\ errs'[i][2] = Missing[i - Len(errs)] /\ i - Len(errs) \in DOMAIN Missing /\ i \in Int
               /\ errs'[i][2] \in added /\ Mandatory(errs'[i][2]) /\ ~processed[errs'[i][2]]
    BY <2>2, <2>3, <2>5, <2>6
  <2>8. ASSUME NEW i \in Told("mandatory")', NEW j \in Told("mandatory")', errs'[i] = errs'[j]
        PROVE  i = j
    <3>1. i - Len(errs) = j - Len(errs)
      BY <2>7, <2>8, MissingAreTargets
    <3> QED
      BY <2>2, <2>7, <3>1
  <2>9. ReportedTruly'
    BY <2>1, <2>7, <2>8 DEF ReportedTruly, Mandatory
  <2> QED
    BY <2>1, <2>9 DEF Parsing
<1>10. CASE Crash
  BY <1>10 DEF Crash, call, ReportedTruly, Ended, Parsing
<1> QED
  BY <1>1, <1>2, <1>3, <1>4, <1>5, <1>6, <1>7, <1>8, <1>9, <1>10 DEF Next

LEMMA ReportInit == Init => ReportInv
BY DEF Init, ReportInv, Parsing, ReportedTruly, Ended

\* No argument is reported as missing that was processed, none twice under its two names,
\* and none that is optional (the fourth step of parseArgs()).
THEOREM MissingIsReportedTruly == Spec => []ReportedTruly
<1>1. ReportInv => ReportedTruly
  BY DEF ReportInv
<1> QED
  BY <1>1, ArgInit, ArgNext, ReportInit, ReportNext, PTL DEF Spec

-----------------------------------------------------------------------------
(* ArgHandler: what a command line means *)

\* What of the words is read is made of these.
LEMMA SameWords ==
  ASSUME UNCHANGED <<added, line, rest>>
  PROVE  /\ Taken' = Taken /\ Words' = Words /\ Asked' = Asked /\ Offered' = Offered
         /\ Cardinality(UnknownIn(Words))' = Cardinality(UnknownIn(Words))
<1>1. Taken' = Taken /\ Words' = Words
  BY DEF Taken, Words
<1>2. Asked' = Asked
  BY <1>1 DEF Asked, Named, Meant, Combined, Letters, GetTarget
<1>3. Offered' = Offered
  BY <1>1 DEF Offered, Parameters, IsParam, Combined, Letters, GetTarget
<1>4. UnknownIn(Words)' = UnknownIn(Words)
  BY <1>1 DEF UnknownIn, Unknown, Combined, Letters, GetTarget
<1> QED
  BY <1>1, <1>2, <1>3, <1>4

LEMMA WordTypes ==
  ASSUME ArgTypes, LineInv, line # <<>>
  PROVE  /\ Words \in Seq(WordSet) /\ Asked \in Seq(Targets) /\ Offered \in Seq(WordSet)
         /\ Len(Asked) \in Nat /\ Len(Offered) \in Nat /\ Cardinality(UnknownIn(Words)) \in Nat
         /\ Taken \in 0 .. Len(line) /\ Len(line) \in Nat /\ Len(rest) \in Nat /\ Len(rest) = Len(line) - Taken
<1>1. /\ Taken \in Nat /\ Len(line) \in Nat /\ Len(rest) \in Nat /\ Taken \in 0 .. Len(line)
      /\ Len(rest) = Len(line) - Taken /\ line \in Seq(WordSet)
  BY LenProperties DEF LineInv, Taken, ArgTypes, CallTypes
<1>2. \A i \in 1 .. Taken : line[i] \in WordSet
  BY <1>1, ElementOfSeq
<1>3. Words \in Seq(WordSet)
  BY <1>1, <1>2, SubSeqProperties DEF Words
<1>4. Asked \in Seq(Targets) /\ Offered \in Seq(WordSet) /\ IsFiniteSet(UnknownIn(Words))
  BY <1>3, NamedTypes DEF Asked, Offered
<1> QED
  BY <1>1, <1>3, <1>4, LenProperties, FS_CardinalityType

\* One word more is read.
LEMMA MoreWords ==
  ASSUME ArgTypes, LineInv, line # <<>>, rest # <<>>, UNCHANGED <<added, line>>, rest' = Tail(rest)
  PROVE  LET w == Head(rest)
         IN /\ w \in WordSet /\ w = line[Taken + 1] /\ Taken' = Taken + 1
            /\ rest' = SubSeq(line, Taken + 2, Len(line))
            /\ Asked' = Asked \o Meant(w)
            /\ Offered' = IF IsParam(w) THEN Append(Offered, w) ELSE Offered
            /\ Cardinality(UnknownIn(Words))'
                 = Cardinality(UnknownIn(Words)) + (IF Unknown(w) THEN 1 ELSE 0)
<1> DEFINE w == Head(rest)
           n == Taken
           s == Append(Words, w)
<1>1. /\ n \in Nat /\ Len(line) \in Nat /\ n \in 0 .. Len(line) /\ Len(rest) = Len(line) - n
      /\ line \in Seq(WordSet) /\ rest \in Seq(WordSet) /\ rest = SubSeq(line, n + 1, Len(line))
      /\ Words \in Seq(WordSet) /\ Len(rest) # 0
  BY WordTypes, EmptySeq DEF ArgTypes, CallTypes, LineInv
<1>2. w \in WordSet /\ Len(rest') = Len(rest) - 1
  BY <1>1, HeadTailProperties
<1>3. Taken' = n + 1
  BY <1>1, <1>2 DEF Taken
<1>4. n + 1 \in 1 .. Len(line) /\ Len(line) \in n + 1 .. Len(line)
  BY <1>1
<1>5. w = line[n + 1] /\ rest' = SubSeq(line, n + 2, Len(line))
  <2> DEFINE m == n + 1
             l == Len(line)
  <2>1. m \in 1 .. Len(line) /\ l \in m .. Len(line) /\ rest = SubSeq(line, m, l) /\ m + 1 = n + 2
    BY <1>1, <1>4
  <2> HIDE DEF m, l
  <2>2. Head(SubSeq(line, m, l)) = line[m] /\ Tail(SubSeq(line, m, l)) = SubSeq(line, m + 1, l)
    BY <1>1, <2>1, HeadTailOfSubSeq
  <2> QED
    BY <2>1, <2>2 DEF m, l
<1>6. Words' = s
  <2>1. Words' = SubSeq(line, 1, n + 1) /\ Words = SubSeq(line, 1, n)
    BY <1>3 DEF Words
  <2>2. SubSeq(line, 1, n + 1) = SubSeq(line, 1, n) \o <<line[n + 1]>>
    <3> DEFINE m == n + 1
    <3>1. m \in 1 .. Len(line) /\ 1 \in 1 .. Len(line) /\ m - 1 = n
      BY <1>1, <1>4
    <3> HIDE DEF m
    <3>2. SubSeq(line, 1, m) = SubSeq(line, 1, m - 1) \o <<line[m]>>
      BY <1>1, <3>1, SubSeqRecursiveSecond
    <3> QED
      BY <3>1, <3>2 DEF m
  <2>3. s = Words \o <<w>>
    BY <1>1, <1>2, AppendIsConcat
  <2> QED
    BY <1>5, <2>1, <2>2, <2>3
<1>7. Asked' = Named(s)
  BY <1>6 DEF Asked, Named, Meant, Combined, Letters, GetTarget
<1>8. Offered' = Parameters(s)
  BY <1>6 DEF Offered, Parameters, IsParam, Combined, Letters, GetTarget
<1>9. UnknownIn(Words)' = UnknownIn(s)
  BY <1>6 DEF UnknownIn, Unknown, Combined, Letters, GetTarget
<1> QED
  BY <1>1, <1>2, <1>3, <1>5, <1>7, <1>8, <1>9, NamedAppend DEF Asked, Offered

\* Where no word is read, a step keeps what is said of them.
LEMMA SameLine ==
  ASSUME LineInv, UNCHANGED <<line, rest, init>>, pc \in {"args", "params"}
  PROVE  LineInv'
BY DEF LineInv, Taken

\* The two ways an error may come.
LEMMA UnknownMore ==
  ASSUME ArgTypes, errs' = Append(errs, Error("unknown", Nil))
  PROVE  Cardinality(Told("unknown"))' = Cardinality(Told("unknown")) + 1
<1>1. Error("unknown", Nil) \in ErrorSet /\ Error("unknown", Nil)[1] = "unknown" /\ errs \in Seq(ErrorSet)
  BY DEF Error, ErrorSet, ArgTypes, CallTypes
<1>2. Cardinality(ToldIn(Append(errs, Error("unknown", Nil)), "unknown")) = Cardinality(ToldIn(errs, "unknown")) + 1
  BY <1>1, ToldAppend
<1> QED
  BY <1>2 DEF Told, ToldIn

LEMMA UnknownSame ==
  ASSUME ArgTypes, OnceInv, NEW t \in Targets, NEW p \in WordSet \cup {Nil}, ProcTarget(t, p)
  PROVE  Cardinality(Told("unknown"))' = Cardinality(Told("unknown"))
<1>1. CASE errs' = errs
  BY <1>1 DEF Told
<1>2. CASE \E what \in {"missing", "multiple", "exception"} : errs' = Append(errs, <<what, t>>)
  <2>1. PICK what \in {"missing", "multiple", "exception"} : errs' = Append(errs, <<what, t>>)
    BY <1>2
  <2>2. <<what, t>> \in ErrorSet /\ <<what, t>>[1] # "unknown" /\ errs \in Seq(ErrorSet)
    BY DEF ErrorSet, ArgTypes, CallTypes
  <2>3. ToldIn(Append(errs, <<what, t>>), "unknown")
          = ToldIn(errs, "unknown") \cup (IF <<what, t>>[1] = "unknown" THEN {Len(errs) + 1} ELSE {})
    BY <2>2, ToldAppend
  <2>4. ToldIn(Append(errs, <<what, t>>), "unknown") = ToldIn(errs, "unknown")
    BY <2>2, <2>3
  <2> QED
    BY <2>1, <2>4 DEF Told, ToldIn
<1> QED
  BY <1>1, <1>2, ProcTargetTypes

LEMMA ParseInit == Init => ParseInv
BY DEF Init, ParseInv, LineInv, WorkInv, Ended

LEMMA ParseStarts ==
  ASSUME ArgTypes, ParseInv, NEW l \in Lines, Parse(l)
  PROVE  ParseInv'
<1>1. line' = l /\ rest' = l /\ pc' = (IF l = <<>> THEN "idle" ELSE "read") /\ done' = <<>> /\ errs' = <<>>
      /\ UNCHANGED <<added, init>> /\ args' = <<>> /\ params' = <<>> /\ l \in Seq(WordSet)
  BY ArgAssumption DEF Parse, WordSet, targets, ParseInv, WorkInv
<1>2. CASE l = <<>>
  BY <1>1, <1>2 DEF ParseInv, LineInv, WorkInv, Ended
<1>3. CASE l # <<>>
  <2>1. Len(l) \in Nat
    BY <1>1, LenProperties
  <2>2. Taken' = 0
    BY <1>1, <2>1 DEF Taken
  <2>3. LineInv'
    <3>1. rest' = SubSeq(l, 1, Len(l))
      BY <1>1, SubSeqFull
    <3> QED
      BY <1>1, <1>3, <2>2, <3>1 DEF LineInv
  <2>4. Words' = <<>>
    BY <1>1, <2>2, SubSeqEmpty DEF Words
  <2>5. Asked' = <<>> /\ Offered' = <<>> /\ Cardinality(UnknownIn(Words))' = 0
    <3>1. Asked' = Named(<<>>)
      BY <1>1, <2>4 DEF Asked, Named, Meant, Combined, Letters, GetTarget
    <3>2. Offered' = Parameters(<<>>)
      BY <1>1, <2>4 DEF Offered, Parameters, IsParam, Combined, Letters, GetTarget
    <3>3. UnknownIn(Words)' = UnknownIn(<<>>)
      BY <1>1, <2>4 DEF UnknownIn, Unknown, Combined, Letters, GetTarget
    <3> QED
      BY <3>1, <3>2, <3>3, NamedEmpty
  <2>6. Cardinality(Told("unknown"))' = 0
    BY <1>1, ToldEmpty DEF Told, ToldIn
  <2>7. WorkInv'
    BY <1>1, <1>3, <2>5, <2>6 DEF WorkInv, Ended, UnknownTold
  <2> QED
    BY <2>3, <2>7 DEF ParseInv
<1> QED
  BY <1>2, <1>3

\* What is left of a sequence once its first n elements have been taken.
LEMMA RestOf ==
  ASSUME NEW T, NEW s \in Seq(T), NEW n \in 0 .. Len(s)
  PROVE  LET q == SubSeq(s, n + 1, Len(s))
         IN /\ q \in Seq(T) /\ Len(q) = Len(s) - n /\ (q = <<>> <=> n = Len(s))
            /\ n < Len(s) => Head(q) = s[n + 1] /\ Tail(q) = SubSeq(s, n + 2, Len(s))
<1> DEFINE l == Len(s)
           m == n + 1
           q == SubSeq(s, m, l)
<1>1. l \in Nat /\ m \in Nat /\ m \in 1 .. l + 1 /\ l - m + 1 = l - n /\ (m <= l <=> n < l) /\ n \in Nat
  BY LenProperties
<1>2. q \in Seq(T) /\ Len(q) = l - n
  <2>1. \A i \in m .. l : s[i] \in T
    BY <1>1, ElementOfSeq
  <2> HIDE DEF m, l
  <2>2. q \in Seq(T) /\ Len(q) = IF m <= l THEN l - m + 1 ELSE 0
    BY <1>1, <2>1, SubSeqProperties
  <2>3. ~(m <= l) => l - n = 0
    BY <1>1 DEF l
  <2> QED
    BY <1>1, <2>2, <2>3
<1>3. q = <<>> <=> n = l
  <2> HIDE DEF q
  <2>1. q = <<>> <=> Len(q) = 0
    BY <1>2, EmptySeq
  <2>2. Len(q) = l - n /\ l \in Nat /\ n \in Nat
    BY <1>1, <1>2
  <2> HIDE DEF l
  <2> QED
    BY <2>1, <2>2
<1>4. ASSUME n < l
      PROVE  Head(q) = s[n + 1] /\ Tail(q) = SubSeq(s, n + 2, l)
  <2>1. m \in 1 .. l /\ l \in m .. l /\ m + 1 = n + 2
    BY <1>1, <1>4
  <2> HIDE DEF m
  <2>2. Head(q) = s[m] /\ Tail(q) = SubSeq(s, m + 1, l)
    BY <2>1, HeadTailOfSubSeq
  <2> QED
    BY <2>1, <2>2 DEF m
<1> QED
  BY <1>2, <1>3, <1>4

LEMMA UsedTypes ==
  ASSUME ArgTypes, LineInv, line # <<>>, NEW n \in Nat
  PROVE  /\ Used(n) \in 0 .. Len(Offered) /\ Wanting(Asked, n) \in Nat /\ Used(0) = 0
         /\ Wanting(Asked, n + 1) = Wanting(Asked, n) + (IF NeedsParameter(Asked[n + 1]) THEN 1 ELSE 0)
<1>1. /\ Wanting(Asked, n) \in Nat /\ Wanting(Asked, 0) = 0
      /\ Wanting(Asked, n + 1) = Wanting(Asked, n) + (IF NeedsParameter(Asked[n + 1]) THEN 1 ELSE 0)
  BY WantingNext
<1>2. Len(Offered) \in Nat
  BY WordTypes
<1> QED
  BY <1>1, <1>2 DEF Used

\* What has been said of the first n arguments stays said, if no word is read.
LEMMA SameGiven ==
  ASSUME Asked' = Asked, Offered' = Offered
  PROVE  /\ \A n : Wanting(Asked, n)' = Wanting(Asked, n)
         /\ \A n : Used(n)' = Used(n)
<1>1. \A n : Wanting(Asked, n)' = Wanting(Asked, n)
  BY DEF Wanting, NeedsParameter
<1> QED
  BY <1>1 DEF Used

LEMMA ReadOneParses ==
  ASSUME ArgTypes, ParseInv, ReportInv, ReadOne
  PROVE  ParseInv'
<1> DEFINE w == Head(rest)
<1>1. /\ line # <<>> /\ rest # <<>> /\ w # init /\ rest' = Tail(rest) /\ args' = args \o Meant(w)
      /\ params' = (IF IsParam(w) THEN Append(params, w) ELSE params)
      /\ errs' = (IF Unknown(w) THEN Append(errs, Error("unknown", Nil)) ELSE errs)
      /\ UNCHANGED <<added, line, init, pc, done>> /\ pc = "read"
  BY DEF ReadOne, Reading, ReportInv, Parsing
<1>2. LineInv /\ args = Asked /\ params = Offered /\ done = <<>> /\ UnknownTold(0)
  BY <1>1 DEF ParseInv, WorkInv
<1>3. /\ w = line[Taken + 1] /\ Taken' = Taken + 1 /\ rest' = SubSeq(line, Taken + 2, Len(line))
      /\ Asked' = Asked \o Meant(w) /\ Offered' = (IF IsParam(w) THEN Append(Offered, w) ELSE Offered)
      /\ Cardinality(UnknownIn(Words))' = Cardinality(UnknownIn(Words)) + (IF Unknown(w) THEN 1 ELSE 0)
  BY <1>1, <1>2, MoreWords
<1> HIDE DEF w
<1>4. LineInv'
  <2>1. Taken \in Nat /\ Taken + 1 \in Nat /\ Taken + 1 + 1 = Taken + 2 /\ Len(line) \in Nat
    <3>1. Taken \in 0 .. Len(line) /\ Len(line) \in Nat
      BY <1>1, <1>2, WordTypes
    <3> QED
      BY <3>1
  <2>2. \A i \in 1 .. Taken + 1 : i \in 1 .. Taken \/ i = Taken + 1
    BY <2>1
  <2>3. \A i \in 1 .. Taken + 1 : line[i] # init
    BY <1>1, <1>2, <1>3, <2>2 DEF LineInv
  <2> QED
    BY <1>1, <1>3, <2>1, <2>3 DEF LineInv
<1>5. UnknownTold(0)'
  <2>1. Cardinality(UnknownIn(Words)) \in Nat /\ Cardinality(Told("unknown")) = Cardinality(UnknownIn(Words))
    BY <1>1, <1>2, WordTypes DEF UnknownTold
  <2>2. CASE Unknown(w)
    BY <1>1, <1>3, <2>1, <2>2, UnknownMore DEF UnknownTold
  <2>3. CASE ~Unknown(w)
    <3>1. Told("unknown")' = Told("unknown")
      BY <1>1, <2>3 DEF Told
    <3> QED
      BY <1>1, <1>3, <2>1, <2>3, <3>1 DEF UnknownTold
  <2> QED
    BY <2>2, <2>3
<1>6. WorkInv'
  BY <1>1, <1>2, <1>3, <1>5 DEF WorkInv, Ended
<1> QED
  BY <1>4, <1>6 DEF ParseInv

LEMMA EndReadParses ==
  ASSUME ArgTypes, ParseInv, ReportInv, EndRead
  PROVE  ParseInv'
<1>1. /\ line # <<>> /\ (rest = <<>> \/ Head(rest) = init) /\ pc' = "args" /\ pc = "read"
      /\ UNCHANGED <<added, line, rest, init, args, params, done, errs>>
  BY DEF EndRead, Reading, ReportInv, Parsing, call
<1>2. LineInv /\ args = Asked /\ params = Offered /\ done = <<>> /\ UnknownTold(0)
  BY <1>1 DEF ParseInv, WorkInv
<1>3. LineInv'
  BY <1>1, <1>2 DEF LineInv, Taken
<1>4. Asked' = Asked /\ Offered' = Offered /\ Cardinality(UnknownIn(Words))' = Cardinality(UnknownIn(Words))
  BY <1>1, SameWords
<1>5. UnknownTold(0)'
  BY <1>1, <1>2, <1>4 DEF UnknownTold, Told
<1>6. Used(0)' = 0
  BY <1>1, <1>2, <1>4, SameGiven, UsedTypes
<1>7. Asked = SubSeq(Asked, 1, Len(Asked)) /\ Offered = SubSeq(Offered, 1, Len(Offered)) /\ Len(Asked) \in Nat
  BY <1>1, <1>2, WordTypes, SubSeqFull
<1>8. Len(done)' = 0 /\ 0 + 1 = 1
  BY <1>1, <1>2
<1>9. Given(0)'
  BY DEF Given
<1>10. WorkInv'
  BY <1>1, <1>2, <1>4, <1>5, <1>6, <1>7, <1>8, <1>9 DEF WorkInv, Ended
<1> QED
  BY <1>3, <1>10 DEF ParseInv

LEMMA ProcArgParses ==
  ASSUME ArgTypes, OnceInv, ParseInv, ReportInv, ProcArg
  PROVE  ParseInv'
<1> DEFINE n == Len(done)
           taken == NeedsParameter(Head(args)) /\ params # <<>>
           t == Head(args)
           p == IF taken THEN Head(params) ELSE Nil
           given == IF NeedsParameter(Asked[n + 1]) /\ Wanting(Asked, n + 1) <= Len(Offered)
                    THEN Offered[Wanting(Asked, n + 1)] ELSE Nil
<1>1. /\ line # <<>> /\ pc = "args" /\ pc' = "args" /\ args # <<>> /\ args' = Tail(args)
      /\ params' = (IF taken THEN Tail(params) ELSE params)
      /\ UNCHANGED <<added, line, rest, init>> 
  BY DEF ProcArg, ReportInv, Parsing
<1>2. /\ LineInv /\ n <= Len(Asked) /\ Given(n) /\ args = SubSeq(Asked, n + 1, Len(Asked))
      /\ params = SubSeq(Offered, Used(n) + 1, Len(Offered)) /\ UnknownTold(0)
  BY <1>1 DEF ParseInv, WorkInv
<1>3. /\ Asked \in Seq(Targets) /\ Offered \in Seq(WordSet) /\ Len(Asked) \in Nat /\ Len(Offered) \in Nat
      /\ n \in Nat /\ n \in 0 .. Len(Asked)
      /\ Used(n) \in 0 .. Len(Offered) /\ Wanting(Asked, n) \in Nat
      /\ Wanting(Asked, n + 1) = Wanting(Asked, n) + (IF NeedsParameter(Asked[n + 1]) THEN 1 ELSE 0)
  <2>1. n \in Nat
    BY LenProperties DEF ArgTypes, CallTypes
  <2> QED
    BY <1>1, <1>2, <2>1, WordTypes, UsedTypes
<1>4. t \in Targets /\ p \in WordSet \cup {Nil} /\ ProcTarget(t, p)
  BY ArgTaken
<1>5. done' = Append(done, <<t, p>>) /\ Len(done') = n + 1 /\ done'[n + 1] = <<t, p>>
      /\ \A i \in 1 .. n : done'[i] = done[i]
  <2>1. done' = Append(done, <<t, p>>)
    BY <1>4, ProcTargetTypes
  <2>2. done \in Seq(Targets \X (WordSet \cup {Nil})) /\ <<t, p>> \in Targets \X (WordSet \cup {Nil})
    BY <1>4 DEF ArgTypes, CallTypes
  <2> QED
    BY <2>1, <2>2, AppendProperties
<1> HIDE DEF n
<1>6. n < Len(Asked) /\ t = Asked[n + 1] /\ args' = SubSeq(Asked, n + 2, Len(Asked))
  <2>1. n \in 0 .. Len(Asked) /\ args = SubSeq(Asked, n + 1, Len(Asked)) /\ Asked \in Seq(Targets)
    BY <1>2, <1>3
  <2>2. /\ args = <<>> <=> n = Len(Asked)
        /\ n < Len(Asked) => Head(args) = Asked[n + 1] /\ Tail(args) = SubSeq(Asked, n + 2, Len(Asked))
    BY <2>1, RestOf
  <2>3. n < Len(Asked)
    BY <1>1, <1>3, <2>1, <2>2
  <2> QED
    BY <1>1, <2>2, <2>3
<1> DEFINE u == Used(n)
<1>7. /\ params = <<>> <=> u = Len(Offered)
      /\ u < Len(Offered) => Head(params) = Offered[u + 1] /\ Tail(params) = SubSeq(Offered, u + 2, Len(Offered))
  <2>1. u \in 0 .. Len(Offered) /\ params = SubSeq(Offered, u + 1, Len(Offered)) /\ Offered \in Seq(WordSet)
    BY <1>2, <1>3
  <2> HIDE DEF u
  <2> QED
    BY <2>1, RestOf
<1>8. u = IF Wanting(Asked, n) < Len(Offered) THEN Wanting(Asked, n) ELSE Len(Offered)
  BY DEF Used
<1>9. Used(n + 1) = IF Wanting(Asked, n + 1) < Len(Offered) THEN Wanting(Asked, n + 1) ELSE Len(Offered)
  BY DEF Used
<1> HIDE DEF u, t
<1>10. p = given /\ params' = SubSeq(Offered, Used(n + 1) + 1, Len(Offered))
  <2>1. CASE NeedsParameter(Asked[n + 1]) /\ u < Len(Offered)
    <3> u \in Nat /\ Len(Offered) \in Nat
      BY <1>3 DEF u
    <3>1. taken /\ p = Offered[u + 1] /\ params' = SubSeq(Offered, u + 2, Len(Offered))
      BY <1>1, <1>6, <1>7, <2>1 DEF t
    <3>2. Wanting(Asked, n) = u /\ Wanting(Asked, n + 1) = u + 1 /\ u + 1 <= Len(Offered)
      BY <1>3, <1>8, <2>1 DEF u
    <3>3. Used(n + 1) = u + 1 /\ u + 1 + 1 = u + 2
      BY <1>3, <1>9, <3>2 DEF u
    <3> QED
      BY <2>1, <3>1, <3>2, <3>3
  <2>2. CASE NeedsParameter(Asked[n + 1]) /\ ~(u < Len(Offered))
    <3>1. u = Len(Offered)
      BY <1>3, <2>2 DEF u
    <3>2. ~taken /\ p = Nil /\ params' = params
      BY <1>1, <1>7, <3>1
    <3>3. Wanting(Asked, n + 1) > Len(Offered) /\ Used(n + 1) = u
      BY <1>3, <1>8, <1>9, <2>2, <3>1
    <3> QED
      BY <1>2, <1>3, <2>2, <3>2, <3>3 DEF u
  <2>3. CASE ~NeedsParameter(Asked[n + 1])
    <3>1. ~taken /\ p = Nil /\ params' = params
      BY <1>1, <1>6, <2>3 DEF t
    <3>2. Used(n + 1) = u
      BY <1>3, <1>8, <1>9, <2>3
    <3> QED
      BY <1>2, <2>3, <3>1, <3>2 DEF u
  <2> QED
    BY <2>1, <2>2, <2>3
<1> HIDE DEF p
<1>11. Asked' = Asked /\ Offered' = Offered /\ Cardinality(UnknownIn(Words))' = Cardinality(UnknownIn(Words))
  BY <1>1, SameWords
<1>12. /\ \A i : Wanting(Asked, i)' = Wanting(Asked, i)
       /\ \A i : Used(i)' = Used(i)
  BY <1>11, SameGiven
<1>13. Given(Len(done))'
  <2> SUFFICES ASSUME NEW i \in 1 .. n + 1
               PROVE  done'[i] = <<Asked[i], IF NeedsParameter(Asked[i]) /\ Wanting(Asked, i) <= Len(Offered)
                                             THEN Offered[Wanting(Asked, i)] ELSE Nil>>
    BY <1>5, <1>11, <1>12 DEF Given, NeedsParameter
  <2>1. CASE i = n + 1
    BY <1>5, <1>6, <1>10, <2>1
  <2>2. CASE i # n + 1
    <3>1. i \in 1 .. n
      BY <1>3, <2>2
    <3> QED
      BY <1>2, <1>5, <3>1 DEF Given
  <2> QED
    BY <2>1, <2>2
<1>14. UnknownTold(0)'
  BY <1>2, <1>4, <1>11, UnknownSame DEF UnknownTold
<1>15. LineInv'
  BY <1>1, <1>2 DEF LineInv, Taken
<1>16. WorkInv'
  <2>1. n + 1 <= Len(Asked) /\ n + 1 + 1 = n + 2
    BY <1>3, <1>6
  <2> QED
    BY <1>1, <1>5, <1>6, <1>10, <1>11, <1>12, <1>13, <1>14, <2>1 DEF WorkInv, Ended
<1> QED
  BY <1>15, <1>16 DEF ParseInv


\* A step that changes neither the words read nor what has been done keeps this.
LEMMA SameGivens ==
  ASSUME Asked' = Asked, Offered' = Offered, UNCHANGED done
  PROVE  \A k : Given(k)' = Given(k)
<1>1. \A n : Wanting(Asked, n)' = Wanting(Asked, n)
  BY SameGiven
<1> QED
  BY <1>1 DEF Given, NeedsParameter

LEMMA EndArgsParses ==
  ASSUME ArgTypes, ParseInv, ReportInv, EndArgs
  PROVE  ParseInv'
<1> DEFINE n == Len(done)
<1>1. /\ line # <<>> /\ pc = "args" /\ pc' = "params" /\ args = <<>>
      /\ UNCHANGED <<added, line, rest, init, args, params, pos, done, errs>>
  BY DEF EndArgs, ReportInv, Parsing, call
<1>2. /\ LineInv /\ n <= Len(Asked) /\ Given(n) /\ args = SubSeq(Asked, n + 1, Len(Asked))
      /\ params = SubSeq(Offered, Used(n) + 1, Len(Offered)) /\ UnknownTold(0)
  BY <1>1 DEF ParseInv, WorkInv
<1>3. /\ Asked \in Seq(Targets) /\ Offered \in Seq(WordSet) /\ Len(Asked) \in Nat /\ Len(Offered) \in Nat
      /\ n \in Nat /\ n \in 0 .. Len(Asked) /\ Used(n) \in 0 .. Len(Offered)
  <2>1. n \in Nat
    BY LenProperties DEF ArgTypes, CallTypes
  <2> QED
    BY <1>1, <1>2, <2>1, WordTypes, UsedTypes
<1> HIDE DEF n
<1>4. n = Len(Asked)
  BY <1>1, <1>2, <1>3, RestOf
<1>5. Len(params) = Len(Offered) - Used(n)
  <2> DEFINE u == Used(n)
  <2>1. u \in 0 .. Len(Offered) /\ params = SubSeq(Offered, u + 1, Len(Offered))
    BY <1>2, <1>3
  <2> HIDE DEF u
  <2>2. Len(params) = Len(Offered) - u
    BY <1>3, <2>1, RestOf
  <2> QED
    BY <2>2 DEF u
<1>6. Asked' = Asked /\ Offered' = Offered /\ Cardinality(UnknownIn(Words))' = Cardinality(UnknownIn(Words))
  BY <1>1, SameWords
<1>7. Used(Len(Asked))' = Used(Len(Asked))
  BY <1>6, SameGiven
<1>8. Spread' = 0 /\ Used(Len(Asked)) + 0 + 1 = Used(Len(Asked)) + 1
  BY <1>1, <1>3, <1>4, <1>5, <1>6, <1>7 DEF Spread
<1>9. SpreadInv'
  <2>1. Given(Len(Asked))'
    BY <1>1, <1>2, <1>4, <1>6, SameGivens
  <2>2. SharedOut(Spread)'
    BY <1>1, <1>3, <1>4, <1>6, <1>8 DEF SharedOut, n
  <2>3. params' = SubSeq(Offered', Used(Len(Asked))' + Spread' + 1, Len(Offered'))
    BY <1>1, <1>2, <1>4, <1>6, <1>7, <1>8
  <2>4. UnknownTold(IF pos = <<>> THEN Spread ELSE 0)'
    BY <1>1, <1>2, <1>6, <1>8 DEF UnknownTold, Told
  <2> QED
    BY <1>8, <2>1, <2>2, <2>3, <2>4 DEF SpreadInv
<1>10. LineInv'
  BY <1>1, <1>2 DEF LineInv, Taken
<1>11. WorkInv'
  BY <1>1, <1>9 DEF WorkInv, Ended
<1> QED
  BY <1>10, <1>11 DEF ParseInv

-----------------------------------------------------------------------------
(* ArgHandler: turns of the positional targets *)

LEMMA RemainderStep ==
  ASSUME NEW n \in Nat \ {0}, NEW x \in Int
  PROVE  \/ (x - 1) % n = n - 1 /\ x % n = 0
         \/ x % n = ((x - 1) % n) + 1
<1> DEFINE y == x - 1
           q == y \div n
           r == y % n
           a == x \div n
           b == x % n
<1>1. y \in Int /\ x = y + 1
  OBVIOUS
<1>2. q \in Int /\ r \in 0 .. n - 1 /\ y = n * q + r /\ a \in Int /\ b \in 0 .. n - 1 /\ x = n * a + b
  BY <1>1, Division
<1> HIDE DEF y, q, r, a, b
<1>3. CASE r = n - 1
  <2>1. n * a + b = n * (q + 1) + 0 /\ q + 1 \in Int /\ 0 \in 0 .. n - 1
    BY <1>1, <1>2, <1>3
  <2>2. b = 0
    BY <1>2, <2>1, RemainderUnique
  <2> QED
    BY <1>3, <2>2 DEF y, r, b
<1>4. CASE r # n - 1
  <2>1. n * a + b = n * q + (r + 1) /\ r + 1 \in 0 .. n - 1
    BY <1>1, <1>2, <1>4
  <2>2. b = r + 1
    BY <1>2, <2>1, RemainderUnique
  <2> QED
    BY <2>2 DEF y, r, b
<1> QED
  BY <1>3, <1>4

\* The first element goes to the end: every one is found a place earlier.
LEMMA Rotated ==
  ASSUME NEW T, NEW s \in Seq(T), s # <<>>, NEW x \in Int
  PROVE  LET r == Append(Tail(s), Head(s))
         IN /\ r \in Seq(T) /\ r # <<>> /\ Len(r) = Len(s)
            /\ r[((x - 1) % Len(s)) + 1] = s[(x % Len(s)) + 1]
<1> DEFINE n == Len(s)
           t == Tail(s)
           h == Head(s)
           r == Append(t, h)
           k == (x - 1) % n
           l == x % n
<1>1. /\ n \in Nat \ {0} /\ t \in Seq(T) /\ h \in T /\ Len(t) = n - 1 /\ h = s[1]
      /\ \A i \in 1 .. n - 1 : t[i] = s[i + 1]
  <2>1. n \in Nat \ {0}
    BY EmptySeq
  <2>2. t \in Seq(T) /\ h \in T /\ Len(t) = n - 1 /\ \A i \in 1 .. Len(t) : t[i] = s[i + 1]
    BY HeadTailProperties
  <2>3. h = s[1]
    OBVIOUS
  <2> QED
    BY <2>1, <2>2, <2>3
<1> HIDE DEF t, h, n
<1>2. /\ r \in Seq(T) /\ Len(r) = n /\ r # <<>> /\ r[n] = h
      /\ \A i \in 1 .. n - 1 : r[i] = t[i]
  BY <1>1, AppendProperties
<1>3. k \in 0 .. n - 1 /\ l \in 0 .. n - 1 /\ ((k = n - 1 /\ l = 0) \/ l = k + 1)
  <2>1. x - 1 \in Int /\ n \in Nat \ {0}
    BY <1>1
  <2>2. k \in 0 .. n - 1
    BY <2>1, Division
  <2>3. l \in 0 .. n - 1
    BY <2>1, Division
  <2>4. (k = n - 1 /\ l = 0) \/ l = k + 1
    BY <2>1, RemainderStep
  <2> QED
    BY <2>2, <2>3, <2>4
<1> HIDE DEF r, k, l
<1>4. r[k + 1] = s[l + 1]
  <2>1. CASE k = n - 1 /\ l = 0
    BY <1>1, <1>2, <2>1
  <2>2. CASE l = k + 1
    <3>1. k + 1 \in 1 .. n - 1
      BY <1>1, <1>3, <2>2
    <3> QED
      BY <1>1, <1>2, <2>2, <3>1
  <2> QED
    BY <1>3, <2>1, <2>2
<1> QED
  BY <1>2, <1>4 DEF r, k, l, n, t, h

-----------------------------------------------------------------------------
(* ArgHandler: the last steps of parseArgs() *)

LEMMA SpreadTypes ==
  ASSUME ArgTypes, LineInv, line # <<>>, SpreadInv
  PROVE  LET u == Used(Len(Asked))
         IN /\ Spread \in Nat /\ u \in Nat /\ u + Spread \in 0 .. Len(Offered) /\ Len(params) \in Nat
            /\ u + Spread = Len(Offered) - Len(params)
            /\ Len(Asked) \in Nat /\ Len(Offered) \in Nat /\ Offered \in Seq(WordSet)
            /\ Cardinality(UnknownIn(Words)) \in Nat
<1> DEFINE u == Used(Len(Asked))
<1>1. /\ Len(Asked) \in Nat /\ Len(Offered) \in Nat /\ Offered \in Seq(WordSet) /\ u \in 0 .. Len(Offered)
      /\ Cardinality(UnknownIn(Words)) \in Nat
  BY WordTypes, UsedTypes
<1>2. Len(params) \in Nat
  BY LenProperties DEF ArgTypes, CallTypes
<1>3. Spread = Len(Offered) - u - Len(params) /\ Spread >= 0
  BY DEF Spread, SpreadInv
<1> HIDE DEF u
<1> QED
  BY <1>1, <1>2, <1>3 DEF u

LEMMA ProcParamParses ==
  ASSUME ArgTypes, OnceInv, ParseInv, ReportInv, ProcParam
  PROVE  ParseInv'
<1> DEFINE n == Spread
           u == Used(Len(Asked))
           a == Len(Asked)
           w == Head(params)
<1>1. /\ line # <<>> /\ pc = "params" /\ pc' = "params" /\ params # <<>> /\ params' = Tail(params)
      /\ UNCHANGED <<added, line, rest, init, args, passed>> /\ args = <<>>
  BY DEF ProcParam, ReportInv, Parsing, ParseInv, WorkInv
<1>2. LineInv /\ SpreadInv
  BY <1>1 DEF ParseInv, WorkInv
<1>3. /\ n \in Nat /\ u \in Nat /\ u + n \in 0 .. Len(Offered) /\ Len(params) \in Nat /\ a \in Nat
      /\ Len(Offered) \in Nat /\ Offered \in Seq(WordSet) /\ u + n = Len(Offered) - Len(params)
      /\ Cardinality(UnknownIn(Words)) \in Nat
  BY <1>1, <1>2, SpreadTypes
<1>4. Asked' = Asked /\ Offered' = Offered /\ Cardinality(UnknownIn(Words))' = Cardinality(UnknownIn(Words))
  BY <1>1, SameWords
<1>5. Used(Len(Asked))' = u
  BY <1>4, SameGiven
<1>6. Len(params') = Len(params) - 1 /\ w \in WordSet
  BY <1>1, HeadTailProperties DEF ArgTypes, CallTypes
<1>7. Spread' = n + 1
  <2>1. Spread' = Len(Offered) - u - (Len(params) - 1)
    BY <1>4, <1>5, <1>6 DEF Spread
  <2>2. n = Len(Offered) - u - Len(params)
    BY DEF Spread
  <2> HIDE DEF u, n
  <2> QED
    BY <1>3, <2>1, <2>2
<1>8. w = Offered[u + n + 1] /\ params' = SubSeq(Offered, u + (n + 1) + 1, Len(Offered))
  <2> DEFINE m == u + n
  <2>1. m \in 0 .. Len(Offered) /\ params = SubSeq(Offered, m + 1, Len(Offered))
        /\ m + 2 = u + (n + 1) + 1 /\ m \in Nat
    BY <1>2, <1>3 DEF SpreadInv
  <2> HIDE DEF m
  <2>2. /\ params = <<>> <=> m = Len(Offered)
        /\ m < Len(Offered) => Head(params) = Offered[m + 1] /\ Tail(params) = SubSeq(Offered, m + 2, Len(Offered))
    BY <1>3, <2>1, RestOf
  <2>3. m < Len(Offered)
    BY <1>1, <1>3, <2>1, <2>2
  <2>4. w = Offered[m + 1] /\ Tail(params) = SubSeq(Offered, m + 2, Len(Offered))
    BY <2>2, <2>3
  <2> QED
    BY <1>1, <2>1, <2>4 DEF m
<1> HIDE DEF n, u, w
<1>9. CASE pos = <<>>
  <2>1. pos' = <<>> /\ UNCHANGED done /\ errs' = Append(errs, Error("unknown", Nil))
    BY <1>9 DEF ProcParam
  <2>2. Given(Len(Asked)) /\ SharedOut(n) /\ UnknownTold(n)
    BY <1>2, <1>9 DEF SpreadInv, n
  <2>3. Given(Len(Asked))'
    BY <1>4, <2>1, <2>2, SameGivens
  <2>4. SharedOut(Spread)'
    BY <1>4, <1>9, <2>1, <2>2 DEF SharedOut
  <2>5. UnknownTold(Spread)'
    <3>1. Cardinality(Told("unknown"))' = Cardinality(Told("unknown")) + 1
      BY <2>1, UnknownMore
    <3> QED
      BY <1>3, <1>4, <1>7, <2>2, <3>1 DEF UnknownTold
  <2>6. SpreadInv'
    BY <1>3, <1>4, <1>5, <1>7, <1>8, <2>1, <2>3, <2>4, <2>5 DEF SpreadInv
  <2>7. LineInv'
    BY <1>1, <1>2 DEF LineInv, Taken
  <2> QED
    BY <1>1, <2>6, <2>7 DEF ParseInv, WorkInv, Ended
<1>10. CASE pos # <<>>
  <2> DEFINE t == Head(pos)
             l == Len(pos)
  <2>1. t \in Targets /\ ProcTarget(t, w) /\ pos' = Append(Tail(pos), Head(pos)) /\ pos \in Seq(Targets)
    BY <1>10, ParamTaken DEF ProcParam, w, ArgTypes, TargetTypes
  <2>2. pos' # <<>> /\ Len(pos') = l /\ l \in Nat \ {0} /\ t = pos[1]
    <3>1. \A x \in Int : pos' # <<>> /\ Len(pos') = l
      BY <1>10, <2>1, Rotated
    <3>2. 0 \in Int
      OBVIOUS
    <3>3. pos' # <<>> /\ Len(pos') = l
      BY <3>1, <3>2
    <3>4. l \in Nat \ {0}
      BY <1>10, <2>1, EmptySeq
    <3>5. t = pos[1]
      BY <2>1
    <3> QED
      BY <3>3, <3>4, <3>5
  <2>3. \A x \in Int : pos'[((x - 1) % l) + 1] = pos[(x % l) + 1]
    BY <1>10, <2>1, Rotated
  <2>4. Given(a) /\ SharedOut(n) /\ UnknownTold(0)
    BY <1>2, <1>10 DEF SpreadInv, n
  <2>5. Len(done) = a + n /\ \A k \in 1 .. n : done[a + k] = <<pos[((k - 1 - n) % l) + 1], Offered[u + k]>>
    BY <1>10, <2>4 DEF SharedOut, u
  <2>6. done' = Append(done, <<t, w>>) /\ Len(done') = a + n + 1 /\ done'[a + n + 1] = <<t, w>>
        /\ \A i \in 1 .. a + n : done'[i] = done[i]
    <3>1. done' = Append(done, <<t, w>>)
      BY <1>6, <2>1, ProcTargetTypes
    <3>2. done \in Seq(Targets \X (WordSet \cup {Nil})) /\ <<t, w>> \in Targets \X (WordSet \cup {Nil})
      BY <1>6, <2>1 DEF ArgTypes, CallTypes
    <3> QED
      BY <2>5, <3>1, <3>2, AppendProperties
  <2> HIDE DEF t, l, a
  <2>7. Given(Len(Asked))'
    <3> SUFFICES ASSUME NEW i \in 1 .. a
                 PROVE  done'[i] = <<Asked[i], IF NeedsParameter(Asked[i]) /\ Wanting(Asked, i) <= Len(Offered)
                                               THEN Offered[Wanting(Asked, i)] ELSE Nil>>
      <4>1. \A i : Wanting(Asked, i)' = Wanting(Asked, i)
        BY <1>4, SameGiven
      <4> QED
        BY <1>4, <4>1 DEF Given, NeedsParameter, a
    <3>1. i \in 1 .. a + n
      BY <1>3
    <3> QED
      BY <2>4, <2>6, <3>1 DEF Given
  <2>8. ASSUME NEW k \in 1 .. n + 1
        PROVE  done'[a + k] = <<pos'[((k - 1 - (n + 1)) % l) + 1], Offered[u + k]>>
    <3> DEFINE x == k - 1 - n
    <3>1. x \in Int /\ x - 1 = k - 1 - (n + 1)
      BY <1>3
    <3> HIDE DEF x
    <3>2. pos'[((k - 1 - (n + 1)) % l) + 1] = pos[(x % l) + 1]
      BY <2>3, <3>1
    <3>3. CASE k = n + 1
      <4>1. x = 0 /\ a + k = a + n + 1 /\ u + k = u + n + 1
        BY <1>3, <3>3 DEF x
      <4>2. x % l = 0
        BY <2>2, <4>1
      <4> QED
        BY <1>8, <2>2, <2>6, <3>2, <4>1, <4>2
    <3>4. CASE k # n + 1
      <4>1. k \in 1 .. n /\ a + k \in 1 .. a + n
        BY <1>3, <3>4
      <4> QED
        BY <2>5, <2>6, <3>2, <4>1 DEF x
    <3> QED
      BY <3>3, <3>4
  <2>9. SharedOut(Spread)'
    <3>1. Spread' = n + 1 /\ Len(Asked)' = a /\ Len(pos)' = l
      BY <1>4, <1>7, <2>2 DEF a
    <3>2. Len(done)' = a + (n + 1)
      BY <1>3, <2>6
    <3> QED
      BY <1>4, <1>5, <2>2, <2>8, <3>1, <3>2 DEF SharedOut
  <2>10. UnknownTold(0)'
    <3>1. Cardinality(Told("unknown"))' = Cardinality(Told("unknown"))
      BY <1>6, <2>1, UnknownSame
    <3> QED
      BY <1>4, <2>4, <3>1 DEF UnknownTold
  <2>11. SpreadInv'
    BY <1>3, <1>4, <1>5, <1>7, <1>8, <2>2, <2>7, <2>9, <2>10 DEF SpreadInv
  <2>12. LineInv'
    BY <1>1, <1>2 DEF LineInv, Taken
  <2> QED
    BY <1>1, <2>11, <2>12 DEF ParseInv, WorkInv, Ended
<1> QED
  BY <1>9, <1>10

LEMMA EndParseParses ==
  ASSUME ArgTypes, ParseInv, ReportInv, EndParse
  PROVE  ParseInv'
<1>1. /\ line # <<>> /\ pc = "params" /\ pc' = "idle" /\ params = <<>> /\ args = <<>>
      /\ UNCHANGED <<added, line, rest, init, args, params, pos, done>>
      /\ errs' = errs \o [i \in DOMAIN Missing |-> Error("mandatory", Missing[i])]
      /\ passed' = IF errs' = <<>> /\ Len(rest) > 1 THEN Tail(rest) ELSE passed
  BY DEF EndParse, ReportInv, Parsing, ParseInv, WorkInv, call
<1>2. LineInv /\ SpreadInv
  BY <1>1 DEF ParseInv, WorkInv
<1>3. Told("unknown")' = Told("unknown")
  <2>1. Len(errs) \in Nat /\ DOMAIN errs = 1 .. Len(errs)
    BY LenProperties DEF ArgTypes, CallTypes
  <2>2. /\ errs' \in Seq(ErrorSet) /\ \A i \in 1 .. Len(errs) : errs'[i] = errs[i]
        /\ \A i \in Len(errs) + 1 .. Len(errs') : errs'[i][1] = "mandatory"
        /\ Len(errs') = Len(errs) + Len(Missing) /\ Len(Missing) \in Nat
    <3>1. Len(Missing) \in Nat
      BY MissingAreTargets, LenProperties
    <3>2. \A i \in Len(errs) + 1 .. Len(errs') : errs'[i] = <<"mandatory", Missing[i - Len(errs)]>>
      BY <1>1, MandatoryErrors
    <3>3. \A i \in Len(errs) + 1 .. Len(errs') : errs'[i][1] = "mandatory"
      BY <3>2
    <3> QED
      BY <1>1, <3>1, <3>3, MandatoryErrors
  <2>3. Len(errs') \in Nat /\ DOMAIN errs' = 1 .. Len(errs') /\ Len(errs) <= Len(errs')
    BY <2>1, <2>2, LenProperties
  <2> QED
    BY <2>1, <2>2, <2>3 DEF Told
<1>4. Asked' = Asked /\ Offered' = Offered /\ Cardinality(UnknownIn(Words))' = Cardinality(UnknownIn(Words))
  BY <1>1, SameWords
<1>5. \A i : Used(i)' = Used(i)
  BY <1>4, SameGiven
<1>6. Used(Len(Asked))' = Used(Len(Asked))
  BY <1>4, <1>5
<1>7. Spread' = Spread
  BY <1>1, <1>4, <1>6 DEF Spread
<1>8. SpreadInv'
  <2>1. Given(Len(Asked))'
    BY <1>1, <1>2, <1>4, SameGivens DEF SpreadInv
  <2>2. SharedOut(Spread)'
    BY <1>1, <1>2, <1>4, <1>6, <1>7 DEF SpreadInv, SharedOut
  <2>3. UnknownTold(IF pos = <<>> THEN Spread ELSE 0)'
    BY <1>1, <1>2, <1>3, <1>4, <1>7 DEF SpreadInv, UnknownTold
  <2> QED
    BY <1>1, <1>2, <1>4, <1>6, <1>7, <2>1, <2>2, <2>3 DEF SpreadInv
<1>9. LineInv'
  BY <1>1, <1>2 DEF LineInv, Taken
<1>10. WorkInv'
  BY <1>1, <1>8 DEF WorkInv, Ended
<1> QED
  BY <1>9, <1>10 DEF ParseInv

LEMMA StillParses ==
  ASSUME ParseInv, UNCHANGED vars
  PROVE  ParseInv'
<1>1. UNCHANGED <<added, line, rest, init, args, params, pos, done, errs, passed, pc>>
  BY DEF vars, call
<1>2. Asked' = Asked /\ Offered' = Offered /\ Cardinality(UnknownIn(Words))' = Cardinality(UnknownIn(Words))
      /\ Taken' = Taken
  BY <1>1, SameWords
<1>3. \A i : Used(i)' = Used(i)
  BY <1>2, SameGiven
<1>4. \A k : Given(k)' = Given(k)
  BY <1>1, <1>2, SameGivens
<1>5. Spread' = Spread /\ Used(Len(Asked))' = Used(Len(Asked)) /\ Given(Len(Asked))' = Given(Len(Asked))
  <2>1. Used(Len(Asked))' = Used(Len(Asked))
    BY <1>2, <1>3
  <2>2. Given(Len(Asked))' = Given(Len(Asked))
    BY <1>2, <1>4
  <2> QED
    BY <1>1, <1>2, <2>1, <2>2 DEF Spread
<1>6. \A k : UnknownTold(k)' <=> UnknownTold(k)
  BY <1>1, <1>2 DEF UnknownTold, Told
<1>7. SpreadInv => SpreadInv'
  <2> HAVE SpreadInv
  <2>1. SharedOut(Spread)'
    BY <1>1, <1>2, <1>5 DEF SpreadInv, SharedOut
  <2>2. UnknownTold(IF pos = <<>> THEN Spread ELSE 0)'
    BY <1>1, <1>2, <1>5 DEF SpreadInv, UnknownTold, Told
  <2> QED
    BY <1>1, <1>2, <1>5, <2>1, <2>2 DEF SpreadInv
<1>8. LineInv'
  BY <1>1 DEF ParseInv, LineInv, Taken
<1>9. UnknownTold(0) => UnknownTold(0)'
  BY <1>1, <1>2 DEF UnknownTold, Told
<1>10. Given(Len(done)) => Given(Len(done))'
  BY <1>1, <1>4
<1>11. Used(Len(done))' = Used(Len(done))
  BY <1>1, <1>3
<1>12. WorkInv'
  BY <1>1, <1>2, <1>7, <1>9, <1>10, <1>11 DEF ParseInv, WorkInv, Ended
<1> QED
  BY <1>8, <1>12 DEF ParseInv

LEMMA ParseNext == ArgTypes /\ OnceInv /\ ReportInv /\ ParseInv /\ [Next]_vars => ParseInv'
<1> SUFFICES ASSUME ArgTypes, OnceInv, ReportInv, ParseInv, [Next]_vars
             PROVE  ParseInv'
  OBVIOUS
<1>1. CASE AddArg \/ AddPassthrough \/ ResetTargets \/ ClearArgs
  <2>1. pc = "idle" /\ pc' = "idle" /\ line' = <<>> /\ UNCHANGED <<args, params>>
    <3>1. AddArg \/ AddPassthrough => line = <<>>
      BY DEF AddArg, AddPassthrough, ReportInv
    <3> QED
      BY <1>1, <3>1 DEF AddArg, AddPassthrough, ResetTargets, ClearArgs, call
  <2>2. args' = <<>> /\ params' = <<>>
    BY <2>1 DEF ParseInv, WorkInv
  <2> QED
    BY <2>1, <2>2 DEF ParseInv, LineInv, WorkInv, Ended
<1>2. CASE Crash
  <2>1. pc' = "crashed" /\ UNCHANGED <<line, rest, init>>
    BY <1>2 DEF Crash, call
  <2> QED
    BY <2>1 DEF ParseInv, LineInv, WorkInv, Ended, Taken
<1> QED
  BY <1>1, <1>2, StillParses, ParseStarts, ReadOneParses, EndReadParses, ProcArgParses,
     EndArgsParses, ProcParamParses, EndParseParses DEF Next

\* What has been read when parseArgs() ends is what is before PassInit.
LEMMA ReadUpTo ==
  ASSUME ArgTypes, LineInv, Ended
  PROVE  UpTo(init) = Taken
<1> DEFINE n == Taken
           l == Len(line)
<1>1. n \in 0 .. l /\ n \in Nat /\ l \in Nat /\ Len(rest) = l - n
  BY WordTypes DEF LineInv, Ended
<1>2. /\ DOMAIN line = 1 .. l /\ line \in Seq(WordSet) /\ rest \in Seq(WordSet)
      /\ rest = SubSeq(line, n + 1, l) /\ \A i \in 1 .. n : line[i] # init
      /\ (rest = <<>> \/ Head(rest) = init)
  BY LenProperties DEF ArgTypes, CallTypes, LineInv, Ended
<1>3. /\ rest = <<>> <=> n = l
      /\ n < l => Head(rest) = line[n + 1]
  BY <1>1, <1>2, RestOf
<1>4. UpTo(init) = IF \E i \in 1 .. l : line[i] = init
                   THEN (CHOOSE i \in 1 .. l : line[i] = init /\ \A j \in 1 .. i - 1 : line[j] # init) - 1
                   ELSE l
  BY <1>2 DEF UpTo
<1> HIDE DEF n, l
<1>5. CASE rest = <<>>
  BY <1>2, <1>3, <1>4, <1>5 DEF n
<1>6. CASE rest # <<>>
  <2>1. n < l /\ line[n + 1] = init
    BY <1>1, <1>2, <1>3, <1>6
  <2> DEFINE First(i) == line[i] = init /\ \A j \in 1 .. i - 1 : line[j] # init
  <2>2. n + 1 \in 1 .. l /\ n + 1 - 1 = n
    BY <1>1, <2>1
  <2>3. First(n + 1)
    <3>1. ASSUME NEW j \in 1 .. (n + 1) - 1
          PROVE  line[j] # init
      <4>1. j \in 1 .. n
        BY <1>1
      <4> QED
        BY <1>2, <4>1
    <3> QED
      BY <2>1, <3>1
  <2>4. ASSUME NEW i \in 1 .. l, First(i)
        PROVE  i = n + 1
    <3>1. ~(i <= n)
      <4>1. i <= n => i \in 1 .. n
        BY <1>1
      <4> QED
        BY <1>2, <2>4, <4>1
    <3>2. ~(n + 1 <= i - 1)
      <4>1. n + 1 <= i - 1 => n + 1 \in 1 .. i - 1
        BY <1>1
      <4> QED
        BY <2>1, <2>4, <4>1
    <3> QED
      BY <1>1, <3>1, <3>2
  <2> DEFINE first == CHOOSE i \in 1 .. l : First(i)
  <2>5. UpTo(init) = first - 1
    BY <1>4, <2>1, <2>2
  <2> HIDE DEF First
  <2>6. first = n + 1
    BY <2>2, <2>3, <2>4
  <2> HIDE DEF first
  <2>7. UpTo(init) = n
    BY <1>1, <2>5, <2>6
  <2> QED
    BY <2>7 DEF n
<1> QED
  BY <1>5, <1>6

LEMMA ParsedAtTheEnd == ArgTypes /\ ParseInv => ParsedAsDefined
<1> SUFFICES ASSUME ArgTypes, ParseInv, Ended
             PROVE  ParsedAsDefined
  BY DEF ParsedAsDefined
<1> DEFINE left == Spread
           u == Used(Len(Asked))
           behind == SubSeq(line, Taken + 2, Len(line))
<1>1. line # <<>> /\ LineInv /\ SpreadInv /\ params = <<>>
      /\ (errs = <<>> /\ Len(rest) > 1 => passed = Tail(rest))
  BY DEF ParseInv, WorkInv, Ended
<1>2. UpTo(init) = Taken
  BY <1>1, ReadUpTo
<1>3. DOMAIN Asked = 1 .. Len(Asked) /\ Len(Asked) \in Nat
  BY <1>1, WordTypes, LenProperties
<1>4. left = Len(Offered) - u
  <2>1. left = Len(Offered) - u - Len(params) /\ Len(params) = 0 /\ u \in Nat /\ Len(Offered) \in Nat
    BY <1>1, SpreadTypes DEF Spread
  <2> QED
    BY <2>1
<1>5. errs = <<>> /\ behind # <<>> => passed = behind
  <2> SUFFICES ASSUME errs = <<>>, behind # <<>>
               PROVE  passed = behind
    OBVIOUS
  <2> DEFINE n == Taken
  <2>1. /\ n \in 0 .. Len(line) /\ Len(line) \in Nat /\ Len(rest) = Len(line) - n
        /\ rest = SubSeq(line, n + 1, Len(line)) /\ line \in Seq(WordSet)
    BY <1>1, WordTypes DEF LineInv, ArgTypes, CallTypes
  <2> HIDE DEF n
  <2>2. ~(Len(line) < n + 2)
    <3>1. n + 2 \in Int /\ Len(line) \in Int
      BY <2>1
    <3>2. Len(line) < n + 2 => SubSeq(line, n + 2, Len(line)) = <<>>
      BY <3>1, SubSeqEmpty
    <3> QED
      BY <3>2 DEF n
  <2>3. n < Len(line) /\ Len(rest) > 1
    BY <2>1, <2>2
  <2>4. Tail(rest) = SubSeq(line, n + 2, Len(line))
    BY <2>1, <2>3, RestOf
  <2> QED
    BY <1>1, <2>3, <2>4 DEF n
<1>6. /\ Words = SubSeq(line, 1, UpTo(init)) /\ Asked = Named(Words) /\ Offered = Parameters(Words)
      /\ u = IF Wanting(Asked, Len(Asked)) < Len(Offered) THEN Wanting(Asked, Len(Asked)) ELSE Len(Offered)
  BY <1>2 DEF Words, Asked, Offered, Used
<1>7. /\ Len(done) = Len(Asked) + (IF pos = <<>> THEN 0 ELSE left)
      /\ \A i \in DOMAIN Asked :
           done[i] = <<Asked[i], IF NeedsParameter(Asked[i]) /\ Wanting(Asked, i) <= Len(Offered)
                             THEN Offered[Wanting(Asked, i)] ELSE Nil>>
      /\ pos # <<>> => \A k \in 1 .. left :
           done[Len(Asked) + k] = <<pos[((k - 1 - left) % Len(pos)) + 1], Offered[u + k]>>
      /\ Cardinality(Told("unknown")) = Cardinality(UnknownIn(Words)) + (IF pos = <<>> THEN left ELSE 0)
  BY <1>1, <1>3 DEF SpreadInv, Given, SharedOut, UnknownTold
<1> HIDE DEF left, u
<1> QED
  BY <1>2, <1>4, <1>5, <1>6, <1>7 DEF ParsedAsDefined

\* Whatever the arguments, their names and the words of a command line: what parseArgs()
\* processes, with which parameters and in which order, what it reports as unknown and what
\* it passes through are as defined from the line alone, through four queues and one that
\* is rotated and kept.
THEOREM LinesMeanWhatIsDefined == Spec => []ParsedAsDefined
BY ArgInit, ArgNext, ReportInit, ReportNext, ParseInit, ParseNext, ParsedAtTheEnd, PTL DEF Spec

-----------------------------------------------------------------------------
(* SinCosTable: the inductive invariant *)


Rebuilding == {"delete", "forget", "multiplier", "size", "new", "fill"}
Clearing   == {"clear", "cleared"}
Setting    == {"last", "precision"}
Locked     == Rebuilding \cup Clearing \cup Setting

TableTypes ==
  /\ precision \in Precisions /\ precision_last \in Precisions
  /\ owner \in Setters \cup {Null} /\ building \in BOOLEAN
  /\ doing \in [Setters -> Locked \cup {"idle", "lock"}]
  /\ new \in [Setters -> Precisions]
  /\ calls \in [Setters -> Nat]

\* Who is past the lock owns it.
OwnerInv == \A t \in Setters : owner = t <=> doing[t] \in Locked

Sized(p)  == tableMultiplier = Base ^ p /\ tableSize = Turn * Base ^ p
Filled(p) == tableCos = Table(p, TRUE) /\ tableSin = Table(p, TRUE) /\ Sized(p)
NoTables      == tableCos = Null /\ tableSin = Null
Fits(p)   == p > -1 => NoTables \/ Filled(p)

\* What the tables are for: while live calculation is on, the last precision.
Current == IF precision > -1 THEN precision ELSE precision_last

\* How far the owner has got. From the deletion of the tables on nothing is known of
\* them; after that they are for the new precision, unless that is live calculation.
Work(t) ==
  /\ doing[t] \in Rebuilding => new[t] > -1
  /\ doing[t] \in Rebuilding \cup Clearing => building
  /\ doing[t] \in {"cleared", "forget"} => tableCos \in {Null, Dangling} /\ tableSin \in {Null, Dangling}
  /\ doing[t] = "size" => tableMultiplier = Base ^ new[t]
  /\ doing[t] \in {"new", "fill"} => Sized(new[t])
  /\ doing[t] = "last" /\ new[t] = -1 => Fits(Current)
  /\ doing[t] = "precision" /\ new[t] = -1 => Fits(precision) /\ precision_last = precision
  /\ doing[t] \in Setting /\ new[t] > -1 => Fits(new[t]) /\ (building \/ precision = -1)
  /\ doing[t] \in Setting /\ building => new[t] > -1 /\ Filled(new[t])

ChangeInv ==
  /\ owner = Null => Fits(Current) /\ ~building
  /\ \A t \in Setters : Work(t)

\* A look-up that is not spoilt has its tables until it is done.
Looking == look.at \in {"round", "read"}

LookRecord ==
  look = [at |-> look.at, fn |-> look.fn, angle |-> look.angle, p |-> look.p, norm |-> look.norm,
          result |-> look.result, spoilt |-> look.spoilt]

LookInv ==
  /\ LookRecord
  /\ look.at \in {"idle", "round", "read", "done"}
  /\ building /\ Looking => look.spoilt
  /\ Looking /\ ~look.spoilt => Filled(look.p)
  /\ Looking => look.p \in Precisions \ {-1}
  /\ look.at # "idle" => look.angle \in Angles /\ look.fn \in {"privGetSin", "privGetCos"}
  /\ look.at = "read" /\ ~look.spoilt => look.norm \in Cast(Norm(look.angle, Base ^ look.p))

TableInv == TableTypes /\ OwnerInv /\ ChangeInv

-----------------------------------------------------------------------------
(* SinCosTable: the steps *)

LEMMA TableStart == TableInit => TableInv /\ LookInv
<1> SUFFICES ASSUME TableInit PROVE TableInv /\ LookInv  OBVIOUS
<1> USE SinCosAssumption DEF SinCosAssumption, TableInit
<1>1. TableTypes  BY DEF TableTypes, Locked
<1>2. OwnerInv  BY DEF OwnerInv, Locked, Rebuilding, Clearing, Setting
<1>3. ChangeInv  BY DEF ChangeInv, Work, Fits, Current, Rebuilding, Clearing, Setting
<1>4. LookInv  BY DEF LookInv, LookRecord, Looking, NoLook
<1>5. QED  BY <1>1, <1>2, <1>3, <1>4 DEF TableInv

LEMMA PrecisionType == \A p \in Precisions : p \in Int /\ (p = -1 \/ p > -1)
  BY SinCosAssumption DEF SinCosAssumption

\* While t works nobody else does.
LEMMA OthersRest ==
  ASSUME TableInv, NEW t \in Setters, NEW l \in Locked \cup {"idle", "lock"},
         owner = Null \/ doing[t] \in Locked, doing' = [doing EXCEPT ![t] = l],
         owner' = IF l \in Locked THEN t ELSE Null
  PROVE  /\ OwnerInv'
         /\ \A u \in Setters \ {t} : Work(u)'
<1>1. doing'[t] = l /\ \A u \in Setters \ {t} : doing'[u] \notin Locked
  BY SinCosAssumption DEF SinCosAssumption, TableInv, TableTypes, OwnerInv
<1>2. OwnerInv'  BY <1>1, SinCosAssumption DEF SinCosAssumption, OwnerInv, Locked
<1>3. ASSUME NEW u \in Setters \ {t} PROVE Work(u)'
  BY <1>1 DEF Work, Locked, Rebuilding, Clearing, Setting
<1>4. QED  BY <1>2, <1>3

LEMMA TableStep ==
  ASSUME TableInv, NEW t \in Setters,
         \/ \E p \in Precisions : Call(t, p)
         \/ ClearTables(t) \/ Change(t)
  PROVE  TableInv'
<1> USE SinCosAssumption
        DEF SinCosAssumption, TableTypes, Locked, Rebuilding, Clearing, Setting, Goto,
            numbers, sizes, tables
<1>1. ASSUME NEW p \in Precisions, Call(t, p) PROVE TableInv'
  <2>1. TableTypes'  BY <1>1 DEF Call, TableInv
  <2>2. OwnerInv'  BY <1>1 DEF Call, TableInv, OwnerInv
  <2>3. ASSUME NEW u \in Setters PROVE Work(u)'
    BY <1>1 DEF Call, TableInv, ChangeInv, Work, Sized, Fits, NoTables, Filled, Current
  <2>4. ChangeInv'  BY <1>1, <2>3 DEF Call, TableInv, ChangeInv, Fits, NoTables, Filled, Sized, Current
  <2>5. QED  BY <2>1, <2>2, <2>4 DEF TableInv
<1>2. CASE ClearTables(t)
  <2>1. TableTypes'  BY <1>2 DEF ClearTables, TableInv
  <2>2. OwnerInv' /\ \A u \in Setters \ {t} : Work(u)'
    BY <1>2, OthersRest DEF ClearTables, TableInv, OwnerInv
  <2>3. Work(t)'
    BY <1>2 DEF ClearTables, TableInv, ChangeInv, Work, Sized, Fits, NoTables, Filled, Current
  <2>4. owner' = Null => Fits(Current)' /\ ~building'
    BY <1>2 DEF ClearTables, TableInv, ChangeInv, Work, Sized, Fits, NoTables, Filled, Current
  <2>5. QED  BY <2>1, <2>2, <2>3, <2>4 DEF TableInv, ChangeInv
<1>3. CASE Lock(t)
  <2>1. TableTypes'  BY <1>3 DEF Lock, TableInv
  <2>2. OwnerInv' /\ \A u \in Setters \ {t} : Work(u)'
    BY <1>3, OthersRest DEF Lock, TableInv, OwnerInv
  <2>3. Work(t)'
    <3>1. /\ UNCHANGED <<precision, precision_last, tableMultiplier, tableSize, tableCos, tableSin, new>>
          /\ Fits(Current) /\ ~building
      <4>1. UNCHANGED <<precision, precision_last, tableMultiplier, tableSize, tableCos, tableSin, new>>
        BY <1>3 DEF Lock
      <4>2. owner = Null  BY <1>3 DEF Lock
      <4>3. QED  BY <4>1, <4>2 DEF TableInv, ChangeInv
    <3>5. new[t] \in Int /\ (new[t] = -1 \/ new[t] > -1)
      <4>1. new[t] \in Precisions  BY DEF TableInv
      <4>2. QED  BY <4>1, PrecisionType
    <3>2. CASE NeedsTables(new[t])
      <4>1. doing'[t] = "delete" /\ building' /\ new[t] > -1
        BY <1>3, <3>1, <3>5, <3>2 DEF Lock, NeedsTables, TableInv
      <4>2. QED  BY <3>1, <4>1 DEF Work
    <3>3. CASE ~NeedsTables(new[t])
      <4>1. doing'[t] = "last" /\ building' = building  BY <1>3, <3>3 DEF Lock, TableInv
      <4>2. new[t] > -1 => new[t] = precision_last /\ precision = -1
        BY <3>1, <3>5, <3>3 DEF NeedsTables
      <4>3. new[t] > -1 => Fits(new[t])  BY <3>1, <4>2 DEF Current
      <4>4. QED  BY <3>1, <4>1, <4>2, <4>3 DEF Work, Fits, NoTables, Filled, Sized, Current
    <3>4. QED  BY <3>2, <3>3
  <2>4. owner' = Null => Fits(Current)' /\ ~building'
    BY <1>3 DEF Lock, NeedsTables, TableInv, ChangeInv, Work, Sized, Fits, NoTables, Filled, Current
  <2>5. QED  BY <2>1, <2>2, <2>3, <2>4 DEF TableInv, ChangeInv
<1>4. CASE Delete(t)
  <2>1. TableTypes'  BY <1>4 DEF Delete, TableInv
  <2>2. OwnerInv' /\ \A u \in Setters \ {t} : Work(u)'
    BY <1>4, OthersRest DEF Delete, TableInv, OwnerInv
  <2>3. Work(t)'
    BY <1>4 DEF Delete, Deleted, TableInv, ChangeInv, Work, Sized, Fits, NoTables, Filled, Current
  <2>4. owner' = Null => Fits(Current)' /\ ~building'
    BY <1>4 DEF Delete, Deleted, TableInv, ChangeInv, Work, Sized, Fits, NoTables, Filled, Current
  <2>5. QED  BY <2>1, <2>2, <2>3, <2>4 DEF TableInv, ChangeInv
<1>5. CASE Forget(t)
  <2>1. TableTypes'  BY <1>5 DEF Forget, TableInv
  <2>2. OwnerInv' /\ \A u \in Setters \ {t} : Work(u)'
    BY <1>5, OthersRest DEF Forget, TableInv, OwnerInv
  <2>3. Work(t)'
    BY <1>5 DEF Forget, TableInv, ChangeInv, Work, Sized, Fits, NoTables, Filled, Current
  <2>4. owner' = Null => Fits(Current)' /\ ~building'
    BY <1>5 DEF Forget, TableInv, ChangeInv, Work, Sized, Fits, NoTables, Filled, Current
  <2>5. QED  BY <2>1, <2>2, <2>3, <2>4 DEF TableInv, ChangeInv
<1>6. CASE Cleared(t)
  <2>1. TableTypes'  BY <1>6 DEF Cleared, TableInv
  <2>2. OwnerInv' /\ \A u \in Setters \ {t} : Work(u)'
    BY <1>6, OthersRest DEF Cleared, TableInv, OwnerInv
  <2>3. Work(t)'
    BY <1>6 DEF Cleared, TableInv, ChangeInv, Work, Sized, Fits, NoTables, Filled, Current
  <2>4. owner' = Null => Fits(Current)' /\ ~building'
    BY <1>6 DEF Cleared, TableInv, ChangeInv, Work, Sized, Fits, NoTables, Filled, Current
  <2>5. QED  BY <2>1, <2>2, <2>3, <2>4 DEF TableInv, ChangeInv
<1>7. CASE SetMultiplier(t)
  <2>1. TableTypes'  BY <1>7 DEF SetMultiplier, TableInv
  <2>2. OwnerInv' /\ \A u \in Setters \ {t} : Work(u)'
    BY <1>7, OthersRest DEF SetMultiplier, TableInv, OwnerInv
  <2>3. Work(t)'
    BY <1>7 DEF SetMultiplier, TableInv, ChangeInv, Work, Sized, Fits, NoTables, Filled, Current
  <2>4. owner' = Null => Fits(Current)' /\ ~building'
    BY <1>7 DEF SetMultiplier, TableInv, ChangeInv, Work, Sized, Fits, NoTables, Filled, Current
  <2>5. QED  BY <2>1, <2>2, <2>3, <2>4 DEF TableInv, ChangeInv
<1>8. CASE SetSize(t)
  <2>1. TableTypes'  BY <1>8 DEF SetSize, TableInv
  <2>2. OwnerInv' /\ \A u \in Setters \ {t} : Work(u)'
    BY <1>8, OthersRest DEF SetSize, TableInv, OwnerInv
  <2>3. Work(t)'
    BY <1>8 DEF SetSize, TableInv, ChangeInv, Work, Sized, Fits, NoTables, Filled, Current
  <2>4. owner' = Null => Fits(Current)' /\ ~building'
    BY <1>8 DEF SetSize, TableInv, ChangeInv, Work, Sized, Fits, NoTables, Filled, Current
  <2>5. QED  BY <2>1, <2>2, <2>3, <2>4 DEF TableInv, ChangeInv
<1>9. CASE New(t)
  <2>1. TableTypes'  BY <1>9 DEF New, TableInv
  <2>2. OwnerInv' /\ \A u \in Setters \ {t} : Work(u)'
    BY <1>9, OthersRest DEF New, TableInv, OwnerInv
  <2>3. Work(t)'
    BY <1>9 DEF New, TableInv, ChangeInv, Work, Sized, Fits, NoTables, Filled, Current
  <2>4. owner' = Null => Fits(Current)' /\ ~building'
    BY <1>9 DEF New, TableInv, ChangeInv, Work, Sized, Fits, NoTables, Filled, Current
  <2>5. QED  BY <2>1, <2>2, <2>3, <2>4 DEF TableInv, ChangeInv
<1>10. CASE NewFails(t)
  <2>1. TableTypes'  BY <1>10 DEF NewFails, TableInv
  <2>2. OwnerInv' /\ \A u \in Setters \ {t} : Work(u)'
    BY <1>10, OthersRest DEF NewFails, TableInv, OwnerInv
  <2>3. Work(t)'
    BY <1>10 DEF NewFails, TableInv, ChangeInv, Work, Sized, Fits, NoTables, Filled, Current
  <2>4. owner' = Null => Fits(Current)' /\ ~building'
    BY <1>10 DEF NewFails, TableInv, ChangeInv, Work, Sized, Fits, NoTables, Filled, Current
  <2>5. QED  BY <2>1, <2>2, <2>3, <2>4 DEF TableInv, ChangeInv
<1>11. CASE Fill(t)
  <2>1. TableTypes'  BY <1>11 DEF Fill, TableInv
  <2>2. OwnerInv' /\ \A u \in Setters \ {t} : Work(u)'
    BY <1>11, OthersRest DEF Fill, TableInv, OwnerInv
  <2>3. Work(t)'
    <3>1. /\ doing[t] = "fill" /\ doing'[t] = "last" /\ new' = new /\ new[t] > -1 /\ Sized(new[t])
          /\ building /\ building' = building
      BY <1>11 DEF Fill, TableInv, ChangeInv, Work
    <3>2. Filled(new[t])'  BY <1>11, <3>1 DEF Fill, Filled, Sized
    <3>3. QED  BY <3>1, <3>2 DEF Work, Fits
  <2>4. owner' = Null => Fits(Current)' /\ ~building'
    BY <1>11 DEF Fill, TableInv, ChangeInv, Work, Sized, Fits, NoTables, Filled, Current
  <2>5. QED  BY <2>1, <2>2, <2>3, <2>4 DEF TableInv, ChangeInv
<1>12. CASE SetLast(t)
  <2>1. TableTypes'  BY <1>12 DEF SetLast, TableInv
  <2>2. OwnerInv' /\ \A u \in Setters \ {t} : Work(u)'
    BY <1>12, OthersRest DEF SetLast, TableInv, OwnerInv
  <2>3. Work(t)'
    BY <1>12 DEF SetLast, TableInv, ChangeInv, Work, Sized, Fits, NoTables, Filled, Current
  <2>4. owner' = Null => Fits(Current)' /\ ~building'
    BY <1>12 DEF SetLast, TableInv, ChangeInv, Work, Sized, Fits, NoTables, Filled, Current
  <2>5. QED  BY <2>1, <2>2, <2>3, <2>4 DEF TableInv, ChangeInv
<1>13. CASE SetPrecision(t)
  <2>1. TableTypes'  BY <1>13 DEF SetPrecision, TableInv
  <2>2. OwnerInv' /\ \A u \in Setters \ {t} : Work(u)'
    BY <1>13, OthersRest DEF SetPrecision, TableInv, OwnerInv
  <2>3. Work(t)'
    BY <1>13 DEF SetPrecision, TableInv, ChangeInv, Work, Sized, Fits, NoTables, Filled, Current
  <2>4. owner' = Null => Fits(Current)' /\ ~building'
    <3>1. /\ UNCHANGED <<precision_last, tableMultiplier, tableSize, tableCos, tableSin>>
          /\ precision' = new[t] /\ ~building' /\ doing[t] = "precision"
      BY <1>13 DEF SetPrecision
    <3>2. CASE new[t] = -1
      <4>1. Fits(precision) /\ precision_last = precision  BY <3>1, <3>2 DEF TableInv, ChangeInv, Work
      <4>2. Current' = precision  BY <3>1, <3>2, <4>1 DEF Current
      <4>3. QED  BY <3>1, <4>1, <4>2 DEF Fits, NoTables, Filled, Sized
    <3>3. CASE new[t] > -1
      <4>1. Fits(new[t])  BY <3>1, <3>3 DEF TableInv, ChangeInv, Work
      <4>2. Current' = new[t]  BY <3>1, <3>3 DEF Current
      <4>3. QED  BY <3>1, <4>1, <4>2 DEF Fits, NoTables, Filled, Sized
    <3>4. new[t] \in Precisions  BY DEF TableInv
    <3>5. new[t] = -1 \/ new[t] > -1  BY <3>4, PrecisionType
    <3>6. QED  BY <3>2, <3>3, <3>5
  <2>5. QED  BY <2>1, <2>2, <2>3, <2>4 DEF TableInv, ChangeInv
<1>14. QED
  BY <1>1, <1>2, <1>3, <1>4, <1>5, <1>6, <1>7, <1>8, <1>9, <1>10, <1>11, <1>12, <1>13 DEF Change

LEMMA TableStays == TableInv /\ [TableNext]_tableVars => TableInv'
<1> SUFFICES ASSUME TableInv, [TableNext]_tableVars PROVE TableInv'  OBVIOUS
<1>1. CASE \E t \in Setters : (\E p \in Precisions : Call(t, p)) \/ ClearTables(t) \/ Change(t)
  BY <1>1, TableStep
<1>2. ASSUME UNCHANGED <<numbers, sizes, tables, owner, building, doing, new, calls>> PROVE TableInv'
  BY <1>2 DEF TableInv, TableTypes, OwnerInv, ChangeInv, Work, Fits, NoTables, Filled, Sized, Current,
              numbers, sizes, tables
<1>3. ASSUME NEW asked, NEW a, LookUp(asked, a) PROVE TableInv'
  BY <1>2, <1>3 DEF LookUp
<1>4. CASE Round \/ Read  BY <1>2, <1>4 DEF Round, Read
<1>5. CASE UNCHANGED tableVars  BY <1>2, <1>5 DEF tableVars
<1>6. QED  BY <1>1, <1>3, <1>4, <1>5 DEF TableNext

\* Whenever nobody changes the tables they are those of the precision, or of the last
\* one: threads test the precision before they have the lock, reuse tables by what
\* precision_last says, and come away from an allocation that fails.
THEOREM TablesAreRight == TableSpec => []TablesMatch
<1>1. TableInv => TablesMatch
  BY DEF TableInv, ChangeInv, Fits, NoTables, Filled, Sized, Current, TablesMatch
<1>2. QED  BY <1>1, TableStart, TableStays, PTL DEF TableSpec

-----------------------------------------------------------------------------
(* SinCosTable: the index *)

\* Any number of turns is taken off, in both directions; whole turns backwards fail.
LEMMA IndexIsRemainder ==
  ASSUME NEW n \in Int, NEW s \in Nat \ {0}, ~(n < 0 /\ n % s = 0)
  PROVE  Index(n, s) = n % s /\ n % s \in 0 .. s - 1
<1>0. n % s \in 0 .. s - 1  BY Division
<1>1. CASE n >= s  BY <1>0, <1>1 DEF Index
<1>2. CASE n >= 0 /\ n < s
  <2>1. n % s = n  BY <1>2
  <2>2. QED  BY <1>0, <1>2, <2>1 DEF Index
<1>3. CASE n < 0
  <2> DEFINE r == (-n) % s
             q == (-n) \div s
             u == n \div s
             v == n % s
  <2>0. -n \in Int  OBVIOUS
  <2>1. r \in 0 .. s - 1 /\ -n = s * q + r /\ q \in Int  BY <2>0, Division
  <2>2. v \in 0 .. s - 1 /\ n = s * u + v /\ u \in Int  BY Division
  <2>3. Index(n, s) = s - r  BY <1>3 DEF Index
  <2>4. v # 0  BY <1>3
  <2> HIDE DEF r, q, u, v
  <2>5. s * u + v + (s * q + r) = 0  BY <2>1, <2>2
  <2>6. CASE r = 0
    <3>1. s * u + v = s * (-q) + 0  BY <2>1, <2>2, <2>5, <2>6
    <3>2. v = 0  BY <3>1, <2>1, <2>2, RemainderUnique
    <3>3. QED  BY <3>2, <2>4
  <2>7. CASE r # 0
    <3>1. s * u + v = s * (-q - 1) + (s - r)  BY <2>1, <2>2, <2>5
    <3>2. s - r \in 0 .. s - 1 /\ -q - 1 \in Int  BY <2>1, <2>7
    <3>3. v = s - r  BY <3>1, <3>2, <2>1, <2>2, RemainderUnique
    <3>4. QED  BY <3>3, <2>2, <2>3 DEF v
  <2>8. QED  BY <2>6, <2>7, <2>1
<1>4. QED  BY <1>1, <1>2, <1>3

LEMMA SizePositive ==
  ASSUME NEW p \in Precisions, p > -1
  PROVE  Base ^ p \in Nat \ {0} /\ Turn * Base ^ p \in Nat \ {0}
<1>1. Base ^ p \in Nat \ {0}  BY PowerAssumption DEF PowerAssumption
<1>2. Turn \in Nat \ {0}  BY SinCosAssumption DEF SinCosAssumption
<1>3. \A b \in Nat \ {0} : Turn * b \in Nat \ {0}  BY <1>2
<1>4. QED  BY <1>1, <1>3

-----------------------------------------------------------------------------
(* SinCosTable: the look-ups *)

\* A step of a setter leaves the look-up and its tables alone, spoils it, or finds it spoilt.
LEMMA SettersSpoil ==
  ASSUME TableInv, NEW t \in Setters,
         \/ \E p \in Precisions : Call(t, p)
         \/ ClearTables(t) \/ Change(t)
  PROVE  \/ look' = look /\ (building' => building) /\ (building \/ UNCHANGED <<sizes, tables>>)
         \/ Spoil /\ UNCHANGED <<sizes, tables>>
<1> USE DEF TableInv, TableTypes, ChangeInv, Work, Rebuilding, Clearing
<1>1. CASE \E p \in Precisions : Call(t, p)  BY <1>1 DEF Call
<1>2. CASE ClearTables(t)  BY <1>2 DEF ClearTables
<1>3. CASE Lock(t)  BY <1>3 DEF Lock
<1>4. CASE Delete(t)  BY <1>4 DEF Delete
<1>5. CASE Forget(t)  BY <1>5 DEF Forget
<1>6. CASE Cleared(t)  BY <1>6 DEF Cleared
<1>7. CASE SetMultiplier(t)  BY <1>7 DEF SetMultiplier
<1>8. CASE SetSize(t)  BY <1>8 DEF SetSize
<1>9. CASE New(t)  BY <1>9 DEF New
<1>10. CASE NewFails(t)  BY <1>10 DEF NewFails
<1>11. CASE Fill(t)  BY <1>11 DEF Fill
<1>12. CASE SetLast(t)  BY <1>12 DEF SetLast
<1>13. CASE SetPrecision(t)  BY <1>13 DEF SetPrecision
<1>14. QED
  BY <1>1, <1>2, <1>3, <1>4, <1>5, <1>6, <1>7, <1>8, <1>9, <1>10, <1>11, <1>12, <1>13 DEF Change

\* A look-up that finds a precision and tables, while nobody rebuilds them, has found
\* those of that precision, also if somebody holds the lock.
LEMMA FoundTables ==
  ASSUME TableInv, precision > -1, ~building, tableCos # Null
  PROVE  Filled(precision)
<1>1. CASE owner = Null  BY <1>1 DEF TableInv, ChangeInv, Fits, NoTables, Current
<1>2. CASE owner # Null
  <2>1. owner \in Setters  BY <1>2 DEF TableInv, TableTypes
  <2>2. Work(owner) /\ doing[owner] \in Locked  BY <2>1 DEF TableInv, ChangeInv, OwnerInv
  <2>3. doing[owner] \in Setting  BY <2>2 DEF Work, Locked
  <2>4. new[owner] = -1 \/ new[owner] > -1  BY <2>1, PrecisionType DEF TableInv, TableTypes
  <2>5. CASE new[owner] = -1
    BY <2>2, <2>3, <2>5 DEF Work, Setting, Fits, NoTables, Current
  <2>6. CASE new[owner] > -1
    <3>1. precision = -1  BY <2>2, <2>3, <2>6 DEF Work
    <3>2. QED  BY <3>1
  <2>7. QED  BY <2>4, <2>5, <2>6
<1>3. QED  BY <1>1, <1>2

\* What an unspoilt look-up reads in the end.
LEMMA ReadsRight ==
  ASSUME LookInv, Read, ~look.spoilt,
         NEW s \in Nat \ {0}, s = Turn * Base ^ look.p,
         NEW n \in -IntMax .. IntMax, n = Norm(look.angle, Base ^ look.p), ~(n < 0 /\ n % s = 0)
  PROVE  look'.result = Entry(n % s, look.p)
<1>0. IntMax \in Nat  BY SinCosAssumption DEF SinCosAssumption
<1>10. n \in Int /\ n # -IntMax - 1 /\ n \in Int32  BY <1>0 DEF Int32
<1>1. /\ look.p \in Precisions /\ look.norm \in Cast(n) /\ Filled(look.p)
      /\ look.fn \in {"privGetSin", "privGetCos"}
  BY DEF LookInv, Looking, Read
<1>8. look.norm = n  BY <1>10, <1>1 DEF Cast
<1>2. tableSize = s /\ Table_of(look.fn) = Table(look.p, TRUE)
  BY <1>1 DEF Filled, Sized, Table_of
<1>3. Index(n, s) = n % s /\ n % s \in 0 .. s - 1  BY <1>10, IndexIsRemainder
<1>4. Table(look.p, TRUE) # Null /\ Table(look.p, TRUE).full /\ Table(look.p, TRUE).for = look.p
  BY <1>1, TableAssumption DEF Table
<1>5. s # 0  OBVIOUS
<1>9. Indices(look.norm, tableSize) = {n % s}  BY <1>10, <1>2, <1>3, <1>5, <1>8 DEF Indices
<1>6. look' = [look EXCEPT !.at = "done", !.norm = 0, !.result = Entry(n % s, look.p)]
  <2>1. PICK index \in Indices(look.norm, tableSize) :
          look' = [look EXCEPT !.at = "done", !.norm = 0, !.result =
                     IF Table_of(look.fn) = Null THEN NullRead
                     ELSE IF Table_of(look.fn).full
                             /\ index \in 0 .. Turn * Base ^ Table_of(look.fn).for - 1
                     THEN Entry(index, Table_of(look.fn).for) ELSE Garbage]
    BY DEF Read
  <2>2. index = n % s  BY <2>1, <1>9
  <2>3. index \in 0 .. Turn * Base ^ Table_of(look.fn).for - 1  BY <2>2, <1>2, <1>3, <1>4
  <2>4. QED  BY <2>1, <2>2, <2>3, <1>2, <1>4
<1>7. QED  BY <1>6 DEF LookInv, LookRecord

LEMMA LookNext == TableInv /\ LookInv /\ LookUpRight /\ [TableNext]_tableVars => LookInv' /\ LookUpRight'
<1> SUFFICES ASSUME TableInv, LookInv, LookUpRight, [TableNext]_tableVars PROVE LookInv' /\ LookUpRight'
  OBVIOUS
<1>1. ASSUME \/ look' = look /\ (building' => building) /\ (building \/ UNCHANGED <<sizes, tables>>)
             \/ Spoil /\ UNCHANGED <<sizes, tables>>
      PROVE  LookInv' /\ LookUpRight'
  <2>1. CASE look' = look /\ (building' => building) /\ (building \/ UNCHANGED <<sizes, tables>>)
    BY <2>1 DEF LookInv, LookRecord, Looking, LookUpRight, Filled, Sized, sizes, tables
  <2>2. CASE Spoil /\ UNCHANGED <<sizes, tables>>
    <3>1. /\ look'.at = look.at /\ look'.fn = look.fn /\ look'.angle = look.angle /\ look'.p = look.p
          /\ look'.spoilt = (look.at # "idle") /\ LookRecord'
      BY <2>2 DEF Spoil, LookInv, LookRecord
    <3>2. QED  BY <3>1 DEF LookInv, Looking, LookUpRight
  <2>3. QED  BY <1>1, <2>1, <2>2
<1>2. CASE \E t \in Setters : (\E p \in Precisions : Call(t, p)) \/ ClearTables(t) \/ Change(t)
  BY <1>1, <1>2, SettersSpoil
<1>3. ASSUME NEW asked, NEW a \in Angles, LookUp(asked, a) PROVE LookInv' /\ LookUpRight'
  <2>1. UNCHANGED <<sizes, tables, building>>  BY <1>3 DEF LookUp
  <2>2. /\ LookRecord' /\ look'.at = (IF precision > -1 THEN "round" ELSE "done")
        /\ look'.fn = Method(asked) /\ look'.angle = a /\ look'.p = precision
        /\ look'.spoilt = (building \/ tableCos = Null)
    BY <1>3 DEF LookUp, NoLook, LookRecord
  <2>3. precision > -1 /\ ~look'.spoilt => Filled(look.p)'
    BY <2>1, <2>2, FoundTables DEF Filled, Sized, sizes, tables
  <2>4. precision \in Precisions /\ (precision > -1 => precision # -1)  BY DEF TableInv, TableTypes
  <2>5. QED  BY <2>1, <2>2, <2>3, <2>4 DEF LookInv, Looking, Method, LookUpRight
<1>4. CASE Round
  <2>1. UNCHANGED <<sizes, tables, building>>  BY <1>4 DEF Round
  <2>2. /\ look.at = "round" /\ LookRecord' /\ look'.at = "read"
        /\ look'.fn = look.fn /\ look'.angle = look.angle /\ look'.p = look.p
        /\ look'.spoilt = look.spoilt /\ look'.norm \in Cast(Norm(look.angle, tableMultiplier))
    BY <1>4 DEF Round, LookInv, LookRecord
  <2>3. ~look.spoilt => tableMultiplier = Base ^ look.p  BY <2>2 DEF LookInv, Looking, Filled, Sized
  <2>4. QED
    BY <2>1, <2>2, <2>3 DEF LookInv, Looking, LookUpRight, Filled, Sized, sizes, tables
<1>5. CASE Read
  <2>1. /\ look.at = "read" /\ LookRecord' /\ look'.at = "done"
        /\ look'.fn = look.fn /\ look'.angle = look.angle /\ look'.p = look.p
        /\ look'.spoilt = look.spoilt
    BY <1>5 DEF Read, LookInv, LookRecord
  <2>2. LookInv'  BY <2>1 DEF LookInv, Looking
  <2>3. SUFFICES ASSUME ~look.spoilt, Norm(look.angle, Base ^ look.p) \in -IntMax .. IntMax,
                        ~(Norm(look.angle, Base ^ look.p) < 0
                          /\ Norm(look.angle, Base ^ look.p) % (Turn * Base ^ look.p) = 0)
                 PROVE  look'.result = Entry(Norm(look.angle, Base ^ look.p) % (Turn * Base ^ look.p), look.p)
    BY <2>1, <2>2 DEF LookUpRight
  <2>4. look.p \in Precisions /\ look.p # -1 /\ look.angle \in Angles
    BY <2>1 DEF LookInv, Looking
  <2>5. look.p > -1 /\ look.angle \in Int
    BY <2>4, PrecisionType, SinCosAssumption DEF SinCosAssumption
  <2>6. Base ^ look.p \in Nat \ {0} /\ Turn * Base ^ look.p \in Nat \ {0}
    BY <2>4, <2>5, SizePositive
  <2>8. QED  BY <1>5, <2>3, <2>6, ReadsRight
<1>6. CASE UNCHANGED tableVars  BY <1>1, <1>6 DEF tableVars
<1>7. QED  BY <1>2, <1>3, <1>4, <1>5, <1>6 DEF TableNext

\* A look-up finds the entry nearest to its angle in the tables of the precision it saw,
\* though it takes no lock, unless the tables are rebuilt or cleared meanwhile: others may
\* switch to live calculation and back, or set the precision it is already.  Angles too
\* large for an int32_t, and whole turns backwards, are left out.
THEOREM LookUpsAreRight == TableSpec => []LookUpRight
<1>1. TableInit => LookUpRight  BY DEF TableInit, NoLook, LookUpRight
<1>2. QED  BY <1>1, TableStart, TableStays, LookNext, PTL DEF TableSpec
=============================================================================
