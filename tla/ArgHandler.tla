------------------------------ MODULE ArgHandler ------------------------------
(***************************************************************************)
(* CArgHandler: a program adds its arguments with addArg(), and has        *)
(* parseArgs() apply a command line to them, once or more often.           *)
(*                                                                         *)
(* A word of the command line is the number of its dashes and the letters  *)
(* behind them.  The queues are the sequences they promise to be, but for  *)
(* one thing: a TQueue that loses its last element writes to a null pointer*)
(* (see LastComesOut in Lists).  works says whether it does not; with the  *)
(* sources as they are it is FALSE.                                        *)
(***************************************************************************)
EXTENDS Integers, FiniteSets, SequencesExt

CONSTANTS Nil,         \* nullptr, and the name an argument does not have
          Targets,     \* the arguments a program may add
          Short, Long, \* their names
          Type,        \* "inc", "add" (or subtract), "set", or "cb": a callback only
          Callbacks,   \* the arguments that have a callback
          SetType,     \* eArgType
          HasParam,    \* whether there is a name for a parameter
          Setups,      \* the sequences in which a program adds arguments
          PassInit,    \* the word that starts what is passed through
          Lines,       \* the command lines, without the program's name
          Buckets,     \* the places of the hash tables that are used
          MaxParses    \* bound on the calls of parseArgs()

Names == ({Short[t] : t \in Targets} \cup {Long[t] : t \in Targets}) \ {Nil}

ASSUME ArgAssumption ==
  /\ Nil \notin Targets /\ IsFiniteSet(Targets) /\ Callbacks \subseteq Targets
  /\ Setups \subseteq Seq(Targets)
  /\ Lines \subseteq Seq([dashes : Nat, text : Seq(STRING)])
  /\ SetType \in [Targets -> {"zero_one", "zero_many", "exactly_one", "one_many"}]
  /\ Buckets \subseteq Nat /\ MaxParses \in Nat

VARIABLES
  works,      \* whether a queue can be emptied
  todo,       \* the calls of addArg() that are left
  added,      \* what is in shortArgs and longArgs
  pos,        \* posQueue
  init,       \* pass_init
  bucket,     \* the place of a name in its table
  got,        \* gotParameter
  processed,  \* wasProcessed
  times,      \* history: how often the target was set since got was reset
  pc, line,   \* the step parseArgs() is at, and what it was called with
  rest,       \* argv from idx on
  args,       \* arg_queue
  params,     \* param_queue
  done,       \* history: the calls of procTarget() of this parseArgs()
  errs,       \* errlist
  passed,     \* what pass_args points to
  parses      \* how often parseArgs() has been called

setup == <<works, bucket>>
targets == <<got, processed, times>>
call == <<line, rest, args, params>>
vars == <<setup, init, todo, added, pos, targets, pc, call, done, errs, passed, parses>>

Init ==
  /\ works \in BOOLEAN /\ todo \in Setups /\ bucket \in [Names -> Buckets]
  /\ init = Nil /\ added = {} /\ pos = <<>>
  /\ got = [t \in Targets |-> FALSE] /\ processed = got
  /\ times = [t \in Targets |-> 0]
  /\ pc = "idle" /\ line = <<>> /\ rest = <<>> /\ args = <<>> /\ params = <<>>
  /\ done = <<>> /\ errs = <<>> /\ passed = <<>> /\ parses = 0

----------------------------------------------------------------------------
(* Targets and words.                                                      *)

Positional(t) == Short[t] = Nil /\ Long[t] = Nil
Mandatory(t) == SetType[t] \in {"exactly_one", "one_many"}
OnlyOnce(t) == SetType[t] \in {"zero_one", "exactly_one"}
NeedsParameter(t) == Type[t] \in {"add", "set"} \/ (Type[t] = "cb" /\ HasParam[t])

Word(n, letters) == [dashes |-> n, text |-> letters]

(* The short names are searched before the long ones.                      *)
GetTarget(w) ==
  LET s == {t \in added : Short[t] = w}
      l == {t \in added : Long[t] = w}
  IN IF s # {} THEN CHOOSE t \in s : TRUE
     ELSE IF l # {} THEN CHOOSE t \in l : TRUE ELSE Nil

(* uncombine(): what the single letters mean.  That of a word without any  *)
(* is all found, and nothing.                                              *)
Letters(w) ==
  [i \in DOMAIN w.text |-> GetTarget(Word(w.dashes, <<w.text[i]>>))]
Combined(w) == GetTarget(w) = Nil /\ \A i \in DOMAIN w.text : Letters(w)[i] # Nil

(* The targets a word stands for.                                          *)
Meant(w) == IF GetTarget(w) # Nil THEN <<GetTarget(w)>>
            ELSE IF Combined(w) THEN Letters(w) ELSE <<>>

(* Something has been found before it turns out whether all is.            *)
SomeFound(w) == GetTarget(w) = Nil /\ w.text # <<>> /\ Letters(w)[1] # Nil

IsParam(w) == GetTarget(w) = Nil /\ ~Combined(w) /\ w.dashes = 0
Unknown(w) == GetTarget(w) = Nil /\ ~Combined(w) /\ w.dashes > 0

(* The loops over the tables count places up to the number of elements.    *)
ShortArgs == {t \in added : Short[t] # Nil}
LongArgs == {t \in added : Long[t] # Nil}
Walked(T, name) == {t \in T : bucket[name[t]] < Cardinality(T)}

Error(what, t) == <<what, t>>

----------------------------------------------------------------------------
(* What the program does between the calls of parseArgs().                 *)

(* addArg(): nothing is added under a name that is known.                  *)
AddArg ==
  LET t == Head(todo)
      known == (Short[t] # Nil /\ \E u \in added : Short[u] = Short[t])
            \/ (Long[t] # Nil /\ \E u \in added : Long[u] = Long[t])
  IN /\ pc = "idle" /\ todo # <<>>
     /\ todo' = Tail(todo)
     /\ added' = IF known \/ Positional(t) THEN added ELSE added \cup {t}
     /\ pos' = IF Positional(t) THEN Append(pos, t) ELSE pos
     /\ UNCHANGED <<setup, init, targets, pc, call, done, errs, passed, parses>>

AddPassthrough ==
  /\ pc = "idle" /\ todo # <<>>
  /\ init' = PassInit
  /\ UNCHANGED <<setup, todo, added, pos, targets, pc, call, done, errs, passed, parses>>

(* Positional targets are looked for by number, and the numbers are not to *)
(* be relied upon where several have been turned (see Renumbered in ListOps).*)
ResetTargets ==
  \E P \in SUBSET ToSet(pos) :
  LET T == Walked(ShortArgs, Short) \cup Walked(LongArgs, Long) \cup P
      Reset(f, v) == [t \in Targets |-> IF t \in T THEN v ELSE f[t]]
  IN /\ pc = "idle" /\ parses > 0
     /\ Len(pos) < 2 => P = ToSet(pos)
     /\ got' = Reset(got, FALSE) /\ processed' = Reset(processed, FALSE)
     /\ times' = Reset(times, 0) /\ line' = <<>>
     /\ UNCHANGED <<setup, init, todo, added, pos, pc, rest, args, params, done, errs, passed, parses>>

(* clearArgs() deletes the targets, and forgets what passes words through. *)
ClearArgs ==
  /\ pc = "idle" /\ todo = <<>>
  /\ works \/ (errs = <<>> /\ pos = <<>>)
  /\ added' = {} /\ pos' = <<>> /\ errs' = <<>> /\ line' = <<>>
  /\ init' = Nil
  /\ UNCHANGED <<setup, todo, targets, pc, rest, args, params, done, passed, parses>>

----------------------------------------------------------------------------
(* parseArgs().                                                            *)

(* Without any word it returns at once.                                    *)
Parse(l) ==
  /\ pc = "idle" /\ todo = <<>> /\ parses < MaxParses
  /\ works \/ errs = <<>>
  /\ parses' = parses + 1
  /\ pc' = IF l = <<>> THEN "idle" ELSE "read"
  /\ line' = l /\ rest' = l
  /\ errs' = <<>> /\ done' = <<>>
  /\ UNCHANGED <<setup, init, todo, added, pos, targets, args, params, passed>>

Reading == pc = "read" /\ rest # <<>> /\ Head(rest) # init

(* Step 1: arguments, clusters of them, parameters.                        *)
ReadOne ==
  LET w == Head(rest)
  IN /\ Reading
     /\ works \/ ~SomeFound(w)
     /\ rest' = Tail(rest)
     /\ args' = args \o Meant(w)
     /\ params' = IF IsParam(w) THEN Append(params, w) ELSE params
     /\ errs' = IF Unknown(w) THEN Append(errs, Error("unknown", Nil)) ELSE errs
     /\ UNCHANGED <<setup, init, todo, added, pos, targets, pc, line, done, passed, parses>>

EndRead ==
  /\ pc = "read" /\ ~Reading
  /\ pc' = "args"
  /\ UNCHANGED <<setup, init, todo, added, pos, targets, call, done, errs, passed, parses>>

(* TArgTarget::process(), and the errors procTarget() makes of what it     *)
(* returns.                                                                *)
Stored(t) ==
  times' = IF Type[t] = "set" THEN [times EXCEPT ![t] = @ + 1] ELSE times

Processed(t, p) ==
  /\ processed' = [processed EXCEPT ![t] = TRUE]
  /\ got' = IF Type[t] = "set" \/ (t \in Callbacks /\ p # Nil)
            THEN [got EXCEPT ![t] = TRUE] ELSE got
  /\ Stored(t)
  /\ errs' = errs

(* A callback that throws comes after the target has been set.             *)
Throws(t) ==
  /\ t \in Callbacks
  /\ got' = IF Type[t] = "set" THEN [got EXCEPT ![t] = TRUE] ELSE got
  /\ Stored(t)
  /\ errs' = Append(errs, Error("exception", t))
  /\ UNCHANGED processed

Fails(t, what) == errs' = Append(errs, Error(what, t)) /\ UNCHANGED targets

(* Mutant: whether there was a parameter is not looked at.                 *)
ProcTargetAgain(t, p) ==
  /\ done' = Append(done, <<t, p>>)
  /\ IF NeedsParameter(t) /\ p = Nil THEN Fails(t, "missing")
     ELSE Processed(t, p) \/ Throws(t)

ProcTarget(t, p) ==
  /\ done' = Append(done, <<t, p>>)
  /\ IF NeedsParameter(t) /\ p = Nil THEN Fails(t, "missing")
     ELSE IF Type[t] = "set" /\ OnlyOnce(t) /\ got[t] THEN Fails(t, "multiple")
     ELSE Processed(t, p) \/ Throws(t)

(* Mutant: a parameter is taken for every argument.                        *)
ProcArgGreedy ==
  LET taken == params # <<>>
  IN /\ pc = "args" /\ args # <<>>
     /\ works
     /\ args' = Tail(args)
     /\ params' = IF taken THEN Tail(params) ELSE params
     /\ ProcTarget(Head(args), IF taken THEN Head(params) ELSE Nil)
     /\ UNCHANGED <<setup, init, todo, added, pos, pc, line, rest, passed, parses>>

(* Step 2: the arguments, each with the next parameter if it needs one.    *)
ProcArg ==
  LET taken == NeedsParameter(Head(args)) /\ params # <<>>
  IN /\ pc = "args" /\ args # <<>>
     /\ works \/ (Len(args) > 1 /\ ~(taken /\ Len(params) = 1))
     /\ args' = Tail(args)
     /\ params' = IF taken THEN Tail(params) ELSE params
     /\ ProcTarget(Head(args), IF taken THEN Head(params) ELSE Nil)
     /\ UNCHANGED <<setup, init, todo, added, pos, pc, line, rest, passed, parses>>

EndArgs ==
  /\ pc = "args" /\ args = <<>>
  /\ pc' = "params"
  /\ UNCHANGED <<setup, init, todo, added, pos, targets, call, done, errs, passed, parses>>

(* Step 3: what is left goes to the positional ones in turn.               *)
ProcParam ==
  /\ pc = "params" /\ params # <<>>
  /\ works \/ (Len(params) > 1 /\ Len(pos) # 1)
  /\ params' = Tail(params)
  /\ IF pos = <<>>
     THEN /\ errs' = Append(errs, Error("unknown", Nil))
          /\ UNCHANGED <<pos, done, targets>>
     ELSE /\ ProcTarget(Head(pos), Head(params))
          /\ pos' = Append(Tail(pos), Head(pos))
  /\ UNCHANGED <<setup, init, todo, added, pc, line, rest, args, passed, parses>>

(* Mutant: the long names of those that have a short one count, too.       *)
MissingTwice ==
  LET M(T) == SetToSeq({t \in T : Mandatory(t) /\ ~processed[t]})
  IN M(Walked(ShortArgs, Short)) \o M(Walked(LongArgs, Long))

(* Step 4: the mandatory arguments that have not been processed, by their  *)
(* short names, and those that have none by their long ones.               *)
Missing ==
  LET M(T) == SetToSeq({t \in T : Mandatory(t) /\ ~processed[t]})
  IN M(Walked(ShortArgs, Short)) \o M(Walked(LongArgs, Long) \ ShortArgs)

(* And step 5: without any error, the words behind PassInit are copied.    *)
EndParse ==
  LET missing == Missing
  IN /\ pc = "params" /\ params = <<>>
     /\ errs' = errs \o [i \in DOMAIN missing |-> Error("mandatory", missing[i])]
     /\ passed' = IF errs' = <<>> /\ Len(rest) > 1 THEN Tail(rest) ELSE passed
     /\ pc' = "idle"
     /\ UNCHANGED <<setup, init, todo, added, pos, targets, call, done, parses>>

(* Where the other actions need works, or more than one element.           *)
Crash ==
  /\ ~works
  /\ \/ pc = "idle" /\ todo = <<>> /\ (errs # <<>> \/ pos # <<>>)
     \/ Reading /\ SomeFound(Head(rest))
     \/ pc = "args" /\ Len(args) = 1
     \/ /\ pc = "args" /\ args # <<>> /\ Len(params) = 1
        /\ NeedsParameter(Head(args))
     \/ pc = "params" /\ params # <<>> /\ (Len(params) = 1 \/ Len(pos) = 1)
  /\ pc' = "crashed"
  /\ UNCHANGED <<setup, init, todo, added, pos, targets, call, done, errs, passed, parses>>

Next ==
  \/ AddArg \/ AddPassthrough \/ ResetTargets \/ ClearArgs
  \/ \E l \in Lines : Parse(l)
  \/ ReadOne \/ EndRead \/ ProcArg \/ EndArgs \/ ProcParam \/ EndParse
  \/ Crash

Spec == Init /\ [][Next]_vars

----------------------------------------------------------------------------
(* What a call of parseArgs() that has ended has done.                     *)

Ended == pc = "idle" /\ line # <<>>

UpTo(w) ==
  IF \E i \in DOMAIN line : line[i] = w
  THEN (CHOOSE i \in DOMAIN line :
          line[i] = w /\ \A j \in 1 .. i - 1 : line[j] # w) - 1
  ELSE Len(line)

Named(words) == FlattenSeq([i \in DOMAIN words |-> Meant(words[i])])
Parameters(words) ==
  FlattenSeq([i \in DOMAIN words |-> IF IsParam(words[i]) THEN <<words[i]>> ELSE <<>>])
Wanting(A, n) == Cardinality({j \in 1 .. n : NeedsParameter(A[j])})
UnknownIn(words) == {i \in DOMAIN words : Unknown(words[i])}
Told(what) == {i \in DOMAIN errs : errs[i][1] = what}

(* The arguments a command line names are processed in its order, letters  *)
(* of a cluster one by one.  The parameters go, in their order, to the     *)
(* arguments that need one; those that are left, to the positional targets *)
(* in turn.  Every other word is reported, but one of dashes only; and what*)
(* follows PassInit is passed on whole if there is no error.  parseArgs()  *)
(* gets there through four queues and a rotation of one that is kept.      *)
ParsedAsDefined ==
  LET words == SubSeq(line, 1, UpTo(init))
      A == Named(words)
      P == Parameters(words)
      wanted == Wanting(A, Len(A))
      used == IF wanted < Len(P) THEN wanted ELSE Len(P)
      left == Len(P) - used
      behind == SubSeq(line, UpTo(init) + 2, Len(line))
  IN Ended =>
       /\ Len(done) = Len(A) + (IF pos = <<>> THEN 0 ELSE left)
       /\ \A i \in DOMAIN A :
            done[i] = <<A[i], IF NeedsParameter(A[i]) /\ Wanting(A, i) <= Len(P)
                              THEN P[Wanting(A, i)] ELSE Nil>>
       /\ pos # <<>> => \A k \in 1 .. left :
            done[Len(A) + k] =
              <<pos[((k - 1 - left) % Len(pos)) + 1], P[used + k]>>
       /\ Cardinality(Told("unknown")) =
            Cardinality(UnknownIn(words)) + (IF pos = <<>> THEN left ELSE 0)
       /\ errs = <<>> /\ behind # <<>> => passed = behind

(* No argument is reported as missing that was processed, none twice under *)
(* its two names, and none that is optional.                               *)
ReportedTruly ==
  Ended =>
    /\ \A i \in Told("mandatory") :
         errs[i][2] \in added /\ Mandatory(errs[i][2]) /\ ~processed[errs[i][2]]
    /\ \A i, j \in Told("mandatory") : errs[i] = errs[j] => i = j

(* A target that is to be set once is, by whichever of its names and in    *)
(* however many calls of parseArgs(), until it is reset.                   *)
SetOnce ==
  \A t \in Targets : Type[t] = "set" /\ OnlyOnce(t) => times[t] <= 1

(* eArgType.h:51 says of AT_EXACTLY_ONCE: "The option is mandatory and must*)
(* be given exactly once", and a mandatory argument that is not there is to*)
(* be reported.  The loops do not come to all places of the tables.        *)
MandatoryReported ==
  Ended => \A t \in added :
             Mandatory(t) /\ ~processed[t] => \E i \in DOMAIN errs : errs[i] = Error("mandatory", t)
=============================================================================
