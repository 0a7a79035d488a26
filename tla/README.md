# pwxlib in TLA+

TLA+ models of the PrydeWorX Library (`src/`), the TLC runs that check them and
TLAPS proofs about them. The library is a set of thread-safe building blocks:
almost every class inherits a recursive spin lock (`CLockable`), containers and
workers are locked through RAII guards (`CLockGuard`), and the log hands messages
to threads of its own. What is hard about it is concurrency, and that is where the
models begin.

## Inventory

| component | state | operations | interacts with | what makes it correct |
|---|---|---|---|---|
| **CLockable** (`basic/CLockable.*`) | flag, owner, lock count, is-locked mark, number of waiting threads, locking mode, destruction mark: seven atomics | `lock`, `try_lock`, `unlock`, `clear_locks`, `do_locking`, queries, destructor | base class of elements, containers, the sine table, the argument handler | one owner; the counters and marks agree with what was called; every call that can return does |
| **CLockGuard** and `try_locks`, `unlock_all`, `are_locked` (`basic/CLockGuard.*`, `CLockable.cpp:316-433`) | up to three object pointers | construct, copy, assign, `reset`, destroy | locks objects for all other classes, through the `PWX_LOCK_GUARD` macros | what is taken is given back; nothing is held while waiting |
| **Log** (`log/`) | queue, message numbers, logger threads and their marks, count of sleepers | `log`, `log_enable_threads`, `log_open`, `log_close`, progress line | `init()`/`finish()`; everybody logs; `q_lock` is a CLockable | each message once, in order; threads end; nobody blocks |
| **VElement, CThreadElementStore** (`container/`) | per element: inserted or not, its store; per container: current element of each thread, the `invalidating` mark | `insert`, `remove`, `curr`, `invalidate`, `clear` | elements call their store from their destructor; the store keeps its map in a `TOpenHash` | no thread keeps a removed element as its current one |
| **Hash tables** (`VTHashBase.h`, `TOpenHash.h`, `TChainHash.h`) | table, size, element count, four counters: growing, inserting, removing, clearing | add, get, remove, delete, pop, grow, clear, set operators | argument handler, element store, name generator | a key at most once, and found; counters fall back to 0; operations end |
| **Lists and rings** (`TSingleList.h`, `TDoubleList.h`, rings, queue, stack) | links, head, tail, count, numbering | insert, find, remove, renumber, sort | elements are locked in pairs or triples by guards | links, count and numbers agree; removed elements are out |
| **TSet, set functions** | a double list and a hash table of its elements | insert, union, difference, subset tests | TDoubleList, a hash table | behaves as the set it is named for |
| **CArgHandler** (`arg_handler/`) | targets by short and long name, positional targets, errors, pass-through | add targets, parse | hashes, lists | each argument reaches its target or gives an error |
| **CSinCosTable** (`math_helpers/`) | two tables, precision, last precision | `setPrecision`, `sin`, `cos` | CLockable | a look-up uses tables of the precision in force |
| **Memory map** (`basic/mem_utils`, `_mem_map`) | map from address to allocation | allocate, reallocate, deallocate, report | std::mutex | reports exactly what is still allocated |
| CRandom, CWaveColor, MathHelpers, StreamHelpers, string helpers, CException | mostly none | pure computations, formatting | | not modelled: floating point, tables of words and text formatting have no control to model |

The hard behaviours, each at its line, are the `hazards` of `PROJECT.json`, with the
properties that look after them; a hazard without a property says why.

## Modules

| module | what it is |
|---|---|
| `RecursiveLock` | abstract specification: what a CLockable promises |
| `CLockable` | the class in full: one step per access to one of its atomics |
| `CLockableProofs` | theorems about `CLockable`, however it is used, and for users who follow the rule of thumb |
| `CLockGuard`, `MCCLockGuard` | guards and groups of objects on top of the abstract lock |
| `CLockGuardProofs` | theorems about guards and groups of objects |
| `LogQueue` | the queue, the logger threads, and whoever turns them on and off |
| `LogQueueProofs` | theorems about messages and their order |
| `OpenHashProbe` | pure functions: in which order the places of an open hash table are looked at for a key |
| `OpenHash`, `MCOpenHash` | the open hash table in the hands of one thread |
| `OpenHashProofs` | theorems about the open table |
| `ChainHash`, `MCChainHash` | the chained table and the gate of `VTHashBase`, used by several threads |
| `ChainHashProofs` | theorems about that gate, the table and the searches |
| `Chain` | abstract specification: elements in a row |
| `DoubleElement`, `MCDoubleElement` | insertion and removal of doubly linked elements by several threads |
| `DoubleElementProofs` | theorems about their neighbours, and that they implement `Chain` |
| `ElementStore` | the current element of each thread, and elements that leave their list |
| `ListOps` | pure operators: what each method makes of a list, a ring or a set |
| `Lists`, `MCLists` | one thread that calls these methods in any order |
| `ListAndStoreProofs` | theorems about elements that are gone and notes that stay, and about what the methods of lists and sets leave behind |
| `ArgHandler`, `MCArgHandler` | adding arguments and parsing command lines |
| `SinCosTable`, `MCSinCosTable` | threads that rebuild the tables and one that looks values up |
| `ArgAndTableProofs` | theorems about parsed command lines, and about the tables and the look-ups |

The `MC` modules define the values TLC uses for the constants, and nothing else.

How the parts are put together: `CLockable` implements `RecursiveLock` (property
`IsRecursiveLock`); `CLockGuard` takes each
object as such a lock, so there a lock operation is a single step. `LogQueue`,
`ChainHash`, `DoubleElement`, `ElementStore` and `SinCosTable` use locks and guards in that way.
`DoubleElement` implements `Chain` (`ImplementsChain`). `ElementStore` takes its open
hash table, and `ArgHandler` its queues and tables, as the maps and sequences they promise to be,
except where the code above sees through the promise: see there.

### CLockable

The variables are the seven members (`isDestroyed`, `doLocking`, `isLocked`, `flag`,
`count`, `threadId`, `waiting`), a label `pc[t]` for each thread and the history
variable `held[t]`: the locks `t` was given and has not given back. `held[t]` counts
what the *user* knows: it rises as `lock()` returns, and falls at the step that
completes an `unlock()`. Each action is one load or store, and is named for it. The
threads are arbitrary: an idle one may call any method, also `unlock()` or
`clear_locks()` without a lock. The class documents that a destructor must not run
while another thread uses the object, and `DestructorCall` demands that. The next
object takes the place of the last (`Construct`).

The memory is taken as sequentially consistent. The code uses relaxed loads and
stores around the flag's acquire and release; what a weaker memory adds is not
covered. Nor is the build with `std::mutex` in place of the flag.

`RuleOfThumb` says how `do_locking()` is used. TRUE: as `CLockable.h:157` advises,
by a thread that is alone with the object. FALSE: at any time.

### CLockGuard

`slots[t][g]` are the three pointers of guard `g` of thread `t`; `holds[o][t]` is the
abstract lock of object `o`; `direct[t][o]` is what `t` locked without a guard;
`call[t]` is the call in progress, with the set of places it still has to visit, of which it takes the least. A group is a
sequence of one to three objects or nulls. `CarefulTakeOver` restricts
copies and assignments of guards to those that lose nothing (an empty target, a
source that has all the locks), `CarefulUnlock` restricts `unlock_all()` to objects the
thread has locked itself, often enough, or not at all: what others have locked may be among them.

### LogQueue

A message is its number `no` in the order of the `log()` calls and its `id`. `log()`
holds `input_lock` for the whole call, so the clients are never inside it together:
`LogCall` requires that all are idle, and one client stands for any number of them. Sections under
`log_Mutex`, `id_lock` and `output_lock` are one step. `q_lock` is held over several
steps: by a push that goes on to wake the loggers, and by `log_threads_end()`.
The actions follow `LoggerThread::operator()` (`GoToSleep`, `CheckExit`, `WakeUp`,
`EarlyQuit`, `Loop`, `Pop`, `NotDue`, `PushBack`, `Emit`, `Advance`, `Done`), the
queue functions and `log_enable_threads()`. `MayFail` lets allocations fail, those of a message, of the buffer
it is built in (`PutOut`) and of a thread.
With `QuietSwitch` the threads are switched on and off while nobody is inside
`log()`; the code has nothing that would guard the other case.

### OpenHash

`table[p]` is what `hashTable[p]` points to: nothing (`None`), the mark of a removed
element (`Vacated`) or an element with its key and the hops noted in it. Whoever calls is
alone with the table. A round of `privInsert()` is one step
(`Insert`), and so is each element `grow()` moves (`Move`), since the properties
are about what happens to the element that is on its way (`hand`).
The places a key is looked for in are computed by `Path`, with the hashes, base and steps of
the code; the hash values themselves are constants. Of the gate, only the counter that can stay
raised is kept, `removing`. A call that waits for it to
become 0, which nobody will lower, ends in the label `"hung"`. `stored` is history: what users
added and did not remove or pop. Element creation is taken to succeed.

With `CarefulRemoval` only keys that are in the table are removed. An insertion whose path has no place that suits takes
the one that comes last, whatever is there (`FirstOf`), as the release build does; the debug build may throw
instead (`TOpenHash.h:530-566`). A table that grows to six places never gets its first element (`StartGrow`).

`PathsReach` and `RoomToGrow` say of hashes, sizes and factors what it takes for no insertion to give up: each path sees more
places than the load allows elements, and a table that is too small is followed by one with room for at least one more.
Nothing in the code sees to either: with 150 places, to which the default 100 grow, a step of 9 visits 117, where the
load may be 120. The values of the run fulfil both (`MCAssumption`), so `PlaceReached` says something for
these only; the other properties hold without, and the theorems do not assume them.

### ChainHash

The gate of `VTHashBase` are four counters, and macros with waiting loops around them
(`VTHashBase.h:61-135`). A loop that takes the lock, sees a counter raised and gives the lock back
changes nothing, so a pass of it that succeeds is one step and the others are a step not yet
enabled. `chain[p]` are the elements of place `p`, a set: a new element comes to the end of its chain and
gets the next number, so the order of a chain is that of the numbers (`First`, `Successor`), and the order in
which `grow()` comes to the elements is that of places and numbers (`Before`, `Turn`). `elems[e]` is what each ever created knows:
its key, where it stands (`in` a chain, `unlinked`, `cut` off, `out`, `deleted`) and the two pointers that
lead out of it when it is in no chain. A search is one step to compute the place, one to
read it and one for each element (`Index`, `TableGet`, `Walk`); a removal unlinks, cuts, and
tells the removed element where its successor is in three steps, which is where a search may meet
it. `Grow` is one step, since `hashTableLock` is held through it. A search that looks at a
deleted element may end with anything.
Exceptions (`InsertFails`, `GrowFails`) leave the counters as the code leaves them. `steady` and
`overtaken` are history, for what a search could expect. The table's own lock is owned and
nested, since `operator+=` calls `grow()` and `add()` while it has it.

### Chain and DoubleElement

`next`, `prev` and `isRemoved` of each element, `holder` for its lock, and for each thread its
step and the neighbours it has read. One step per pointer or mark that is stored or read. A list's ends are null; in a ring
the last one is next to the first: both are initial states. `First` stays, since it is what the
row is counted from. What the containers see to is assumed of the callers: a new element is in nobody
else's hands, and none is inserted beside an element that is on its way out. `RemoveTwice` lets two threads remove the same
element. The row of `Chain` is what one gets to from `First` along `next`.

### ElementStore

`currs[t]` is the note of thread `t` in the table of the store. The table changes only under the lock of
the store and a thread reads only its own note, so `get`, `set` and the sweeps are one step each;
tests of the flag `invalidating` and of the table being empty are steps of their own, outside the lock, as
in the code. Two ways of the open hash below show here. `delKey()` of a key that is absent
removes whatever lies where its search ends (`Deletable`): nothing as long as the search meets a place never used, of which
`unused` counts the rest, and else maybe another thread's note. An `add()` that throws is forgotten by `curr()`,
but has left `inserting` raised (`AddFails`), for which every later `clear()` of a table with notes waits. `place[e]` follows an element: in the list, leaving it (`VElement::remove()`), gone (destroyed
or inserted elsewhere). `found[t]` is the pointer `curr()` has in its hands; it points to
`Freed` once that note is deleted. `late` and `skipped` are history: a thread noted
an element that was already leaving; an invalidation passed an element over. The destructor runs when the others are idle
or waiting for the lock, which it waits for itself (`WaitFor`).

### ListOps and Lists

A list is a record: the elements inside, head, tail, current element, count, the links and the numbers
of the elements, and whether numbers have to be given anew. Each method is an operator from a list to a list, built of the
same parts as in the classes: `ProtInsert` (five cases), `Renumbered`, `GetByIndex` and `Find` with
their ways from the current element, `RemoveAfter`, `PrivRemove`, `PopBack`, the closing of rings, the look-up
for twins in sets, and the set functions. A method of the code that dereferences null makes
the list `Crashed`, one that does not end `Hanging`; nothing is called after that.
The operators were compared with the C++ classes: random sequences of calls gave the same contents,
counts, numbers, crashes and endless loops in both.

`Lists` lets one thread call any method with any element. A stack is a single list and a queue a double one, with
fewer methods. A loop over a chain of elements is a recursive function of the number of its steps (`Iterate`, `AddThose`, `SubtractAll`), which is no more than there are elements.

### ArgHandler

A program adds arguments (`AddArg`) in one of the orders of `Setups` and calls `parseArgs()` once or
more often. A word is the number of its dashes and its letters. The labels are the steps of
`parseArgs()`: read the words (`ReadOne`), process arguments (`ProcArg`), then the
remaining parameters (`ProcParam`), then report what is missing (`EndParse`). `bucket` is the place of a name
in its hash table, since the loops over the tables see places (`Walked`). `works` says whether a queue
can give away its last element: with the sources as they are it cannot (`LastComesOut` of `Lists`), and then
a run of the model stops before that call; TRUE is the handler as it would run on a repaired list. Both
are initial states, so that what the handler does itself is checked too. A reading of an unknown word, a
failing callback and a target that is set twice give their errors (`Processed`, `Throws`, `Fails`). A callback comes after
its target has been set, so that one that throws leaves it set but not processed. Types are those that differ in
control: with a parameter to set once (`"set"`), with one to add or subtract (`"add"`), without (`"inc"`), and callbacks (`"cb"`).
`resetTargets()` finds positional targets by number: with several, which `parseArgs()` turns, any of them may be missed
(`ResetTargets`); that a number may lead to none at all, and the call crash, is left out.

### SinCosTable

`setPrecision()` tests the precision before it has the lock (`Call`), and then deletes, sizes,
allocates and fills the tables, one step per store (`Lock` to `SetPrecision`); an allocation may fail
(`NewFails`). A table is a record of the precision it was made for and whether it is
filled; a pointer may dangle. A look-up reads the precision, multiplies and rounds the angle, folds
it into the size and reads the table, in steps of its own and without a lock. `spoilt` marks a look-up
that met a change of the tables: nothing is promised for it. A circle has `Turn`
degrees and `Base` stands for 10, so that the tables stay small; angles come in parts of a degree, and
rounding is that of `std::round()` (`Norm`). An `int32_t` reaches up to `IntMax`: what does not fit becomes any number
by the cast (`Cast`), and the lowest one has no negative, so that any index may come of it (`Indices`).
`LookUpRight` promises nothing for such angles. With 360 degrees, a precision of 6 and 32 bits they begin at
some 2147 degrees, not quite six turns, though the header has it that one need not care about the range of
angles (`CSinCosTable.h:70`).

## Runs

| run | checks | shows |
|---|---|---|
| `lock` | three threads, nesting 2, counter modulo 4, `RuleOfThumb` | mutual exclusion; `lock_count()` and `waiting()` are right; nothing is left behind; it is a recursive lock; `lock()` and `do_locking()` return |
| `guard` | two threads with two guards, two objects, at most two slots in use | guards balance, waiting guards hold nothing, what a call gives back is no more than its share, `reset()` returns |
| `log` | three messages, two loggers, two enables, failing allocations | no message is lost or doubled, the order is kept while running, the threads end |
| `open_hash` | five keys (three with one hash), tables of 5, 7, 8 and 15 places, maximum load 80 %, growth 150 % | exactly the stored keys are found; the count is right; every insertion meets a suitable place; calls end |
| `chain_hash` | two threads with two and one calls, two keys, tables of 1 and 2 places, failing allocations, `operator+=` | who changes the table is alone; a key once, in its place, counted; an undisturbed `get()` finds its key; no endless wait but the known ones |
| `double_element` | three threads with one call each, lists and rings of three elements, two new ones | neighbours agree; the elements implement a row; the calls end |
| `element_store` | three threads, two elements, three calls | who has left is forgotten, but for two known cases; notes are kept; the calls end, the destructor among them |
| `lists` | lists, rings, set, stack, queue; four elements, two of equal data | links, head, tail, count and current element agree; searches are exact; insertions and removals hit; sets behave like sets |
| `lists_empty` | the same | the last element cannot be taken out: finding |
| `arg_handler` | six targets, three programs, seven command lines, two calls | words reach the targets they should; reports are true; what is to be set once is |
| `arg_mandatory` | the same | a missing mandatory argument goes unreported: finding |
| `sin_cos` | two threads with two changes each, precisions live, 0, 1; four angles | tables match the precision; undisturbed look-ups are right; the calls end |

## Bounds

`CLockable`: three threads give an owner, a contender and a third that
interferes; two nested locks separate first, inner and last `unlock()`; the counter
wraps at 4 as that of the code does at 2^32, so that an underflow leaves the range
of legal counts (at most `MaxDepth` = 2). `CLockGuard`: two objects in two orders,
one group with a null between, give the deadlock its chance; two guards per thread
allow overlaps and assignment. `LogQueue`: two loggers are what it takes to overtake, three messages let
one be written, one wait and one be pushed back.

`OpenHash`: five keys fill a table of 5 to the load at which it grows (to 7), and
three keys on one path with two that cross it give displaced elements and vacated places in
every position; 8 and 15 add an even size and the multiplication method. The hashes are chosen
so that 618/1000 in integers and 0.618 in floating point agree. Tables of 3, 4 or 6
places are left out: there the loop in `privGetStepping()` (`TOpenHash.h:503`) does not end.
`MaxSize` bounds the precomputed paths; that no table grows beyond it is checked (`PathAssumption`).

`ChainHash`: every pair of operations meets, in every interleaving, with one operation before or
after one of them; the keys share the one place of the smaller table, so searches pass an element that is removed, and
part in the larger one, so a search that began before a `grow()` is in the wrong place.

`DoubleElement`: removing all of two neighbours while a third thread inserts between them is the
smallest case in which each wants locks of the others; two new elements allow two insertions at
one place.

`ElementStore`: two invalidations and a thread that walks need three threads; `MaxCalls` counts the
calls of all together, and three of them are what it takes to pass an invalidation over. `MaxUnused = 1`: the
table begins with one place that was never used or none, so that the last one goes during the run.

`Lists`: with four elements there is a middle with two neighbours that are not ends, and the way from a current element
goes both ways; two elements have equal data, and the others of the operators overlap in part or not at all.
The state graph is finite because each element enters a list once. Indexes from -2 cover the folding of negative ones.

`ArgHandler`: two names per target, one only, or none (positional); clusters, unknown letters, words of no letters, two
parameters too few or too many; two parses carry over what was set and how far the positional queue has been
turned. Bucket 4 is beyond what the loops reach, 0 within.

`SinCosTable`: two precisions and live calculation, with the two changes each of two threads, give
there-and-back and a change while the other waits for the lock; angles lie
within a turn, behind several, and below 0, on and off the half. With `IntMax` = 8 the larger of two tables, of 4
places, fits twice into an `int32_t`; of the angles -17 has no negative there and 17 does not fit.

`CHECK_DEADLOCK FALSE` is given where the program may really stop: in `log`, when the
last message has been logged and the loggers sleep; in `open_hash`, where a hung call is the
end of its only thread; in the others, when the threads have made their calls, or the list has crashed.

## Fairness

* `CLockable`: a thread inside a call keeps running (weak fairness of its steps). A
  thread that spins is promised nothing more, since `test_and_set()` queues nobody.
  Hence `LockReturns` is conditional: a `lock()` returns once the others stay out.
* `CLockGuard`: the same, with the same condition on `ResetReturns`.
* `LogQueue`: weak fairness of each thread. `log_threads_end()` releases `q_lock`, calls `yield()` and takes it
  again until the loggers got hold of it, and the spin lock does not promise that they ever do. Hence
  `EndReturns` is conditional: it returns if `q_lock`, free again and again, is got by those who spin for it
  (`SpinLockIsFair`). Without that condition TLC finds the loggers losing every race.
* `OpenHash`, `ChainHash`, `DoubleElement`, `SinCosTable`: weak fairness of the steps of each thread that
  is inside a call. The threads make finitely many calls, so
  that nobody can be overtaken for ever, and the spin lock needs no stronger assumption.
* `ElementStore`: weak fairness of each thread's steps. The destructor gives the lock back and takes it again for as
  long as anybody waits, and the others that wait may lose every race with it. Hence `CallsReturn` is conditional:
  every call returns (`Stuck` apart) if a lock that is free again and again is got by those who spin for it (`LockIsFair`).
* `Lists` and `ArgHandler` state no liveness; a loop that does not end is a value of their
  state (`Hanging`), or impossible in the model because every step shortens a queue.

No fairness makes a user call anything.

## Proofs

`CLockableProofs` proves, for every finite set of threads, every depth of nesting,
every modulus above it and either value of `RuleOfThumb`:

* `TypeCorrect`: `TypeOK`, and `WaitingExact`: `CL_Waiting` is the number of threads
  that have announced themselves. The types alone are not inductive: that
  `waiting` stays within 0 and the number of threads needs `WaitingExact`, and the bound on
  `held` needs that a thread on its way to a lock still has one to spare
  (`DepthLeft`). The counting rests on lemmas about the cardinality of the set of waiters
  as one thread joins or leaves it.
* `LockIsExclusive`: `MutualExclusion`. It is not inductive either: the
  strengthening `ClaimInv` says that at most one thread has a *claim*: it has locks, or
  is between the `test_and_set()` that gave it the flag and the store that
  gives the flag back, or is named by `CL_Thread_ID`, and the flag is set while somebody has one (`OneClaim`); that a thread which has passed the owner test of a
  call is still named by `CL_Thread_ID`, and one that is giving the lock back no longer is (`OwnerTested`);
  and what holds around the destructor (`AfterDestruction`), where the flag is taken over
  without being tested. Every store in the code then either keeps the claim, or moves it
  by way of the flag. TLC checked the same invariant on small instances.

It proves three more for a user who follows the rule of thumb (`ASSUME
RuleOfThumb`; without it the first two are false: a thread in the middle of a call
loses its lock to `do_locking(false)`):

* `CountIsExact`: `LockCountExact`. `NothingIsLeft`: `NothingLeftBehind`. `IsALock`:
  `Spec => IsRecursiveLock`, the refinement. They come from one strengthening,
  `RuleInv`, on top of `ClaimInv`. Who switches is alone with the object, so the mode a call
  has found is in force until its end (`ModeKept`); the counter is the
  number of the owner's locks but in the two windows where the first is being taken and the last
  given back, and nobody else has any (`CountKept`); every flag, mark or count
  that is set belongs to a thread that owns the object or is on its way to or from that
  (`Belongs`); and under destruction only the destructor's thread owns anything (`LastOwner`).
  For the refinement each of the steps is mapped: those that complete a call are
  `Acquire`, `Release`, `ReleaseAll` or `Switch`, all others stutter.

`ChainHashProofs` proves `ChangersExclude`: `ChangesExclude`, for every finite set of threads, all
operations in any order, and allocations that may fail at any time. The invariant
`GateInv` needs no word about the chains: the lock belongs to whoever changes the table
or is in `operator+=`, and is nested twice if both (`LockInv`); `operator+=` neither removes nor
clears (`OpInv`); each counter is raised at least as often as it should be, that of
`clear()` exactly, and that of `grow()` once for each of those who wait for it as well
(`CountInv`). "At least" is the point: `pop_back()` and exceptions leave counters raised, and
that costs progress (see `Stuck`), never exclusion.

It proves two more, on top of `GateInv`:

* `TablesAreExact`: `TableExact`. The inductive `TableInv` is stronger in both directions: an element is in a
  chain if and only if its status says so and its key belongs there (`Placed`), so nothing is lost either; two
  elements of the table never have the same key (`NoTwins`), for which `add()` has to search again once it is alone; the count
  is off by one exactly while somebody has unlinked an element and not yet counted it (`Counted`), and what
  each thread has in hand fits the step it is at (`LocalInv`): a `clear()` walks through places that exist, a
  `grow()` has a size that may be. What each operation does to the elements is a lemma of its own (`Adds`, `TakesOut`, `Marks`, `Empties`,
  `Rebuilds`). For `grow()` one needs that every element has a turn of its own (`TurnsAre`): elements that come before one another
  are counted, and an injection between finite sets of the same size leaves nothing out.
* `SearchesFind`: `GetFindsUnlessOvertaken`, an action property. A search may stand on an element that was
  removed long ago, so its invariant cannot speak of chains only. `SearchInv` says that for each removed element there is a bound, the number of elements there
  were when it was unlinked (`last`, a history the invariant finds itself), up to which it still leads on: to
  each element of its place that is in the table, came after it and is not younger than that bound, it leads by its next one, which may be
  removed, too (`PathInv`). Younger elements need not be reached, since one whose key was there all the
  time cannot be younger than a removal the search has seen. A search that is not overtaken is always at an element which leads to that of its key (`OnTheWay`). Each change keeps the ways
  of all others (`WaysInsert`, `WaysUnlink`, `WaysShrink`), but `grow()`, which overtakes everybody.

`CLockGuardProofs` proves, for any number of threads, objects and guards per thread:

* `EveryLockIsDue`: `GuardsBalance`, and `WaitingHoldsNothing`: `NothingHeldWhileWaiting`, both under
  `CarefulTakeOver` and `CarefulUnlock` (without the first a copy forgets locks, without the second
  `unlock_all()` gives back what others are owed; see the divergences). These two speak of threads
  that are idle or wait. `BalanceInv` says for every place within a call by how much the locks a thread
  has differ from what its guards name and it took itself: by the places already dropped, those not
  yet taken, those to be given back, and those a next guard has been handed but not locked. Its parts
  are the shape of a call (`Shape`) and the difference (`Balance`), counted as the cardinality of a set
  of pairs of a guard and a place, so that one lock taken or dropped is one pair more or less.
* `OuterLocksStay`: `OuterLocksKept`, under the same assumptions and in every state, not only in those
  between calls: what `BalanceInv` lets a call have dropped, given back or not yet got is at most the
  share of the guards it works on (`NoMoreThanShare`).

`LogQueueProofs` proves, for any number of messages and loggers, and allocations that may fail:

* `MessagesAreOnce`: `EachMessageOnce`. `Partition` and `Once` place each message: in the queue, in the hands of one
  logger, written, or dropped. `Hands` ties what a logger holds to the step it is at.
* `NothingIsLeftBehind`: `NothingLeftBehind`, under `QuietSwitch`: with the threads off the queue is empty
  or being drained (`Quieted`).
* `OrderWhileRunning`: `InOrderWhileRunning`, under `QuietSwitch`. `Ordered` says that whatever waits was logged
  after all that is written, and in the order of its ids, none of which is below the next one due; a message that
  was pushed back may stand anywhere in the queue, so the queue itself is not sorted while loggers run.

`ListAndStoreProofs` holds what is proved of the two halves of a list's current element: the store that keeps it, and the
list it points into. Of `ElementStore` it proves, for any number of threads, elements and calls:

* `WhoIsGoneIsForgotten`: `GoneIsForgotten`. The invariant follows an element that leaves (`RemovalInv`):
  the invalidation that came with it has reached every thread's note, or has still to be done by somebody,
  or was passed over and is counted in `skipped`; notes written meanwhile are `late`. `ControlInv` says who has the
  lock of the store and the flag `invalidating`, and which of the calls fit together.
* `KeptUntilLeft`: `NotesAreKept`, an action property, from the same invariant, with the deletion of another
  thread's note as one of its exceptions.

Of `Lists` it proves, for any elements with any values, any set of containers, indexes and other lists, and calls in any
order, up to the one that crashes or hangs, closed single lists left out (`Sound`):

* `StaysIntact`: `ListIntact`, from `ListInv` (theorem `Always`). What the run checks is about the row that is read from the head
  (`Row`) and is of no use in the middle of a method, when the head is not yet set or an element is linked one way only. So the
  invariant says that there *is* a sequence without repetition, `s`, such that the links are those of `s`, forth and
  back, loose or joined at the ends, with nothing left in the links of the elements outside (`LinkShape`), and that members, count, head, tail and current
  element are those of `s` (`EndShape`); for a set, that no two members have the same value (`Distinct`); and that the class of
  the container does not change, in a state after a crash too (`Kin`). `Row` is then `s`: a walk along the links reads the sequence, since the
  walk takes as many steps as there are elements, and the sequence is no longer (`ShapeFacts`).
  Each method is taken apart into the stores it is made of. The first of them give a list whose links are in order (`InOrder`) but whose
  ends or count are not; the links of the new row, `InsertAt(s, k, e)` or `RemoveAt(s, k)`, are compared place by
  place (`RowWith`, `RowWithout`); the ends follow at last. In the one case in which the code leaves a row that is none, a
  new head of a ring that is still closed around the old one, it is shown that the program hangs there (`ProtInsertIs`).
* `MembersAreFound`: `SearchExact`. From any element of the row the way up reads the rest of it, and the way down, in a double list, what
  comes before, in reverse (`ReadsUp`, `ReadsDown`); together with the three looks at the current element, head and
  tail every member is met, and the first that suits is one.
* `GoesWhereAsked`: `InsertedWhereAsked`, and `ComesOutAsAsked`: `RemovedAsAsked`. These do not follow from the invariant being kept
  but from the lemmas that say which row a method leaves (`ProtInsertIs`, `PrivRemoveIs`, `RemoveAfterIs`).
* `LikeSets`: `SetsLikeSets`. A loop of insertions is followed step by step: `Grown` says what has come in after
  some of them, `Enlarged` what that is in values. The elements between the index 0 and the index -1 are in the first set whatever
  the numbers are (and with these wrong they are not always all, see the divergences): hence equality for the union,
  which does not go by index, and inclusion for the other two.

`OpenHashProofs` proves, for all keys and hashes, sizes, load factors and growth, if `CarefulRemoval` holds (without it
removal takes an element that was not meant; see the divergences):

* `StoredKeysAreFound`: `FoundExactly`. The heart of the invariant is `ReachInv`: on the path to each element no place
  before its own is free (`None`). That is why removed elements must leave `Vacated` behind, why insertion may use such a
  place, and why a displaced element, whose search starts anew, is found again; `grow()` starts from an empty table.
  The hops noted in an element need not be known for this, nor how much of the table a path reaches: an insertion that
  gives up has met no free place, and ends where a search for the key gives up.
* `CountsAreRight`: `CountExact`, from `OnceInv` (a stored key is in the table, in the hands of `privInsert()` or
  still to be moved: one of these, once) and `CountInv`.

That insertions come to an end (`CallsReturn`) is liveness and stays with TLC, as does `PlaceReached`.

`DoubleElementProofs` proves, for any number of threads, elements and calls, for lists and rings, if no two threads
remove the same element (`~RemoveTwice`; else the row is torn, see the divergences):

* `UnlockedNeighboursAgree`: `NeighboursAgree`. There is no lock for the whole list, so the invariant `RowInv`
  (theorem `RowKept`) must say what holds with any number of insertions and removals half done. An element counts as
  `Linked` from the store that makes its previous one point to it to the store that makes it point elsewhere. From a
  linked element `next` leads to a linked one (`NextInv`), and `prev` back (`PrevInv`), but where a thread is between
  its two stores (`Half`, `Pending`); that thread then has both neighbours locked (`HolderInv`). What a thread has read
  without the locks need not be true any more, but with them it is (`WorkInv`): this is what the second look after
  locking is for. New elements are in the hands of one thread, and those that leave in those of one remover (`ApartInv`).
  Each store is a lemma of its own. The row from `First` on is a recursive function; that there is such a function
  (`SomeFrom`) and that all it finds is linked (`FromLinked`) is shown by the least number for which it fails.
* `RowIsAlwaysChain`: `ImplementsChain`, the refinement of `Chain`. `ChainInv` adds to `RowInv` that the linked elements,
  all of them and no others, are in a sequence that starts with `First`, in which `next` leads from each to the one behind it and
  from the last to nothing or to `First` (`Chained`). There is only one such sequence, `Row` (`RowIsChain`): on the way from `First`
  the rest of it is found from every place on (`RestOfChain`), and it is no longer than there are elements (`ChainedFits`).
  Each step then leaves the row alone (`Same`), or is the one store that puts the new element in (`Inserted`: the first
  of the two for `insertNext()`, the last for `insertPrev()`) or takes the removed one out (`TakenOut`: the first); these
  map to `InsertBehind` and `TakeOut`, by what `InsertAt` and `RemoveAt` do to a sequence (`InsertedAt`, `RemovedAt`).

`ArgAndTableProofs` holds what is proved of two components that have nothing to do with each other but
that both are about one module. Of `ArgHandler` it proves, for any targets, setups, lines of any length, repeated calls, and
either value of `works`:

* `SetAtMostOnce`: `SetOnce`, from `OnceInv`: a target that has no parameter has not been set yet.
* `MissingIsReportedTruly`: `ReportedTruly`, from `ReportInv`: until the end of a call nothing is reported
  as missing. Then the one report is a walk through two tables, which skips what it has met
  before (`MandatoryErrors`).
* `LinesMeanWhatIsDefined`: `ParsedAsDefined`. What a line means is a definition over the whole of it (`Named`, `Parameters`,
  `Wanting`), the handler works through queues. `ParseInv` says how far it has got: `Words` are the words taken; while words
  are read, the queues hold just what these stand for; while arguments are processed, the first `Len(done)` of them have been
  given their parameters (`Given`), and the queues hold the rest; then all have, and `Spread` of the parameters left over have gone to the
  positional targets (`SharedOut`). These are rotated, so what is next is always the first of `pos`; that
  the order comes out right needs that one more step moves each remainder by one (`RemainderStep`, `Rotated`).
  That a longer line means more of the same (`NamedAppend`, `MoreWords`) needs what `FlattenSeq` does with one more
  sequence (`FlattenAppend`). Its definition is a recursive function, so that there is one (`SomeJoin`), and only one
  (`JoinsAgree`), is shown by the least number for which it fails.

Of `SinCosTable` it proves, for every precision and angle, and any number of threads and changes:

* `TablesAreRight`: `TablesMatch`, with `OwnerInv` (who is past the lock owns it) and `ChangeInv` (how far the owner has
  got: what is deleted, sized, filled, and for which precision).
* `LookUpsAreRight`: `LookUpRight`, whatever the width of the `int32_t`, and so for every angle that fits, with `LookInv`: while a look-up is not spoilt its tables are filled for the
  precision it has read, and the number it has rounded to is what the cast makes of the angle.

A set of numbers that is not empty has a least element, which `Min` is: the proofs of `OpenHash`, `DoubleElement`, `ChainHash`, `Lists` and
`ArgHandler` need that where one would otherwise use induction. It is derived (`LeastNumber`) from the fact that the proper subsets of finite
sets are well-founded.

Assumed: the ASSUMEs of the modules, and the conditions named above. Of the ASSUMEs the proofs use that threads, keys, guards,
loggers and linked elements are finite sets and that the marks for nothing, nobody and no call (`Nil`, `NoThread`, `Nobody`, `None`, ...) are none of them;
for the lock `MaxDepth < CountMod`; for linked elements that those of the first row differ from one another (`InitRow`); for the chained table that sizes are at least 1, a
table is grown to one of them, each key has a place in each of them, and the first keys differ from one another (`ChainHashAssumption`); for the arguments that targets are finite, that setups and lines are sequences of targets and of words, and the types of `SetType` and `Buckets`
(`ArgAssumption`); for the lists that elements are finitely many and the null pointer is none of them, that a set is no ring, and that
the other lists have nothing twice (`ElementsAssumption`, `ListsAssumption`); for the open table the ranges of hashes, sizes and factors, and that each path stays
in its table and `MaxSize` is never exceeded (`PathAssumption`); for the sines that powers of `Base` are natural numbers and a table's size fits (`PowerAssumption`; the power is a recursive function)
and that a table is not one of the marks (`TableAssumption`). TLC evaluates each of them in a run.

Only model-checked:

* all liveness, and with it that every call returns (`LockReturns`, `SwitchReturns`, `ResetReturns`, `EndReturns` and `CallsReturn`);
* `PlaceReached`, which depends on the sizes (`PathsReach`, `RoomToGrow`).

Liveness under fairness and ENABLED are out of the prover's reach. So are induction over data and RECURSIVE operators: no
module has one, and what a recursive function gives is shown by the least argument for which it would fail.

## Known divergences

Where the code does not do what one would expect of it, the models do what the code does. Two such
places are findings, with a run each: `lists_empty` and `arg_mandatory`. Others came up on the way. A
property of the runs either excludes them by a constant or a condition it names, or the definition given
here, put into a copy of the `.cfg`, shows them.

| where | what | see |
|---|---|---|
| `CLockable.cpp:294` | `do_locking(false)` while another thread has the object locked spins for ever: `unlock()` does nothing any more | `SwitchReturns` under `UnlockingSpec`, `RuleOfThumb = FALSE` |
| `CLockGuard.cpp:66` | assignment to a guard that is in use forgets its locks | `GuardsBalance`, `CarefulTakeOver = FALSE` |
| `CLockable.cpp:318`, `:405` | `are_locked()` is true for what others have locked, though `CLockable.h:377` says "by the calling thread"; `unlock_all()` then returns true without having unlocked it (`CLockable.h:511`) | `UnlockAllOwnLocks` |
| `_log_queue.cpp:206` | a wake-up is lost, a message stays in the queue until the next one comes | `MessageGetsOut` |
| `_log_thread.h:151` | messages overtake one another as the threads end | `InOrder` |
| `_log_queue.cpp:195` | threads that are ended and enabled again do not run | `ThreadsRunWhenEnabled` |
| `TOpenHash.h:636` | removal of a key that is not there takes another key's element | `FoundExactly`, `CarefulRemoval = FALSE` |
| `TOpenHash.h:503` | some steps miss places of the table (9 of 150 places: 117), so that an insertion may give up below the maximum load; with 3, 4 and 6 places, to which 5 grow by a factor of 1.2, no step is found at all | `PathsReach`; `NeverHangs` with `Growth` = 120 |
| `VTHashBase.h:903` | `pop_back()` and `pop_front()` leave `removing` raised, the next `clear()` or `grow()` hangs | `NeverHangs` |
| `VTHashBase.h:448`, `:815`, `:1112`, `:517` | exceptions leave counters raised; `operator+=` keeps the lock; `clear()` walks an outgrown size | `Stuck` in `CallsReturn` of `ChainHash` |
| `THashElement.h:412` | `get()` misses a stored key (`VTHashBase.h:702`) behind an element that is just being removed | `GetFinds` of `ChainHash` |
| `TDoubleElement.h:524` | two threads that remove the same element do not find each other out | `NeighboursAgree`, `RemoveTwice = TRUE` |
| `CThreadElementStore.cpp:130` | `curr()` reads a note that another thread has deleted | `NothingFreed`, `Destroy = FALSE` |
| `CThreadElementStore.cpp:146`, `:163` | `curr(new)` of a thread without a note may delete the note of another (`TOpenHash.h:636`), once every place of the table was used | the last exception of `NotesAreKept` |
| `CThreadElementStore.cpp:148`, `:165` | an `add()` that throws is forgotten but leaves `inserting` raised (`VTHashBase.h:484`): `clear()`, `enable_thread_safety()` and the destructor hang | `Stuck` in `CallsReturn` of `ElementStore` |
| `CThreadElementStore.cpp:194` | an invalidation that is passed over leaves a destroyed element as current | `skipped` in `GoneIsForgotten` |
| `TSingleList.h:920-928`, `:1291` | the numbers given anew are wrong or all 0, and in rings of two and more this does not end; then `get()` and `pop_back()` of a single list find a wrong element or none (`:1485`) | `Renumbered`, `Hanging`, `PopBack` of `ListOps` |
| `TSingleList.h:432` | `insert_sorted()` is not always where the comment has it | `InsertSorted` of `Lists` |
| `TDoubleList.h:930` | `operator-=` removes elements that the other list does not have | `SubtractOne` of `ListOps` |
| `TSingleList.h:1749` | `remNext()` of a single ring's tail removes the head and leaves it the head | excluded in `Sound` of `Lists` |
| `set_func.h:94`, `:190` | difference and intersection lose elements that belong in them | only that nothing foreign is in them is checked (`SetsLikeSets`) |
| `TSet.h` | `insPrev(nullptr)` inserts at the front, not at the end; `reset()` with itself unlocks twice (`:314`) | `InsLast` of `Lists` |
| `CArgHandler.cpp` | `resetTargets()` does not reach all targets (`:1044`, and by number `:1075`); `""` and `"-"` are passed over without a report (`:1094`); `AT_EXACTLY_ONCE` is enforced for arguments that set only; positional targets are never missing; `-5` is an unknown argument; `getTarget(pos)` is off by one (`:966`) | `Walked`, `Combined`, `ProcTarget`, `Missing`, `Unknown` of `ArgHandler` |
| `CSinCosTable.h:163` | `sin()` looks in the table of cosines | `Method` of `SinCosTable` |
| `CSinCosTable.cpp:158`, `:175`, `:192` | angles whose number in the table exceeds 32 bits are read anywhere, at precision 6 beyond some 2147 degrees | `Cast`, excluded in `LookUpRight` |
| `CSinCosTable.cpp:161` | whole negative turns are read behind the table | excluded in `LookUpRight` |
| `CSinCosTable.cpp:155` | look-ups take no lock: one during a change may read deleted tables; after `clearTables()` it dereferences null | `spoilt` in `LookUpRight` |

## Plan

1. *(done)* CLockable, the guards, the log queue; first theorems.
2. *(done)* The open table for one thread, the chained table with the gate for several.
3. *(done)* Elements: `ElementStore`, `DoubleElement` and the row it implements.
4. *(done)* Lists, rings, sets, stack, queue by one thread; argument handler; tables of sines.
5. *(done)* Proofs: `LockCountExact`, `NothingLeftBehind` and the refinement of
   `RecursiveLock` under the rule of thumb; `ChangesExclude` of the gate; the guards, the log queue, the element store, the
   neighbours of doubly linked elements, the open table and the tables of sines; the argument handler; the chained table and its searches; the
   refinement of `Chain`; lists, rings and sets.
6. Models: lists used by several threads (count, head and tail around the elements' locks), opening and closing of the
   log file, `HashGate` exceptions on the open table.

## Not modelled

* Lists and open tables under several threads: the elements' protocol (`DoubleElement`) and the gate (`ChainHash`) are
  modelled, the containers' own head, tail and count around them are not yet.
* Failing allocations in lists, sets and the argument handler; sorting; index access of hash tables and their `operator-=`;
  `TSet::reset()` and sorted insertion into sets; the operators on sets that repeat the functions.
* Hash functions: their values are constants. Conversion of argument values, the help text. The values in the tables of
  sines, and the second table a combined look-up reads.
* Message formatting, progress line, and the log file's opening and closing: stream I/O whose state is outside the program.
* The memory map: an aid for debugging of which each call is one critical section.
* `MathHelpers`, `CRandom`, `CWaveColor`: floating point and tables of words, which TLC cannot evaluate or which
  have no control. `StreamHelpers`, string helpers, `CException`: formatting.
* Weak memory. The models are sequentially consistent.
