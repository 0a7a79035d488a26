------------------------------ MODULE LogQueue ------------------------------
(***************************************************************************)
(* The log of pwxlib (src/src/log): log() hands each message to a queue,   *)
(* from which up to four LoggerThreads pull, format and write it, and      *)
(* log_enable_threads() starts and stops those threads.                    *)
(*                                                                         *)
(* q_lock is held over several steps and is modelled; the sections under   *)
(* log_Mutex, id_lock and output_lock are one step each. A message is its  *)
(* number in the order of the log() calls and its msg_id.                  *)
(***************************************************************************)
EXTENDS Integers, Sequences, FiniteSets, SequencesExt

CONSTANTS Clients,      \* the threads that call log()
          Controller,   \* the thread that calls log_enable_threads()
          Nobody,       \* no thread, no message
          MaxThreads,   \* how many logger threads are asked for, at most 4
          MaxMessages,  \* bound on the log() calls
          MaxEnables,   \* bound on the calls that turn the threads on
          MayFail,      \* TRUE: allocations may fail
          QuietSwitch   \* TRUE: the threads are switched while nobody logs

ASSUME LogAssumption ==
  /\ Clients \cap (1 .. 4) = {}
  /\ Controller \notin Clients \cup (1 .. 4)
  /\ Nobody \notin Clients \cup (1 .. 4) \cup {Controller}
  /\ MaxThreads \in 1 .. 4
  /\ MaxMessages \in Nat
  /\ MaxEnables \in Nat
  /\ {MayFail, QuietSwitch} \subseteq BOOLEAN

Loggers == 1 .. MaxThreads

VARIABLES threadCount,  \* log_thread_count
          haveThreads,  \* log_have_threads
          alive,        \* the loggers with an entry in log_threads
          queue,        \* the messages from q_tail to q_head
          qLock,        \* the owner of q_lock
          msgId,        \* q_msg_id
          nextId,       \* next_msg_id
          sleeping,     \* threads_sleeping
          doStart, doExit, isExited,  \* the flags of each LoggerThread
          item,         \* the message each logger has popped
          pc,           \* where each thread is
          issued,       \* history: the log() calls so far
          out,          \* history: the messages written, in order
          dropped,      \* history: the messages given up for want of memory
          enables       \* history: how often the threads were turned on

threads == <<threadCount, haveThreads, alive, enables>>
flags   == <<sleeping, doStart, doExit, isExited>>
store   == <<queue, qLock, msgId, nextId, item>>
history == <<issued, out, dropped>>
vars    == <<threads, flags, store, history, pc>>

Actors == Clients \cup Loggers \cup {Controller}
At(p, l)   == pc[p] = l
GoTo(p, l) == pc' = [pc EXCEPT ![p] = l]

Init ==
  /\ threadCount = 0 /\ haveThreads = FALSE /\ alive = {} /\ enables = 0
  /\ queue = <<>> /\ qLock = Nobody /\ msgId = 1 /\ nextId = 1
  /\ item = [l \in Loggers |-> Nobody]
  /\ sleeping = 0
  /\ doStart = [l \in Loggers |-> FALSE]
  /\ doExit = [l \in Loggers |-> FALSE]
  /\ isExited = [l \in Loggers |-> FALSE]
  /\ pc = [p \in Actors |-> IF p \in Loggers THEN "absent" ELSE "idle"]
  /\ issued = 0 /\ out = <<>> /\ dropped = {}

\* If at least one thread sleeps, all are told to start.
Wake == doStart' = IF sleeping > 0 THEN [l \in Loggers |-> doStart[l] \/ l \in alive] ELSE doStart

\* build() fails if there is no memory for its buffer: then the message is given up.
PutOut(no) ==
  \/ out' = Append(out, no) /\ UNCHANGED dropped
  \/ MayFail /\ dropped' = dropped \cup {no} /\ UNCHANGED out

-----------------------------------------------------------------------------
(* Faults a change of this code could introduce; the runs must notice each. *)

PopLeavesTail(l) ==  \* the last message stays q_tail
  /\ At(l, "pop")
  /\ qLock = Nobody
  /\ item' = [item EXCEPT ![l] = IF queue = <<>> THEN Nobody ELSE Head(queue)]
  /\ queue' = IF Len(queue) < 2 THEN queue ELSE Tail(queue)
  /\ GoTo(l, "popped")
  /\ UNCHANGED <<threads, flags, qLock, msgId, nextId, history>>

EmitAtOnce(l) ==  \* nobody looks at the id
  /\ At(l, "popped")
  /\ item[l] # Nobody
  /\ out' = Append(out, item[l].no)
  /\ item' = [item EXCEPT ![l] = Nobody]
  /\ GoTo(l, "advance")
  /\ UNCHANGED <<threads, flags, queue, qLock, msgId, nextId, issued, dropped>>

JoinKeepsLock ==  \* q_lock is not released while there are threads that have not exited
  /\ At(Controller, "join")
  /\ \A l \in alive : isExited[l] => At(l, "exited")
  /\ alive' = {l \in alive : ~isExited[l]}
  /\ pc' = [p \in Actors |-> IF p \in alive \ alive' THEN "absent"
                            ELSE IF p = Controller THEN IF alive' = {} THEN "drain" ELSE "relock"
                            ELSE pc[p]]
  /\ threadCount' = IF alive' = {} THEN 0 ELSE threadCount
  /\ qLock' = IF alive' = {} THEN Nobody ELSE Controller
  /\ UNCHANGED <<haveThreads, enables, flags, queue, msgId, nextId, item, history>>

DrainOne ==  \* an if in place of the while
  /\ At(Controller, "drain")
  /\ qLock = Nobody
  /\ IF queue = <<>> THEN UNCHANGED <<queue, out, dropped>>
     ELSE PutOut(Head(queue).no) /\ queue' = Tail(queue)
  /\ GoTo(Controller, "idle")
  /\ UNCHANGED <<threads, flags, qLock, msgId, nextId, item, issued>>

-----------------------------------------------------------------------------
(* log_threads_activate(), run by an actor that holds q_lock. *)

\* log_threads_start(): a new std::thread for every logger that has none. If
\* one of them can not be created the rest is left for the next attempt.
StartThreads(p, next) ==
  \E n \in IF MayFail THEN 0 .. threadCount ELSE {threadCount} :
    LET born == (1 .. n) \ alive
    IN /\ haveThreads' = (n = threadCount)
       /\ alive' = alive \cup born
       /\ pc' = [q \in Actors |-> IF q \in born THEN "born" ELSE IF q = p THEN next ELSE pc[q]]

\* A push ends by activating the threads, then releases q_lock.
Activate(p, next) ==
  /\ At(p, "activate")
  /\ qLock = p
  /\ IF haveThreads
     THEN /\ Wake
          /\ qLock' = Nobody
          /\ GoTo(p, next)
          /\ UNCHANGED <<haveThreads, alive>>
     ELSE /\ StartThreads(p, "started")
          /\ UNCHANGED <<doStart, qLock>>
  /\ UNCHANGED <<threadCount, enables, sleeping, doExit, isExited,
                 queue, msgId, nextId, item, history>>

Activated(p, next) ==
  /\ At(p, "started")
  /\ IF haveThreads THEN Wake ELSE UNCHANGED doStart
  /\ qLock' = Nobody
  /\ GoTo(p, next)
  /\ UNCHANGED <<threads, sleeping, doExit, isExited, queue, msgId, nextId, item, history>>

-----------------------------------------------------------------------------
(* log(), which keeps input_lock for the whole call. *)

LogCall(c) ==
  /\ \A d \in Clients : At(d, "idle")
  /\ QuietSwitch => At(Controller, "idle")
  /\ issued < MaxMessages
  /\ GoTo(c, IF threadCount > 0 THEN "push" ELSE "direct")
  /\ UNCHANGED <<threads, flags, store, history>>

\* log_direct_out(): the caller writes the message itself.
DirectOut(c) ==
  /\ At(c, "direct")
  /\ issued' = issued + 1
  /\ PutOut(issued + 1)
  /\ GoTo(c, "idle")
  /\ UNCHANGED <<threads, flags, store>>

\* log_queue_push(): the message gets the next id and becomes the new q_head.
QueuePush(c) ==
  /\ At(c, "push")
  /\ qLock = Nobody
  /\ issued' = issued + 1
  /\ queue' = Append(queue, [no |-> issued + 1, id |-> msgId])
  /\ msgId' = msgId + 1
  /\ qLock' = c
  /\ GoTo(c, "activate")
  /\ UNCHANGED <<threads, flags, nextId, item, out, dropped>>

\* No memory for the message: a critical error is written in its place.
QueuePushFails(c) ==
  /\ MayFail
  /\ At(c, "push")
  /\ qLock = Nobody
  /\ issued' = issued + 1
  /\ dropped' = dropped \cup {issued + 1}
  /\ GoTo(c, "idle")
  /\ UNCHANGED <<threads, flags, store, out>>

-----------------------------------------------------------------------------
(* LoggerThread::operator() *)

\* "going back to sleep", the first time as well as later.
GoToSleep(l) ==
  /\ pc[l] \in {"born", "drowsy"}
  /\ sleeping' = sleeping + 1
  /\ GoTo(l, "check")
  /\ UNCHANGED <<threads, doStart, doExit, isExited, store, history>>

CheckExit(l) ==
  /\ At(l, "check")
  /\ isExited' = [isExited EXCEPT ![l] = doExit[l]]
  /\ GoTo(l, IF doExit[l] THEN "exited" ELSE "wait")
  /\ UNCHANGED <<threads, sleeping, doStart, doExit, store, history>>

\* The wait on log_Condition: whoever sets one of the flags notifies all.
WakeUp(l) ==
  /\ At(l, "wait")
  /\ doStart[l] \/ doExit[l]
  /\ \A p \in Actors : ~At(p, "started")  \* it holds log_Mutex
  /\ sleeping' = sleeping - 1
  /\ GoTo(l, "awake")
  /\ UNCHANGED <<threads, doStart, doExit, isExited, store, history>>

EarlyQuit(l) ==
  /\ At(l, "awake")
  /\ GoTo(l, IF doExit[l] THEN "check" ELSE "loop")
  /\ UNCHANGED <<threads, flags, store, history>>

\* The loop over log_queue_size(), read without a lock. A thread polls for
\* half a second before it believes the queue to be empty: it may stay here.
Loop(l) ==
  /\ At(l, "loop")
  /\ GoTo(l, IF queue = <<>> THEN "done" ELSE "pop")
  /\ UNCHANGED <<threads, flags, store, history>>

Pop(l) ==
  /\ At(l, "pop")
  /\ qLock = Nobody
  /\ item' = [item EXCEPT ![l] = IF queue = <<>> THEN Nobody ELSE Head(queue)]
  /\ queue' = IF queue = <<>> THEN <<>> ELSE Tail(queue)
  /\ GoTo(l, "popped")
  /\ UNCHANGED <<threads, flags, qLock, msgId, nextId, history>>

\* A message that is not due goes back to the other end of the queue.
NotDue(l) ==
  /\ At(l, "popped")
  /\ item[l] # Nobody
  /\ item[l].id > nextId
  /\ ~doExit[l]
  /\ GoTo(l, "push")
  /\ UNCHANGED <<threads, flags, store, history>>

PushBack(l) ==
  /\ At(l, "push")
  /\ qLock = Nobody
  /\ queue' = Append(queue, item[l])
  /\ item' = [item EXCEPT ![l] = Nobody]
  /\ qLock' = l
  /\ GoTo(l, "activate")
  /\ UNCHANGED <<threads, flags, msgId, nextId, history>>

NothingPopped(l) ==
  /\ At(l, "popped")
  /\ item[l] = Nobody
  /\ GoTo(l, "loop")
  /\ UNCHANGED <<threads, flags, store, history>>

\* build() and log_out_internal()
Emit(l) ==
  /\ At(l, "popped")
  /\ item[l] # Nobody
  /\ item[l].id <= nextId \/ doExit[l]
  /\ PutOut(item[l].no)
  /\ item' = [item EXCEPT ![l] = Nobody]
  /\ GoTo(l, "advance")
  /\ UNCHANGED <<threads, flags, queue, qLock, msgId, nextId, issued>>

\* _inc_next_msg_id()
Advance(l) ==
  /\ At(l, "advance")
  /\ nextId' = nextId + 1
  /\ GoTo(l, "loop")
  /\ UNCHANGED <<threads, flags, queue, qLock, msgId, item, history>>

Done(l) ==
  /\ At(l, "done")
  /\ doStart' = [doStart EXCEPT ![l] = FALSE]
  /\ GoTo(l, "drowsy")
  /\ UNCHANGED <<threads, sleeping, doExit, isExited, store, history>>

-----------------------------------------------------------------------------
(* log_enable_threads() *)

Quiet == QuietSwitch => \A c \in Clients : At(c, "idle")

Enable ==
  /\ At(Controller, "idle")
  /\ Quiet
  /\ threadCount = 0
  /\ enables < MaxEnables
  /\ enables' = enables + 1
  /\ threadCount' \in 1 .. MaxThreads
  /\ GoTo(Controller, "enable")
  /\ UNCHANGED <<haveThreads, alive, flags, store, history>>

\* log_threads_activate( false ): create the threads if they aren't there yet.
Enabled ==
  /\ At(Controller, "enable")
  /\ qLock = Nobody
  /\ IF haveThreads
     THEN GoTo(Controller, "idle") /\ UNCHANGED <<haveThreads, alive>>
     ELSE StartThreads(Controller, "idle")
  /\ UNCHANGED <<threadCount, enables, flags, store, history>>

\* log_enable_threads( 0 ) calls log_threads_end().
End ==
  /\ At(Controller, "idle")
  /\ Quiet
  /\ threadCount > 0
  /\ GoTo(Controller, "end")
  /\ UNCHANGED <<threads, flags, store, history>>

\* All threads are told to finish.
Finish ==
  /\ At(Controller, "end")
  /\ qLock = Nobody
  /\ qLock' = Controller
  /\ doExit' = [l \in Loggers |-> doExit[l] \/ l \in alive]
  /\ GoTo(Controller, "join")
  /\ UNCHANGED <<threads, sleeping, doStart, isExited, queue, msgId, nextId, item, history>>

\* The threads that have exited are joined (a flag left from an earlier life
\* of the thread makes the join wait for it); q_lock is released and taken
\* again while there are others, by the method of a recursive lock.
Join ==
  /\ At(Controller, "join")
  /\ \A l \in alive : isExited[l] => At(l, "exited")
  /\ alive' = {l \in alive : ~isExited[l]}
  /\ pc' = [p \in Actors |-> IF p \in alive \ alive' THEN "absent"
                            ELSE IF p = Controller THEN IF alive' = {} THEN "drain" ELSE "relock"
                            ELSE pc[p]]
  /\ threadCount' = IF alive' = {} THEN 0 ELSE threadCount
  /\ qLock' = Nobody
  /\ UNCHANGED <<haveThreads, enables, flags, queue, msgId, nextId, item, history>>

Relock ==
  /\ At(Controller, "relock")
  /\ qLock \in {Nobody, Controller}
  /\ qLock' = Controller
  /\ GoTo(Controller, "join")
  /\ UNCHANGED <<threads, flags, queue, msgId, nextId, item, history>>

\* The controller writes what is left in the queue.
Drain ==
  /\ At(Controller, "drain")
  /\ qLock = Nobody
  /\ IF queue = <<>>
     THEN GoTo(Controller, "idle") /\ UNCHANGED <<queue, out, dropped>>
     ELSE /\ PutOut(Head(queue).no)
          /\ queue' = Tail(queue)
          /\ UNCHANGED pc
  /\ UNCHANGED <<threads, flags, qLock, msgId, nextId, item, issued>>

-----------------------------------------------------------------------------
ClientStep(c) == \/ DirectOut(c) \/ QueuePush(c) \/ QueuePushFails(c)
                 \/ Activate(c, "idle") \/ Activated(c, "idle")

LoggerStep(l) == \/ GoToSleep(l) \/ CheckExit(l) \/ WakeUp(l) \/ EarlyQuit(l) \/ Loop(l)
                 \/ Pop(l) \/ NotDue(l) \/ PushBack(l) \/ NothingPopped(l)
                 \/ Emit(l) \/ Advance(l) \/ Done(l)
                 \/ Activate(l, "pop") \/ Activated(l, "pop")

ControllerStep == Enabled \/ Finish \/ Join \/ Relock \/ Drain

Next == \/ \E c \in Clients : LogCall(c) \/ ClientStep(c)
        \/ \E l \in Loggers : LoggerStep(l)
        \/ Enable \/ End \/ ControllerStep

(* Threads go on. That is all: who spins for q_lock may lose it to others for ever. *)
Fairness ==
  /\ \A c \in Clients : WF_vars(ClientStep(c))
  /\ \A l \in Loggers : WF_vars(LoggerStep(l))
  /\ WF_vars(ControllerStep)

Spec == Init /\ [][Next]_vars /\ Fairness

-----------------------------------------------------------------------------
(* Properties *)

Message == [no : 1 .. MaxMessages, id : 1 .. MaxMessages]
ASSUME NobodyAssumption == Nobody \notin Message

(* Types; threads_sleeping is unsigned and never counted below zero.       *)
TypeOK ==
  /\ threadCount \in 0 .. MaxThreads /\ haveThreads \in BOOLEAN /\ alive \subseteq Loggers
  /\ queue \in Seq(Message) /\ qLock \in Actors \cup {Nobody}
  /\ msgId \in Nat \ {0} /\ nextId \in Nat \ {0} /\ sleeping \in Nat
  /\ item \in [Loggers -> Message \cup {Nobody}]
  /\ {doStart, doExit, isExited} \subseteq [Loggers -> BOOLEAN]
  /\ pc \in [Actors -> STRING]
  /\ issued \in 0 .. MaxMessages /\ out \in Seq(1 .. MaxMessages) /\ dropped \subseteq 1 .. MaxMessages

(* However the loggers pass a message around (popped, found not due, pushed
   back, built or not), it is in one place: waiting in the queue, in the
   hands of one logger, written once, or given up for want of memory.      *)
Places(m) ==
  Cardinality({i \in DOMAIN queue : queue[i].no = m})
  + Cardinality({l \in Loggers : item[l] # Nobody /\ item[l].no = m})
  + Cardinality({i \in DOMAIN out : out[i] = m})
  + Cardinality({m} \cap dropped)
EachMessageOnce == \A m \in 1 .. issued : Places(m) = 1

(* After log_enable_threads( 0 ) nothing is left behind: no message in the
   queue or in the hands of a thread that is gone, and no thread.          *)
NothingLeftBehind ==
  (threadCount = 0 /\ At(Controller, "idle") /\ \A c \in Clients : At(c, "idle"))
  => /\ queue = <<>>
     /\ \A l \in Loggers : item[l] = Nobody /\ At(l, "absent")
     /\ ToSet(out) \cup dropped = 1 .. issued

(* While no thread is told to finish the messages come out in the order of
   the log() calls, whatever logger writes them and whatever fails.        *)
InOrderWhileRunning ==
  (\A l \in Loggers : ~doExit[l]) => \A i, j \in DOMAIN out : i < j => out[i] < out[j]

(* If q_lock, free again and again, is got by everybody who spins for it in
   the end, log_enable_threads( 0 ) returns: all threads can finish what they
   have in hand and be joined, and the rest of the queue is written.       *)
SpinLockIsFair ==
  []<>(qLock = Nobody) => \A p \in Actors : []<>(pc[p] \notin {"enable", "end", "relock", "push", "pop"})
EndReturns == SpinLockIsFair => (At(Controller, "end") ~> At(Controller, "idle"))

(* log.h:84-86: the threads pull the messages from the queue and send them
   to the log file. Every message is written at last.                      *)
MessageGetsOut == SpinLockIsFair => \A m \in 1 .. MaxMessages : (m <= issued) ~> (m \in ToSet(out) \cup dropped)

(* log.h:92-93: "A unique id of the queue items ensures that the messages
   reach the log file in the correct order."                               *)
InOrder == \A i, j \in DOMAIN out : i < j => out[i] < out[j]

(* log.h:105-106: threading can be deactivated and reactivated. With threads
   enabled there are threads.                                              *)
ThreadsRunWhenEnabled ==
  (threadCount > 0 /\ At(Controller, "idle") /\ ~MayFail) => alive # {}
=============================================================================
