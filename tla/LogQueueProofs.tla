---------------------------- MODULE LogQueueProofs ----------------------------
(***************************************************************************)
(* Proofs about LogQueue, for any set of threads that log, any number of   *)
(* messages, and one to four loggers that start, fail to start and end.    *)
(***************************************************************************)
EXTENDS LogQueue, FiniteSetTheorems, TLAPS

-----------------------------------------------------------------------------
(* The inductive invariant *)

ClientSteps == {"idle", "push", "direct", "activate", "started"}
LoggerSteps == {"absent", "born", "drowsy", "check", "exited", "wait", "awake", "loop",
                "pop", "popped", "push", "activate", "started", "advance", "done"}
ControllerSteps == {"idle", "enable", "end", "join", "relock", "drain"}

Steps == ClientSteps \cup LoggerSteps \cup ControllerSteps

PcTypes ==
  /\ pc \in [Actors -> Steps]
  /\ \A c \in Clients : pc[c] \in ClientSteps
  /\ \A l \in Loggers : pc[l] \in LoggerSteps
  /\ pc[Controller] \in ControllerSteps

DataTypes ==
  /\ threadCount \in 0 .. MaxThreads /\ haveThreads \in BOOLEAN /\ alive \subseteq Loggers
  /\ queue \in Seq(Message)
  /\ msgId \in Nat \ {0} /\ nextId \in Nat \ {0}
  /\ item \in [Loggers -> Message \cup {Nobody}]
  /\ doExit \in [Loggers -> BOOLEAN] /\ isExited \in [Loggers -> BOOLEAN]
  /\ issued \in 0 .. MaxMessages /\ out \in Seq(1 .. MaxMessages) /\ dropped \subseteq 1 .. MaxMessages

\* The messages in the queue or in the hands of a logger, and the numbers of those written.
Busy    == {l \in Loggers : item[l] # Nobody}
InHand  == {item[l] : l \in Busy}
Pending == ToSet(queue) \cup InHand
Numbers(messages) == {m.no : m \in messages}
Written == ToSet(out)

\* Every message that was logged is in one place, and there once.
Partition ==
  /\ Numbers(Pending) \cup Written \cup dropped = 1 .. issued
  /\ Numbers(Pending) \cap Written = {}
  /\ (Numbers(Pending) \cup Written) \cap dropped = {}

Distinct(s) == \A i, j \in DOMAIN s : s[i] = s[j] => i = j
Once ==
  /\ Distinct(queue) /\ Distinct(out)
  /\ \A k, l \in Busy : item[k] = item[l] => k = l
  /\ ToSet(queue) \cap InHand = {}
  /\ \A m, n \in Pending : m.no = n.no => m = n

\* A logger has a message in hand after it popped one, until it is rid of it; input_lock
\* lets one client call at a time, so there is room for the message it logs.
Hands ==
  /\ \A l \in Loggers : pc[l] \notin {"popped", "push"} => item[l] = Nobody
  /\ \A l \in Loggers : pc[l] = "push" => item[l] # Nobody
  /\ \A c, d \in Clients : pc[c] # "idle" /\ pc[d] # "idle" => c = d
  /\ \A c \in Clients : pc[c] \in {"push", "direct"} => issued < MaxMessages
  /\ msgId <= issued + 1

MessageInv == Partition /\ Once

\* No logger is there unless threads are enabled, and none exits unless it is told to.
Presence ==
  /\ \A l \in Loggers : pc[l] = "absent" <=> l \notin alive
  /\ threadCount = 0 => alive = {}
  /\ \A l \in Loggers : isExited[l] => doExit[l]

\* If the threads are switched while nobody logs, the queue is empty without them.
Quieted ==
  /\ At(Controller, "idle") \/ \A c \in Clients : At(c, "idle")
  /\ threadCount = 0 => queue = <<>> \/ At(Controller, "drain")
  /\ \A c \in Clients : /\ pc[c] = "push" => threadCount > 0
                        /\ pc[c] = "direct" => threadCount = 0
  /\ At(Controller, "drain") => threadCount = 0

Running == \A l \in Loggers : ~doExit[l]
Advancing == {l \in Loggers : pc[l] = "advance"}

\* The smallest id that can still be waiting.
NextDue == IF Advancing = {} THEN nextId ELSE nextId + 1

\* What waits was logged after all that is written, and in the order of the ids, of
\* which only the smallest can be next_msg_id: one logger at a time gets to write.
Ordered ==
  /\ \A i, j \in DOMAIN out : i < j => out[i] < out[j]
  /\ \A m \in Pending : \A n \in Written : n < m.no
  /\ \A m \in Pending : NextDue <= m.id /\ m.id < msgId
  /\ \A m, n \in Pending : m.no < n.no => m.id < n.id
  /\ NextDue <= msgId
  /\ \A k, l \in Advancing : k = l
  /\ alive = {} => \A i, j \in DOMAIN queue : i < j => queue[i].no < queue[j].no

OrderInv == QuietSwitch /\ Running => Ordered

ControlInv == PcTypes /\ DataTypes /\ Hands /\ Presence

-----------------------------------------------------------------------------
(* Helpers *)

LEMMA Apart ==
  /\ Loggers \cap Clients = {} /\ Controller \notin Loggers \cup Clients
  /\ Nobody \notin Actors /\ Nobody \notin Message
  /\ MaxThreads \in Nat /\ MaxMessages \in Nat
<1>1. MaxThreads \in 1 .. 4 /\ MaxMessages \in Nat /\ Loggers \subseteq 1 .. 4
  BY LogAssumption DEF LogAssumption, Loggers
<1>2. Controller \notin Loggers \cup Clients /\ Loggers \cap Clients = {}
  BY <1>1, LogAssumption DEF LogAssumption
<1>3. Nobody \notin Actors  BY <1>1, LogAssumption DEF LogAssumption, Actors
<1>4. Nobody \notin Message  BY NobodyAssumption DEF NobodyAssumption
<1>5. MaxThreads \in Nat  BY <1>1
<1>6. QED  BY <1>1, <1>2, <1>3, <1>4, <1>5

LEMMA AppendSeq ==
  ASSUME NEW S, NEW s \in Seq(S), NEW e \in S
  PROVE  /\ Append(s, e) \in Seq(S) /\ Len(s) \in Nat /\ DOMAIN s = 1 .. Len(s)
         /\ DOMAIN Append(s, e) = 1 .. Len(s) + 1
         /\ \A i \in DOMAIN s : Append(s, e)[i] = s[i]
         /\ Append(s, e)[Len(s) + 1] = e
  OBVIOUS

LEMMA AppendSet ==
  ASSUME NEW S, NEW s \in Seq(S), NEW e \in S
  PROVE  ToSet(Append(s, e)) = ToSet(s) \cup {e}
<1>1. ASSUME NEW x \in ToSet(Append(s, e)) PROVE x \in ToSet(s) \cup {e}
  <2>1. PICK i \in 1 .. Len(s) + 1 : x = Append(s, e)[i]  BY <1>1, AppendSeq DEF ToSet
  <2>2. i \in DOMAIN s \/ i = Len(s) + 1  BY <2>1, AppendSeq
  <2>3. QED  BY <2>1, <2>2, AppendSeq DEF ToSet
<1>2. ASSUME NEW x \in ToSet(s) \cup {e} PROVE x \in ToSet(Append(s, e))
  <2>1. CASE x = e
    <3>1. Len(s) + 1 \in DOMAIN Append(s, e)  BY AppendSeq
    <3>2. QED  BY <2>1, <3>1, AppendSeq DEF ToSet
  <2>2. CASE x \in ToSet(s)
    <3>1. PICK i \in DOMAIN s : x = s[i]  BY <2>2 DEF ToSet
    <3>2. i \in DOMAIN Append(s, e)  BY AppendSeq
    <3>3. QED  BY <3>1, <3>2, AppendSeq DEF ToSet
  <2>3. QED  BY <2>1, <2>2
<1>3. QED  BY <1>1, <1>2

LEMMA ElementsOf ==
  ASSUME NEW S, NEW s \in Seq(S)
  PROVE  ToSet(s) \subseteq S
  BY DEF ToSet

LEMMA AppendDistinct ==
  ASSUME NEW S, NEW s \in Seq(S), NEW e \in S, Distinct(s), e \notin ToSet(s)
  PROVE  Distinct(Append(s, e))
<1>1. SUFFICES ASSUME NEW i \in 1 .. Len(s) + 1, NEW j \in 1 .. Len(s) + 1,
                      Append(s, e)[i] = Append(s, e)[j]
               PROVE  i = j
  BY AppendSeq DEF Distinct
<1>2. (i \in DOMAIN s \/ i = Len(s) + 1) /\ (j \in DOMAIN s \/ j = Len(s) + 1)  BY AppendSeq
<1>3. QED  BY <1>1, <1>2, AppendSeq DEF Distinct, ToSet

LEMMA TailSeq ==
  ASSUME NEW S, NEW s \in Seq(S), s # <<>>
  PROVE  /\ Tail(s) \in Seq(S) /\ Head(s) \in S /\ Len(s) \in Nat \ {0} /\ DOMAIN s = 1 .. Len(s)
         /\ DOMAIN Tail(s) = 1 .. Len(s) - 1
         /\ Head(s) = s[1] /\ \A i \in DOMAIN Tail(s) : Tail(s)[i] = s[i + 1]
  OBVIOUS

LEMMA TailSet ==
  ASSUME NEW S, NEW s \in Seq(S), s # <<>>, Distinct(s)
  PROVE  /\ Head(s) \in ToSet(s) /\ ToSet(Tail(s)) = ToSet(s) \ {Head(s)}
         /\ Distinct(Tail(s))
<1>1. 1 \in DOMAIN s  BY TailSeq
<1>2. Head(s) \in ToSet(s)  BY <1>1, TailSeq DEF ToSet
<1>3. ASSUME NEW x \in ToSet(Tail(s)) PROVE x \in ToSet(s) \ {Head(s)}
  <2>1. PICK i \in DOMAIN Tail(s) : x = Tail(s)[i]  BY <1>3 DEF ToSet
  <2>2. i + 1 \in DOMAIN s /\ x = s[i + 1] /\ i + 1 # 1  BY <2>1, TailSeq
  <2>3. QED  BY <1>1, <2>2, TailSeq DEF ToSet, Distinct
<1>4. ASSUME NEW x \in ToSet(s) \ {Head(s)} PROVE x \in ToSet(Tail(s))
  <2>1. PICK i \in DOMAIN s : x = s[i]  BY <1>4 DEF ToSet
  <2>2. i # 1  BY <2>1, TailSeq
  <2>3. i - 1 \in DOMAIN Tail(s) /\ i = (i - 1) + 1  BY <2>1, <2>2, TailSeq
  <2>4. Tail(s)[i - 1] = x  BY <2>1, <2>3, TailSeq
  <2>5. QED  BY <2>3, <2>4 DEF ToSet
<1>5. Distinct(Tail(s))
  <2>1. SUFFICES ASSUME NEW i \in DOMAIN Tail(s), NEW j \in DOMAIN Tail(s), Tail(s)[i] = Tail(s)[j]
                 PROVE  i = j
    BY DEF Distinct
  <2>2. i + 1 \in DOMAIN s /\ j + 1 \in DOMAIN s /\ s[i + 1] = s[j + 1]  BY <2>1, TailSeq
  <2>3. i + 1 = j + 1  BY <2>2 DEF Distinct
  <2>4. i \in Int /\ j \in Int  BY TailSeq
  <2>5. QED  BY <2>3, <2>4
<1>6. QED  BY <1>2, <1>3, <1>4, <1>5

-----------------------------------------------------------------------------
(* Where the threads are *)

LEMMA ClientGoes ==
  ASSUME PcTypes, NEW c \in Clients, NEW x \in ClientSteps, GoTo(c, x)
  PROVE  PcTypes' /\ pc'[c] = x /\ \A p \in Actors : p # c => pc'[p] = pc[p]
  BY Apart DEF PcTypes, GoTo, Actors, Steps

LEMMA LoggerGoes ==
  ASSUME PcTypes, NEW l \in Loggers, NEW x \in LoggerSteps, GoTo(l, x)
  PROVE  PcTypes' /\ pc'[l] = x /\ \A p \in Actors : p # l => pc'[p] = pc[p]
  BY Apart DEF PcTypes, GoTo, Actors, Steps

LEMMA ControllerGoes ==
  ASSUME PcTypes, NEW x \in ControllerSteps, GoTo(Controller, x)
  PROVE  PcTypes' /\ pc'[Controller] = x /\ \A p \in Actors : p # Controller => pc'[p] = pc[p]
  BY Apart DEF PcTypes, GoTo, Actors, Steps

LEMMA Starts ==
  ASSUME ControlInv, NEW p \in Actors, NEW x \in Steps, StartThreads(p, x),
         p \in Loggers => pc[p] # "absent" /\ x \in LoggerSteps \ {"absent"},
         p \in Clients => x \in ClientSteps, p = Controller => x \in ControllerSteps
  PROVE  /\ PcTypes' /\ pc'[p] = x
         /\ alive \subseteq alive' /\ alive' \subseteq Loggers
         /\ threadCount = 0 => alive' = alive
         /\ \A l \in Loggers : pc'[l] = "absent" <=> l \notin alive'
         /\ \A l \in Loggers : pc'[l] # pc[l] => l = p \/ (pc[l] = "absent" /\ pc'[l] = "born")
         /\ \A q \in Actors \ Loggers : q # p => pc'[q] = pc[q]
         /\ haveThreads' \in BOOLEAN
<1>1. PICK n \in 0 .. threadCount :
        /\ haveThreads' = (n = threadCount) /\ alive' = alive \cup ((1 .. n) \ alive)
        /\ pc' = [q \in Actors |-> IF q \in (1 .. n) \ alive THEN "born" ELSE IF q = p THEN x ELSE pc[q]]
  BY DEF StartThreads, ControlInv, DataTypes
<1> DEFINE born == (1 .. n) \ alive
<1>2. born \subseteq Loggers /\ (threadCount = 0 => born = {})
  BY Apart DEF ControlInv, DataTypes, Loggers
<1>3. alive' = alive \cup born
      /\ pc' = [q \in Actors |-> IF q \in born THEN "born" ELSE IF q = p THEN x ELSE pc[q]]
  BY <1>1
<1>4. born \cap alive = {} /\ haveThreads' \in BOOLEAN /\ alive \subseteq Loggers  BY <1>1 DEF ControlInv, DataTypes
<1> HIDE DEF born
<1>5. \A l \in born : pc[l] = "absent" /\ l # p
  BY <1>2, <1>4 DEF ControlInv, Presence
<1>6. \A q \in Actors : pc'[q] = IF q \in born THEN "born" ELSE IF q = p THEN x ELSE pc[q]
  BY <1>3
<1>7. PcTypes'
  <2>1. "born" \in LoggerSteps  BY DEF LoggerSteps
  <2>2. pc' \in [Actors -> Steps]
    BY <1>3, <2>1 DEF ControlInv, PcTypes, Steps
  <2>3. \A c \in Clients : pc'[c] \in ClientSteps
    BY <1>2, <1>6, Apart DEF ControlInv, PcTypes, Actors
  <2>4. \A l \in Loggers : pc'[l] \in LoggerSteps
    BY <1>6, <2>1 DEF ControlInv, PcTypes, Actors
  <2>5. pc'[Controller] \in ControllerSteps
    BY <1>2, <1>6, Apart DEF ControlInv, PcTypes, Actors
  <2>6. QED  BY <2>2, <2>3, <2>4, <2>5 DEF PcTypes
<1>8. pc'[p] = x  BY <1>5, <1>6
<1>9. \A l \in Loggers : pc'[l] = "absent" <=> l \notin alive'
  BY <1>2, <1>3, <1>4, <1>5, <1>6 DEF ControlInv, Presence, Actors
<1>10. \A l \in Loggers : pc'[l] # pc[l] => l = p \/ (pc[l] = "absent" /\ pc'[l] = "born")
  BY <1>5, <1>6 DEF Actors
<1>11. \A q \in Actors \ Loggers : q # p => pc'[q] = pc[q]
  BY <1>2, <1>6
<1>12. QED
  BY <1>2, <1>3, <1>4, <1>7, <1>8, <1>9, <1>10, <1>11

LEMMA ClientControl ==
  ASSUME ControlInv, NEW c \in Clients, LogCall(c) \/ ClientStep(c)
  PROVE  ControlInv'
<1> USE DEF threads, flags, store, history, At
<1>1. CASE LogCall(c)
  <2>1. /\ pc[c] = "idle" /\ \A d \in Clients : pc[d] = "idle"
        /\ PcTypes' /\ pc'[c] \in {"push", "direct"} /\ \A p \in Actors : p # c => pc'[p] = pc[p]
    BY <1>1, ClientGoes DEF LogCall, ControlInv, ClientSteps
  <2>2. DataTypes' /\ issued' < MaxMessages  BY <1>1 DEF LogCall, ControlInv, DataTypes
  <2>3. Hands'  BY <1>1, <2>1, <2>2, Apart DEF LogCall, ControlInv, Hands, Actors
  <2>4. Presence'  BY <1>1, <2>1, Apart DEF LogCall, ControlInv, Presence, Actors
  <2>5. QED  BY <2>1, <2>2, <2>3, <2>4 DEF ControlInv
<1>2. CASE DirectOut(c)
  <2>1. /\ pc[c] = "direct" /\ PcTypes' /\ pc'[c] = "idle" /\ \A p \in Actors : p # c => pc'[p] = pc[p]
    BY <1>2, ClientGoes DEF DirectOut, PutOut, ControlInv, ClientSteps
  <2>2. issued \in 0 .. MaxMessages /\ issued < MaxMessages /\ msgId \in Nat \ {0} /\ msgId <= issued + 1
    BY <2>1 DEF ControlInv, DataTypes, Hands
  <2>3. issued + 1 \in 1 .. MaxMessages /\ msgId <= issued + 1 + 1  BY <2>2, Apart
  <2>4. Append(out, issued + 1) \in Seq(1 .. MaxMessages)  BY <2>3, AppendSeq DEF ControlInv, DataTypes
  <2>9. issued + 1 \in 0 .. MaxMessages  BY <2>3
  <2>5. DataTypes'  BY <1>2, <2>3, <2>4, <2>9 DEF DirectOut, PutOut, ControlInv, DataTypes
  <2>6. Hands'  BY <1>2, <2>1, <2>3, Apart DEF DirectOut, PutOut, ControlInv, Hands, Actors
  <2>7. Presence'  BY <1>2, <2>1, Apart DEF DirectOut, PutOut, ControlInv, Presence, Actors
  <2>8. QED  BY <2>1, <2>5, <2>6, <2>7 DEF ControlInv
<1>3. CASE QueuePush(c)
  <2>1. /\ pc[c] = "push" /\ PcTypes' /\ pc'[c] = "activate" /\ \A p \in Actors : p # c => pc'[p] = pc[p]
    BY <1>3, ClientGoes DEF QueuePush, ControlInv, ClientSteps
  <2>2. issued \in 0 .. MaxMessages /\ issued < MaxMessages /\ msgId \in Nat \ {0} /\ msgId <= issued + 1
    BY <2>1 DEF ControlInv, DataTypes, Hands
  <2>3. issued + 1 \in 1 .. MaxMessages /\ msgId \in 1 .. MaxMessages  BY <2>2, Apart
  <2>4. [no |-> issued + 1, id |-> msgId] \in Message  BY <2>3 DEF Message
  <2>5. queue' \in Seq(Message)  BY <1>3, <2>4, AppendSeq DEF QueuePush, ControlInv, DataTypes
  <2>6. DataTypes'  BY <1>3, <2>3, <2>5 DEF QueuePush, ControlInv, DataTypes
  <2>7. msgId' <= issued' + 1  BY <1>3, <2>2 DEF QueuePush
  <2>8. Hands'  BY <1>3, <2>1, <2>7, Apart DEF QueuePush, ControlInv, Hands, Actors
  <2>9. Presence'  BY <1>3, <2>1, Apart DEF QueuePush, ControlInv, Presence, Actors
  <2>10. QED  BY <2>1, <2>6, <2>8, <2>9 DEF ControlInv
<1>4. CASE QueuePushFails(c)
  <2>1. /\ pc[c] = "push" /\ PcTypes' /\ pc'[c] = "idle" /\ \A p \in Actors : p # c => pc'[p] = pc[p]
    BY <1>4, ClientGoes DEF QueuePushFails, ControlInv, ClientSteps
  <2>2. issued \in 0 .. MaxMessages /\ issued < MaxMessages /\ msgId \in Nat \ {0} /\ msgId <= issued + 1
    BY <2>1 DEF ControlInv, DataTypes, Hands
  <2>3. issued + 1 \in 1 .. MaxMessages /\ msgId <= issued + 1 + 1  BY <2>2, Apart
  <2>4. DataTypes'  BY <1>4, <2>3 DEF QueuePushFails, ControlInv, DataTypes
  <2>5. Hands'  BY <1>4, <2>1, <2>3, Apart DEF QueuePushFails, ControlInv, Hands, Actors
  <2>6. Presence'  BY <1>4, <2>1, Apart DEF QueuePushFails, ControlInv, Presence, Actors
  <2>7. QED  BY <2>1, <2>4, <2>5, <2>6 DEF ControlInv
<1>5. CASE Activate(c, "idle") /\ haveThreads
  <2>1. /\ pc[c] = "activate" /\ PcTypes' /\ pc'[c] = "idle" /\ \A p \in Actors : p # c => pc'[p] = pc[p]
    BY <1>5, ClientGoes DEF Activate, ControlInv, ClientSteps
  <2>2. DataTypes'  BY <1>5 DEF Activate, ControlInv, DataTypes
  <2>3. Hands'  BY <1>5, <2>1, Apart DEF Activate, ControlInv, Hands, Actors
  <2>4. Presence'  BY <1>5, <2>1, Apart DEF Activate, ControlInv, Presence, Actors
  <2>5. QED  BY <2>1, <2>2, <2>3, <2>4 DEF ControlInv
<1>6. CASE Activate(c, "idle") /\ ~haveThreads
  <2>0. "started" \in ClientSteps /\ c \in Actors  BY DEF ClientSteps, Actors
  <2>1. /\ pc[c] = "activate" /\ PcTypes' /\ pc'[c] = "started"
        /\ alive' \subseteq Loggers /\ haveThreads' \in BOOLEAN
        /\ threadCount = 0 => alive' = alive
        /\ \A l \in Loggers : pc'[l] = "absent" <=> l \notin alive'
        /\ \A l \in Loggers : pc'[l] # pc[l] => pc[l] = "absent" /\ pc'[l] = "born"
        /\ \A q \in Actors \ Loggers : q # c => pc'[q] = pc[q]
    BY <1>6, <2>0, Starts, Apart DEF Activate, Steps
  <2>2. DataTypes'  BY <1>6, <2>1 DEF Activate, ControlInv, DataTypes
  <2>3. Hands'
    <3>1. \A d \in Clients : d # c => pc'[d] = pc[d]  BY <2>1, Apart DEF Actors
    <3>2. QED  BY <1>6, <2>1, <3>1 DEF Activate, ControlInv, Hands
  <2>4. Presence'  BY <1>6, <2>1 DEF Activate, ControlInv, Presence
  <2>5. QED  BY <2>1, <2>2, <2>3, <2>4 DEF ControlInv
<1>7. CASE Activated(c, "idle")
  <2>1. /\ pc[c] = "started" /\ PcTypes' /\ pc'[c] = "idle" /\ \A p \in Actors : p # c => pc'[p] = pc[p]
    BY <1>7, ClientGoes DEF Activated, ControlInv, ClientSteps
  <2>2. DataTypes'  BY <1>7 DEF Activated, ControlInv, DataTypes
  <2>3. Hands'  BY <1>7, <2>1, Apart DEF Activated, ControlInv, Hands, Actors
  <2>4. Presence'  BY <1>7, <2>1, Apart DEF Activated, ControlInv, Presence, Actors
  <2>5. QED  BY <2>1, <2>2, <2>3, <2>4 DEF ControlInv
<1>8. QED  BY <1>1, <1>2, <1>3, <1>4, <1>5, <1>6, <1>7 DEF ClientStep, ControlInv, DataTypes

LEMMA LoggerControl ==
  ASSUME ControlInv, NEW l \in Loggers, LoggerStep(l)
  PROVE  ControlInv'
<1> USE DEF threads, flags, store, history, At
<1>1. CASE GoToSleep(l)
  <2>1. /\ pc[l] \in {"born", "drowsy"} /\ PcTypes' /\ pc'[l] = "check" /\ \A p \in Actors : p # l => pc'[p] = pc[p]
    BY <1>1, LoggerGoes DEF GoToSleep, ControlInv, LoggerSteps
  <2>2. DataTypes'  BY <1>1 DEF GoToSleep, ControlInv, DataTypes
  <2>3. Hands'  BY <1>1, <2>1, Apart DEF GoToSleep, ControlInv, Hands, Actors, DataTypes
  <2>4. Presence'  BY <1>1, <2>1, Apart DEF GoToSleep, ControlInv, Presence, Actors, DataTypes
  <2>5. QED  BY <2>1, <2>2, <2>3, <2>4 DEF ControlInv
<1>2. CASE CheckExit(l)
  <2>1. /\ pc[l] = "check" /\ PcTypes' /\ pc'[l] \in {"exited", "wait"} /\ \A p \in Actors : p # l => pc'[p] = pc[p]
    BY <1>2, LoggerGoes DEF CheckExit, ControlInv, LoggerSteps
  <2>2. DataTypes'  BY <1>2 DEF CheckExit, ControlInv, DataTypes
  <2>3. Hands'  BY <1>2, <2>1, Apart DEF CheckExit, ControlInv, Hands, Actors, DataTypes
  <2>4. Presence'  BY <1>2, <2>1, Apart DEF CheckExit, ControlInv, Presence, Actors, DataTypes
  <2>5. QED  BY <2>1, <2>2, <2>3, <2>4 DEF ControlInv
<1>3. CASE WakeUp(l)
  <2>1. /\ pc[l] = "wait" /\ PcTypes' /\ pc'[l] = "awake" /\ \A p \in Actors : p # l => pc'[p] = pc[p]
    BY <1>3, LoggerGoes DEF WakeUp, ControlInv, LoggerSteps
  <2>2. DataTypes'  BY <1>3 DEF WakeUp, ControlInv, DataTypes
  <2>3. Hands'  BY <1>3, <2>1, Apart DEF WakeUp, ControlInv, Hands, Actors, DataTypes
  <2>4. Presence'  BY <1>3, <2>1, Apart DEF WakeUp, ControlInv, Presence, Actors, DataTypes
  <2>5. QED  BY <2>1, <2>2, <2>3, <2>4 DEF ControlInv
<1>4. CASE EarlyQuit(l)
  <2>1. /\ pc[l] = "awake" /\ PcTypes' /\ pc'[l] \in {"check", "loop"} /\ \A p \in Actors : p # l => pc'[p] = pc[p]
    BY <1>4, LoggerGoes DEF EarlyQuit, ControlInv, LoggerSteps
  <2>2. DataTypes'  BY <1>4 DEF EarlyQuit, ControlInv, DataTypes
  <2>3. Hands'  BY <1>4, <2>1, Apart DEF EarlyQuit, ControlInv, Hands, Actors, DataTypes
  <2>4. Presence'  BY <1>4, <2>1, Apart DEF EarlyQuit, ControlInv, Presence, Actors, DataTypes
  <2>5. QED  BY <2>1, <2>2, <2>3, <2>4 DEF ControlInv
<1>5. CASE Loop(l)
  <2>1. /\ pc[l] = "loop" /\ PcTypes' /\ pc'[l] \in {"done", "pop"} /\ \A p \in Actors : p # l => pc'[p] = pc[p]
    BY <1>5, LoggerGoes DEF Loop, ControlInv, LoggerSteps
  <2>2. DataTypes'  BY <1>5 DEF Loop, ControlInv, DataTypes
  <2>3. Hands'  BY <1>5, <2>1, Apart DEF Loop, ControlInv, Hands, Actors, DataTypes
  <2>4. Presence'  BY <1>5, <2>1, Apart DEF Loop, ControlInv, Presence, Actors, DataTypes
  <2>5. QED  BY <2>1, <2>2, <2>3, <2>4 DEF ControlInv
<1>6. CASE Pop(l)
  <2>1. /\ pc[l] = "pop" /\ PcTypes' /\ pc'[l] = "popped" /\ \A p \in Actors : p # l => pc'[p] = pc[p]
    BY <1>6, LoggerGoes DEF Pop, ControlInv, LoggerSteps
  <2>2. DataTypes'
    <3>1. CASE queue = <<>>  BY <1>6, <3>1 DEF Pop, ControlInv, DataTypes
    <3>2. CASE queue # <<>>
      <4>1. Tail(queue) \in Seq(Message) /\ Head(queue) \in Message
        BY <3>2, TailSeq DEF ControlInv, DataTypes
      <4>2. QED  BY <1>6, <3>2, <4>1 DEF Pop, ControlInv, DataTypes
    <3>3. QED  BY <3>1, <3>2
  <2>3. Hands'  BY <1>6, <2>1, Apart DEF Pop, ControlInv, Hands, Actors, DataTypes
  <2>4. Presence'  BY <1>6, <2>1, Apart DEF Pop, ControlInv, Presence, Actors, DataTypes
  <2>5. QED  BY <2>1, <2>2, <2>3, <2>4 DEF ControlInv
<1>7. CASE NotDue(l)
  <2>1. /\ pc[l] = "popped" /\ PcTypes' /\ pc'[l] = "push" /\ \A p \in Actors : p # l => pc'[p] = pc[p]
    BY <1>7, LoggerGoes DEF NotDue, ControlInv, LoggerSteps
  <2>2. DataTypes'  BY <1>7 DEF NotDue, ControlInv, DataTypes
  <2>3. Hands'  BY <1>7, <2>1, Apart DEF NotDue, ControlInv, Hands, Actors, DataTypes
  <2>4. Presence'  BY <1>7, <2>1, Apart DEF NotDue, ControlInv, Presence, Actors, DataTypes
  <2>5. QED  BY <2>1, <2>2, <2>3, <2>4 DEF ControlInv
<1>8. CASE PushBack(l)
  <2>1. /\ pc[l] = "push" /\ PcTypes' /\ pc'[l] = "activate" /\ \A p \in Actors : p # l => pc'[p] = pc[p]
    BY <1>8, LoggerGoes DEF PushBack, ControlInv, LoggerSteps
  <2>6. item[l] \in Message  BY <2>1 DEF ControlInv, DataTypes, Hands
  <2>2. DataTypes'  BY <1>8, <2>6, AppendSeq DEF PushBack, ControlInv, DataTypes
  <2>3. Hands'  BY <1>8, <2>1, Apart DEF PushBack, ControlInv, Hands, Actors, DataTypes
  <2>4. Presence'  BY <1>8, <2>1, Apart DEF PushBack, ControlInv, Presence, Actors, DataTypes
  <2>5. QED  BY <2>1, <2>2, <2>3, <2>4 DEF ControlInv
<1>9. CASE NothingPopped(l)
  <2>1. /\ pc[l] = "popped" /\ PcTypes' /\ pc'[l] = "loop" /\ \A p \in Actors : p # l => pc'[p] = pc[p]
    BY <1>9, LoggerGoes DEF NothingPopped, ControlInv, LoggerSteps
  <2>2. DataTypes'  BY <1>9 DEF NothingPopped, ControlInv, DataTypes
  <2>3. Hands'  BY <1>9, <2>1, Apart DEF NothingPopped, ControlInv, Hands, Actors, DataTypes
  <2>4. Presence'  BY <1>9, <2>1, Apart DEF NothingPopped, ControlInv, Presence, Actors, DataTypes
  <2>5. QED  BY <2>1, <2>2, <2>3, <2>4 DEF ControlInv
<1>10. CASE Emit(l)
  <2>1. /\ pc[l] = "popped" /\ PcTypes' /\ pc'[l] = "advance" /\ \A p \in Actors : p # l => pc'[p] = pc[p]
    BY <1>10, LoggerGoes DEF Emit, PutOut, ControlInv, LoggerSteps
  <2>6. item[l].no \in 1 .. MaxMessages  BY <1>10 DEF Emit, PutOut, ControlInv, DataTypes, Message
  <2>7. Append(out, item[l].no) \in Seq(1 .. MaxMessages)  BY <2>6, AppendSeq DEF ControlInv, DataTypes
  <2>2. DataTypes'  BY <1>10, <2>6, <2>7 DEF Emit, PutOut, ControlInv, DataTypes
  <2>3. Hands'  BY <1>10, <2>1, Apart DEF Emit, PutOut, ControlInv, Hands, Actors, DataTypes
  <2>4. Presence'  BY <1>10, <2>1, Apart DEF Emit, PutOut, ControlInv, Presence, Actors, DataTypes
  <2>5. QED  BY <2>1, <2>2, <2>3, <2>4 DEF ControlInv
<1>11. CASE Advance(l)
  <2>1. /\ pc[l] = "advance" /\ PcTypes' /\ pc'[l] = "loop" /\ \A p \in Actors : p # l => pc'[p] = pc[p]
    BY <1>11, LoggerGoes DEF Advance, ControlInv, LoggerSteps
  <2>2. DataTypes'  BY <1>11 DEF Advance, ControlInv, DataTypes
  <2>3. Hands'  BY <1>11, <2>1, Apart DEF Advance, ControlInv, Hands, Actors, DataTypes
  <2>4. Presence'  BY <1>11, <2>1, Apart DEF Advance, ControlInv, Presence, Actors, DataTypes
  <2>5. QED  BY <2>1, <2>2, <2>3, <2>4 DEF ControlInv
<1>12. CASE Done(l)
  <2>1. /\ pc[l] = "done" /\ PcTypes' /\ pc'[l] = "drowsy" /\ \A p \in Actors : p # l => pc'[p] = pc[p]
    BY <1>12, LoggerGoes DEF Done, ControlInv, LoggerSteps
  <2>2. DataTypes'  BY <1>12 DEF Done, ControlInv, DataTypes
  <2>3. Hands'  BY <1>12, <2>1, Apart DEF Done, ControlInv, Hands, Actors, DataTypes
  <2>4. Presence'  BY <1>12, <2>1, Apart DEF Done, ControlInv, Presence, Actors, DataTypes
  <2>5. QED  BY <2>1, <2>2, <2>3, <2>4 DEF ControlInv
<1>13. CASE Activate(l, "pop") /\ haveThreads
  <2>1. /\ pc[l] = "activate" /\ PcTypes' /\ pc'[l] = "pop" /\ \A p \in Actors : p # l => pc'[p] = pc[p]
    BY <1>13, LoggerGoes DEF Activate, ControlInv, LoggerSteps
  <2>2. DataTypes'  BY <1>13 DEF Activate, ControlInv, DataTypes
  <2>3. Hands'  BY <1>13, <2>1, Apart DEF Activate, ControlInv, Hands, Actors
  <2>4. Presence'  BY <1>13, <2>1, Apart DEF Activate, ControlInv, Presence, Actors
  <2>5. QED  BY <2>1, <2>2, <2>3, <2>4 DEF ControlInv
<1>14. CASE Activate(l, "pop") /\ ~haveThreads
  <2>0. "started" \in LoggerSteps \ {"absent"} /\ l \in Actors  BY DEF LoggerSteps, Actors
  <2>1. /\ pc[l] = "activate" /\ PcTypes' /\ pc'[l] = "started"
        /\ alive' \subseteq Loggers /\ haveThreads' \in BOOLEAN
        /\ threadCount = 0 => alive' = alive
        /\ \A k \in Loggers : pc'[k] = "absent" <=> k \notin alive'
        /\ \A k \in Loggers : pc'[k] # pc[k] => k = l \/ (pc[k] = "absent" /\ pc'[k] = "born")
        /\ \A q \in Actors \ Loggers : q # l => pc'[q] = pc[q]
    BY <1>14, <2>0, Starts, Apart DEF Activate, Steps
  <2>2. DataTypes'  BY <1>14, <2>1 DEF Activate, ControlInv, DataTypes
  <2>3. Hands'
    <3>1. \A d \in Clients : pc'[d] = pc[d]  BY <2>1, Apart DEF Actors
    <3>2. item' = item /\ msgId' = msgId /\ issued' = issued  BY <1>14 DEF Activate
    <3>3. ASSUME NEW k \in Loggers
          PROVE  /\ pc'[k] \notin {"popped", "push"} => item[k] = Nobody
                 /\ pc'[k] = "push" => item[k] # Nobody
      BY <2>1, <3>3 DEF ControlInv, Hands
    <3>4. QED  BY <3>1, <3>2, <3>3 DEF ControlInv, Hands
  <2>4. Presence'  BY <1>14, <2>1 DEF Activate, ControlInv, Presence
  <2>5. QED  BY <2>1, <2>2, <2>3, <2>4 DEF ControlInv
<1>15. CASE Activated(l, "pop")
  <2>1. /\ pc[l] = "started" /\ PcTypes' /\ pc'[l] = "pop" /\ \A p \in Actors : p # l => pc'[p] = pc[p]
    BY <1>15, LoggerGoes DEF Activated, ControlInv, LoggerSteps
  <2>2. DataTypes'  BY <1>15 DEF Activated, ControlInv, DataTypes
  <2>3. Hands'  BY <1>15, <2>1, Apart DEF Activated, ControlInv, Hands, Actors
  <2>4. Presence'  BY <1>15, <2>1, Apart DEF Activated, ControlInv, Presence, Actors
  <2>5. QED  BY <2>1, <2>2, <2>3, <2>4 DEF ControlInv
<1>16. QED
  BY <1>1, <1>2, <1>3, <1>4, <1>5, <1>6, <1>7, <1>8, <1>9, <1>10, <1>11, <1>12, <1>13, <1>14, <1>15 DEF LoggerStep, ControlInv, DataTypes

LEMMA ControllerControl ==
  ASSUME ControlInv, Enable \/ End \/ ControllerStep
  PROVE  ControlInv'
<1> USE DEF threads, flags, store, history, At
<1>1. CASE Enable
  <2>1. /\ pc[Controller] = "idle" /\ PcTypes' /\ pc'[Controller] = "enable"
        /\ \A p \in Actors : p # Controller => pc'[p] = pc[p]
    BY <1>1, ControllerGoes DEF Enable, ControlInv, ControllerSteps
  <2>6. threadCount' \in 1 .. MaxThreads /\ 1 .. MaxThreads \subseteq 0 .. MaxThreads  BY <1>1 DEF Enable
  <2>2. DataTypes'  BY <1>1, <2>6 DEF Enable, ControlInv, DataTypes
  <2>3. Hands'  BY <1>1, <2>1, Apart DEF Enable, ControlInv, Hands, Actors
  <2>4. Presence'  BY <1>1, <2>1, <2>6, Apart DEF Enable, ControlInv, Presence, Actors, DataTypes
  <2>5. QED  BY <2>1, <2>2, <2>3, <2>4 DEF ControlInv
<1>8. CASE End
  <2>1. /\ pc[Controller] = "idle" /\ PcTypes' /\ pc'[Controller] = "end"
        /\ \A p \in Actors : p # Controller => pc'[p] = pc[p]
    BY <1>8, ControllerGoes DEF End, ControlInv, ControllerSteps
  <2>2. DataTypes'  BY <1>8 DEF End, ControlInv, DataTypes
  <2>3. Hands'  BY <1>8, <2>1, Apart DEF End, ControlInv, Hands, Actors
  <2>4. Presence'  BY <1>8, <2>1, Apart DEF End, ControlInv, Presence, Actors, DataTypes
  <2>5. QED  BY <2>1, <2>2, <2>3, <2>4 DEF ControlInv
<1>2. CASE Finish
  <2>1. /\ pc[Controller] = "end" /\ PcTypes' /\ pc'[Controller] = "join"
        /\ \A p \in Actors : p # Controller => pc'[p] = pc[p]
    BY <1>2, ControllerGoes DEF Finish, ControlInv, ControllerSteps
  <2>2. DataTypes'  BY <1>2 DEF Finish, ControlInv, DataTypes
  <2>3. Hands'  BY <1>2, <2>1, Apart DEF Finish, ControlInv, Hands, Actors
  <2>4. Presence'  BY <1>2, <2>1, Apart DEF Finish, ControlInv, Presence, Actors, DataTypes
  <2>5. QED  BY <2>1, <2>2, <2>3, <2>4 DEF ControlInv
<1>3. CASE Relock
  <2>1. /\ pc[Controller] = "relock" /\ PcTypes' /\ pc'[Controller] = "join"
        /\ \A p \in Actors : p # Controller => pc'[p] = pc[p]
    BY <1>3, ControllerGoes DEF Relock, ControlInv, ControllerSteps
  <2>2. DataTypes'  BY <1>3 DEF Relock, ControlInv, DataTypes
  <2>3. Hands'  BY <1>3, <2>1, Apart DEF Relock, ControlInv, Hands, Actors
  <2>4. Presence'  BY <1>3, <2>1, Apart DEF Relock, ControlInv, Presence, Actors, DataTypes
  <2>5. QED  BY <2>1, <2>2, <2>3, <2>4 DEF ControlInv
<1>4. CASE Drain
  <2>1. /\ pc[Controller] = "drain" /\ PcTypes' /\ pc'[Controller] \in {"idle", "drain"}
        /\ \A p \in Actors : p # Controller => pc'[p] = pc[p]
    <3>1. CASE queue = <<>>
      BY <1>4, <3>1, ControllerGoes DEF Drain, PutOut, ControlInv, ControllerSteps
    <3>2. CASE queue # <<>>  BY <1>4, <3>2 DEF Drain, PutOut, ControlInv, PcTypes
    <3>3. QED  BY <3>1, <3>2
  <2>2. DataTypes'
    <3>1. CASE queue = <<>>  BY <1>4, <3>1 DEF Drain, PutOut, ControlInv, DataTypes
    <3>2. CASE queue # <<>>
      <4>1. Tail(queue) \in Seq(Message) /\ Head(queue) \in Message
        BY <3>2, TailSeq DEF ControlInv, DataTypes
      <4>2. Head(queue).no \in 1 .. MaxMessages  BY <4>1 DEF Message
      <4>3. Append(out, Head(queue).no) \in Seq(1 .. MaxMessages)
        BY <4>2, AppendSeq DEF ControlInv, DataTypes
      <4>4. QED  BY <1>4, <3>2, <4>1, <4>2, <4>3 DEF Drain, PutOut, ControlInv, DataTypes
    <3>3. QED  BY <3>1, <3>2
  <2>3. Hands'  BY <1>4, <2>1, Apart DEF Drain, PutOut, ControlInv, Hands, Actors
  <2>4. Presence'  BY <1>4, <2>1, Apart DEF Drain, PutOut, ControlInv, Presence, Actors, DataTypes
  <2>5. QED  BY <2>1, <2>2, <2>3, <2>4 DEF ControlInv
<1>5. CASE Enabled /\ haveThreads
  <2>1. /\ pc[Controller] = "enable" /\ PcTypes' /\ pc'[Controller] = "idle"
        /\ \A p \in Actors : p # Controller => pc'[p] = pc[p]
    BY <1>5, ControllerGoes DEF Enabled, ControlInv, ControllerSteps
  <2>2. DataTypes'  BY <1>5 DEF Enabled, ControlInv, DataTypes
  <2>3. Hands'  BY <1>5, <2>1, Apart DEF Enabled, ControlInv, Hands, Actors
  <2>4. Presence'  BY <1>5, <2>1, Apart DEF Enabled, ControlInv, Presence, Actors
  <2>5. QED  BY <2>1, <2>2, <2>3, <2>4 DEF ControlInv
<1>6. CASE Enabled /\ ~haveThreads
  <2>0. "idle" \in ControllerSteps /\ Controller \in Actors  BY DEF ControllerSteps, Actors
  <2>1. /\ pc[Controller] = "enable" /\ PcTypes' /\ pc'[Controller] = "idle"
        /\ alive' \subseteq Loggers /\ haveThreads' \in BOOLEAN
        /\ threadCount = 0 => alive' = alive
        /\ \A k \in Loggers : pc'[k] = "absent" <=> k \notin alive'
        /\ \A k \in Loggers : pc'[k] # pc[k] => pc[k] = "absent" /\ pc'[k] = "born"
        /\ \A q \in Actors \ Loggers : q # Controller => pc'[q] = pc[q]
    BY <1>6, <2>0, Starts, Apart DEF Enabled, Steps
  <2>2. DataTypes'  BY <1>6, <2>1 DEF Enabled, ControlInv, DataTypes
  <2>3. Hands'
    <3>1. \A d \in Clients : pc'[d] = pc[d]  BY <2>1, Apart DEF Actors
    <3>2. QED  BY <1>6, <2>1, <3>1 DEF Enabled, ControlInv, Hands
  <2>4. Presence'  BY <1>6, <2>1 DEF Enabled, ControlInv, Presence
  <2>5. QED  BY <2>1, <2>2, <2>3, <2>4 DEF ControlInv
<1>7. CASE Join
  <2> DEFINE next == IF alive' = {} THEN "drain" ELSE "relock"
  <2>1. /\ pc[Controller] = "join" /\ alive' = {l \in alive : ~isExited[l]}
        /\ \A l \in alive : isExited[l] => pc[l] = "exited"
        /\ pc' = [p \in Actors |-> IF p \in alive \ alive' THEN "absent"
                                   ELSE IF p = Controller THEN next ELSE pc[p]]
    BY <1>7 DEF Join
  <2>2. alive \subseteq Loggers /\ alive' \subseteq alive  BY <2>1 DEF ControlInv, DataTypes
  <2>3. next \in {"drain", "relock"}  OBVIOUS
  <2> HIDE DEF next
  <2>4. "absent" \in LoggerSteps /\ next \in ControllerSteps  BY <2>3 DEF LoggerSteps, ControllerSteps
  <2>5. pc' \in [Actors -> Steps]  BY <2>1, <2>4 DEF ControlInv, PcTypes, Steps
  <2>6. \A p \in Actors : pc'[p] = IF p \in alive \ alive' THEN "absent"
                                   ELSE IF p = Controller THEN next ELSE pc[p]
    BY <2>1
  <2>7. PcTypes'
    <3>1. \A c \in Clients : pc'[c] \in ClientSteps
      BY <2>2, <2>6, Apart DEF ControlInv, PcTypes, Actors
    <3>2. \A l \in Loggers : pc'[l] \in LoggerSteps
      BY <2>2, <2>4, <2>6, Apart DEF ControlInv, PcTypes, Actors
    <3>3. pc'[Controller] \in ControllerSteps
      BY <2>2, <2>4, <2>6, Apart DEF Actors
    <3>4. QED  BY <2>5, <3>1, <3>2, <3>3 DEF PcTypes
  <2>8. DataTypes'  BY <1>7, <2>2, Apart DEF Join, ControlInv, DataTypes
  <2>9. \A c \in Clients : pc'[c] = pc[c]  BY <2>2, <2>6, Apart DEF Actors
  <2>10. \A l \in Loggers : pc'[l] = pc[l] \/ (pc[l] = "exited" /\ pc'[l] = "absent")
    BY <2>1, <2>2, <2>6, Apart DEF Actors
  <2>11. Hands'
    <3>1. item' = item /\ msgId' = msgId /\ issued' = issued  BY <1>7 DEF Join
    <3>2. QED  BY <2>9, <2>10, <3>1 DEF ControlInv, Hands
  <2>12. Presence'
    <3>1. \A l \in Loggers : pc'[l] = "absent" <=> l \notin alive'
      BY <2>2, <2>6, Apart DEF ControlInv, Presence, Actors
    <3>2. threadCount' = 0 => alive' = {}
      BY <1>7, <2>2 DEF Join, ControlInv, Presence
    <3>3. QED  BY <1>7, <3>1, <3>2 DEF Join, ControlInv, Presence
  <2>13. QED  BY <2>7, <2>8, <2>11, <2>12 DEF ControlInv
<1>9. QED
  BY <1>1, <1>2, <1>3, <1>4, <1>5, <1>6, <1>7, <1>8 DEF ControllerStep, ControlInv, DataTypes

-----------------------------------------------------------------------------
(* Where the messages are *)

LEMMA NumbersAdd ==
  ASSUME NEW M, NEW m
  PROVE  Numbers(M \cup {m}) = Numbers(M) \cup {m.no}
  BY DEF Numbers

LEMMA NumbersRemove ==
  ASSUME NEW M, NEW m \in M, \A k, n \in M : k.no = n.no => k = n
  PROVE  m.no \in Numbers(M) /\ Numbers(M \ {m}) = Numbers(M) \ {m.no}
  BY DEF Numbers

LEMMA MessageTypes ==
  ASSUME ControlInv
  PROVE  /\ Pending \subseteq Message /\ ToSet(queue) \subseteq Message
         /\ \A l \in Busy : item[l] \in Message
         /\ Written \subseteq 1 .. MaxMessages
<1>1. ToSet(queue) \subseteq Message  BY DEF ControlInv, DataTypes, ToSet
<1>2. \A l \in Busy : item[l] \in Message  BY DEF ControlInv, DataTypes, Busy
<1>3. Written \subseteq 1 .. MaxMessages
  <2> DEFINE Known == 1 .. MaxMessages
  <2>1. out \in Seq(Known)  BY DEF ControlInv, DataTypes
  <2> HIDE DEF Known
  <2>2. ToSet(out) \subseteq Known  BY <2>1, ElementsOf
  <2>3. QED  BY <2>2 DEF Written, Known
<1>4. QED  BY <1>1, <1>2, <1>3 DEF Pending, InHand

LEMMA WrittenAdd ==
  ASSUME ControlInv, NEW n \in 1 .. MaxMessages, out' = Append(out, n)
  PROVE  Written' = Written \cup {n}
<1> DEFINE Known == 1 .. MaxMessages
<1>1. out \in Seq(Known) /\ n \in Known  BY DEF ControlInv, DataTypes
<1> HIDE DEF Known
<1>2. ToSet(Append(out, n)) = ToSet(out) \cup {n}  BY <1>1, AppendSet
<1>3. QED  BY <1>2 DEF Written

\* A new message has a number of its own.
LEMMA NewNumber ==
  ASSUME ControlInv, MessageInv
  PROVE  /\ 1 .. (issued + 1) = (1 .. issued) \cup {issued + 1}
         /\ issued + 1 \notin Numbers(Pending) \cup Written \cup dropped
<1>1. issued \in Nat  BY DEF ControlInv, DataTypes
<1>2. 1 .. (issued + 1) = (1 .. issued) \cup {issued + 1} /\ issued + 1 \notin 1 .. issued  BY <1>1
<1>3. QED  BY <1>2 DEF MessageInv, Partition

\* A new message in the queue.
LEMMA Arrives ==
  ASSUME ControlInv, MessageInv, NEW m \in Message, m.no = issued + 1,
         queue' = Append(queue, m), issued' = issued + 1, UNCHANGED <<item, out, dropped>>
  PROVE  MessageInv' /\ Pending' = Pending \cup {m} /\ Written' = Written
<1>1. /\ ToSet(queue') = ToSet(queue) \cup {m} /\ InHand' = InHand /\ Written' = Written /\ Busy' = Busy
  BY AppendSet DEF ControlInv, DataTypes, InHand, Busy, Written
<1>2. Pending' = Pending \cup {m}  BY <1>1 DEF Pending
<1>3. m.no \notin Numbers(Pending)  BY NewNumber
<1>4. m \notin Pending  BY <1>3 DEF Numbers
<1>5. Distinct(queue')
  BY <1>4, AppendDistinct DEF Pending, ControlInv, DataTypes, MessageInv, Once
<1>6. \A k, n \in Pending' : k.no = n.no => k = n
  BY <1>2, <1>3 DEF MessageInv, Once, Numbers
<1>7. ToSet(queue') \cap InHand' = {}  BY <1>1, <1>4 DEF MessageInv, Once, Pending
<1>8. Once'  BY <1>1, <1>5, <1>6, <1>7 DEF MessageInv, Once
<1>9. Numbers(Pending') = Numbers(Pending) \cup {m.no}  BY <1>2, NumbersAdd
<1>10. Partition'  BY <1>1, <1>9, NewNumber DEF MessageInv, Partition
<1>11. QED  BY <1>1, <1>2, <1>8, <1>10 DEF MessageInv

\* A new message that is written or given up at once.
LEMMA PassesBy ==
  ASSUME ControlInv, MessageInv, issued < MaxMessages, issued' = issued + 1, UNCHANGED <<queue, item>>,
         \/ out' = Append(out, issued + 1) /\ dropped' = dropped
         \/ out' = out /\ dropped' = dropped \cup {issued + 1}
  PROVE  /\ MessageInv' /\ Pending' = Pending
         /\ (Written' = Written /\ out' = out) \/ (Written' = Written \cup {issued + 1} /\ out' = Append(out, issued + 1))
<1>1. issued + 1 \in 1 .. MaxMessages  BY Apart DEF ControlInv, DataTypes
<1>2. Pending' = Pending /\ InHand' = InHand /\ Busy' = Busy  BY DEF Pending, InHand, Busy
<1>3. CASE out' = Append(out, issued + 1) /\ dropped' = dropped
  <2>1. Written' = Written \cup {issued + 1}
    BY <1>1, <1>3, WrittenAdd
  <2>2. Distinct(out')
    BY <1>1, <1>3, NewNumber, AppendDistinct DEF ControlInv, DataTypes, Written, MessageInv, Once
  <2>3. Once'  BY <1>2, <2>2 DEF MessageInv, Once
  <2>4. Partition'  BY <1>2, <1>3, <2>1, NewNumber DEF MessageInv, Partition
  <2>5. QED  BY <1>2, <1>3, <2>1, <2>3, <2>4 DEF MessageInv
<1>4. CASE out' = out /\ dropped' = dropped \cup {issued + 1}
  <2>1. Written' = Written  BY <1>4 DEF Written
  <2>2. Once'  BY <1>2, <1>4 DEF MessageInv, Once
  <2>3. Partition'  BY <1>2, <1>4, <2>1, NewNumber DEF MessageInv, Partition
  <2>4. QED  BY <1>2, <1>4, <2>1, <2>2, <2>3 DEF MessageInv
<1>5. QED  BY <1>3, <1>4

\* Who pops a message has it in hand instead of the queue.
LEMMA Popped ==
  ASSUME ControlInv, MessageInv, NEW l \in Loggers, item[l] = Nobody, queue # <<>>,
         item' = [item EXCEPT ![l] = Head(queue)], queue' = Tail(queue),
         UNCHANGED <<issued, out, dropped>>
  PROVE  MessageInv' /\ Pending' = Pending /\ Written' = Written
<1>1. /\ Head(queue) \in ToSet(queue) /\ ToSet(queue') = ToSet(queue) \ {Head(queue)}
      /\ Distinct(queue') /\ Head(queue) \in Message
  BY TailSet, TailSeq DEF ControlInv, DataTypes, MessageInv, Once
<1>2. /\ item'[l] = Head(queue) /\ \A k \in Loggers : k # l => item'[k] = item[k]
      /\ Head(queue) # Nobody
  BY <1>1, Apart DEF ControlInv, DataTypes
<1>3. Busy' = Busy \cup {l} /\ l \notin Busy  BY <1>2 DEF Busy
<1>4. InHand' = InHand \cup {Head(queue)}  BY <1>2, <1>3 DEF InHand, Busy
<1>5. Pending' = Pending  BY <1>1, <1>4 DEF Pending
<1>6. Written' = Written  BY DEF Written
<1>7. \A j, k \in Busy' : item'[j] = item'[k] => j = k
  BY <1>1, <1>2, <1>3 DEF MessageInv, Once, InHand, Busy
<1>8. ToSet(queue') \cap InHand' = {}  BY <1>1, <1>4 DEF MessageInv, Once
<1>9. Once'  BY <1>1, <1>5, <1>7, <1>8 DEF MessageInv, Once
<1>10. Partition'  BY <1>5, <1>6 DEF MessageInv, Partition
<1>11. QED  BY <1>5, <1>6, <1>9, <1>10 DEF MessageInv

\* Who is rid of its message has nothing in hand.
LEMMA HandEmptied ==
  ASSUME ControlInv, MessageInv, NEW l \in Loggers, item[l] # Nobody,
         item' = [item EXCEPT ![l] = Nobody]
  PROVE  /\ Busy' = Busy \ {l} /\ InHand' = InHand \ {item[l]} /\ item[l] \in InHand
         /\ item[l] \in Message /\ item[l] \in Pending
         /\ \A k \in Busy' : item'[k] = item[k]
<1>1. item'[l] = Nobody /\ \A k \in Loggers : k # l => item'[k] = item[k]  BY DEF ControlInv, DataTypes
<1>2. Busy' = Busy \ {l} /\ l \in Busy  BY <1>1 DEF Busy
<1>3. \A k \in Busy' : item'[k] = item[k]  BY <1>1, <1>2 DEF Busy
<1>4. InHand' = InHand \ {item[l]}
  BY <1>2, <1>3 DEF InHand, MessageInv, Once
<1>5. QED  BY <1>2, <1>3, <1>4, MessageTypes DEF InHand, Pending

\* What is not due is in the queue again.
LEMMA PushedBack ==
  ASSUME ControlInv, MessageInv, NEW l \in Loggers, item[l] # Nobody,
         item' = [item EXCEPT ![l] = Nobody], queue' = Append(queue, item[l]),
         UNCHANGED <<issued, out, dropped>>
  PROVE  MessageInv' /\ Pending' = Pending /\ Written' = Written
<1>1. /\ Busy' = Busy \ {l} /\ InHand' = InHand \ {item[l]} /\ item[l] \in InHand
      /\ item[l] \in Message /\ \A k \in Busy' : item'[k] = item[k]
  BY HandEmptied
<1>2. ToSet(queue') = ToSet(queue) \cup {item[l]}  BY <1>1, AppendSet DEF ControlInv, DataTypes
<1>3. Pending' = Pending /\ Written' = Written  BY <1>1, <1>2 DEF Pending, Written
<1>4. Distinct(queue')
  BY <1>1, AppendDistinct DEF ControlInv, DataTypes, MessageInv, Once
<1>5. ToSet(queue') \cap InHand' = {}  BY <1>1, <1>2 DEF MessageInv, Once
<1>6. Once'  BY <1>1, <1>3, <1>4, <1>5 DEF MessageInv, Once
<1>7. Partition'  BY <1>3 DEF MessageInv, Partition
<1>8. QED  BY <1>3, <1>6, <1>7 DEF MessageInv

\* A message that waited is written or given up.
LEMMA Settled ==
  ASSUME ControlInv, MessageInv, NEW m \in Pending, Pending' = Pending \ {m}, issued' = issued,
         \/ out' = Append(out, m.no) /\ dropped' = dropped
         \/ out' = out /\ dropped' = dropped \cup {m.no}
  PROVE  /\ Partition' /\ Distinct(out)' /\ \A k, n \in Pending' : k.no = n.no => k = n
         /\ (Written' = Written /\ out' = out) \/ (Written' = Written \cup {m.no} /\ out' = Append(out, m.no))
<1>1. m.no \in Numbers(Pending) /\ Numbers(Pending') = Numbers(Pending) \ {m.no}
  BY NumbersRemove DEF MessageInv, Once
<1>2. \A k, n \in Pending' : k.no = n.no => k = n  BY DEF MessageInv, Once
<1>3. m.no \in 1 .. MaxMessages
  <2>1. m \in Message  BY MessageTypes
  <2>2. QED  BY <2>1 DEF Message
<1>4. CASE out' = Append(out, m.no) /\ dropped' = dropped
  <2>1. Written' = Written \cup {m.no}
    BY <1>3, <1>4, WrittenAdd
  <2>2. Distinct(out')
    BY <1>1, <1>3, <1>4, AppendDistinct DEF ControlInv, DataTypes, Written, MessageInv, Once, Partition
  <2>3. Partition'  BY <1>1, <1>4, <2>1 DEF MessageInv, Partition
  <2>4. QED  BY <1>2, <1>4, <2>1, <2>2, <2>3
<1>5. CASE out' = out /\ dropped' = dropped \cup {m.no}
  <2>1. Written' = Written  BY <1>5 DEF Written
  <2>2. Partition'  BY <1>1, <1>5, <2>1 DEF MessageInv, Partition
  <2>3. QED  BY <1>2, <1>5, <2>1, <2>2 DEF MessageInv, Once
<1>6. QED  BY <1>4, <1>5

LEMMA Emitted ==
  ASSUME ControlInv, MessageInv, NEW l \in Loggers, item[l] # Nobody,
         item' = [item EXCEPT ![l] = Nobody], queue' = queue, issued' = issued,
         \/ out' = Append(out, item[l].no) /\ dropped' = dropped
         \/ out' = out /\ dropped' = dropped \cup {item[l].no}
  PROVE  /\ MessageInv' /\ Pending' = Pending \ {item[l]} /\ item[l] \in Pending
         /\ (Written' = Written /\ out' = out) \/ (Written' = Written \cup {item[l].no} /\ out' = Append(out, item[l].no))
<1>1. /\ Busy' = Busy \ {l} /\ InHand' = InHand \ {item[l]} /\ item[l] \in InHand
      /\ item[l] \in Message /\ item[l] \in Pending /\ \A k \in Busy' : item'[k] = item[k]
  BY HandEmptied
<1>2. item[l] \notin ToSet(queue)  BY <1>1 DEF MessageInv, Once
<1>3. Pending' = Pending \ {item[l]}  BY <1>1, <1>2 DEF Pending
<1>4. /\ Partition' /\ Distinct(out)' /\ \A k, n \in Pending' : k.no = n.no => k = n
      /\ (Written' = Written /\ out' = out) \/ (Written' = Written \cup {item[l].no} /\ out' = Append(out, item[l].no))
  BY <1>1, <1>3, Settled
<1>5. Once'  BY <1>1, <1>4 DEF MessageInv, Once
<1>6. QED  BY <1>1, <1>3, <1>4, <1>5 DEF MessageInv

LEMMA Drained ==
  ASSUME ControlInv, MessageInv, queue # <<>>, queue' = Tail(queue), UNCHANGED <<item, issued>>,
         \/ out' = Append(out, Head(queue).no) /\ dropped' = dropped
         \/ out' = out /\ dropped' = dropped \cup {Head(queue).no}
  PROVE  /\ MessageInv' /\ Pending' = Pending \ {Head(queue)} /\ Head(queue) \in Pending
         /\ \/ Written' = Written /\ out' = out
            \/ Written' = Written \cup {Head(queue).no} /\ out' = Append(out, Head(queue).no)
<1>1. /\ Head(queue) \in ToSet(queue) /\ ToSet(queue') = ToSet(queue) \ {Head(queue)}
      /\ Distinct(queue') /\ Head(queue) \in Message
  BY TailSet, TailSeq DEF ControlInv, DataTypes, MessageInv, Once
<1>2. Busy' = Busy /\ InHand' = InHand  BY DEF Busy, InHand
<1>3. Head(queue) \notin InHand  BY <1>1 DEF MessageInv, Once
<1>4. Pending' = Pending \ {Head(queue)} /\ Head(queue) \in Pending  BY <1>1, <1>2, <1>3 DEF Pending
<1>5. /\ Partition' /\ Distinct(out)' /\ \A k, n \in Pending' : k.no = n.no => k = n
      /\ \/ Written' = Written /\ out' = out
         \/ Written' = Written \cup {Head(queue).no} /\ out' = Append(out, Head(queue).no)
  BY <1>4, Settled
<1>6. Once'  BY <1>1, <1>2, <1>5 DEF MessageInv, Once
<1>7. QED  BY <1>4, <1>5, <1>6 DEF MessageInv

LEMMA Unmoved ==
  ASSUME MessageInv, UNCHANGED <<queue, item, issued, out, dropped>>
  PROVE  MessageInv' /\ Pending' = Pending /\ Written' = Written
  BY DEF MessageInv, Partition, Once, Pending, Written, InHand, Busy

LEMMA MessageNext == ControlInv /\ MessageInv /\ [Next]_vars => MessageInv'
<1> SUFFICES ASSUME ControlInv, MessageInv, [Next]_vars PROVE MessageInv'  OBVIOUS
<1> USE DEF threads, flags, store, history, At
<1>1. ASSUME NEW c \in Clients, LogCall(c) \/ ClientStep(c) PROVE MessageInv'
  <2>1. CASE LogCall(c)  BY <2>1, Unmoved DEF LogCall
  <2>2. CASE DirectOut(c)
    <3>1. issued < MaxMessages  BY <2>2 DEF DirectOut, PutOut, ControlInv, Hands
    <3>2. QED  BY <2>2, <3>1, PassesBy DEF DirectOut, PutOut
  <2>3. CASE QueuePush(c)
    <3>1. issued < MaxMessages  BY <2>3 DEF QueuePush, ControlInv, Hands
    <3>2. issued + 1 \in 1 .. MaxMessages /\ msgId \in 1 .. MaxMessages
      BY <3>1, Apart DEF ControlInv, Hands, DataTypes
    <3>3. [no |-> issued + 1, id |-> msgId] \in Message  BY <3>2 DEF Message
    <3>4. QED  BY <2>3, <3>3, Arrives DEF QueuePush
  <2>4. CASE QueuePushFails(c)
    <3>1. issued < MaxMessages  BY <2>4 DEF QueuePushFails, ControlInv, Hands
    <3>2. QED  BY <2>4, <3>1, PassesBy DEF QueuePushFails
  <2>5. CASE Activate(c, "idle")  BY <2>5, Unmoved DEF Activate
  <2>6. CASE Activated(c, "idle")  BY <2>6, Unmoved DEF Activated
  <2>7. QED  BY <1>1, <2>1, <2>2, <2>3, <2>4, <2>5, <2>6 DEF ClientStep
<1>2. ASSUME NEW l \in Loggers, LoggerStep(l) PROVE MessageInv'
  <2>1. CASE GoToSleep(l) \/ CheckExit(l) \/ WakeUp(l) \/ EarlyQuit(l) \/ Loop(l) \/ Done(l)
    BY <2>1, Unmoved DEF GoToSleep, CheckExit, WakeUp, EarlyQuit, Loop, Done
  <2>2. CASE Pop(l)
    <3>1. item[l] = Nobody  BY <2>2 DEF Pop, ControlInv, Hands
    <3>2. CASE queue = <<>>
      <4>1. item' = item /\ queue' = queue  BY <2>2, <3>1, <3>2 DEF Pop, ControlInv, DataTypes
      <4>2. QED  BY <2>2, <4>1, Unmoved DEF Pop
    <3>3. CASE queue # <<>>  BY <2>2, <3>1, <3>3, Popped DEF Pop
    <3>4. QED  BY <3>2, <3>3
  <2>3. CASE NotDue(l) \/ NothingPopped(l) \/ Advance(l)
    BY <2>3, Unmoved DEF NotDue, NothingPopped, Advance
  <2>4. CASE PushBack(l)
    <3>1. item[l] # Nobody  BY <2>4 DEF PushBack, ControlInv, Hands
    <3>2. QED  BY <2>4, <3>1, PushedBack DEF PushBack
  <2>5. CASE Emit(l)  BY <2>5, Emitted DEF Emit, PutOut
  <2>6. CASE Activate(l, "pop")  BY <2>6, Unmoved DEF Activate
  <2>7. CASE Activated(l, "pop")  BY <2>7, Unmoved DEF Activated
  <2>8. QED  BY <1>2, <2>1, <2>2, <2>3, <2>4, <2>5, <2>6, <2>7 DEF LoggerStep
<1>3. CASE Enable \/ End \/ Finish \/ Enabled \/ Join \/ Relock
  BY <1>3, Unmoved DEF Enable, End, Finish, Enabled, Join, Relock
<1>4. CASE Drain
  <2>1. CASE queue = <<>>  BY <1>4, <2>1, Unmoved DEF Drain, PutOut
  <2>2. CASE queue # <<>>  BY <1>4, <2>2, Drained DEF Drain, PutOut
  <2>3. QED  BY <2>1, <2>2
<1>5. CASE UNCHANGED vars  BY <1>5, Unmoved DEF vars
<1>6. QED  BY <1>1, <1>2, <1>3, <1>4, <1>5 DEF Next, ControllerStep

LEMMA ControlNext == ControlInv /\ [Next]_vars => ControlInv'
<1> SUFFICES ASSUME ControlInv, [Next]_vars PROVE ControlInv'  OBVIOUS
<1>1. CASE UNCHANGED vars
  BY <1>1 DEF vars, threads, flags, store, history, ControlInv, PcTypes, DataTypes, Hands, Presence
<1>2. QED  BY <1>1, ClientControl, LoggerControl, ControllerControl DEF Next

LEMMA LogInit == Init => ControlInv /\ MessageInv /\ (QuietSwitch => Quieted) /\ OrderInv
<1> SUFFICES ASSUME Init PROVE ControlInv /\ MessageInv /\ (QuietSwitch => Quieted) /\ OrderInv
  OBVIOUS
<1>1. \A p \in Actors : pc[p] = IF p \in Loggers THEN "absent" ELSE "idle"  BY DEF Init
<1>2. \A l \in Loggers : pc[l] = "absent" /\ item[l] = Nobody /\ ~isExited[l] /\ ~doExit[l]
  BY <1>1 DEF Init, Actors
<1>3. pc[Controller] = "idle" /\ \A c \in Clients : pc[c] = "idle"
  BY <1>1, Apart DEF Actors
<1>4. PcTypes
  <2>1. "idle" \in ClientSteps /\ "idle" \in ControllerSteps /\ "absent" \in LoggerSteps
    BY DEF ClientSteps, ControllerSteps, LoggerSteps
  <2>2. QED  BY <1>2, <1>3, <2>1 DEF Init, PcTypes, Steps
<1>5. DataTypes
  <2>1. threadCount \in 0 .. MaxThreads /\ issued \in 0 .. MaxMessages  BY Apart DEF Init
  <2>2. queue \in Seq(Message) /\ out \in Seq(1 .. MaxMessages)  BY DEF Init
  <2>3. msgId \in Nat \ {0} /\ nextId \in Nat \ {0}  BY DEF Init
  <2>4. QED  BY <2>1, <2>2, <2>3 DEF Init, DataTypes
<1>6. Hands /\ Presence  BY <1>2, <1>3 DEF Init, Hands, Presence
<1>7. /\ ToSet(queue) = {} /\ Written = {} /\ Busy = {} /\ InHand = {} /\ Pending = {} /\ Advancing = {}
  BY <1>2 DEF Init, ToSet, Written, Busy, InHand, Pending, Advancing
<1>8. 1 .. issued = {} /\ DOMAIN queue = {} /\ DOMAIN out = {}  BY DEF Init
<1>9. MessageInv  BY <1>7, <1>8 DEF Init, MessageInv, Partition, Once, Distinct, Numbers
<1>10. Quieted  BY <1>3 DEF Init, Quieted, At
<1>11. Ordered  BY <1>7, <1>8 DEF Init, Ordered, NextDue
<1>12. QED  BY <1>4, <1>5, <1>6, <1>9, <1>10, <1>11 DEF ControlInv, OrderInv

\* Where a message is counted: a set of at most one place, or of none.
LEMMA OneOrNone ==
  ASSUME NEW S, NEW b \in BOOLEAN, \A x, y \in S : x = y, b <=> S # {}
  PROVE  Cardinality(S) = IF b THEN 1 ELSE 0
<1>1. CASE b
  <2>1. PICK x : S = {x}  BY <1>1
  <2>2. QED  BY <1>1, <2>1, FS_Singleton
<1>2. CASE ~b
  <2>1. S = {}  BY <1>2
  <2>2. QED  BY <1>2, <2>1, FS_EmptySet
<1>3. QED  BY <1>1, <1>2

\* Each logged message is at any time in one place: once in the queue, in the hands of
\* one logger, written once, or given up for want of memory, however the loggers pop it,
\* push it back and go away, and whichever of them drains the queue.
THEOREM MessagesAreOnce == Spec => []EachMessageOnce
<1>1. ControlInv /\ MessageInv => EachMessageOnce
  <2> SUFFICES ASSUME ControlInv, MessageInv, NEW m \in 1 .. issued PROVE Places(m) = 1
    BY DEF EachMessageOnce
  <2> DEFINE inQueue == {i \in DOMAIN queue : queue[i].no = m}
             inHand  == {l \in Loggers : item[l] # Nobody /\ item[l].no = m}
             inOut   == {i \in DOMAIN out : out[i] = m}
             inDrop  == {m} \cap dropped
             q == \E x \in ToSet(queue) : x.no = m
             h == \E x \in InHand : x.no = m
             w == m \in Written
             d == m \in dropped
  <2>1. Cardinality(inQueue) = IF q THEN 1 ELSE 0
    <3>1. \A i, j \in inQueue : i = j  BY DEF MessageInv, Once, Distinct, Pending, ToSet
    <3>2. q <=> inQueue # {}  BY DEF ToSet
    <3> HIDE DEF inQueue, q
    <3>3. QED  BY <3>1, <3>2, OneOrNone
  <2>2. Cardinality(inHand) = IF h THEN 1 ELSE 0
    <3>1. \A k, l \in inHand : k = l  BY DEF MessageInv, Once, Pending, InHand, Busy
    <3>2. h <=> inHand # {}  BY DEF InHand, Busy
    <3> HIDE DEF inHand, h
    <3>3. QED  BY <3>1, <3>2, OneOrNone
  <2>3. Cardinality(inOut) = IF w THEN 1 ELSE 0
    <3>1. \A i, j \in inOut : i = j  BY DEF MessageInv, Once, Distinct
    <3>2. w <=> inOut # {}  BY DEF Written, ToSet
    <3> HIDE DEF inOut, w
    <3>3. QED  BY <3>1, <3>2, OneOrNone
  <2>4. Cardinality(inDrop) = IF d THEN 1 ELSE 0
    <3>1. \A i, j \in inDrop : i = j  OBVIOUS
    <3>2. d <=> inDrop # {}  OBVIOUS
    <3> HIDE DEF inDrop, d
    <3>3. QED  BY <3>1, <3>2, OneOrNone
  <2>5. /\ q \/ h \/ w \/ d
        /\ ~(q /\ h) /\ ~((q \/ h) /\ w) /\ ~((q \/ h) /\ d) /\ ~(w /\ d)
    <3>1. (q \/ h) <=> m \in Numbers(Pending)  BY DEF Numbers, Pending
    <3>2. ~(q /\ h)
      <4>1. SUFFICES ASSUME NEW x \in ToSet(queue), NEW y \in InHand, x.no = m, y.no = m PROVE FALSE
        OBVIOUS
      <4>2. x = y  BY <4>1 DEF MessageInv, Once, Pending
      <4>3. QED  BY <4>1, <4>2 DEF MessageInv, Once
    <3>3. QED  BY <3>1, <3>2 DEF MessageInv, Partition
  <2>6. Places(m) = Cardinality(inQueue) + Cardinality(inHand) + Cardinality(inOut) + Cardinality(inDrop)
    BY DEF Places
  <2> HIDE DEF inQueue, inHand, inOut, inDrop, q, h, w, d
  <2>7. QED  BY <2>1, <2>2, <2>3, <2>4, <2>5, <2>6
<1>2. QED  BY <1>1, LogInit, ControlNext, MessageNext, PTL DEF Spec

-----------------------------------------------------------------------------
(* What is left behind *)

LEMMA QuietNext == QuietSwitch /\ ControlInv /\ Quieted /\ [Next]_vars => Quieted'
<1> SUFFICES ASSUME QuietSwitch, ControlInv, Quieted, [Next]_vars PROVE Quieted'  OBVIOUS
<1> USE DEF threads, flags, store, history, At, Quieted
<1>0. ControlInv'  BY ControlNext
<1>1. ASSUME NEW c \in Clients, LogCall(c) \/ ClientStep(c) PROVE Quieted'
  <2>1. CASE LogCall(c)
    <3>1. /\ pc'[c] \in {"push", "direct"} /\ \A p \in Actors : p # c => pc'[p] = pc[p]
          /\ pc'[c] = "push" <=> threadCount > 0
      BY <2>1 DEF LogCall, GoTo, ControlInv, PcTypes, Actors
    <3>2. pc'[Controller] = "idle" /\ threadCount' = threadCount /\ queue' = queue
      BY <2>1, <3>1, Apart DEF LogCall, Actors
    <3>3. threadCount \in Nat  BY Apart DEF ControlInv, DataTypes
    <3>4. QED  BY <2>1, <3>1, <3>2, <3>3 DEF LogCall, Actors
  <2>2. ASSUME pc[c] # "idle", threadCount' = threadCount, queue' = queue \/ threadCount > 0,
               \A q \in Clients \cup {Controller} : q # c => pc'[q] = pc[q],
               pc'[c] \notin {"push", "direct"}
        PROVE  Quieted'
    <3>1. pc'[Controller] = "idle"  BY <2>2, Apart
    <3>2. QED  BY <2>2, <3>1
  <2>3. CASE DirectOut(c)
    BY <2>2, <2>3, ClientGoes DEF DirectOut, PutOut, ControlInv, ClientSteps, Actors
  <2>4. CASE QueuePush(c)
    BY <2>2, <2>4, ClientGoes DEF QueuePush, ControlInv, ClientSteps, Actors
  <2>5. CASE QueuePushFails(c)
    BY <2>2, <2>5, ClientGoes DEF QueuePushFails, ControlInv, ClientSteps, Actors
  <2>6. CASE Activate(c, "idle") /\ haveThreads
    BY <2>2, <2>6, ClientGoes DEF Activate, ControlInv, ClientSteps, Actors
  <2>7. CASE Activate(c, "idle") /\ ~haveThreads
    <3>1. "started" \in ClientSteps /\ c \in Actors  BY DEF ClientSteps, Actors
    <3>2. pc'[c] = "started" /\ \A q \in Actors \ Loggers : q # c => pc'[q] = pc[q]
      BY <2>7, <3>1, Starts, Apart DEF Activate, Steps
    <3>3. QED  BY <2>2, <2>7, <3>2, Apart DEF Activate, Actors
  <2>8. CASE Activated(c, "idle")
    BY <2>2, <2>8, ClientGoes DEF Activated, ControlInv, ClientSteps, Actors
  <2>9. QED  BY <1>1, <2>1, <2>3, <2>4, <2>5, <2>6, <2>7, <2>8 DEF ClientStep, ControlInv, DataTypes
<1>2. ASSUME NEW l \in Loggers, LoggerStep(l) PROVE Quieted'
  <2>1. ASSUME threadCount' = threadCount, threadCount = 0 /\ queue = <<>> => queue' = <<>>,
               \A q \in Clients \cup {Controller} : pc'[q] = pc[q]
        PROVE  Quieted'
    BY <2>1
  <2>2. ASSUME NEW x, GoTo(l, x) PROVE \A q \in Clients \cup {Controller} : pc'[q] = pc[q]
    BY <2>2, Apart DEF GoTo, ControlInv, PcTypes, Actors
  <2>3. CASE GoToSleep(l) \/ CheckExit(l) \/ WakeUp(l) \/ EarlyQuit(l) \/ Loop(l) \/ Done(l)
    BY <2>1, <2>2, <2>3 DEF GoToSleep, CheckExit, WakeUp, EarlyQuit, Loop, Done
  <2>4. CASE NotDue(l) \/ NothingPopped(l) \/ Advance(l) \/ Pop(l) \/ Emit(l)
    BY <2>1, <2>2, <2>4 DEF NotDue, NothingPopped, Advance, Pop, Emit, PutOut
  <2>5. CASE PushBack(l)
    <3>1. threadCount # 0  BY <2>5 DEF PushBack, ControlInv, Presence
    <3>2. QED  BY <2>1, <2>2, <2>5, <3>1 DEF PushBack
  <2>6. CASE Activate(l, "pop") /\ haveThreads
    BY <2>1, <2>2, <2>6 DEF Activate
  <2>7. CASE Activate(l, "pop") /\ ~haveThreads
    <3>1. "started" \in LoggerSteps \ {"absent"} /\ l \in Actors /\ pc[l] # "absent"
      BY <2>7 DEF LoggerSteps, Actors, Activate
    <3>2. \A q \in Actors \ Loggers : q # l => pc'[q] = pc[q]
      BY <2>7, <3>1, Starts, Apart DEF Activate, Steps
    <3>3. QED  BY <2>1, <2>7, <3>2, Apart DEF Activate, Actors
  <2>8. CASE Activated(l, "pop")
    BY <2>1, <2>2, <2>8 DEF Activated
  <2>9. QED  BY <1>2, <2>3, <2>4, <2>5, <2>6, <2>7, <2>8 DEF LoggerStep, ControlInv, DataTypes
<1>3. ASSUME NEW x \in ControllerSteps, GoTo(Controller, x)
      PROVE  pc'[Controller] = x /\ \A c \in Clients : pc'[c] = pc[c]
  BY <1>3, ControllerGoes, Apart DEF ControlInv, Actors
<1>4. CASE Enable
  <2>1. threadCount' > 0 /\ threadCount' # 0
    <3>1. threadCount' \in 1 .. MaxThreads  BY <1>4 DEF Enable
    <3>2. QED  BY <3>1
  <2>2. pc'[Controller] = "enable" /\ \A c \in Clients : pc'[c] = "idle"
    BY <1>3, <1>4 DEF Enable, Quiet, ControllerSteps
  <2>3. QED  BY <1>4, <2>1, <2>2 DEF Enable
<1>12. CASE End
  <2>1. pc'[Controller] = "end" /\ \A c \in Clients : pc'[c] = "idle"
    BY <1>3, <1>12 DEF End, Quiet, ControllerSteps
  <2>2. threadCount' = threadCount /\ queue' = queue /\ pc[Controller] = "idle"  BY <1>12 DEF End
  <2>3. QED  BY <2>1, <2>2
<1>5. CASE Finish
  <2>1. pc'[Controller] = "join" /\ \A c \in Clients : pc'[c] = "idle"
    BY <1>3, <1>5 DEF Finish, ControllerSteps
  <2>2. threadCount' = threadCount /\ queue' = queue /\ pc[Controller] = "end"  BY <1>5 DEF Finish
  <2>3. QED  BY <2>1, <2>2
<1>6. CASE Enabled
  <2>1. pc'[Controller] = "idle" /\ \A c \in Clients : pc'[c] = pc[c]
    <3>1. CASE haveThreads  BY <1>3, <1>6, <3>1 DEF Enabled, ControllerSteps
    <3>2. CASE ~haveThreads
      <4>1. "idle" \in ControllerSteps /\ Controller \in Actors  BY DEF ControllerSteps, Actors
      <4>2. pc'[Controller] = "idle" /\ \A q \in Actors \ Loggers : q # Controller => pc'[q] = pc[q]
        BY <1>6, <3>2, <4>1, Starts, Apart DEF Enabled, Steps
      <4>3. QED  BY <4>2, Apart DEF Actors
    <3>3. QED  BY <3>1, <3>2 DEF ControlInv, DataTypes
  <2>2. threadCount' = threadCount /\ queue' = queue /\ pc[Controller] = "enable"  BY <1>6 DEF Enabled
  <2>3. QED  BY <2>1, <2>2
<1>7. CASE Join
  <2>1. /\ pc[Controller] = "join" /\ alive' \subseteq alive /\ alive \subseteq Loggers /\ queue' = queue
        /\ threadCount' = IF alive' = {} THEN 0 ELSE threadCount
        /\ pc' = [p \in Actors |-> IF p \in alive \ alive' THEN "absent"
                            ELSE IF p = Controller THEN IF alive' = {} THEN "drain" ELSE "relock"
                            ELSE pc[p]]
    BY <1>7 DEF Join, ControlInv, DataTypes
  <2>2. pc'[Controller] = IF alive' = {} THEN "drain" ELSE "relock"
    BY <2>1, Apart DEF Actors
  <2>3. \A c \in Clients : pc'[c] = "idle"  BY <2>1, Apart DEF Actors
  <2>4. CASE alive' = {}
    <3>1. pc'[Controller] = "drain" /\ threadCount' = 0  BY <2>1, <2>2, <2>4
    <3>2. QED  BY <2>3, <3>1
  <2>5. CASE alive' # {}
    <3>1. pc'[Controller] = "relock" /\ threadCount' = threadCount  BY <2>1, <2>2, <2>5
    <3>2. threadCount = 0 => queue' = <<>>  BY <2>1
    <3>3. QED  BY <2>3, <3>1, <3>2
  <2>6. QED  BY <2>4, <2>5
<1>8. CASE Relock
  BY <1>3, <1>8 DEF Relock, ControllerSteps
<1>9. CASE Drain
  <2>1. CASE queue = <<>>  BY <1>3, <1>9, <2>1 DEF Drain, PutOut, ControllerSteps
  <2>2. CASE queue # <<>>  BY <1>9, <2>2 DEF Drain, PutOut
  <2>3. QED  BY <2>1, <2>2
<1>10. CASE UNCHANGED vars  BY <1>10 DEF vars
<1>11. QED  BY <1>1, <1>2, <1>4, <1>5, <1>6, <1>7, <1>8, <1>9, <1>10, <1>12 DEF Next, ControllerStep

\* If the threads are switched while nobody logs: once they are off again there is no
\* thread, no message in the queue, none in the hands of a thread, and every message that
\* was logged is written or given up.
THEOREM NothingIsLeftBehind == QuietSwitch => (Spec => []NothingLeftBehind)
<1>1. ControlInv /\ MessageInv /\ Quieted => NothingLeftBehind
  <2> SUFFICES ASSUME ControlInv, MessageInv, Quieted, threadCount = 0, pc[Controller] = "idle"
               PROVE  /\ queue = <<>>
                      /\ \A l \in Loggers : item[l] = Nobody /\ pc[l] = "absent"
                      /\ ToSet(out) \cup dropped = 1 .. issued
    BY DEF NothingLeftBehind, At
  <2>1. queue = <<>>  BY DEF Quieted, At
  <2>2. \A l \in Loggers : item[l] = Nobody /\ pc[l] = "absent"
    BY DEF ControlInv, Presence, Hands
  <2>3. Pending = {}  BY <2>1, <2>2 DEF Pending, InHand, Busy, ToSet
  <2>4. ToSet(out) \cup dropped = 1 .. issued
    BY <2>3 DEF MessageInv, Partition, Written, Numbers
  <2>5. QED  BY <2>1, <2>2, <2>4
<1>2. SUFFICES ASSUME QuietSwitch PROVE Spec => []NothingLeftBehind  OBVIOUS
<1>3. Init => Quieted  BY <1>2, LogInit
<1>4. ControlInv /\ Quieted /\ [Next]_vars => Quieted'  BY <1>2, QuietNext
<1>5. QED  BY <1>1, <1>3, <1>4, LogInit, ControlNext, MessageNext, PTL DEF Spec

-----------------------------------------------------------------------------
(* In which order *)

LEMMA OrderKept ==
  ASSUME Ordered, Pending' = Pending, out' = out, Advancing' = Advancing,
         nextId' = nextId, msgId' = msgId, alive' = {} => alive = {} /\ queue' = queue
  PROVE  Ordered'
<1>1. Written' = Written /\ NextDue' = NextDue  BY DEF Written, NextDue
<1>2. QED  BY <1>1 DEF Ordered

LEMMA AppendOrdered ==
  ASSUME NEW S \in SUBSET Int, NEW s \in Seq(S), NEW e \in S, \A n \in ToSet(s) : n < e,
         \A i, j \in DOMAIN s : i < j => s[i] < s[j]
  PROVE  \A i, j \in DOMAIN Append(s, e) : i < j => Append(s, e)[i] < Append(s, e)[j]
<1> SUFFICES ASSUME NEW i \in 1 .. Len(s) + 1, NEW j \in 1 .. Len(s) + 1, i < j
             PROVE  Append(s, e)[i] < Append(s, e)[j]
  BY AppendSeq
<1>1. Len(s) \in Nat /\ DOMAIN s = 1 .. Len(s)  BY AppendSeq
<1>2. i \in DOMAIN s /\ (j \in DOMAIN s \/ j = Len(s) + 1)  BY <1>1
<1>3. Append(s, e)[i] = s[i] /\ s[i] \in ToSet(s)  BY <1>2, AppendSeq DEF ToSet
<1>4. CASE j \in DOMAIN s  BY <1>2, <1>3, <1>4, AppendSeq
<1>5. CASE j = Len(s) + 1  BY <1>3, <1>5, AppendSeq
<1>6. QED  BY <1>2, <1>4, <1>5

LEMMA OrderTypes ==
  ASSUME ControlInv
  PROVE  /\ \A m \in Pending : m.no \in Int /\ m.id \in Int
         /\ Written \subseteq Int
         /\ NextDue \in Nat /\ nextId \in Nat /\ msgId \in Nat /\ issued \in Nat
<1>1. \A m \in Message : m.no \in Int /\ m.id \in Int  BY DEF Message
<1>2. \A m \in Pending : m.no \in Int /\ m.id \in Int  BY <1>1, MessageTypes
<1>4. Written \subseteq Int  BY MessageTypes
<1>5. nextId \in Nat /\ msgId \in Nat /\ issued \in Nat  BY DEF ControlInv, DataTypes
<1>6. NextDue \in Nat  BY <1>5 DEF NextDue
<1>7. QED  BY <1>2, <1>4, <1>5, <1>6

LEMMA OutAppended ==
  ASSUME ControlInv, Ordered, NEW n \in 1 .. MaxMessages, \A k \in Written : k < n, out' = Append(out, n)
  PROVE  \A i, j \in DOMAIN out' : i < j => out'[i] < out'[j]
<1> DEFINE Known == 1 .. MaxMessages
<1>1. out \in Seq(Known) /\ n \in Known /\ Known \in SUBSET Int  BY DEF ControlInv, DataTypes
<1> HIDE DEF Known
<1>2. \A k \in ToSet(out) : k < n  BY DEF Written
<1>3. \A i, j \in DOMAIN out : i < j => out[i] < out[j]  BY DEF Ordered
<1>4. \A i, j \in DOMAIN Append(out, n) : i < j => Append(out, n)[i] < Append(out, n)[j]
  BY <1>1, <1>2, <1>3, AppendOrdered
<1>5. QED  BY <1>4

\* The smallest message of those that wait is written or given up.
LEMMA SmallestGoes ==
  ASSUME ControlInv, MessageInv, Ordered, NEW m \in Pending, Pending' = Pending \ {m},
         \A k \in Pending : m.no <= k.no,
         \/ Written' = Written /\ out' = out
         \/ Written' = Written \cup {m.no} /\ out' = Append(out, m.no)
  PROVE  /\ \A i, j \in DOMAIN out' : i < j => out'[i] < out'[j]
         /\ \A k \in Pending' : \A n \in Written' : n < k.no
         /\ \A k, n \in Pending' : k.no < n.no => k.id < n.id
         /\ \A k \in Pending' : m.id < k.id
<1>1. \A k \in Pending' : m.no < k.no
  BY OrderTypes DEF MessageInv, Once
<1>2. \A i, j \in DOMAIN out' : i < j => out'[i] < out'[j]
  <2>1. CASE out' = out  BY <2>1 DEF Ordered
  <2>2. CASE out' = Append(out, m.no)
    <3>1. m \in Message  BY MessageTypes
    <3>2. m.no \in 1 .. MaxMessages  BY <3>1 DEF Message
    <3>3. QED  BY <2>2, <3>2, OutAppended DEF Ordered
  <2>3. QED  BY <2>1, <2>2
<1>3. \A k \in Pending' : \A n \in Written' : n < k.no  BY <1>1 DEF Ordered
<1>4. QED  BY <1>1, <1>2, <1>3 DEF Ordered

LEMMA EmitOrdered ==
  ASSUME ControlInv, MessageInv, Ordered, Running, NEW l \in Loggers, Emit(l)
  PROVE  Ordered'
<1> USE DEF threads, flags, store, history, At, PutOut
<1> DEFINE m == item[l]
<1>1. /\ pc[l] = "popped" /\ m # Nobody /\ m.id <= nextId
  BY DEF Emit, PutOut, Running
<1>2. /\ Pending' = Pending \ {m} /\ m \in Pending
      /\ (Written' = Written /\ out' = out) \/ (Written' = Written \cup {m.no} /\ out' = Append(out, m.no))
  BY <1>1, Emitted DEF Emit, PutOut
<1>5. NextDue = nextId /\ m.id = nextId /\ Advancing = {}
  <2>1. NextDue <= m.id  BY <1>2 DEF Ordered
  <2>2. CASE Advancing # {}
    <3>1. NextDue = nextId + 1  BY <2>2 DEF NextDue
    <3>2. QED  BY <1>1, <1>2, <2>1, <3>1, OrderTypes
  <2>3. CASE Advancing = {}
    <3>1. NextDue = nextId  BY <2>3 DEF NextDue
    <3>2. QED  BY <1>1, <1>2, <2>1, <2>3, <3>1, OrderTypes
  <2>4. QED  BY <2>2, <2>3
<1>6. \A k \in Pending : m.no <= k.no
  <2>1. SUFFICES ASSUME NEW k \in Pending, k.no < m.no PROVE FALSE  BY <1>2, OrderTypes
  <2>2. k.id < m.id /\ NextDue <= k.id  BY <1>2, <2>1 DEF Ordered
  <2>3. QED  BY <1>5, <2>2, OrderTypes
<1> HIDE DEF m
<1>7. /\ \A i, j \in DOMAIN out' : i < j => out'[i] < out'[j]
      /\ \A k \in Pending' : \A n \in Written' : n < k.no
      /\ \A k, n \in Pending' : k.no < n.no => k.id < n.id
      /\ \A k \in Pending' : m.id < k.id
  BY <1>2, <1>6, SmallestGoes
<1>8. pc'[l] = "advance" /\ \A k \in Loggers : k # l => pc'[k] = pc[k]
  BY LoggerGoes DEF Emit, PutOut, ControlInv, LoggerSteps, Actors
<1>9. Advancing' = {l}  BY <1>5, <1>8 DEF Advancing
<1>10. nextId' = nextId /\ msgId' = msgId /\ alive' = alive  BY DEF Emit, PutOut
<1>11. NextDue' = nextId + 1  BY <1>9, <1>10 DEF NextDue
<1>12. \A k \in Pending' : NextDue' <= k.id /\ k.id < msgId'
  BY <1>2, <1>5, <1>7, <1>10, <1>11, OrderTypes DEF Ordered
<1>13. NextDue' <= msgId'
  <2>1. m.id < msgId  BY <1>2 DEF Ordered
  <2>2. QED  BY <1>2, <1>5, <1>10, <1>11, <2>1, OrderTypes
<1>14. alive' # {}  BY <1>1, <1>10 DEF ControlInv, Presence
<1>15. QED  BY <1>7, <1>9, <1>12, <1>13, <1>14 DEF Ordered

LEMMA PushOrdered ==
  ASSUME ControlInv, MessageInv, Ordered, NEW c \in Clients, QueuePush(c)
  PROVE  Ordered'
<1> USE DEF threads, flags, store, history, At
<1> DEFINE m == [no |-> issued + 1, id |-> msgId]
<1>1. issued < MaxMessages /\ msgId <= issued + 1 /\ msgId \in Nat \ {0} /\ issued \in Nat
  BY DEF QueuePush, ControlInv, Hands, DataTypes
<1>2. m \in Message
  <2>1. issued + 1 \in 1 .. MaxMessages /\ msgId \in 1 .. MaxMessages  BY <1>1, Apart
  <2>2. QED  BY <2>1 DEF Message
<1>3. /\ m.no = issued + 1 /\ m.id = msgId /\ queue' = Append(queue, m) /\ msgId' = msgId + 1
      /\ nextId' = nextId /\ alive' = alive /\ out' = out
  BY DEF QueuePush
<1> HIDE DEF m
<1>4. Pending' = Pending \cup {m} /\ Written' = Written
  BY <1>2, <1>3, Arrives DEF QueuePush
<1>5. (\A n \in Written : n < m.no) /\ \A k \in Pending : k.no < m.no
  <2>1. Written \subseteq 1 .. issued /\ Numbers(Pending) \subseteq 1 .. issued
    BY DEF MessageInv, Partition
  <2>2. \A n \in 1 .. issued : n < issued + 1  BY <1>1
  <2>3. \A k \in Pending : k.no \in Numbers(Pending)  BY DEF Numbers
  <2>4. QED  BY <1>3, <2>1, <2>2, <2>3
<1>6. \A l \in Loggers : pc'[l] = pc[l]
  BY Apart DEF QueuePush, GoTo, ControlInv, PcTypes, Actors
<1>7. Advancing' = Advancing  BY <1>6 DEF Advancing
<1>8. NextDue' = NextDue  BY <1>3, <1>7 DEF NextDue
<1>9. \A k \in Pending' : \A n \in Written' : n < k.no  BY <1>4, <1>5 DEF Ordered
<1>10. \A k \in Pending' : NextDue' <= k.id /\ k.id < msgId'
  BY <1>1, <1>3, <1>4, <1>8, OrderTypes DEF Ordered
<1>11. \A k, n \in Pending' : k.no < n.no => k.id < n.id
  <2>1. ASSUME NEW k \in Pending PROVE k.id < m.id /\ ~(m.no < k.no)
    BY <1>3, <1>5, <2>1, OrderTypes DEF Ordered
  <2>2. ~(m.no < m.no)  BY <1>1, <1>3
  <2>3. QED  BY <1>4, <2>1, <2>2 DEF Ordered
<1>12. NextDue' <= msgId'  BY <1>1, <1>3, <1>8, OrderTypes DEF Ordered
<1>13. alive' = {} => \A i, j \in DOMAIN queue' : i < j => queue'[i].no < queue'[j].no
  <2>1. SUFFICES ASSUME alive = {}, NEW i \in DOMAIN Append(queue, m), NEW j \in DOMAIN Append(queue, m), i < j
                 PROVE  Append(queue, m)[i].no < Append(queue, m)[j].no
    BY <1>3
  <2>2. /\ Len(queue) \in Nat /\ DOMAIN queue = 1 .. Len(queue)
        /\ DOMAIN Append(queue, m) = 1 .. Len(queue) + 1
        /\ \A k \in DOMAIN queue : Append(queue, m)[k] = queue[k]
        /\ Append(queue, m)[Len(queue) + 1] = m
    BY <1>2, AppendSeq DEF ControlInv, DataTypes
  <2>3. i \in DOMAIN queue /\ (j \in DOMAIN queue \/ j = Len(queue) + 1)  BY <2>1, <2>2
  <2>4. CASE j \in DOMAIN queue  BY <2>1, <2>2, <2>3, <2>4 DEF Ordered
  <2>5. CASE j = Len(queue) + 1
    <3>1. queue[i] \in Pending  BY <2>3 DEF Pending, ToSet
    <3>2. QED  BY <1>5, <2>2, <2>3, <2>5, <3>1
  <2>6. QED  BY <2>3, <2>4, <2>5
<1>14. QED
  BY <1>3, <1>7, <1>9, <1>10, <1>11, <1>12, <1>13 DEF Ordered

LEMMA DirectOrdered ==
  ASSUME ControlInv, MessageInv, Quieted, Ordered, NEW c \in Clients, DirectOut(c)
  PROVE  Ordered'
<1> USE DEF threads, flags, store, history, At
<1>1. pc[c] = "direct" /\ threadCount = 0 /\ alive = {} /\ queue = <<>>
  BY Apart DEF DirectOut, PutOut, Quieted, ControlInv, Presence
<1>2. \A l \in Loggers : pc[l] = "absent" /\ item[l] = Nobody
  BY <1>1 DEF ControlInv, Presence, Hands
<1>3. Pending = {} /\ Advancing = {}
  BY <1>1, <1>2 DEF Pending, InHand, Busy, ToSet, Advancing
<1>4. issued < MaxMessages  BY <1>1 DEF ControlInv, Hands
<1>5. issued + 1 \in 1 .. MaxMessages  BY <1>4, Apart DEF ControlInv, DataTypes
<1>6. Pending' = Pending  BY <1>4, PassesBy DEF DirectOut, PutOut
<1>7. \A l \in Loggers : pc'[l] = pc[l]
  BY Apart DEF DirectOut, PutOut, GoTo, ControlInv, PcTypes, Actors
<1>8. Advancing' = Advancing  BY <1>7 DEF Advancing
<1>9. NextDue' = NextDue  BY <1>8 DEF DirectOut, PutOut, NextDue
<1>10. \A n \in Written : n < issued + 1
  <2>1. Written \subseteq 1 .. issued  BY DEF MessageInv, Partition
  <2>2. \A n \in 1 .. issued : n < issued + 1  BY OrderTypes
  <2>3. QED  BY <2>1, <2>2
<1>11. \A i, j \in DOMAIN out' : i < j => out'[i] < out'[j]
  <2>1. out' = Append(out, issued + 1) \/ out' = out  BY DEF DirectOut, PutOut
  <2>2. QED  BY <1>5, <1>10, <2>1, OutAppended DEF Ordered
<1>12. msgId' = msgId /\ queue' = queue  BY DEF DirectOut, PutOut
<1>13. QED  BY <1>1, <1>3, <1>6, <1>8, <1>9, <1>11, <1>12 DEF Ordered

LEMMA DrainOrdered ==
  ASSUME ControlInv, MessageInv, Quieted, Ordered, Drain, queue # <<>>
  PROVE  Ordered'
<1> USE DEF threads, flags, store, history, At
<1> DEFINE m == Head(queue)
<1>1. alive = {}  BY DEF Drain, PutOut, Quieted, ControlInv, Presence
<1>2. \A l \in Loggers : item[l] = Nobody /\ pc[l] = "absent"
  BY <1>1 DEF ControlInv, Presence, Hands
<1>3. Pending = ToSet(queue) /\ Advancing = {}  BY <1>2 DEF Pending, InHand, Busy, Advancing
<1>4. /\ Tail(queue) \in Seq(Message) /\ Len(queue) \in Nat \ {0} /\ DOMAIN queue = 1 .. Len(queue)
      /\ DOMAIN Tail(queue) = 1 .. Len(queue) - 1
      /\ m = queue[1] /\ \A i \in DOMAIN Tail(queue) : Tail(queue)[i] = queue[i + 1]
  BY TailSeq DEF ControlInv, DataTypes
<1>5. /\ queue' = Tail(queue) /\ nextId' = nextId /\ msgId' = msgId
      /\ alive' = alive /\ pc' = pc
  BY DEF Drain, PutOut
<1>6. /\ Pending' = Pending \ {m} /\ m \in Pending
      /\ (Written' = Written /\ out' = out) \/ (Written' = Written \cup {m.no} /\ out' = Append(out, m.no))
  BY Drained DEF Drain, PutOut
<1>7. \A k \in Pending : m.no <= k.no
  <2>1. SUFFICES ASSUME NEW i \in DOMAIN queue PROVE m.no <= queue[i].no  BY <1>3 DEF ToSet
  <2>2. queue[i] \in Pending /\ 1 \in DOMAIN queue  BY <1>3, <1>4 DEF ToSet
  <2>3. CASE i = 1  BY <1>4, <2>2, <2>3, OrderTypes
  <2>4. CASE 1 < i
    <3>1. queue[1].no < queue[i].no  BY <1>1, <2>2, <2>4 DEF Ordered
    <3>2. QED  BY <1>4, <1>6, <2>2, <3>1, OrderTypes
  <2>5. QED  BY <1>4, <2>3, <2>4
<1>8. \A i, j \in DOMAIN Tail(queue) : i < j => Tail(queue)[i].no < Tail(queue)[j].no
  <2>1. SUFFICES ASSUME NEW i \in DOMAIN Tail(queue), NEW j \in DOMAIN Tail(queue), i < j
                 PROVE  Tail(queue)[i].no < Tail(queue)[j].no
    OBVIOUS
  <2>2. i + 1 \in DOMAIN queue /\ j + 1 \in DOMAIN queue /\ i + 1 < j + 1  BY <1>4, <2>1
  <2>3. queue[i + 1].no < queue[j + 1].no  BY <1>1, <2>2 DEF Ordered
  <2>4. QED  BY <1>4, <2>3
<1> HIDE DEF m
<1>9. /\ \A i, j \in DOMAIN out' : i < j => out'[i] < out'[j]
      /\ \A k \in Pending' : \A n \in Written' : n < k.no
      /\ \A k, n \in Pending' : k.no < n.no => k.id < n.id
  BY <1>6, <1>7, SmallestGoes
<1>10. Advancing' = Advancing /\ NextDue' = NextDue  BY <1>5 DEF Advancing, NextDue
<1>11. QED  BY <1>5, <1>6, <1>8, <1>9, <1>10 DEF Ordered

LEMMA StillRunning ==
  ASSUME ControlInv, Next, Running'
  PROVE  Running /\ (Finish => doExit' = doExit)
<1> USE DEF threads, flags, store, history
<1>1. CASE Finish
  <2>1. doExit' = [l \in Loggers |-> doExit[l] \/ l \in alive]  BY <1>1 DEF Finish
  <2>2. \A l \in Loggers : ~doExit[l] /\ doExit'[l] = doExit[l]  BY <2>1 DEF Running, ControlInv, DataTypes
  <2>3. doExit' = doExit  BY <2>1, <2>2 DEF ControlInv, DataTypes
  <2>4. QED  BY <2>2, <2>3 DEF Running
<1>2. ASSUME doExit' = doExit PROVE Running  BY <1>2 DEF Running
<1>3. ASSUME NEW c \in Clients, LogCall(c) \/ ClientStep(c) PROVE doExit' = doExit
  BY <1>3 DEF LogCall, ClientStep, DirectOut, QueuePush, QueuePushFails, Activate, Activated
<1>4. ASSUME NEW l \in Loggers, LoggerStep(l) PROVE doExit' = doExit
  <2>1. CASE GoToSleep(l) \/ CheckExit(l) \/ WakeUp(l) \/ EarlyQuit(l) \/ Loop(l) \/ Done(l)
    BY <2>1 DEF GoToSleep, CheckExit, WakeUp, EarlyQuit, Loop, Done
  <2>2. CASE NotDue(l) \/ NothingPopped(l) \/ Advance(l) \/ Pop(l) \/ Emit(l) \/ PushBack(l)
    BY <2>2 DEF NotDue, NothingPopped, Advance, Pop, Emit, PushBack
  <2>3. CASE Activate(l, "pop") \/ Activated(l, "pop")  BY <2>3 DEF Activate, Activated
  <2>4. QED  BY <1>4, <2>1, <2>2, <2>3 DEF LoggerStep
<1>5. CASE Enable \/ End \/ Enabled \/ Join \/ Relock \/ Drain
  BY <1>2, <1>5 DEF Enable, End, Enabled, Join, Relock, Drain
<1>6. CASE ~Finish  BY <1>2, <1>3, <1>4, <1>5, <1>6 DEF Next, ControllerStep
<1>7. QED  BY <1>1, <1>6

LEMMA OrderNext ==
  QuietSwitch /\ ControlInv /\ MessageInv /\ Quieted /\ OrderInv /\ [Next]_vars => OrderInv'
<1> SUFFICES ASSUME QuietSwitch, ControlInv, MessageInv, Quieted, OrderInv, [Next]_vars, Running'
             PROVE  Ordered'
  BY DEF OrderInv
<1> USE DEF threads, flags, store, history, At
<1>0. Running /\ Ordered
  <2>1. CASE Next  BY <2>1, StillRunning DEF OrderInv
  <2>2. CASE UNCHANGED vars  BY <2>2 DEF vars, Running, OrderInv
  <2>3. QED  BY <2>1, <2>2
<1>1. ASSUME Pending' = Pending, out' = out, nextId' = nextId, msgId' = msgId,
             alive' = {} => alive = {} /\ queue' = queue,
             \A l \in Loggers : pc'[l] = "advance" <=> pc[l] = "advance"
      PROVE  Ordered'
  <2>1. Advancing' = Advancing  BY <1>1 DEF Advancing
  <2>2. QED  BY <1>0, <1>1, <2>1, OrderKept
<1>2. ASSUME UNCHANGED <<queue, item, issued, out, dropped>> PROVE Pending' = Pending
  BY <1>2, Unmoved
<1>3. ASSUME NEW c \in Clients, LogCall(c) \/ ClientStep(c) PROVE Ordered'
  <2>1. ASSUME NEW x, GoTo(c, x) PROVE \A l \in Loggers : pc'[l] = pc[l]
    BY <2>1, Apart DEF GoTo, ControlInv, PcTypes, Actors
  <2>2. CASE LogCall(c)  BY <1>1, <1>2, <2>1, <2>2 DEF LogCall
  <2>3. CASE DirectOut(c)  BY <1>0, <2>3, DirectOrdered
  <2>4. CASE QueuePush(c)  BY <1>0, <2>4, PushOrdered
  <2>5. CASE QueuePushFails(c)
    <3>1. Pending' = Pending  BY <2>5 DEF QueuePushFails, Pending, InHand, Busy
    <3>2. QED  BY <1>1, <2>1, <2>5, <3>1 DEF QueuePushFails
  <2>6. CASE Activate(c, "idle") /\ haveThreads  BY <1>1, <1>2, <2>1, <2>6 DEF Activate
  <2>7. CASE Activate(c, "idle") /\ ~haveThreads
    <3>1. "started" \in ClientSteps /\ c \in Actors  BY DEF ClientSteps, Actors
    <3>2. /\ alive \subseteq alive'
          /\ \A l \in Loggers : pc'[l] # pc[l] => pc[l] = "absent" /\ pc'[l] = "born"
      BY <2>7, <3>1, Starts, Apart DEF Activate, Steps
    <3>3. QED  BY <1>1, <1>2, <2>7, <3>2 DEF Activate
  <2>8. CASE Activated(c, "idle")  BY <1>1, <1>2, <2>1, <2>8 DEF Activated
  <2>9. QED
    BY <1>3, <2>2, <2>3, <2>4, <2>5, <2>6, <2>7, <2>8 DEF ClientStep, ControlInv, DataTypes
<1>4. ASSUME NEW l \in Loggers, LoggerStep(l) PROVE Ordered'
  <2>1. ASSUME NEW x, x # "advance", pc[l] # "advance", GoTo(l, x)
        PROVE  \A k \in Loggers : pc'[k] = "advance" <=> pc[k] = "advance"
    BY <2>1 DEF GoTo, ControlInv, PcTypes, Actors
  <2>2. CASE GoToSleep(l) \/ CheckExit(l) \/ WakeUp(l)
    BY <1>1, <1>2, <2>1, <2>2 DEF GoToSleep, CheckExit, WakeUp
  <2>3. CASE EarlyQuit(l) \/ Loop(l) \/ Done(l) \/ NotDue(l) \/ NothingPopped(l)
    BY <1>1, <1>2, <2>1, <2>3 DEF EarlyQuit, Loop, Done, NotDue, NothingPopped
  <2>4. CASE Pop(l)
    <3>1. item[l] = Nobody /\ alive # {}  BY <2>4 DEF Pop, ControlInv, Hands, Presence
    <3>2. Pending' = Pending
      <4>1. CASE queue = <<>>
        <5>1. item' = item /\ queue' = queue  BY <2>4, <3>1, <4>1 DEF Pop, ControlInv, DataTypes
        <5>2. QED  BY <1>2, <2>4, <5>1 DEF Pop
      <4>2. CASE queue # <<>>  BY <2>4, <3>1, <4>2, Popped DEF Pop
      <4>3. QED  BY <4>1, <4>2
    <3>3. QED  BY <1>1, <2>1, <2>4, <3>1, <3>2 DEF Pop
  <2>5. CASE PushBack(l)
    <3>1. item[l] # Nobody /\ alive # {}  BY <2>5 DEF PushBack, ControlInv, Hands, Presence
    <3>2. Pending' = Pending  BY <2>5, <3>1, PushedBack DEF PushBack
    <3>3. QED  BY <1>1, <2>1, <2>5, <3>1, <3>2 DEF PushBack
  <2>6. CASE Emit(l)  BY <1>0, <2>6, EmitOrdered
  <2>7. CASE Advance(l)
    <3>1. /\ pc'[l] = "loop" /\ \A k \in Loggers : k # l => pc'[k] = pc[k]
      BY <2>7, LoggerGoes DEF Advance, ControlInv, LoggerSteps, Actors
    <3>2. Advancing = {l}  BY <1>0, <2>7 DEF Advance, Advancing, Ordered
    <3>3. Advancing' = {}  BY <3>1, <3>2 DEF Advancing
    <3>4. NextDue' = NextDue  BY <2>7, <3>2, <3>3 DEF Advance, NextDue
    <3>5. Pending' = Pending /\ Written' = Written  BY <2>7, Unmoved DEF Advance
    <3>6. QED  BY <1>0, <2>7, <3>3, <3>4, <3>5 DEF Advance, Ordered
  <2>8. CASE Activate(l, "pop") /\ haveThreads  BY <1>1, <1>2, <2>1, <2>8 DEF Activate
  <2>9. CASE Activate(l, "pop") /\ ~haveThreads
    <3>1. "started" \in LoggerSteps \ {"absent"} /\ l \in Actors /\ pc[l] = "activate"
      BY <2>9 DEF LoggerSteps, Actors, Activate
    <3>2. /\ alive \subseteq alive' /\ pc'[l] = "started"
          /\ \A k \in Loggers : pc'[k] # pc[k] => k = l \/ (pc[k] = "absent" /\ pc'[k] = "born")
      BY <2>9, <3>1, Starts, Apart DEF Activate, Steps
    <3>3. \A k \in Loggers : pc'[k] = "advance" <=> pc[k] = "advance"  BY <3>1, <3>2
    <3>4. QED  BY <1>1, <1>2, <2>9, <3>2, <3>3 DEF Activate
  <2>10. CASE Activated(l, "pop")  BY <1>1, <1>2, <2>1, <2>10 DEF Activated
  <2>11. QED
    BY <1>4, <2>2, <2>3, <2>4, <2>5, <2>6, <2>7, <2>8, <2>9, <2>10 DEF LoggerStep, ControlInv, DataTypes
<1>5. ASSUME NEW x, GoTo(Controller, x) PROVE \A l \in Loggers : pc'[l] = pc[l]
  BY <1>5, Apart DEF GoTo, ControlInv, PcTypes, Actors
<1>6. CASE Enable \/ End \/ Finish \/ Relock
  BY <1>1, <1>2, <1>5, <1>6 DEF Enable, End, Finish, Relock
<1>7. CASE Enabled
  <2>1. CASE haveThreads  BY <1>1, <1>2, <1>5, <1>7, <2>1 DEF Enabled
  <2>2. CASE ~haveThreads
    <3>1. "idle" \in ControllerSteps /\ Controller \in Actors  BY DEF ControllerSteps, Actors
    <3>2. /\ alive \subseteq alive'
          /\ \A l \in Loggers : pc'[l] # pc[l] => pc[l] = "absent" /\ pc'[l] = "born"
      BY <1>7, <2>2, <3>1, Starts, Apart DEF Enabled, Steps
    <3>3. QED  BY <1>1, <1>2, <1>7, <3>2 DEF Enabled
  <2>3. QED  BY <2>1, <2>2
<1>8. CASE Join
  <2>1. alive' = alive
    <3>1. \A l \in Loggers : ~isExited[l]  BY <1>0 DEF Running, ControlInv, Presence
    <3>2. QED  BY <1>8, <3>1 DEF Join, ControlInv, DataTypes
  <2>2. pc' = [p \in Actors |-> IF p = Controller THEN IF alive' = {} THEN "drain" ELSE "relock" ELSE pc[p]]
    BY <1>8, <2>1 DEF Join
  <2>3. \A l \in Loggers : pc'[l] = pc[l]  BY <2>2, Apart DEF Actors
  <2>4. QED  BY <1>1, <1>2, <1>8, <2>1, <2>3 DEF Join
<1>9. CASE Drain
  <2>1. CASE queue = <<>>  BY <1>1, <1>2, <1>5, <1>9, <2>1 DEF Drain, PutOut
  <2>2. CASE queue # <<>>  BY <1>0, <1>9, <2>2, DrainOrdered
  <2>3. QED  BY <2>1, <2>2
<1>10. CASE UNCHANGED vars  BY <1>1, <1>2, <1>10 DEF vars
<1>11. QED  BY <1>3, <1>4, <1>6, <1>7, <1>8, <1>9, <1>10 DEF Next, ControllerStep

\* If the threads are switched while nobody logs: as long as no logger was told to finish
\* the messages are written in the order in which they were logged, though several loggers
\* pull them from the queue, some push them back, and some fail to be started or written.
THEOREM OrderWhileRunning == QuietSwitch => (Spec => []InOrderWhileRunning)
<1>1. SUFFICES ASSUME QuietSwitch PROVE Spec => []InOrderWhileRunning  OBVIOUS
<1>2. OrderInv => InOrderWhileRunning
  BY <1>1 DEF OrderInv, Running, Ordered, InOrderWhileRunning
<1>3. Init => Quieted  BY <1>1, LogInit
<1>4. ControlInv /\ Quieted /\ [Next]_vars => Quieted'  BY <1>1, QuietNext
<1>5. ControlInv /\ MessageInv /\ Quieted /\ OrderInv /\ [Next]_vars => OrderInv'
  BY <1>1, OrderNext
<1>6. QED  BY <1>2, <1>3, <1>4, <1>5, LogInit, ControlNext, MessageNext, PTL DEF Spec
=============================================================================
