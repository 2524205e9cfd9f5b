---------------------------- MODULE RuntimeProofs ----------------------------
(***************************************************************************)
(* Proofs about Runtime, for every number of contexts, every finite set of *)
(* accessors and every bound on what is sent.                              *)
(*                                                                         *)
(* The argument: the counter is exactly the number of references, so a     *)
(* thread that takes it to zero knows there is none; no reference means    *)
(* that every thread waits on a channel nobody can send work to, and that  *)
(* no step but those of stopping is possible.                              *)
(***************************************************************************)
EXTENDS Runtime, FiniteSetTheorems, SequenceTheorems, TLAPS

------------------------------------------------------------------------------
(***************************************************************************)
(* The inductive invariant.                                                *)
(***************************************************************************)

\* Some thread has found the counter at zero, or has been told so.
Over == \E c \in Contexts : Leaving(c)

\* Which queues may hold something depends on where the thread is.
QueuesFitPc ==
  \A c \in Contexts :
    /\ pc[c] \in {"recv", "flush", "exited", "disconnected"} \cup Stopping
         => local_queue[c] = <<>>
    /\ pc[c] = "flush" => outbox[c] # <<>>
    /\ pc[c] \notin {"flush", "panicked"} => outbox[c] = <<>>
    /\ ~ Leaving(c) /\ pc[c] # "panicked" => next_link[c] = 1

\* No reference is left once the block is freed or a thread is stopping.
NothingLeft == freed \/ Over => References = {}

\* Stop is sent only when some thread is stopping.
StopMeansOver ==
  (\E c \in Contexts : \E i \in 1 .. Len(rx[c]) : rx[c][i] = Stop) => Over

\* A thread that still waits has its Stop, or will be sent it.
StopIsComing ==
  Over => \A d \in Contexts : pc[d] = "recv" =>
    \/ rx[d] # <<>>
    \/ \E c \in Contexts : /\ pc[c] \in Stopping
                           /\ \E k \in next_link[c] .. N - 1 : Links(c)[k] = d

\* A thread finds its channel disconnected only when the others panicked.
DisconnectedAlone ==
  (\E c \in Contexts : pc[c] = "disconnected") =>
     \A c \in Contexts : pc[c] \in {"panicked", "disconnected"}

IInv ==
  /\ Typed
  /\ IsFiniteSet(References) /\ CountExact
  /\ QueuesFitPc
  /\ NothingLeft
  /\ StopMeansOver
  /\ StopReachesWaitingThreads
  /\ StopIsComing
  /\ DisconnectedAlone

------------------------------------------------------------------------------
(***************************************************************************)
(* Types.                                                                  *)
(***************************************************************************)

\* Context::links leads to every context but its own: position k of Links(c)
\* is another context (mod.rs:122-133).
LEMMA LinksType ==
  ASSUME NEW c \in Contexts, NEW k \in DOMAIN Links(c)
  PROVE  /\ k \in 1 .. N - 1
         /\ Links(c)[k] \in Contexts
         /\ Links(c)[k] # c
BY NAssumption DEF Links, Contexts

\* ... and every other context is at some position.
LEMMA LinksOnto ==
  ASSUME NEW c \in Contexts, NEW d \in Contexts \ {c}
  PROVE  \E k \in 1 .. N - 1 : Links(c)[k] = d
<1>1. CASE d < c
  <2>1. d \in 1 .. N - 1
    BY <1>1, NAssumption DEF Contexts
  <2>2. Links(c)[d] = d
    BY <1>1, <2>1, NAssumption DEF Links, Contexts
  <2> QED BY <2>1, <2>2
<1>2. CASE d > c
  <2>1. d - 1 \in 1 .. N - 1
    BY <1>2, NAssumption DEF Contexts
  <2>2. Links(c)[d - 1] = d
    BY <1>2, <2>1, NAssumption DEF Links, Contexts
  <2> QED BY <2>1, <2>2
<1> QED BY <1>1, <1>2, NAssumption DEF Contexts

\* A message made by Msg is one.
LEMMA MsgType ==
  ASSUME Typed, NEW s \in Sources, NEW d \in Contexts
  PROVE  Msg(s, d) \in Message
BY DEF Typed, Msg, Message

\* Initially every variable has its type.
LEMMA TypedInit == Init => Typed
<1> SUFFICES ASSUME Init PROVE Typed
  OBVIOUS
<1>1. 1 \in Contexts /\ 1 \in 1 .. N /\ N \in Int
  BY NAssumption DEF Contexts
<1>2. /\ pc \in [Contexts -> Pcs]
      /\ next_link \in [Contexts -> 1 .. N]
      /\ unhandled_events \in Int
      /\ freed \in BOOLEAN
  BY <1>1 DEF Init, Pcs
<1>3. \A S : <<>> \in Seq(S)
  OBVIOUS
<1>4. /\ local_queue \in [Contexts -> Seq(Message)]
      /\ unsent_messages \in [Contexts -> Seq(Message)]
      /\ outbox \in [Contexts -> Seq(Message)]
      /\ rx \in [Contexts -> Seq(QueueItem)]
      /\ handled \in [Contexts -> SUBSET Message]
  BY <1>3 DEF Init
<1> QED
  BY <1>1, <1>2, <1>4 DEF Init, Typed

\* Sending from a constructor or a handler keeps the types.
LEMMA TypedPost ==
  ASSUME Typed, NEW c \in Contexts, NEW d \in Contexts, Post(c, d)
  PROVE  Typed'
<1>1. Msg(c, d) \in Message
  BY MsgType DEF Sources
<1>2. sent' \in [Sources -> Nat]
  BY DEF Post, Typed, Sources
<1>3. /\ Append(local_queue[c], Msg(c, d)) \in Seq(Message)
      /\ Append(unsent_messages[c], Msg(c, d)) \in Seq(Message)
  BY <1>1 DEF Typed
<1>4. /\ local_queue' \in [Contexts -> Seq(Message)]
      /\ unsent_messages' \in [Contexts -> Seq(Message)]
  <2>1. CASE d = c
    BY <1>3, <2>1 DEF Post, Typed
  <2>2. CASE d # c
    BY <1>3, <2>2 DEF Post, Typed
  <2> QED BY <2>1, <2>2
<1> QED
  BY <1>2, <1>4 DEF Post, Typed, block, access

\* Every step keeps the types.
LEMMA TypedStep ==
  ASSUME Typed, QueuesFitPc, [Next]_vars
  PROVE  Typed'
<1> USE NAssumption DEF queues, block, access
<1>1. ASSUME NEW c \in Contexts, NEW d \in Contexts, InitSendMsg(c, d) \/ SendMsg(c, d)
      PROVE  Typed'
  BY <1>1, TypedPost DEF InitSendMsg, SendMsg
<1>2. ASSUME NEW c \in Contexts, NEW d \in Contexts, NEW a \in Accessors, CreateAccessor(c, a, d)
      PROVE  Typed'
  BY <1>2 DEF Typed, CreateAccessor
<1>3. ASSUME NEW c \in Contexts, HandlerPanic(c) \/ Return(c) \/ FinishInit(c) \/ RecvDisconnected(c) \/ FlushPanic(c)
      PROVE  Typed'
  <2>1. pc' \in [Contexts -> Pcs]
    BY <1>3 DEF Typed, HandlerPanic, Return, FinishInit, RecvDisconnected, FlushPanic, Goto, Pcs
  <2>2. UNCHANGED <<queues, next_link, block, access, sent, handled>>
    BY <1>3 DEF HandlerPanic, Return, FinishInit, RecvDisconnected, FlushPanic
  <2> QED
    BY <2>1, <2>2 DEF Typed
<1>4. ASSUME NEW a \in Accessors, AccessorCount(a)
      PROVE  Typed'
  BY <1>4 DEF Typed, AccessorCount, SendReference
<1>5. ASSUME NEW a \in Accessors, AccessorPush(a)
      PROVE  Typed'
  <2>1. target[a] \in Contexts /\ a \in Sources
    BY DEF Typed, Sources
  <2>2. Msg(a, target[a]) \in QueueItem
    BY <2>1, MsgType DEF QueueItem
  <2>3. rx' \in [Contexts -> Seq(QueueItem)]
    BY <1>5, <2>1, <2>2 DEF Typed, AccessorPush
  <2>4. sent' \in [Sources -> Nat]
    BY <1>5, <2>1 DEF Typed, AccessorPush
  <2> QED
    BY <1>5, <2>3, <2>4 DEF Typed, AccessorPush
<1>6. ASSUME NEW a \in Accessors, AccessorDrop(a)
      PROVE  Typed'
  <2>1. rx' \in [Contexts -> Seq(QueueItem)]
    BY <1>6 DEF Typed, AccessorDrop, QueueItem
  <2> QED
    BY <1>6, <2>1 DEF Typed, AccessorDrop
<1>7. ASSUME NEW c \in Contexts, RecvLocal(c)
      PROVE  Typed'
  <2> DEFINE q == local_queue[c]
             k == NextLocal(q)
             r == [i \in 1 .. Len(q) - 1 |-> IF i < k THEN q[i] ELSE q[i + 1]]
  <2>1. q \in Seq(Message) /\ Len(q) \in Nat \ {0} /\ k \in 1 .. Len(q)
    BY <1>7 DEF Typed, RecvLocal, NextLocal
  <2>2. q[k] \in Message
    BY <2>1
  <2>3. r \in Seq(Message)
    <3>1. r \in [1 .. Len(q) - 1 -> Message]
      BY <2>1
    <3> QED
      BY <2>1, <3>1, SeqDef
  <2>4. local_queue' \in [Contexts -> Seq(Message)]
    BY <1>7, <2>3 DEF Typed, RecvLocal
  <2>5. handled' \in [Contexts -> SUBSET Message]
    BY <1>7, <2>2 DEF Typed, RecvLocal
  <2>6. pc' \in [Contexts -> Pcs]
    BY <1>7 DEF Typed, RecvLocal, Goto, Pcs
  <2> QED
    BY <1>7, <2>4, <2>5, <2>6 DEF Typed, RecvLocal
<1>8. ASSUME NEW c \in Contexts, IntoUnowned(c) \/ SettleNone(c)
      PROVE  Typed'
  <2>1. pc' \in [Contexts -> Pcs]
    BY <1>8 DEF Typed, IntoUnowned, SettleNone, Goto, Pcs, Stopping
  <2>2. freed' \in BOOLEAN
    BY <1>8 DEF Typed, IntoUnowned, SettleNone, WasLast
  <2> QED
    BY <1>8, <2>1, <2>2 DEF Typed, IntoUnowned, SettleNone
<1>9. ASSUME NEW c \in Contexts, NEW kind, TakeItem(c, kind)
      PROVE  /\ rx' \in [Contexts -> Seq(QueueItem)]
             /\ Head(rx[c]) \in QueueItem
             /\ UNCHANGED <<local_queue, unsent_messages, outbox>>
  BY <1>9 DEF Typed, TakeItem
<1>10. ASSUME NEW c \in Contexts, RecvMsg(c)
       PROVE  Typed'
  <2>1. TakeItem(c, "Msg")
    BY <1>10 DEF RecvMsg
  <2>2. Head(rx[c]) \in Message
    <3>1. Head(rx[c]) \in QueueItem
      BY <1>9, <2>1
    <3>2. Head(rx[c]).kind = "Msg"
      BY <2>1 DEF TakeItem
    <3> QED
      BY <3>1, <3>2 DEF QueueItem, AccessorDropped, Stop
  <2>3. handled' \in [Contexts -> SUBSET Message]
    BY <1>10, <2>2 DEF Typed, RecvMsg
  <2>4. pc' \in [Contexts -> Pcs]
    BY <1>10 DEF Typed, RecvMsg, Goto, Pcs
  <2> QED
    BY <1>9, <1>10, <2>1, <2>3, <2>4 DEF Typed, RecvMsg
<1>11. ASSUME NEW c \in Contexts, RecvAccessorDropped(c)
       PROVE  Typed'
  <2>1. TakeItem(c, "AccessorDropped")
    BY <1>11 DEF RecvAccessorDropped
  <2>2. pc' \in [Contexts -> Pcs]
    BY <1>11 DEF Typed, RecvAccessorDropped, Goto, Pcs, Stopping
  <2> QED
    BY <1>9, <1>11, <2>1, <2>2 DEF Typed, RecvAccessorDropped, AfterDrop
<1>12. ASSUME NEW c \in Contexts, RecvStop(c)
       PROVE  Typed'
  <2>1. TakeItem(c, "Stop")
    BY <1>12 DEF RecvStop
  <2>2. pc' \in [Contexts -> Pcs]
    BY <1>12 DEF Typed, RecvStop, Goto, Pcs
  <2> QED
    BY <1>9, <1>12, <2>1, <2>2 DEF Typed, RecvStop
<1>13. ASSUME NEW c \in Contexts, SettleOne(c)
       PROVE  Typed'
  BY <1>13 DEF Typed, SettleOne, Goto, Pcs
<1>14. ASSUME NEW c \in Contexts, SettleMany(c)
       PROVE  Typed'
  <2> DEFINE u == unsent_messages[c]
  <2>1. PICK p \in [DOMAIN u -> DOMAIN u] :
               outbox' = [outbox EXCEPT ![c] = [k \in DOMAIN u |-> u[p[k]]]]
    BY <1>14 DEF SettleMany
  <2>2. u \in Seq(Message) /\ DOMAIN u = 1 .. Len(u) /\ Len(u) \in Nat
    BY DEF Typed
  <2>3. [k \in DOMAIN u |-> u[p[k]]] \in Seq(Message)
    <3>1. [k \in DOMAIN u |-> u[p[k]]] \in [1 .. Len(u) -> Message]
      BY <2>2
    <3> QED
      BY <2>2, <3>1, SeqDef
  <2>4. outbox' \in [Contexts -> Seq(Message)]
    BY <2>1, <2>3 DEF Typed
  <2>5. unhandled_events' \in Int
    BY <1>14, <2>2 DEF Typed, SettleMany, FlushCredit
  <2>6. pc' \in [Contexts -> Pcs] /\ unsent_messages' \in [Contexts -> Seq(Message)]
    BY <1>14 DEF Typed, SettleMany, Goto, Pcs
  <2> QED
    BY <1>14, <2>4, <2>5, <2>6 DEF Typed, SettleMany
<1>15. ASSUME NEW c \in Contexts, Flush(c)
       PROVE  Typed'
  <2> DEFINE m == Head(outbox[c])
             d == Links(c)[LinkSlot(c, m.to)]
  <2>1. outbox[c] # <<>> /\ outbox[c] \in Seq(Message)
    BY <1>15 DEF QueuesFitPc, Flush, Typed
  <2>2. m \in QueueItem /\ Tail(outbox[c]) \in Seq(Message)
    BY <2>1 DEF QueueItem
  <2>3. d \in Contexts
    BY <1>15, LinksType DEF Flush, LinkWorks
  <2>4. rx' \in [Contexts -> Seq(QueueItem)]
    BY <1>15, <2>2, <2>3 DEF Typed, Flush
  <2>5. outbox' \in [Contexts -> Seq(Message)]
    BY <1>15, <2>2 DEF Typed, Flush
  <2>6. pc' \in [Contexts -> Pcs]
    BY <1>15 DEF Typed, Flush, Goto, Pcs
  <2> QED
    BY <1>15, <2>4, <2>5, <2>6 DEF Typed, Flush
<1>16. ASSUME NEW c \in Contexts, SendStop(c)
       PROVE  Typed'
  <2>1. next_link[c] \in DOMAIN Links(c)
    BY <1>16 DEF Typed, SendStop, Links
  <2>2. Links(c)[next_link[c]] \in Contexts
    BY <2>1, LinksType
  <2>3. rx' \in [Contexts -> Seq(QueueItem)]
    BY <1>16, <2>2 DEF Typed, SendStop, QueueItem
  <2>4. next_link' \in [Contexts -> 1 .. N]
    BY <1>16 DEF Typed, SendStop, NextLink
  <2>5. pc' \in [Contexts -> Pcs]
    BY <1>16 DEF Typed, SendStop, Goto, Pcs
  <2> QED
    BY <1>16, <2>3, <2>4, <2>5 DEF Typed, SendStop
<1>17. ASSUME NEW c \in Contexts, FinishStop(c)
       PROVE  Typed'
  BY <1>17 DEF Typed, FinishStop, Goto, Pcs
<1>18. CASE UNCHANGED vars
  BY <1>18 DEF Typed, vars
<1> QED
  BY <1>1, <1>2, <1>3, <1>4, <1>5, <1>6, <1>7, <1>8, <1>10, <1>11, <1>12, <1>13,
     <1>14, <1>15, <1>16, <1>17, <1>18 DEF Next, Thread, User, Holder

------------------------------------------------------------------------------
(***************************************************************************)
(* What a step does to each kind of reference.                             *)
(***************************************************************************)

\* The first field of a reference tells its kind, so the kinds are disjoint.
LEMMA Tags ==
  /\ \A x \in ThreadReferences : x[1] = "thread"
  /\ \A x \in BatchReferences : x[1] = "batch"
  /\ \A x \in QueueReferences : x[1] = "queue"
  /\ \A x \in AccessorReferences : x[1] = "accessor"
  /\ \A x \in SendReferences : x[1] = "send"
BY DEF ThreadReferences, BatchReferences, QueueReferences, AccessorReferences, SendReferences

\* A thread that moves without taking or giving up a reference.
LEMMA ThreadKeeps ==
  ASSUME Typed, NEW c \in Contexts, NEW l, Goto(c, l),
         HoldsReference(c)' <=> HoldsReference(c)
  PROVE  ThreadReferences' = ThreadReferences
<1>1. \A d \in Contexts : HoldsReference(d)' <=> HoldsReference(d)
  BY DEF Typed, Goto, HoldsReference
<1> QED
  BY <1>1 DEF ThreadReferences

\* A thread that takes a reference over.
LEMMA ThreadGains ==
  ASSUME Typed, NEW c \in Contexts, NEW l, Goto(c, l),
         HoldsReference(c)', ~ HoldsReference(c)
  PROVE  /\ ThreadReferences' = ThreadReferences \cup {<<"thread", c, 0>>}
         /\ <<"thread", c, 0>> \notin ThreadReferences
<1>1. \A d \in Contexts : HoldsReference(d)' <=> HoldsReference(d) \/ d = c
  BY DEF Typed, Goto, HoldsReference
<1> QED
  BY <1>1 DEF ThreadReferences

\* A thread that gives its reference up.
LEMMA ThreadLoses ==
  ASSUME Typed, NEW c \in Contexts, NEW l, Goto(c, l),
         ~ HoldsReference(c)', HoldsReference(c)
  PROVE  /\ ThreadReferences' = ThreadReferences \ {<<"thread", c, 0>>}
         /\ <<"thread", c, 0>> \in ThreadReferences
<1>1. \A d \in Contexts : HoldsReference(d)' <=> HoldsReference(d) /\ d # c
  BY DEF Typed, Goto, HoldsReference
<1> QED
  BY <1>1 DEF ThreadReferences

\* The first message of a batch is sent.
LEMMA BatchPop ==
  ASSUME Typed, NEW c \in Contexts, outbox[c] # <<>>,
         outbox' = [outbox EXCEPT ![c] = Tail(@)]
  PROVE  LET n == Len(outbox[c]) IN
         /\ n = 1 => BatchReferences' = BatchReferences
         /\ n # 1 => /\ BatchReferences' = BatchReferences \ {<<"batch", c, n>>}
                     /\ <<"batch", c, n>> \in BatchReferences
<1> DEFINE n == Len(outbox[c])
<1>1. n \in Nat \ {0} /\ Len(Tail(outbox[c])) = n - 1
  BY DEF Typed
<1>2. \A d \in Contexts : outbox'[d] = IF d = c THEN Tail(outbox[c]) ELSE outbox[d]
  BY DEF Typed
<1>3. \A d \in Contexts : \A i :
        i \in 2 .. Len(outbox'[d]) <=> i \in 2 .. Len(outbox[d]) /\ ~ (d = c /\ i = n)
  <2>1. 2 .. n - 1 = (2 .. n) \ {n}
    BY <1>1
  <2> QED BY <1>1, <1>2, <2>1
<1>4. BatchReferences' = BatchReferences \ {<<"batch", c, n>>}
  BY <1>3 DEF BatchReferences
<1>5. n = 1 => <<"batch", c, n>> \notin BatchReferences
  BY DEF BatchReferences
<1>6. n # 1 => <<"batch", c, n>> \in BatchReferences
  <2>1. \A k \in Nat \ {0} : k # 1 => k \in 2 .. k
    OBVIOUS
  <2>2. n # 1 => n \in 2 .. n
    <3> HIDE DEF n
    <3> QED BY <1>1, <2>1
  <2> QED BY <2>2 DEF BatchReferences
<1> QED
  BY <1>4, <1>5, <1>6

\* A batch is made: its messages but one bring a reference each.
LEMMA BatchFill ==
  ASSUME Typed, NEW c \in Contexts, outbox[c] = <<>>, NEW s \in Seq(Message),
         outbox' = [outbox EXCEPT ![c] = s]
  PROVE  LET new == {<<"batch", c, i>> : i \in 2 .. Len(s)} IN
         /\ BatchReferences' = BatchReferences \cup new
         /\ BatchReferences \cap new = {}
<1> DEFINE new == {<<"batch", c, i>> : i \in 2 .. Len(s)}
<1>1. \A d \in Contexts : outbox'[d] = IF d = c THEN s ELSE outbox[d]
  BY DEF Typed
<1>2. 2 .. Len(outbox[c]) = {}
  OBVIOUS
<1>3. BatchReferences' = BatchReferences \cup new
  BY <1>1, <1>2 DEF BatchReferences
<1>4. BatchReferences \cap new = {}
  BY <1>2 DEF BatchReferences
<1> QED
  BY <1>3, <1>4

\* An interval of references is as large as the interval.
LEMMA BatchSize ==
  ASSUME NEW c, NEW n \in Nat, n >= 2
  PROVE  LET new == {<<"batch", c, i>> : i \in 2 .. n} IN
         IsFiniteSet(new) /\ Cardinality(new) = n - 1
<1> DEFINE new == {<<"batch", c, i>> : i \in 2 .. n}
           f == [i \in 2 .. n |-> <<"batch", c, i>>]
<1>1. f \in Bijection(2 .. n, new)
  BY DEF Bijection, Injection, Surjection, IsInjective
<1>2. IsFiniteSet(2 .. n) /\ Cardinality(2 .. n) = n - 1
  BY FS_Interval
<1> QED
  BY <1>1, <1>2, FS_Bijection DEF ExistsBijection

\* The same for the threads.
LEMMA ThreadsSize ==
  LET all == {<<"thread", c, 0>> : c \in Contexts} IN
  IsFiniteSet(all) /\ Cardinality(all) = N
<1> DEFINE all == {<<"thread", c, 0>> : c \in Contexts}
           f == [c \in Contexts |-> <<"thread", c, 0>>]
<1>1. f \in Bijection(Contexts, all)
  BY DEF Bijection, Injection, Surjection, IsInjective
<1>2. IsFiniteSet(Contexts) /\ Cardinality(Contexts) = N
  BY FS_Interval, NAssumption DEF Contexts
<1> QED
  BY <1>1, <1>2, FS_Bijection DEF ExistsBijection

\* A counted item is queued.
LEMMA QueuePush ==
  ASSUME Typed, NEW d \in Contexts, NEW x \in QueueItem, x # Stop,
         rx' = [rx EXCEPT ![d] = Append(@, x)]
  PROVE  LET r == <<"queue", d, Len(rx[d]) + 1>> IN
         /\ QueueReferences' = QueueReferences \cup {r}
         /\ r \notin QueueReferences
<1> DEFINE n == Len(rx[d])
           r == <<"queue", d, n + 1>>
           Slots(q) == {j \in 1 .. Len(q) : q[j] # Stop}
<1>1. rx[d] \in Seq(QueueItem) /\ n \in Nat
  BY DEF Typed
<1>2. Slots(Append(rx[d], x)) = Slots(rx[d]) \cup {n + 1}
  <2>1. Len(Append(rx[d], x)) = n + 1
    BY <1>1
  <2>2. \A j \in 1 .. n : Append(rx[d], x)[j] = rx[d][j]
    BY <1>1
  <2>3. Append(rx[d], x)[n + 1] = x
    BY <1>1
  <2>4. 1 .. (n + 1) = (1 .. n) \cup {n + 1}
    BY <1>1
  <2> QED BY <2>1, <2>2, <2>3, <2>4
<1>3. \A c \in Contexts : rx'[c] = IF c = d THEN Append(rx[d], x) ELSE rx[c]
  BY DEF Typed
<1>4. QueueReferences' = QueueReferences \cup {r}
  <2>1. \A c \in Contexts : Slots(rx'[c]) = IF c = d THEN Slots(rx[d]) \cup {n + 1} ELSE Slots(rx[c])
    BY <1>2, <1>3
  <2>2. QueueReferences = UNION {{<<"queue", c, i>> : i \in Slots(rx[c])} : c \in Contexts}
    BY DEF QueueReferences
  <2>3. QueueReferences' = UNION {{<<"queue", c, i>> : i \in Slots(rx'[c])} : c \in Contexts}
    BY DEF QueueReferences
  <2> HIDE DEF Slots
  <2> QED BY <2>1, <2>2, <2>3
<1>5. r \notin QueueReferences
  <2>1. n + 1 \notin 1 .. n
    BY <1>1
  <2> QED BY <2>1 DEF QueueReferences
<1> QED
  BY <1>4, <1>5

\* A Stop is queued: it is not counted.
LEMMA QueuePushStop ==
  ASSUME Typed, NEW d \in Contexts, rx' = [rx EXCEPT ![d] = Append(@, Stop)]
  PROVE  QueueReferences' = QueueReferences
<1> DEFINE Slots(q) == {j \in 1 .. Len(q) : q[j] # Stop}
<1>1. rx[d] \in Seq(QueueItem) /\ Len(rx[d]) \in Nat
  BY DEF Typed
<1>2. Slots(Append(rx[d], Stop)) = Slots(rx[d])
  BY <1>1 DEF QueueItem
<1>3. \A c \in Contexts : rx'[c] = IF c = d THEN Append(rx[d], Stop) ELSE rx[c]
  BY DEF Typed
<1>4. \A c \in Contexts : Slots(rx'[c]) = Slots(rx[c])
  BY <1>2, <1>3
<1>5. QueueReferences = UNION {{<<"queue", c, i>> : i \in Slots(rx[c])} : c \in Contexts}
  BY DEF QueueReferences
<1>6. QueueReferences' = UNION {{<<"queue", c, i>> : i \in Slots(rx'[c])} : c \in Contexts}
  BY DEF QueueReferences
<1> HIDE DEF Slots
<1> QED
  BY <1>4, <1>5, <1>6

\* An item is taken while no Stop is about.
LEMMA QueuePop ==
  ASSUME Typed, NEW d \in Contexts, rx[d] # <<>>,
         \A c \in Contexts : \A i \in 1 .. Len(rx[c]) : rx[c][i] # Stop,
         rx' = [rx EXCEPT ![d] = Tail(@)]
  PROVE  LET r == <<"queue", d, Len(rx[d])>> IN
         /\ QueueReferences' = QueueReferences \ {r}
         /\ r \in QueueReferences
<1> DEFINE n == Len(rx[d])
           r == <<"queue", d, n>>
           Slots(q) == {j \in 1 .. Len(q) : q[j] # Stop}
<1>1. rx[d] \in Seq(QueueItem) /\ n \in Nat \ {0}
  BY DEF Typed
<1>2. /\ Len(Tail(rx[d])) = n - 1
      /\ \A j \in 1 .. n - 1 : Tail(rx[d])[j] = rx[d][j + 1]
  BY <1>1
<1>3. Slots(Tail(rx[d])) = 1 .. n - 1
  BY <1>1, <1>2
<1>4. Slots(rx[d]) = 1 .. n
  BY <1>1
<1>5. 1 .. n - 1 = (1 .. n) \ {n} /\ n \in 1 .. n
  BY <1>1
<1>6. \A c \in Contexts : rx'[c] = IF c = d THEN Tail(rx[d]) ELSE rx[c]
  BY DEF Typed
<1>7. \A c \in Contexts : Slots(rx'[c]) = IF c = d THEN Slots(rx[d]) \ {n} ELSE Slots(rx[c])
  BY <1>3, <1>4, <1>5, <1>6
<1>8. QueueReferences = UNION {{<<"queue", c, i>> : i \in Slots(rx[c])} : c \in Contexts}
  BY DEF QueueReferences
<1>9. QueueReferences' = UNION {{<<"queue", c, i>> : i \in Slots(rx'[c])} : c \in Contexts}
  BY DEF QueueReferences
<1>10. n \in Slots(rx[d])
  BY <1>4, <1>5
<1> HIDE DEF Slots
<1> QED
  BY <1>7, <1>8, <1>9, <1>10

\* An item is taken from channels that hold nothing but Stop.
LEMMA QueuePopStop ==
  ASSUME Typed, NEW d \in Contexts, rx[d] # <<>>, QueueReferences = {},
         rx' = [rx EXCEPT ![d] = Tail(@)]
  PROVE  QueueReferences' = {}
<1>1. \A c \in Contexts : \A i \in 1 .. Len(rx[c]) : rx[c][i] = Stop
  <2> SUFFICES ASSUME NEW c \in Contexts, NEW i \in 1 .. Len(rx[c]), rx[c][i] # Stop
               PROVE  FALSE
    OBVIOUS
  <2>1. <<"queue", c, i>> \in QueueReferences
    BY DEF QueueReferences
  <2> QED BY <2>1
<1>2. rx[d] \in Seq(QueueItem) /\ Len(rx[d]) \in Nat \ {0}
  BY DEF Typed
<1>3. \A i \in 1 .. Len(Tail(rx[d])) : Tail(rx[d])[i] = Stop
  BY <1>1, <1>2
<1>4. \A c \in Contexts : rx'[c] = IF c = d THEN Tail(rx[d]) ELSE rx[c]
  BY DEF Typed
<1>5. \A c \in Contexts : \A i \in 1 .. Len(rx'[c]) : rx'[c][i] = Stop
  BY <1>1, <1>3, <1>4
<1> QED
  BY <1>5 DEF QueueReferences

\* An accessor is made, sends, or goes.
LEMMA AccessorMoves ==
  ASSUME NEW a \in Accessors, \A b \in Accessors \ {a} : accessor'[b] = accessor[b]
  PROVE  LET r == <<"accessor", a, 0>>
             Has  == accessor[a] \notin {"unborn", "dropped"}
             Will == accessor'[a] \notin {"unborn", "dropped"}
         IN  /\ (Will <=> Has) => AccessorReferences' = AccessorReferences
             /\ Will /\ ~ Has => /\ AccessorReferences' = AccessorReferences \cup {r}
                               /\ r \notin AccessorReferences
             /\ ~ Will /\ Has => /\ AccessorReferences' = AccessorReferences \ {r}
                               /\ r \in AccessorReferences
BY DEF AccessorReferences

\* The same for the message it is about to send.
LEMMA SendMoves ==
  ASSUME NEW a \in Accessors, \A b \in Accessors \ {a} : accessor'[b] = accessor[b]
  PROVE  LET r == <<"send", a, 0>>
             Has  == accessor[a] \in {"sending", "send_failed"}
             Will == accessor'[a] \in {"sending", "send_failed"}
         IN  /\ (Will <=> Has) => SendReferences' = SendReferences
             /\ Will /\ ~ Has => /\ SendReferences' = SendReferences \cup {r}
                               /\ r \notin SendReferences
             /\ ~ Will /\ Has => /\ SendReferences' = SendReferences \ {r}
                               /\ r \in SendReferences
BY DEF SendReferences

------------------------------------------------------------------------------
(***************************************************************************)
(* The counter is exact.                                                   *)
(***************************************************************************)
Counted == IsFiniteSet(References) /\ CountExact

\* Neither the references nor the counter change.
LEMMA CountKept ==
  ASSUME Counted, References' = References, unhandled_events' = unhandled_events
  PROVE  Counted'
BY DEF Counted, CountExact

\* One reference more, and the counter is one higher.
LEMMA CountGained ==
  ASSUME Counted, NEW x, x \notin References, References' = References \cup {x},
         unhandled_events' = unhandled_events + 1
  PROVE  Counted'
BY FS_AddElement DEF Counted, CountExact

\* One reference less, and the counter is one lower.
LEMMA CountLost ==
  ASSUME Counted, NEW x \in References, References' = References \ {x},
         unhandled_events' = unhandled_events - 1
  PROVE  Counted'
BY FS_RemoveElement DEF Counted, CountExact

\* A reference passes from one place to another.
LEMMA CountPassed ==
  ASSUME Counted, NEW x \in References, NEW y, y \notin References,
         References' = (References \ {x}) \cup {y},
         unhandled_events' = unhandled_events
  PROVE  Counted'
<1>1. /\ IsFiniteSet(References \ {x})
      /\ Cardinality(References \ {x}) = Cardinality(References) - 1
  BY FS_RemoveElement DEF Counted
<1>2. /\ IsFiniteSet((References \ {x}) \cup {y})
      /\ Cardinality((References \ {x}) \cup {y}) = (Cardinality(References) - 1) + 1
  BY <1>1, FS_AddElement
<1>3. Cardinality(References) \in Nat
  BY FS_CardinalityType DEF Counted
<1> QED
  BY <1>2, <1>3 DEF Counted, CountExact

\* As long as there is a reference nobody has been told to stop, and the block
\* is there.
LEMMA WhileReferences ==
  ASSUME IInv, References # {}
  PROVE  /\ ~ freed /\ ~ Over
         /\ \A c \in Contexts : \A i \in 1 .. Len(rx[c]) : rx[c][i] # Stop
         /\ \A c \in Contexts : ~ Leaving(c)
BY DEF IInv, NothingLeft, StopMeansOver, Over

\* A thread at work has one.
LEMMA ThreadHasReference ==
  ASSUME NEW c \in Contexts, HoldsReference(c)
  PROVE  <<"thread", c, 0>> \in References
BY DEF References, ThreadReferences

\* So has an accessor that is not dropped,
LEMMA AccessorHasReference ==
  ASSUME NEW a \in Accessors, accessor[a] \notin {"unborn", "dropped"}
  PROVE  <<"accessor", a, 0>> \in References
BY DEF References, AccessorReferences

\* and an item at the head of a channel, unless it is Stop.
LEMMA ItemHasReference ==
  ASSUME Typed, NEW c \in Contexts, rx[c] # <<>>, Head(rx[c]) # Stop
  PROVE  <<"queue", c, 1>> \in References
<1>1. 1 \in 1 .. Len(rx[c]) /\ rx[c][1] # Stop
  BY DEF Typed
<1> QED
  BY <1>1 DEF References, QueueReferences

\* Initially every thread has its reference and there is no other.
LEMMA CountInit == Init => Counted
<1> SUFFICES ASSUME Init PROVE Counted
  OBVIOUS
<1>1. ThreadReferences = {<<"thread", c, 0>> : c \in Contexts}
  BY DEF Init, ThreadReferences, HoldsReference
<1>2. BatchReferences = {} /\ QueueReferences = {}
  BY DEF Init, BatchReferences, QueueReferences
<1>3. AccessorReferences = {} /\ SendReferences = {}
  BY DEF Init, AccessorReferences, SendReferences
<1>4. References = {<<"thread", c, 0>> : c \in Contexts}
  BY <1>1, <1>2, <1>3 DEF References
<1> QED
  BY <1>4, ThreadsSize DEF Counted, CountExact, Init

\* Every step keeps the counter exact: an action leaves the references alone,
\* makes one, drops one, or passes one on, and counts accordingly.
LEMMA CountStep ==
  ASSUME IInv, [Next]_vars
  PROVE  Counted'
<1> USE DEF queues, block, access
<1>0. Typed /\ QueuesFitPc /\ Counted /\ unhandled_events \in Int
  BY DEF IInv, Counted, Typed
<1>1. ASSUME UNCHANGED <<pc, outbox, rx, accessor, unhandled_events>>
      PROVE  Counted'
  <2>1. References' = References
    BY <1>1 DEF References, ThreadReferences, HoldsReference, BatchReferences,
                QueueReferences, AccessorReferences, SendReferences
  <2> QED BY <1>0, <1>1, <2>1, CountKept
<1>2. ASSUME NEW c \in Contexts, NEW l, Goto(c, l), HoldsReference(c)' <=> HoldsReference(c),
             UNCHANGED <<outbox, rx, accessor, unhandled_events>>
      PROVE  Counted'
  <2>1. ThreadReferences' = ThreadReferences
    BY <1>0, <1>2, ThreadKeeps
  <2>2. References' = References
    BY <1>2, <2>1 DEF References, BatchReferences, QueueReferences, AccessorReferences, SendReferences
  <2> QED BY <1>0, <1>2, <2>2, CountKept
<1>3. ASSUME NEW c \in Contexts, NEW d \in Contexts, InitSendMsg(c, d) \/ SendMsg(c, d)
      PROVE  Counted'
  BY <1>1, <1>3 DEF InitSendMsg, SendMsg, Post
<1>4. ASSUME NEW c \in Contexts, NEW d \in Contexts, NEW a \in Accessors, CreateAccessor(c, a, d)
      PROVE  Counted'
  <2> DEFINE r == <<"accessor", a, 0>>
  <2>1. /\ AccessorReferences' = AccessorReferences \cup {r}
        /\ SendReferences' = SendReferences
        /\ r \notin AccessorReferences
    <3>1. /\ accessor[a] = "unborn" /\ accessor'[a] = "live"
          /\ \A b \in Accessors \ {a} : accessor'[b] = accessor[b]
      BY <1>0, <1>4 DEF Typed, CreateAccessor
    <3> QED BY <3>1, AccessorMoves, SendMoves
  <2>2. References' = References \cup {r} /\ r \notin References
    BY <1>4, <2>1, Tags DEF CreateAccessor, References, ThreadReferences, HoldsReference,
                            BatchReferences, QueueReferences
  <2> QED BY <1>0, <1>4, <2>2, CountGained DEF CreateAccessor
<1>5. ASSUME NEW c \in Contexts, HandlerPanic(c) \/ Return(c) \/ FinishInit(c)
      PROVE  Counted'
  BY <1>0, <1>2, <1>5 DEF Typed, HandlerPanic, Return, FinishInit, Goto, HoldsReference
<1>6. ASSUME NEW c \in Contexts, RecvDisconnected(c) \/ FlushPanic(c) \/ RecvLocal(c)
      PROVE  Counted'
  BY <1>0, <1>2, <1>6 DEF Typed, RecvDisconnected, FlushPanic, RecvLocal, Goto, HoldsReference
<1>7. ASSUME NEW a \in Accessors, AccessorCount(a)
      PROVE  Counted'
  <2> DEFINE t == <<"send", a, 0>>
  <2>1. /\ AccessorReferences' = AccessorReferences
        /\ SendReferences' = SendReferences \cup {t}
        /\ t \notin SendReferences
    <3>1. /\ accessor[a] = "live" /\ accessor'[a] = "sending"
          /\ \A b \in Accessors \ {a} : accessor'[b] = accessor[b]
      BY <1>0, <1>7 DEF Typed, AccessorCount
    <3> QED BY <3>1, AccessorMoves, SendMoves
  <2>2. References' = References \cup {t} /\ t \notin References
    BY <1>7, <2>1, Tags DEF AccessorCount, References, ThreadReferences, HoldsReference,
                            BatchReferences, QueueReferences
  <2> QED BY <1>0, <1>7, <2>2, CountGained DEF AccessorCount, SendReference
<1>8. ASSUME NEW a \in Accessors, AccessorPush(a)
      PROVE  Counted'
  <2> DEFINE d == target[a]
             t == <<"send", a, 0>>
             r == <<"queue", d, Len(rx[d]) + 1>>
  <2>1. UNCHANGED <<pc, outbox, unhandled_events>> /\ d \in Contexts /\ a \in Sources
    BY <1>0, <1>8 DEF AccessorPush, Typed, Sources
  <2>2. ThreadReferences' = ThreadReferences /\ BatchReferences' = BatchReferences
    BY <2>1 DEF ThreadReferences, HoldsReference, BatchReferences
  <2>0. /\ accessor[a] = "sending"
        /\ accessor'[a] = IF Gone(d) THEN "send_failed" ELSE "live"
        /\ \A b \in Accessors \ {a} : accessor'[b] = accessor[b]
    BY <1>0, <1>8 DEF Typed, AccessorPush
  <2>3. AccessorReferences' = AccessorReferences
    BY <1>0, <2>0, AccessorMoves, SendMoves
  <2>4. CASE Gone(d)
    <3>1. SendReferences' = SendReferences /\ QueueReferences' = QueueReferences
      <4>1. QueueReferences' = QueueReferences
        BY <1>8, <2>4 DEF AccessorPush, QueueReferences
      <4> QED BY <1>0, <2>0, <2>4, <4>1, AccessorMoves, SendMoves
    <3>2. References' = References
      BY <2>2, <2>3, <3>1 DEF References
    <3> QED BY <1>0, <2>1, <3>2, CountKept
  <2>5. CASE ~ Gone(d)
    <3>1. SendReferences' = SendReferences \ {t} /\ t \in SendReferences
      BY <1>0, <2>0, <2>5, AccessorMoves, SendMoves
    <3>2. Msg(a, d) \in QueueItem /\ Msg(a, d) # Stop
      BY <1>0, <2>1, MsgType DEF QueueItem, Msg, Stop
    <3>3. QueueReferences' = QueueReferences \cup {r} /\ r \notin QueueReferences
      BY <1>0, <1>8, <2>1, <2>5, <3>2, QueuePush DEF AccessorPush
    <3>4. t \in References /\ r \notin References
      BY <3>1, <3>3, Tags DEF References
    <3>5. References' = (References \ {t}) \cup {r}
      BY <2>2, <2>3, <3>1, <3>3, Tags DEF References
    <3> QED BY <1>0, <2>1, <3>4, <3>5, CountPassed
  <2> QED BY <2>4, <2>5
<1>9. ASSUME NEW a \in Accessors, AccessorDrop(a)
      PROVE  Counted'
  <2> DEFINE d == target[a]
             t == <<"accessor", a, 0>>
             r == <<"queue", d, Len(rx[d]) + 1>>
  <2>1. UNCHANGED <<pc, outbox, unhandled_events>> /\ d \in Contexts
    BY <1>0, <1>9 DEF AccessorDrop, Typed
  <2>2. ThreadReferences' = ThreadReferences /\ BatchReferences' = BatchReferences
    BY <2>1 DEF ThreadReferences, HoldsReference, BatchReferences
  <2>0. /\ accessor[a] = "live"
        /\ accessor'[a] = IF Gone(d) THEN "drop_failed" ELSE "dropped"
        /\ \A b \in Accessors \ {a} : accessor'[b] = accessor[b]
    BY <1>0, <1>9 DEF Typed, AccessorDrop
  <2>3. SendReferences' = SendReferences
    BY <1>0, <2>0, AccessorMoves, SendMoves
  <2>4. CASE Gone(d)
    <3>1. AccessorReferences' = AccessorReferences /\ QueueReferences' = QueueReferences
      <4>1. QueueReferences' = QueueReferences
        BY <1>9, <2>4 DEF AccessorDrop, QueueReferences
      <4> QED BY <1>0, <2>0, <2>4, <4>1, AccessorMoves, SendMoves
    <3>2. References' = References
      BY <2>2, <2>3, <3>1 DEF References
    <3> QED BY <1>0, <2>1, <3>2, CountKept
  <2>5. CASE ~ Gone(d)
    <3>1. AccessorReferences' = AccessorReferences \ {t} /\ t \in AccessorReferences
      BY <1>0, <2>0, <2>5, AccessorMoves, SendMoves
    <3>2. AccessorDropped \in QueueItem /\ AccessorDropped # Stop
      BY DEF QueueItem, AccessorDropped, Stop
    <3>3. QueueReferences' = QueueReferences \cup {r} /\ r \notin QueueReferences
      BY <1>0, <1>9, <2>1, <2>5, <3>2, QueuePush DEF AccessorDrop
    <3>4. t \in References /\ r \notin References
      BY <3>1, <3>3, Tags DEF References
    <3>5. References' = (References \ {t}) \cup {r}
      BY <2>2, <2>3, <3>1, <3>3, Tags DEF References
    <3> QED BY <1>0, <2>1, <3>4, <3>5, CountPassed
  <2> QED BY <2>4, <2>5
<1>10. ASSUME NEW c \in Contexts, IntoUnowned(c) \/ SettleNone(c)
       PROVE  Counted'
  <2> DEFINE r == <<"thread", c, 0>>
  <2>1. /\ UNCHANGED <<outbox, rx, accessor>>
        /\ unhandled_events' = unhandled_events - 1
    BY <1>10 DEF IntoUnowned, SettleNone
  <2>2. ThreadReferences' = ThreadReferences \ {r} /\ r \in ThreadReferences
    <3>1. PICK l : Goto(c, l) /\ l \in {"recv", "stop_after_msg"}
      BY <1>10 DEF IntoUnowned, SettleNone
    <3>2. HoldsReference(c) /\ ~ HoldsReference(c)'
      BY <1>0, <1>10, <3>1 DEF Typed, IntoUnowned, SettleNone, Goto, HoldsReference
    <3> QED BY <1>0, <3>1, <3>2, ThreadLoses
  <2>3. References' = References \ {r} /\ r \in References
    BY <2>1, <2>2, Tags DEF References, BatchReferences, QueueReferences,
                            AccessorReferences, SendReferences
  <2> QED BY <1>0, <2>1, <2>3, CountLost
<1>11. ASSUME NEW c \in Contexts, RecvMsg(c)
       PROVE  Counted'
  <2> DEFINE r == <<"queue", c, Len(rx[c])>>
             t == <<"thread", c, 0>>
  <2>1. /\ UNCHANGED <<outbox, accessor, unhandled_events>>
        /\ rx[c] # <<>> /\ Head(rx[c]) # Stop /\ rx' = [rx EXCEPT ![c] = Tail(@)]
    BY <1>11 DEF RecvMsg, TakeItem, Stop
  <2>2. \A e \in Contexts : \A i \in 1 .. Len(rx[e]) : rx[e][i] # Stop
    BY <1>0, <2>1, ItemHasReference, WhileReferences
  <2>3. QueueReferences' = QueueReferences \ {r} /\ r \in QueueReferences
    BY <1>0, <2>1, <2>2, QueuePop
  <2>4. ThreadReferences' = ThreadReferences \cup {t} /\ t \notin ThreadReferences
    <3>1. Goto(c, "run") /\ ~ HoldsReference(c) /\ HoldsReference(c)'
      BY <1>0, <1>11 DEF Typed, RecvMsg, TakeItem, Goto, HoldsReference
    <3> QED BY <1>0, <3>1, ThreadGains
  <2>5. r \in References /\ t \notin References
    BY <2>3, <2>4, Tags DEF References
  <2>6. References' = (References \ {r}) \cup {t}
    BY <2>1, <2>3, <2>4, Tags DEF References, BatchReferences, AccessorReferences, SendReferences
  <2> QED BY <1>0, <2>1, <2>5, <2>6, CountPassed
<1>12. ASSUME NEW c \in Contexts, RecvAccessorDropped(c)
       PROVE  Counted'
  <2> DEFINE r == <<"queue", c, Len(rx[c])>>
  <2>1. /\ UNCHANGED <<outbox, accessor>> /\ unhandled_events' = unhandled_events - 1
        /\ rx[c] # <<>> /\ Head(rx[c]) # Stop /\ rx' = [rx EXCEPT ![c] = Tail(@)]
    BY <1>12 DEF RecvAccessorDropped, TakeItem, AfterDrop, Stop
  <2>2. \A e \in Contexts : \A i \in 1 .. Len(rx[e]) : rx[e][i] # Stop
    BY <1>0, <2>1, ItemHasReference, WhileReferences
  <2>3. QueueReferences' = QueueReferences \ {r} /\ r \in QueueReferences
    BY <1>0, <2>1, <2>2, QueuePop
  <2>4. ThreadReferences' = ThreadReferences
    <3>1. CASE UNCHANGED pc
      BY <3>1 DEF ThreadReferences, HoldsReference
    <3>2. CASE Goto(c, "stop_after_drop")
      BY <1>0, <1>12, <3>2, ThreadKeeps
         DEF Typed, RecvAccessorDropped, TakeItem, Goto, HoldsReference
    <3> QED BY <1>12, <3>1, <3>2 DEF RecvAccessorDropped
  <2>5. References' = References \ {r} /\ r \in References
    BY <2>1, <2>3, <2>4, Tags DEF References, BatchReferences, AccessorReferences, SendReferences
  <2> QED BY <1>0, <2>1, <2>5, CountLost
<1>13. ASSUME NEW c \in Contexts, RecvStop(c)
       PROVE  Counted'
  <2>1. /\ UNCHANGED <<outbox, accessor, unhandled_events>>
        /\ pc[c] = "recv" /\ rx[c] # <<>> /\ rx' = [rx EXCEPT ![c] = Tail(@)]
    BY <1>13 DEF RecvStop, TakeItem
  <2>2. References = {}
    <3>1. Head(rx[c]) \in QueueItem /\ Head(rx[c]).kind = "Stop"
      BY <1>0, <1>13, <2>1 DEF Typed, RecvStop, TakeItem
    <3>2. Head(rx[c]) = Stop
      BY <3>1 DEF QueueItem, Message, AccessorDropped, Stop
    <3>3. 1 \in 1 .. Len(rx[c]) /\ rx[c][1] = Stop
      BY <1>0, <2>1, <3>2 DEF Typed
    <3> QED BY <3>3, WhileReferences
  <2>3. QueueReferences' = {}
    BY <1>0, <2>1, <2>2, QueuePopStop DEF References
  <2>4. ThreadReferences' = ThreadReferences
    BY <1>0, <1>13, <2>1, ThreadKeeps DEF Typed, RecvStop, Goto, HoldsReference
  <2>5. References' = References
    BY <2>1, <2>2, <2>3, <2>4 DEF References, BatchReferences, AccessorReferences, SendReferences
  <2> QED BY <1>0, <2>1, <2>5, CountKept
<1>14. ASSUME NEW c \in Contexts, SettleOne(c)
       PROVE  Counted'
  <2>1. outbox[c] = <<>> /\ unsent_messages[c] \in Seq(Message) /\ Len(unsent_messages[c]) = 1
    BY <1>0, <1>14 DEF Typed, SettleOne, QueuesFitPc
  <2>2. BatchReferences' = BatchReferences
    <3> DEFINE new == {<<"batch", c, i>> : i \in 2 .. Len(unsent_messages[c])}
    <3>1. BatchReferences' = BatchReferences \cup new
      BY <1>0, <1>14, <2>1, BatchFill DEF SettleOne
    <3>2. new = {}
      BY <2>1
    <3> QED BY <3>1, <3>2
  <2>3. ThreadReferences' = ThreadReferences
    <3>1. Goto(c, "flush") /\ (HoldsReference(c)' <=> HoldsReference(c))
      BY <1>0, <1>14 DEF Typed, SettleOne, Goto, HoldsReference
    <3> QED BY <1>0, <3>1, ThreadKeeps
  <2>4. References' = References /\ unhandled_events' = unhandled_events
    BY <1>14, <2>2, <2>3 DEF SettleOne, References, QueueReferences, AccessorReferences, SendReferences
  <2> QED BY <1>0, <2>4, CountKept
<1>15. ASSUME NEW c \in Contexts, SettleMany(c)
       PROVE  Counted'
  <2> DEFINE u == unsent_messages[c]
             n == Len(u)
             new == {<<"batch", c, i>> : i \in 2 .. n}
  <2>1. outbox[c] = <<>> /\ u \in Seq(Message) /\ n \in Nat /\ n >= 2
    <3>1. outbox[c] = <<>>
      BY <1>0, <1>15 DEF SettleMany, QueuesFitPc
    <3>2. u \in Seq(Message) /\ n \in Nat
      BY <1>0 DEF Typed
    <3> QED BY <1>15, <3>1, <3>2 DEF SettleMany
  <2>2. PICK s : s \in Seq(Message) /\ Len(s) = n /\ outbox' = [outbox EXCEPT ![c] = s]
    <3>1. PICK p \in [DOMAIN u -> DOMAIN u] :
                 outbox' = [outbox EXCEPT ![c] = [k \in DOMAIN u |-> u[p[k]]]]
      BY <1>15 DEF SettleMany
    <3>2. [k \in DOMAIN u |-> u[p[k]]] \in [1 .. n -> Message]
      BY <2>1
    <3>3. [k \in DOMAIN u |-> u[p[k]]] \in Seq(Message)
      <4> HIDE DEF n
      <4> QED BY <2>1, <3>2, SeqDef
    <3>4. Len([k \in DOMAIN u |-> u[p[k]]]) = n
      BY <2>1, <3>2, <3>3
    <3> QED BY <3>1, <3>3, <3>4
  <2>3. BatchReferences' = BatchReferences \cup new /\ BatchReferences \cap new = {}
    BY <1>0, <2>1, <2>2, BatchFill
  <2>4. ThreadReferences' = ThreadReferences
    <3>1. Goto(c, "flush") /\ (HoldsReference(c)' <=> HoldsReference(c))
      BY <1>0, <1>15 DEF Typed, SettleMany, Goto, HoldsReference
    <3> QED BY <1>0, <3>1, ThreadKeeps
  <2>5. References' = References \cup new
    BY <1>15, <2>3, <2>4 DEF SettleMany, References, QueueReferences, AccessorReferences, SendReferences
  <2>6. References \cap new = {}
    BY <2>3, Tags DEF References
  <2>7. IsFiniteSet(new) /\ Cardinality(new) = n - 1
    BY <2>1, BatchSize
  <2>8. /\ IsFiniteSet(References')
        /\ Cardinality(References') = Cardinality(References) + (n - 1) - 0
    <3> HIDE DEF new
    <3>1. IsFiniteSet(References) /\ IsFiniteSet(new) /\ Cardinality(new) = n - 1
      BY <1>0, <2>7 DEF Counted
    <3>2. /\ IsFiniteSet(References \cup new)
          /\ Cardinality(References \cup new)
               = Cardinality(References) + Cardinality(new) - Cardinality(References \cap new)
      BY <3>1, FS_Union
    <3> QED BY <2>5, <2>6, <3>1, <3>2, FS_EmptySet
  <2>9. unhandled_events' = unhandled_events + (n - 1)
    BY <1>15 DEF SettleMany, FlushCredit
  <2>10. Cardinality(References) \in Nat
    BY <1>0, FS_CardinalityType DEF Counted
  <2> QED BY <1>0, <2>1, <2>8, <2>9, <2>10 DEF Counted, CountExact
<1>16. ASSUME NEW c \in Contexts, Flush(c)
       PROVE  Counted'
  <2> DEFINE m == Head(outbox[c])
             d == Links(c)[LinkSlot(c, m.to)]
             n == Len(outbox[c])
             r == <<"queue", d, Len(rx[d]) + 1>>
             x == IF n = 1 THEN <<"thread", c, 0>> ELSE <<"batch", c, n>>
  <2>1. outbox[c] # <<>> /\ outbox[c] \in Seq(Message) /\ m \in Message
    BY <1>0, <1>16 DEF QueuesFitPc, Flush, Typed
  <2>2. d \in Contexts
    BY <1>16, LinksType DEF Flush, LinkWorks
  <2>3. m \in QueueItem /\ m # Stop
    BY <2>1 DEF QueueItem, Message, Stop
  <2>4. QueueReferences' = QueueReferences \cup {r} /\ r \notin QueueReferences
    BY <1>0, <1>16, <2>2, <2>3, QueuePush DEF Flush
  <2>5. /\ n = 1 => BatchReferences' = BatchReferences
        /\ n # 1 => /\ BatchReferences' = BatchReferences \ {<<"batch", c, n>>}
                    /\ <<"batch", c, n>> \in BatchReferences
    BY <1>0, <1>16, <2>1, BatchPop DEF Flush
  <2>6. n = 1 => /\ ThreadReferences' = ThreadReferences \ {<<"thread", c, 0>>}
                 /\ <<"thread", c, 0>> \in ThreadReferences
    <3> SUFFICES ASSUME n = 1
                 PROVE  /\ ThreadReferences' = ThreadReferences \ {<<"thread", c, 0>>}
                        /\ <<"thread", c, 0>> \in ThreadReferences
      OBVIOUS
    <3>1. Goto(c, "recv") /\ HoldsReference(c) /\ ~ HoldsReference(c)'
      BY <1>0, <1>16 DEF Typed, Flush, Goto, HoldsReference
    <3> QED BY <1>0, <3>1, ThreadLoses
  <2>7. n # 1 => ThreadReferences' = ThreadReferences
    BY <1>16 DEF Flush, ThreadReferences, HoldsReference
  <2>8. UNCHANGED <<accessor, unhandled_events>>
    BY <1>16 DEF Flush
  <2>9. x \in References /\ r \notin References
    BY <2>4, <2>5, <2>6, Tags DEF References
  <2>10. References' = (References \ {x}) \cup {r}
    <3>1. AccessorReferences' = AccessorReferences /\ SendReferences' = SendReferences
      BY <2>8 DEF AccessorReferences, SendReferences
    <3>2. CASE n = 1
      BY <2>4, <2>5, <2>6, <3>1, <3>2, Tags DEF References
    <3>3. CASE n # 1
      BY <2>4, <2>5, <2>7, <3>1, <3>3, Tags DEF References
    <3> QED BY <3>2, <3>3
  <2> QED BY <1>0, <2>8, <2>9, <2>10, CountPassed
<1>17. ASSUME NEW c \in Contexts, SendStop(c)
       PROVE  Counted'
  <2> DEFINE d == Links(c)[next_link[c]]
  <2>1. d \in Contexts /\ ~ Gone(d)
    <3>1. next_link[c] \in DOMAIN Links(c) /\ next_link[c] \in next_link[c] .. N - 1
      BY <1>0, <1>17, NAssumption DEF Typed, SendStop, Links
    <3>2. pc[d] = "recv"
      BY <1>17, <3>1 DEF SendStop, IInv, StopReachesWaitingThreads
    <3> QED BY <3>1, <3>2, LinksType DEF Gone
  <2>2. QueueReferences' = QueueReferences
    BY <1>0, <1>17, <2>1, QueuePushStop DEF SendStop
  <2>3. UNCHANGED <<pc, outbox, accessor, unhandled_events>>
    BY <1>17, <2>1 DEF SendStop
  <2>4. References' = References
    BY <2>2, <2>3 DEF References, ThreadReferences, HoldsReference, BatchReferences,
                      AccessorReferences, SendReferences
  <2> QED BY <1>0, <2>3, <2>4, CountKept
<1>18. ASSUME NEW c \in Contexts, FinishStop(c)
       PROVE  Counted'
  BY <1>0, <1>2, <1>18 DEF Typed, FinishStop, Goto, HoldsReference, Stopping
<1>19. CASE UNCHANGED vars
  BY <1>1, <1>19 DEF vars
<1> QED
  BY <1>3, <1>4, <1>5, <1>6, <1>7, <1>8, <1>9, <1>10, <1>11, <1>12, <1>13, <1>14,
     <1>15, <1>16, <1>17, <1>18, <1>19 DEF Next, Thread, User, Holder

------------------------------------------------------------------------------
(***************************************************************************)
(* Stopping.                                                               *)
(***************************************************************************)

\* A Stop at the head of a channel means that some thread is stopping.
LEMMA StopAtHead ==
  ASSUME IInv, NEW c \in Contexts, TakeItem(c, "Stop")
  PROVE  Over
<1>1. rx[c] # <<>> /\ rx[c] \in Seq(QueueItem) /\ Head(rx[c]).kind = "Stop"
  BY DEF IInv, Typed, TakeItem
<1>2. Head(rx[c]) \in QueueItem
  BY <1>1
<1>3. Head(rx[c]) = Stop
  BY <1>1, <1>2 DEF QueueItem, Message, AccessorDropped, Stop
<1>4. 1 \in 1 .. Len(rx[c]) /\ rx[c][1] = Stop
  BY <1>1, <1>3
<1> QED
  BY <1>4 DEF IInv, StopMeansOver

\* With no reference left only the steps of stopping are possible.
LEMMA OnlyStopping ==
  ASSUME IInv, Next, References = {}
  PROVE  \E c \in Contexts : \/ RecvStop(c) \/ RecvDisconnected(c)
                            \/ SendStop(c) \/ FinishStop(c)
<1>1. \A c \in Contexts : ~ HoldsReference(c)
  BY ThreadHasReference
<1>2. \A a \in Accessors : accessor[a] \in {"unborn", "dropped"}
  BY AccessorHasReference
<1>3. Typed
  BY DEF IInv
<1>4. \A c \in Contexts : ~ TakeItem(c, "Msg") /\ ~ TakeItem(c, "AccessorDropped")
  BY <1>3, ItemHasReference DEF TakeItem, Stop
<1>5. \A a \in Accessors : ~ Holder(a)
  BY <1>2 DEF Holder, AccessorCount, AccessorPush, AccessorDrop
<1>6. \A c \in Contexts : ~ User(c)
  BY <1>1 DEF User, InitSendMsg, SendMsg, CreateAccessor, HandlerPanic, HoldsReference
<1>7. ASSUME NEW c \in Contexts, Thread(c)
      PROVE  RecvStop(c) \/ RecvDisconnected(c) \/ SendStop(c) \/ FinishStop(c)
  <2>1. ~ RecvMsg(c) /\ ~ RecvAccessorDropped(c)
    BY <1>4 DEF RecvMsg, RecvAccessorDropped
  <2>2. ~ FinishInit(c) /\ ~ RecvLocal(c) /\ ~ Return(c) /\ ~ IntoUnowned(c)
    BY <1>1 DEF FinishInit, RecvLocal, Return, IntoUnowned, HoldsReference
  <2>3. ~ SettleNone(c) /\ ~ SettleOne(c) /\ ~ SettleMany(c) /\ ~ Flush(c) /\ ~ FlushPanic(c)
    BY <1>1 DEF SettleNone, SettleOne, SettleMany, Flush, FlushPanic, HoldsReference
  <2> QED BY <1>7, <2>1, <2>2, <2>3 DEF Thread
<1> QED
  BY <1>5, <1>6, <1>7 DEF Next

\* The thread that is sent Stop is there to receive it.
LEMMA StopIsReceived ==
  ASSUME IInv, NEW c \in Contexts, SendStop(c)
  PROVE  LET d == Links(c)[next_link[c]] IN
         /\ next_link[c] \in 1 .. N - 1
         /\ d \in Contexts \ {c}
         /\ pc[d] = "recv" /\ rx[d] = <<>>
         /\ rx' = [rx EXCEPT ![d] = Append(@, Stop)]
         /\ next_link' = [next_link EXCEPT ![c] = @ + 1]
         /\ UNCHANGED <<pc, local_queue, outbox, unhandled_events, freed, accessor>>
<1> DEFINE d == Links(c)[next_link[c]]
<1>1. next_link[c] \in 1 .. N - 1 /\ next_link[c] \in next_link[c] .. N - 1
  BY NAssumption DEF IInv, Typed, SendStop
<1>2. next_link[c] \in DOMAIN Links(c)
  BY <1>1 DEF Links
<1>3. d \in Contexts \ {c}
  BY <1>2, LinksType
<1>4. pc[d] = "recv" /\ rx[d] = <<>>
  BY <1>1 DEF SendStop, IInv, StopReachesWaitingThreads
<1>5. ~ Gone(d)
  BY <1>4 DEF Gone
<1> QED
  BY <1>1, <1>3, <1>4, <1>5 DEF SendStop, NextLink, block, access

\* A thread that leaves goes on leaving.
LEMMA LeavingIsStable ==
  ASSUME IInv, Next, NEW e \in Contexts, Leaving(e)
  PROVE  Leaving(e)'
<1>1. References = {}
  BY DEF IInv, NothingLeft, Over
<1>2. PICK c \in Contexts : \/ RecvStop(c) \/ RecvDisconnected(c)
                           \/ SendStop(c) \/ FinishStop(c)
  BY <1>1, OnlyStopping
<1>3. CASE SendStop(c)
  BY <1>3, StopIsReceived DEF Leaving
<1>4. CASE RecvStop(c) \/ RecvDisconnected(c) \/ FinishStop(c)
  BY <1>4 DEF IInv, Typed, RecvStop, RecvDisconnected, FinishStop, TakeItem, Goto, Leaving, Stopping
<1> QED
  BY <1>2, <1>3, <1>4

\* The first thread to leave is one that took the counter to zero.
LEMMA FirstToLeave ==
  ASSUME IInv, Next, ~ Over, Over'
  PROVE  \E c \in Contexts :
           /\ SettleNone(c) \/ RecvAccessorDropped(c)
           /\ unhandled_events' = unhandled_events - 1 /\ unhandled_events <= 1
           /\ \E l \in Stopping : Goto(c, l)
<1> USE DEF queues, block, access
<1>1. \A c \in Contexts : ~ RecvStop(c)
  BY StopAtHead DEF RecvStop
<1>2. \A c \in Contexts : ~ SendStop(c) /\ ~ FinishStop(c)
  BY DEF SendStop, FinishStop, Over, Leaving
<1>3. Typed /\ \A e \in Contexts : ~ Leaving(e)
  BY DEF IInv, Over
<1>4. ASSUME UNCHANGED pc
      PROVE  FALSE
  BY <1>4 DEF Over, Leaving
<1>5. ASSUME NEW c \in Contexts, NEW l, l \notin Stopping \cup {"exited"}, Goto(c, l)
      PROVE  FALSE
  BY <1>3, <1>5 DEF Over, Leaving, Goto, Typed
<1>6. \A a \in Accessors : ~ Holder(a)
  BY <1>4 DEF Holder, AccessorCount, AccessorPush, AccessorDrop
<1>7. ASSUME NEW c \in Contexts, User(c)
      PROVE  FALSE
  BY <1>4, <1>5, <1>7 DEF User, InitSendMsg, SendMsg, Post, CreateAccessor, HandlerPanic, Stopping
<1>8. ASSUME NEW c \in Contexts, FinishInit(c) \/ RecvLocal(c) \/ Return(c) \/ IntoUnowned(c)
                                  \/ RecvMsg(c) \/ RecvDisconnected(c)
      PROVE  FALSE
  BY <1>5, <1>8 DEF FinishInit, RecvLocal, Return, IntoUnowned, RecvMsg, RecvDisconnected, Stopping
<1>9. ASSUME NEW c \in Contexts, SettleOne(c) \/ SettleMany(c) \/ Flush(c) \/ FlushPanic(c)
      PROVE  FALSE
  BY <1>4, <1>5, <1>9 DEF SettleOne, SettleMany, Flush, FlushPanic, Stopping
<1>10. ASSUME NEW c \in Contexts, SettleNone(c) \/ RecvAccessorDropped(c)
       PROVE  /\ unhandled_events' = unhandled_events - 1 /\ unhandled_events <= 1
              /\ \E l \in Stopping : Goto(c, l)
  BY <1>4, <1>5, <1>10 DEF SettleNone, RecvAccessorDropped, WasLast, AfterDrop, Stopping
<1> QED
  BY <1>1, <1>2, <1>6, <1>7, <1>8, <1>9, <1>10 DEF Next, Thread

\* A counter at zero means that there are no references.
LEMMA ZeroMeansNone ==
  ASSUME Counted, unhandled_events <= 0
  PROVE  References = {} /\ unhandled_events = 0
BY FS_CardinalityType, FS_EmptySet DEF Counted, CountExact

\* Nothing is left once a thread leaves or the block is freed.
LEMMA NothingLeftStep ==
  ASSUME IInv, Next, Counted'
  PROVE  NothingLeft'
<1> USE DEF queues, block, access
<1>1. Counted /\ Typed
  BY DEF IInv, Counted
<1>2. CASE References = {}
  <2>1. PICK c \in Contexts : \/ RecvStop(c) \/ RecvDisconnected(c)
                             \/ SendStop(c) \/ FinishStop(c)
    BY <1>2, OnlyStopping
  <2>2. UNCHANGED unhandled_events
    BY <2>1 DEF RecvStop, RecvDisconnected, SendStop, FinishStop
  <2>3. unhandled_events = 0
    BY <1>1, <1>2, FS_EmptySet DEF Counted, CountExact
  <2>4. References' = {}
    <3>1. Cardinality(References)' = 0 /\ IsFiniteSet(References)'
      BY <2>2, <2>3 DEF Counted, CountExact
    <3> QED BY <3>1, FS_EmptySet
  <2> QED BY <2>4 DEF NothingLeft
<1>3. CASE References # {}
  <2>1. ~ freed /\ ~ Over
    BY <1>3, WhileReferences
  <2>2. SUFFICES ASSUME freed' \/ Over'
                 PROVE  unhandled_events' <= 0
    <3>1. unhandled_events' <= 0 => References' = {}
      BY FS_CardinalityType, FS_EmptySet DEF Counted, CountExact
    <3> QED BY <3>1 DEF NothingLeft
  <2>3. CASE Over'
    BY <1>1, <2>1, <2>3, FirstToLeave DEF Typed
  <2>4. CASE freed'
    <3>1. \A c \in Contexts : ~ FinishStop(c)
      BY <2>1 DEF FinishStop, Over, Leaving
    <3>2. \A a \in Accessors : ~ Holder(a)
      BY <2>1, <2>4 DEF Holder, AccessorCount, AccessorPush, AccessorDrop
    <3>3. \A c \in Contexts : ~ User(c)
      BY <2>1, <2>4 DEF User, InitSendMsg, SendMsg, Post, CreateAccessor, HandlerPanic
    <3>4. ASSUME NEW c \in Contexts, Thread(c), ~ IntoUnowned(c)
          PROVE  FALSE
      BY <2>1, <2>4, <3>1, <3>4
         DEF Thread, FinishInit, RecvLocal, Return, RecvMsg, RecvAccessorDropped, RecvStop,
             RecvDisconnected, SettleNone, SettleOne, SettleMany, Flush, FlushPanic, SendStop
    <3>5. \E c \in Contexts : IntoUnowned(c)
      BY <3>2, <3>3, <3>4 DEF Next
    <3> QED BY <1>1, <2>1, <2>4, <3>5 DEF Typed, IntoUnowned, WasLast
  <2> QED BY <2>2, <2>3, <2>4
<1> QED
  BY <1>2, <1>3

\* Queues go on fitting the places of their threads.
LEMMA QueuesFitPcStep ==
  ASSUME Typed, QueuesFitPc, Typed', [Next]_vars,
         \A c \in Contexts : SendStop(c) => UNCHANGED pc
  PROVE  QueuesFitPc'
<1> USE DEF queues, block, access
<1> DEFINE Fits(c) ==
      /\ pc[c] \in {"recv", "flush", "exited", "disconnected"} \cup Stopping
           => local_queue[c] = <<>>
      /\ pc[c] = "flush" => outbox[c] # <<>>
      /\ pc[c] \notin {"flush", "panicked"} => outbox[c] = <<>>
      /\ ~ Leaving(c) /\ pc[c] # "panicked" => next_link[c] = 1
<1>0. \A c \in Contexts : Fits(c)
  BY DEF QueuesFitPc
<1>1. ASSUME UNCHANGED <<pc, local_queue, outbox, next_link>>
      PROVE  QueuesFitPc'
  BY <1>0, <1>1 DEF QueuesFitPc, Leaving
\* It is enough to look at the context that moves.
<1>2. ASSUME NEW c \in Contexts, Fits(c)',
             \A d \in Contexts \ {c} : /\ pc'[d] = pc[d] /\ local_queue'[d] = local_queue[d]
                                       /\ outbox'[d] = outbox[d] /\ next_link'[d] = next_link[d]
      PROVE  QueuesFitPc'
  <2>1. \A d \in Contexts \ {c} : Fits(d)'
    BY <1>0, <1>2 DEF Leaving
  <2> QED BY <1>2, <2>1 DEF QueuesFitPc
<1>3. \A a \in Accessors : Holder(a) => QueuesFitPc'
  BY <1>1 DEF Holder, AccessorCount, AccessorPush, AccessorDrop
<1>4. ASSUME NEW c \in Contexts, NEW d \in Contexts, InitSendMsg(c, d) \/ SendMsg(c, d)
      PROVE  QueuesFitPc'
  <2>1. pc[c] \in {"init", "first_run", "run"} /\ UNCHANGED <<pc, outbox, next_link>>
    BY <1>4 DEF InitSendMsg, SendMsg, Post
  <2>2. \A e \in Contexts \ {c} : local_queue'[e] = local_queue[e]
    BY <1>4 DEF InitSendMsg, SendMsg, Post, Typed
  <2>3. Fits(c)'
    BY <1>0, <2>1 DEF Leaving, Stopping
  <2> QED BY <1>2, <2>1, <2>2, <2>3
<1>5. ASSUME NEW c \in Contexts, NEW a \in Accessors, NEW d \in Contexts, CreateAccessor(c, a, d)
      PROVE  QueuesFitPc'
  BY <1>1, <1>5 DEF CreateAccessor
<1>6. ASSUME NEW c \in Contexts, HandlerPanic(c) \/ Return(c) \/ FinishInit(c)
      PROVE  QueuesFitPc'
  <2>1. /\ pc[c] \in {"init", "first_run", "run"} /\ UNCHANGED <<local_queue, outbox, next_link>>
        /\ \E l \in {"panicked", "first", "drain"} : Goto(c, l)
    BY <1>6 DEF HandlerPanic, Return, FinishInit
  <2>2. pc'[c] \in {"panicked", "first", "drain"} /\ \A d \in Contexts \ {c} : pc'[d] = pc[d]
    BY <2>1 DEF Goto, Typed
  <2>3. Fits(c)'
    BY <1>0, <2>1, <2>2 DEF Leaving, Stopping
  <2> QED BY <1>2, <2>1, <2>2, <2>3
<1>7. ASSUME NEW c \in Contexts, RecvLocal(c)
      PROVE  QueuesFitPc'
  <2>1. /\ pc[c] \in {"first", "drain"} /\ UNCHANGED <<outbox, next_link>>
        /\ \E l \in {"first_run", "run"} : Goto(c, l)
        /\ \A d \in Contexts \ {c} : local_queue'[d] = local_queue[d]
    BY <1>7 DEF RecvLocal, Typed
  <2>2. pc'[c] \in {"first_run", "run"} /\ \A d \in Contexts \ {c} : pc'[d] = pc[d]
    BY <2>1 DEF Goto, Typed
  <2>3. Fits(c)'
    BY <1>0, <2>1, <2>2 DEF Leaving, Stopping
  <2> QED BY <1>2, <2>1, <2>2, <2>3
<1>8. ASSUME NEW c \in Contexts, IntoUnowned(c) \/ SettleNone(c)
      PROVE  QueuesFitPc'
  <2>1. /\ pc[c] \in {"first", "drain"} /\ local_queue[c] = <<>>
        /\ UNCHANGED <<local_queue, outbox, next_link>>
        /\ \E l \in {"recv", "stop_after_msg"} : Goto(c, l)
    BY <1>8 DEF IntoUnowned, SettleNone
  <2>2. pc'[c] \in {"recv", "stop_after_msg"} /\ \A d \in Contexts \ {c} : pc'[d] = pc[d]
    BY <2>1 DEF Goto, Typed
  <2>3. Fits(c)'
    BY <1>0, <2>1, <2>2 DEF Leaving, Stopping
  <2> QED BY <1>2, <2>1, <2>2, <2>3
<1>9. ASSUME NEW c \in Contexts, RecvMsg(c) \/ RecvStop(c) \/ RecvDisconnected(c)
                                  \/ RecvAccessorDropped(c)
      PROVE  QueuesFitPc'
  <2>1. /\ pc[c] = "recv" /\ UNCHANGED <<local_queue, outbox, next_link>>
        /\ \/ UNCHANGED pc
           \/ \E l \in {"run", "exited", "disconnected", "stop_after_drop"} : Goto(c, l)
    BY <1>9 DEF RecvMsg, RecvStop, RecvDisconnected, RecvAccessorDropped, TakeItem
  <2>2. CASE UNCHANGED pc
    BY <1>1, <2>1, <2>2
  <2>3. CASE \E l \in {"run", "exited", "disconnected", "stop_after_drop"} : Goto(c, l)
    <3>1. /\ pc'[c] \in {"run", "exited", "disconnected", "stop_after_drop"}
          /\ \A d \in Contexts \ {c} : pc'[d] = pc[d]
      BY <2>3 DEF Goto, Typed
    <3>2. Fits(c)'
      BY <1>0, <2>1, <3>1 DEF Leaving, Stopping
    <3> QED BY <1>2, <2>1, <3>1, <3>2
  <2> QED BY <2>1, <2>2, <2>3
<1>10. ASSUME NEW c \in Contexts, SettleOne(c) \/ SettleMany(c)
       PROVE  QueuesFitPc'
  <2>1. /\ pc[c] = "drain" /\ local_queue[c] = <<>> /\ UNCHANGED <<local_queue, next_link>>
        /\ Goto(c, "flush")
        /\ \A d \in Contexts \ {c} : outbox'[d] = outbox[d]
    BY <1>10 DEF SettleOne, SettleMany, Typed
  <2>2. outbox'[c] # <<>>
    <3>1. CASE SettleOne(c)
      <4>1. outbox'[c] = unsent_messages[c] /\ Len(unsent_messages[c]) = 1
        BY <3>1 DEF SettleOne, Typed
      <4> QED BY <4>1
    <3>2. CASE SettleMany(c)
      <4> DEFINE u == unsent_messages[c]
      <4>1. u \in Seq(Message) /\ Len(u) >= 2
        BY <3>2 DEF SettleMany, Typed
      <4>2. PICK p \in [DOMAIN u -> DOMAIN u] :
                   outbox' = [outbox EXCEPT ![c] = [k \in DOMAIN u |-> u[p[k]]]]
        BY <3>2 DEF SettleMany
      <4>3. DOMAIN outbox'[c] = DOMAIN u
        BY <4>2 DEF Typed
      <4>4. 1 \in DOMAIN u /\ 1 \notin DOMAIN <<>>
        BY <4>1
      <4> QED BY <4>3, <4>4
    <3> QED BY <1>10, <3>1, <3>2
  <2>3. pc'[c] = "flush" /\ \A d \in Contexts \ {c} : pc'[d] = pc[d]
    BY <2>1 DEF Goto, Typed
  <2>4. Fits(c)'
    BY <1>0, <2>1, <2>2, <2>3 DEF Leaving, Stopping
  <2> QED BY <1>2, <2>1, <2>3, <2>4
<1>11. ASSUME NEW c \in Contexts, Flush(c)
       PROVE  QueuesFitPc'
  <2>1. /\ pc[c] = "flush" /\ UNCHANGED <<local_queue, next_link>>
        /\ outbox'[c] = Tail(outbox[c])
        /\ \A d \in Contexts \ {c} : outbox'[d] = outbox[d]
        /\ IF Len(outbox[c]) = 1 THEN Goto(c, "recv") ELSE UNCHANGED pc
    BY <1>11 DEF Flush, Typed
  <2>2. outbox[c] # <<>> /\ outbox[c] \in Seq(Message)
    BY <1>0, <2>1 DEF Typed
  <2>3. CASE Len(outbox[c]) = 1
    <3>1. outbox'[c] = <<>>
      <4>1. Tail(outbox[c]) \in Seq(Message) /\ Len(Tail(outbox[c])) = 0
        BY <2>2, <2>3
      <4> QED BY <2>1, <4>1, EmptySeq
    <3>2. pc'[c] = "recv" /\ \A d \in Contexts \ {c} : pc'[d] = pc[d]
      BY <2>1, <2>3 DEF Goto, Typed
    <3>3. Fits(c)'
      BY <1>0, <2>1, <3>1, <3>2 DEF Leaving, Stopping
    <3> QED BY <1>2, <2>1, <3>2, <3>3
  <2>4. CASE Len(outbox[c]) # 1
    <3>1. outbox'[c] # <<>>
      <4>1. Len(Tail(outbox[c])) = Len(outbox[c]) - 1 /\ Len(outbox[c]) \in Nat
        BY <2>2
      <4>2. Tail(outbox[c]) = <<>> => Len(Tail(outbox[c])) = 0
        <5>1. Len(<<>>) = 0
          BY EmptySeq
        <5> QED BY <5>1, Zenon
      <4> QED BY <2>1, <2>4, <4>1, <4>2
    <3>2. Fits(c)'
      BY <1>0, <2>1, <2>4, <3>1 DEF Leaving, Stopping
    <3> QED BY <1>2, <2>1, <2>4, <3>2
  <2> QED BY <2>3, <2>4
<1>12. ASSUME NEW c \in Contexts, FlushPanic(c) \/ FinishStop(c)
       PROVE  QueuesFitPc'
  <2>1. /\ pc[c] \in {"flush"} \cup Stopping /\ UNCHANGED <<local_queue, outbox, next_link>>
        /\ \/ FlushPanic(c) /\ Goto(c, "panicked")
           \/ FinishStop(c) /\ Goto(c, "exited")
    BY <1>12 DEF FlushPanic, FinishStop
  <2>2. /\ pc'[c] = "panicked" \/ (pc'[c] = "exited" /\ pc[c] \in Stopping)
        /\ \A d \in Contexts \ {c} : pc'[d] = pc[d]
    BY <2>1 DEF FinishStop, Goto, Typed
  <2>3. Fits(c)'
    BY <1>0, <2>1, <2>2 DEF Leaving, Stopping
  <2> QED BY <1>2, <2>1, <2>2, <2>3
<1>13. ASSUME NEW c \in Contexts, SendStop(c)
       PROVE  QueuesFitPc'
  <2>1. /\ pc[c] \in Stopping /\ UNCHANGED <<pc, local_queue, outbox>>
        /\ \A d \in Contexts \ {c} : next_link'[d] = next_link[d]
    BY <1>13 DEF SendStop, Typed
  <2>2. Fits(c)'
    BY <1>0, <2>1 DEF Leaving, Stopping
  <2> QED BY <1>2, <2>1, <2>2
<1>14. CASE UNCHANGED vars
  BY <1>1, <1>14 DEF vars
<1> QED
  BY <1>3, <1>4, <1>5, <1>6, <1>7, <1>8, <1>9, <1>10, <1>11, <1>12, <1>13, <1>14
     DEF Next, Thread, User

\* While nobody leaves nobody is sent Stop: only SendStop queues one.
LEMMA NoNewStop ==
  ASSUME IInv, Next, ~ Over
  PROVE  \A c \in Contexts : \A i \in 1 .. Len(rx'[c]) : rx'[c][i] # Stop
<1> USE DEF queues, block, access
<1>1. Typed /\ \A c \in Contexts : \A i \in 1 .. Len(rx[c]) : rx[c][i] # Stop
  BY DEF IInv, StopMeansOver
<1>2. ASSUME UNCHANGED rx
      PROVE  \A c \in Contexts : \A i \in 1 .. Len(rx'[c]) : rx'[c][i] # Stop
  BY <1>1, <1>2
<1>3. ASSUME NEW d \in Contexts, NEW x \in QueueItem, x # Stop,
             rx' = [rx EXCEPT ![d] = Append(@, x)]
      PROVE  \A c \in Contexts : \A i \in 1 .. Len(rx'[c]) : rx'[c][i] # Stop
  <2>1. rx[d] \in Seq(QueueItem) /\ Len(rx[d]) \in Nat
    BY <1>1 DEF Typed
  <2>2. \A i \in 1 .. Len(Append(rx[d], x)) : Append(rx[d], x)[i] # Stop
    BY <1>1, <1>3, <2>1
  <2>3. \A c \in Contexts : rx'[c] = IF c = d THEN Append(rx[d], x) ELSE rx[c]
    BY <1>1, <1>3 DEF Typed
  <2> QED BY <1>1, <2>2, <2>3
<1>4. ASSUME NEW d \in Contexts, NEW kind, TakeItem(d, kind)
      PROVE  \A c \in Contexts : \A i \in 1 .. Len(rx'[c]) : rx'[c][i] # Stop
  <2>1. rx[d] \in Seq(QueueItem) /\ rx[d] # <<>> /\ rx' = [rx EXCEPT ![d] = Tail(@)]
    BY <1>1, <1>4 DEF Typed, TakeItem
  <2>2. \A i \in 1 .. Len(Tail(rx[d])) : Tail(rx[d])[i] # Stop
    BY <1>1, <2>1
  <2>3. \A c \in Contexts : rx'[c] = IF c = d THEN Tail(rx[d]) ELSE rx[c]
    BY <1>1, <2>1 DEF Typed
  <2> QED BY <1>1, <2>2, <2>3
<1>5. ASSUME NEW a \in Accessors, Holder(a)
      PROVE  \A c \in Contexts : \A i \in 1 .. Len(rx'[c]) : rx'[c][i] # Stop
  <2> DEFINE d == target[a]
  <2>1. d \in Contexts /\ a \in Sources
    BY <1>1 DEF Typed, Sources
  <2>2. Msg(a, d) \in QueueItem /\ Msg(a, d) # Stop
    BY <1>1, <2>1, MsgType DEF QueueItem, Msg, Stop
  <2>3. AccessorDropped \in QueueItem /\ AccessorDropped # Stop
    BY DEF QueueItem, AccessorDropped, Stop
  <2>4. \/ UNCHANGED rx
        \/ rx' = [rx EXCEPT ![d] = Append(@, Msg(a, d))]
        \/ rx' = [rx EXCEPT ![d] = Append(@, AccessorDropped)]
    BY <1>5 DEF Holder, AccessorCount, AccessorPush, AccessorDrop
  <2>5. CASE rx' = [rx EXCEPT ![d] = Append(@, Msg(a, d))]
    BY <1>3, <2>1, <2>2, <2>5
  <2>6. CASE rx' = [rx EXCEPT ![d] = Append(@, AccessorDropped)]
    BY <1>3, <2>1, <2>3, <2>6
  <2> QED BY <1>2, <2>4, <2>5, <2>6
<1>6. ASSUME NEW c \in Contexts, User(c)
      PROVE  UNCHANGED rx
  BY <1>6 DEF User, InitSendMsg, SendMsg, Post, CreateAccessor, HandlerPanic
<1>7. ASSUME NEW c \in Contexts, RecvMsg(c) \/ RecvAccessorDropped(c) \/ RecvStop(c)
      PROVE  \E kind : TakeItem(c, kind)
  BY <1>7 DEF RecvMsg, RecvAccessorDropped, RecvStop
<1>8. ASSUME NEW c \in Contexts, Flush(c)
      PROVE  \A e \in Contexts : \A i \in 1 .. Len(rx'[e]) : rx'[e][i] # Stop
  <2> DEFINE m == Head(outbox[c])
             d == Links(c)[LinkSlot(c, m.to)]
  <2>1. m \in QueueItem /\ m # Stop
    <3>1. outbox[c] # <<>> /\ outbox[c] \in Seq(Message)
      BY <1>8 DEF IInv, QueuesFitPc, Flush, Typed
    <3>2. m \in Message
      BY <3>1
    <3> QED BY <3>2 DEF QueueItem, Message, Stop
  <2>2. d \in Contexts
    BY <1>8, LinksType DEF Flush, LinkWorks
  <2>3. rx' = [rx EXCEPT ![d] = Append(@, m)]
    BY <1>8 DEF Flush
  <2> QED BY <1>3, <2>1, <2>2, <2>3
<1>9. \A c \in Contexts : ~ SendStop(c)
  BY DEF SendStop, Over, Leaving
<1>10. ASSUME NEW c \in Contexts,
              FinishInit(c) \/ RecvLocal(c) \/ Return(c) \/ IntoUnowned(c) \/ RecvDisconnected(c)
                \/ SettleNone(c) \/ SettleOne(c) \/ SettleMany(c) \/ FlushPanic(c) \/ FinishStop(c)
       PROVE  UNCHANGED rx
  BY <1>10 DEF FinishInit, RecvLocal, Return, IntoUnowned, RecvDisconnected, SettleNone,
               SettleOne, SettleMany, FlushPanic, FinishStop
<1> QED
  BY <1>2, <1>4, <1>5, <1>6, <1>7, <1>8, <1>9, <1>10 DEF Next, Thread

\* Stop stays a sign of stopping.
LEMMA StopMeansOverStep ==
  ASSUME IInv, Next
  PROVE  StopMeansOver'
<1>1. CASE Over
  <2>1. Over'
    BY <1>1, LeavingIsStable DEF Over
  <2> QED BY <2>1 DEF StopMeansOver
<1>2. CASE ~ Over
  BY <1>2, NoNewStop DEF StopMeansOver
<1> QED
  BY <1>1, <1>2

\* When the first thread leaves, every other one waits on an empty channel.
LEMMA OthersWait ==
  ASSUME IInv, Next, ~ Over, Over', References' = {}
  PROVE  \E c \in Contexts :
           /\ pc'[c] \in Stopping /\ pc[c] \in {"drain", "recv"}
           /\ UNCHANGED next_link
           /\ \A d \in Contexts \ {c} : pc'[d] = "recv" /\ pc[d] = "recv" /\ rx'[d] = <<>>
<1>0. Typed /\ \A e \in Contexts : ~ Leaving(e)
  BY DEF IInv, Over
<1>1. PICK c \in Contexts : /\ SettleNone(c) \/ RecvAccessorDropped(c)
                          /\ \E l \in Stopping : Goto(c, l)
  BY FirstToLeave
<1>2. /\ pc[c] \in {"drain", "recv"} /\ UNCHANGED next_link
      /\ pc'[c] \in Stopping
      /\ \A d \in Contexts \ {c} : pc'[d] = pc[d]
  BY <1>0, <1>1 DEF Typed, SettleNone, RecvAccessorDropped, TakeItem, Goto
<1>3. ASSUME NEW d \in Contexts \ {c}
      PROVE  pc[d] = "recv" /\ pc'[d] = "recv" /\ rx'[d] = <<>>
  <2>1. ~ HoldsReference(d)'
    BY DEF References, ThreadReferences
  <2>2. pc[d] \notin {"init", "first", "first_run", "run", "drain", "flush", "panicked"}
    BY <1>2, <2>1 DEF HoldsReference
  <2>3. pc[d] \in Pcs /\ pc[d] \notin Stopping /\ pc[d] # "exited"
    BY <1>0 DEF Typed, Leaving
  <2>4. pc[d] # "disconnected"
    BY <1>2 DEF IInv, DisconnectedAlone
  <2>5. pc[d] = "recv"
    BY <2>2, <2>3, <2>4 DEF Pcs
  <2>6. \A i \in 1 .. Len(rx'[d]) : rx'[d][i] # Stop
    BY NoNewStop
  <2>7. \A i \in 1 .. Len(rx'[d]) : rx'[d][i] = Stop
    <3> SUFFICES ASSUME NEW i \in 1 .. Len(rx'[d]), rx'[d][i] # Stop
                 PROVE  FALSE
      OBVIOUS
    <3>1. <<"queue", d, i>> \in QueueReferences'
      BY DEF QueueReferences
    <3> QED BY <3>1 DEF References
  <2>8. rx'[d] \in Seq(QueueItem)
    BY <1>0, <1>1, TypedStep DEF IInv, Typed
  <2>9. rx'[d] = <<>>
    <3>1. 1 \notin 1 .. Len(rx'[d])
      BY <2>6, <2>7
    <3> QED BY <2>8, <3>1, EmptySeq
  <2> QED BY <1>2, <2>5, <2>9
<1> QED
  BY <1>2, <1>3

\* Distinct positions lead to distinct contexts.
LEMMA LinksInjective ==
  ASSUME NEW c \in Contexts, NEW j \in 1 .. N - 1, NEW k \in 1 .. N - 1, j < k
  PROVE  Links(c)[j] # Links(c)[k]
BY NAssumption DEF Links, Contexts

\* The threads still to be told to stop go on waiting.
LEMMA StopReachesStep ==
  ASSUME IInv, Next, NothingLeft'
  PROVE  StopReachesWaitingThreads'
<1> USE DEF queues, block, access
<1>0. Typed
  BY DEF IInv
<1>1. CASE ~ Over
  <2>1. SUFFICES ASSUME Over' PROVE StopReachesWaitingThreads'
    BY DEF StopReachesWaitingThreads, Over, Leaving
  <2>2. PICK c \in Contexts :
           \A d \in Contexts \ {c} : pc'[d] = "recv" /\ pc[d] = "recv" /\ rx'[d] = <<>>
    BY <1>1, <2>1, OthersWait DEF NothingLeft
  <2>3. ASSUME NEW e \in Contexts, pc'[e] \in Stopping
        PROVE  e = c
    BY <2>2, <2>3 DEF Stopping
  <2>4. next_link'[c] \in 1 .. N
    BY <1>0, TypedStep DEF IInv, Typed
  <2>5. \A k \in next_link'[c] .. N - 1 : Links(c)[k] \in Contexts \ {c}
    BY <2>4, LinksType, NAssumption DEF Links
  <2> QED BY <2>2, <2>3, <2>5 DEF StopReachesWaitingThreads
<1>2. CASE Over
  <2>1. References = {}
    BY <1>2 DEF IInv, NothingLeft
  <2>2. PICK c \in Contexts : \/ RecvStop(c) \/ RecvDisconnected(c)
                             \/ SendStop(c) \/ FinishStop(c)
    BY <2>1, OnlyStopping
  <2>3. \A e \in Contexts : \A k \in next_link[e] .. N - 1 :
          k \in 1 .. N - 1 /\ Links(e)[k] \in Contexts /\ Links(e)[k] # e
    <3>1. \A e \in Contexts : next_link[e] \in 1 .. N
      BY <1>0 DEF Typed
    <3> QED BY <3>1, LinksType, NAssumption DEF Links
  <2>4. ASSUME RecvStop(c) \/ RecvDisconnected(c) \/ FinishStop(c)
        PROVE  StopReachesWaitingThreads'
    <3>1. /\ pc'[c] \in {"exited", "disconnected"}
          /\ \A d \in Contexts \ {c} : pc'[d] = pc[d] /\ rx'[d] = rx[d]
          /\ UNCHANGED next_link
      BY <1>0, <2>4 DEF Typed, RecvStop, RecvDisconnected, FinishStop, TakeItem, Goto
    <3>2. \A e \in Contexts \ {c} : pc[e] \in Stopping =>
            \A k \in next_link[e] .. N - 1 : Links(e)[k] # c
      <4>1. CASE RecvStop(c)
        BY <4>1 DEF IInv, StopReachesWaitingThreads, RecvStop, TakeItem
      <4>2. CASE RecvDisconnected(c)
        BY <4>2 DEF RecvDisconnected, Gone, Stopping
      <4>3. CASE FinishStop(c)
        BY <4>3 DEF IInv, StopReachesWaitingThreads, FinishStop
      <4> QED BY <2>4, <4>1, <4>2, <4>3
    <3>3. ASSUME NEW e \in Contexts, pc'[e] \in Stopping
          PROVE  /\ e # c /\ pc[e] \in Stopping
                 /\ \A d \in Contexts \ {e} : pc'[d] \notin Stopping
                 /\ \A k \in next_link'[e] .. N - 1 :
                      pc'[Links(e)[k]] = "recv" /\ rx'[Links(e)[k]] = <<>>
      <4>1. e # c /\ pc[e] \in Stopping
        BY <3>1, <3>3 DEF Stopping
      <4>2. \A d \in Contexts \ {e} : pc'[d] \notin Stopping
        BY <3>1, <4>1 DEF IInv, StopReachesWaitingThreads, Stopping
      <4>3. \A k \in next_link[e] .. N - 1 : Links(e)[k] \in Contexts \ {c}
        BY <2>3, <3>2, <4>1
      <4> QED BY <3>1, <4>1, <4>2, <4>3 DEF IInv, StopReachesWaitingThreads
    <3> QED BY <3>3 DEF StopReachesWaitingThreads
  <2>5. ASSUME SendStop(c)
        PROVE  StopReachesWaitingThreads'
    <3> DEFINE d == Links(c)[next_link[c]]
    <3>1. /\ next_link[c] \in 1 .. N - 1 /\ d \in Contexts
          /\ rx' = [rx EXCEPT ![d] = Append(@, Stop)]
          /\ next_link' = [next_link EXCEPT ![c] = @ + 1]
          /\ UNCHANGED pc
      BY <2>5, StopIsReceived
    <3>2. pc[c] \in Stopping
      BY <2>5 DEF SendStop
    <3>3. \A e \in Contexts \ {c} : pc[e] \notin Stopping
      BY <3>2 DEF IInv, StopReachesWaitingThreads
    <3>4. next_link'[c] = next_link[c] + 1
      BY <1>0, <3>1 DEF Typed
    <3>5. ASSUME NEW k \in next_link'[c] .. N - 1
          PROVE  pc'[Links(c)[k]] = "recv" /\ rx'[Links(c)[k]] = <<>>
      <4>1. k \in next_link[c] .. N - 1 /\ k \in 1 .. N - 1 /\ next_link[c] < k
        BY <3>1, <3>4, NAssumption
      <4>2. Links(c)[k] # d /\ Links(c)[k] \in Contexts
        BY <2>3, <3>1, <4>1, LinksInjective
      <4>3. pc[Links(c)[k]] = "recv" /\ rx[Links(c)[k]] = <<>>
        BY <3>2, <4>1 DEF IInv, StopReachesWaitingThreads
      <4> QED BY <1>0, <3>1, <4>2, <4>3 DEF Typed
    <3> QED BY <3>1, <3>3, <3>5 DEF StopReachesWaitingThreads
  <2> QED BY <2>2, <2>4, <2>5
<1> QED
  BY <1>1, <1>2

\* No thread is forgotten: Stop is in its channel or on its way.
LEMMA StopIsComingStep ==
  ASSUME IInv, Next, NothingLeft'
  PROVE  StopIsComing'
<1> USE DEF queues, block, access
<1>0. Typed
  BY DEF IInv
<1> DEFINE ToCome(d) == \E c \in Contexts : /\ pc[c] \in Stopping
                                           /\ \E k \in next_link[c] .. N - 1 : Links(c)[k] = d
<1>1. CASE ~ Over
  <2>1. SUFFICES ASSUME Over' PROVE StopIsComing'
    BY DEF StopIsComing
  <2>2. PICK c \in Contexts : pc'[c] \in Stopping /\ pc[c] \in {"drain", "recv"} /\ UNCHANGED next_link
    BY <1>1, <2>1, OthersWait DEF NothingLeft
  <2>3. next_link'[c] = 1
    BY <2>2 DEF IInv, QueuesFitPc, Leaving, Stopping
  <2>4. ASSUME NEW d \in Contexts, pc'[d] = "recv"
        PROVE  \E k \in next_link'[c] .. N - 1 : Links(c)[k] = d
    BY <2>2, <2>3, <2>4, LinksOnto DEF Stopping
  <2> QED BY <2>2, <2>4 DEF StopIsComing
<1>2. CASE Over
  <2>1. References = {}
    BY <1>2 DEF IInv, NothingLeft
  <2>2. PICK c \in Contexts : \/ RecvStop(c) \/ RecvDisconnected(c)
                             \/ SendStop(c) \/ FinishStop(c)
    BY <2>1, OnlyStopping
  <2>3. \A d \in Contexts : pc[d] = "recv" => rx[d] # <<>> \/ ToCome(d)
    BY <1>2 DEF IInv, StopIsComing
  <2>4. ASSUME RecvStop(c) \/ RecvDisconnected(c) \/ FinishStop(c)
        PROVE  StopIsComing'
    <3>1. /\ pc'[c] \in {"exited", "disconnected"}
          /\ \A d \in Contexts \ {c} : pc'[d] = pc[d] /\ rx'[d] = rx[d]
          /\ UNCHANGED next_link
      BY <1>0, <2>4 DEF Typed, RecvStop, RecvDisconnected, FinishStop, TakeItem, Goto
    <3>2. pc[c] \in Stopping => next_link[c] = N
      BY <2>4 DEF RecvStop, RecvDisconnected, FinishStop, TakeItem, Stopping
    <3>3. pc[c] \in Stopping => next_link[c] .. N - 1 = {}
      BY <3>2, NAssumption
    <3>4. ASSUME NEW d \in Contexts, pc'[d] = "recv"
          PROVE  rx'[d] # <<>> \/ ToCome(d)'
      <4>1. d # c /\ pc[d] = "recv" /\ rx'[d] = rx[d]
        BY <3>1, <3>4
      <4>2. ASSUME ToCome(d)
            PROVE  ToCome(d)'
        <5>1. PICK e \in Contexts : /\ pc[e] \in Stopping
                                  /\ \E k \in next_link[e] .. N - 1 : Links(e)[k] = d
          BY <4>2
        <5>2. e # c
          BY <3>3, <5>1
        <5> QED BY <3>1, <5>1, <5>2
      <4> QED BY <2>3, <4>1, <4>2
    <3> QED BY <3>4 DEF StopIsComing
  <2>5. ASSUME SendStop(c)
        PROVE  StopIsComing'
    <3> DEFINE t == Links(c)[next_link[c]]
    <3>1. /\ next_link[c] \in 1 .. N - 1 /\ t \in Contexts
          /\ rx' = [rx EXCEPT ![t] = Append(@, Stop)]
          /\ next_link' = [next_link EXCEPT ![c] = @ + 1]
          /\ UNCHANGED pc
      BY <2>5, StopIsReceived
    <3>2. Append(rx[t], Stop) # <<>>
      <4>1. rx[t] \in Seq(QueueItem) /\ Stop \in QueueItem
        BY <1>0, <3>1 DEF Typed, QueueItem
      <4> QED BY <4>1
    <3>3. ASSUME NEW d \in Contexts, pc'[d] = "recv"
          PROVE  rx'[d] # <<>> \/ ToCome(d)'
      <4>1. CASE d = t
        BY <1>0, <3>1, <3>2, <4>1 DEF Typed
      <4>2. CASE d # t /\ rx[d] # <<>>
        BY <1>0, <3>1, <4>2 DEF Typed
      <4>3. CASE d # t /\ rx[d] = <<>>
        <5>0. PICK e \in Contexts : /\ pc[e] \in Stopping
                                  /\ \E k \in next_link[e] .. N - 1 : Links(e)[k] = d
          BY <2>3, <3>1, <3>3, <4>3
        <5>1. PICK k \in next_link[e] .. N - 1 : pc[e] \in Stopping /\ Links(e)[k] = d
          BY <5>0
        <5>2. k \in next_link'[e] .. N - 1
          <6>1. CASE e = c
            <7>1. k # next_link[c]
              BY <4>3, <5>1, <6>1
            <7>2. next_link'[c] = next_link[c] + 1
              BY <1>0, <3>1 DEF Typed
            <7> QED BY <3>1, <6>1, <7>1, <7>2
          <6>2. CASE e # c
            BY <1>0, <3>1, <6>2 DEF Typed
          <6> QED BY <6>1, <6>2
        <5> QED BY <3>1, <5>1, <5>2
      <4> QED BY <4>1, <4>2, <4>3
    <3> QED BY <3>3 DEF StopIsComing
  <2> QED BY <2>2, <2>4, <2>5
<1> QED
  BY <1>1, <1>2

\* The only step by which a thread becomes disconnected.
LEMMA Disconnects ==
  ASSUME Typed, Next, \A c \in Contexts : pc[c] # "disconnected",
         NEW c \in Contexts, pc'[c] = "disconnected"
  PROVE  \E e \in Contexts : RecvDisconnected(e)
<1> USE DEF queues, block, access
<1>1. ASSUME NEW e \in Contexts, NEW l, l # "disconnected", Goto(e, l)
      PROVE  FALSE
  BY <1>1 DEF Typed, Goto
<1>2. ASSUME UNCHANGED pc
      PROVE  FALSE
  BY <1>2
<1>3. \A a \in Accessors : ~ Holder(a)
  BY <1>2 DEF Holder, AccessorCount, AccessorPush, AccessorDrop
<1>4. \A e \in Contexts : ~ User(e)
  BY <1>1, <1>2 DEF User, InitSendMsg, SendMsg, Post, CreateAccessor, HandlerPanic
<1>5. \A e \in Contexts : ~ FinishInit(e) /\ ~ RecvLocal(e) /\ ~ Return(e) /\ ~ IntoUnowned(e)
  BY <1>1 DEF FinishInit, RecvLocal, Return, IntoUnowned
<1>6. \A e \in Contexts : ~ RecvMsg(e) /\ ~ RecvAccessorDropped(e) /\ ~ RecvStop(e)
  BY <1>1, <1>2 DEF RecvMsg, RecvAccessorDropped, RecvStop
<1>7. \A e \in Contexts : ~ SettleNone(e) /\ ~ SettleOne(e) /\ ~ SettleMany(e)
  BY <1>1 DEF SettleNone, SettleOne, SettleMany
<1>8. \A e \in Contexts : ~ Flush(e) /\ ~ FlushPanic(e) /\ ~ SendStop(e) /\ ~ FinishStop(e)
  BY <1>1, <1>2 DEF Flush, FlushPanic, SendStop, FinishStop
<1> QED BY <1>3, <1>4, <1>5, <1>6, <1>7, <1>8 DEF Next, Thread

\* A thread that finds its channel disconnected is among the panicked.
LEMMA DisconnectedAloneStep ==
  ASSUME IInv, Next
  PROVE  DisconnectedAlone'
<1> USE DEF queues, block, access
<1> DEFINE Dead(c) == pc[c] \in {"panicked", "disconnected"}
<1>0. Typed
  BY DEF IInv
<1>1. CASE \E c \in Contexts : pc[c] = "disconnected"
  <2>1. \A c \in Contexts : Dead(c)
    BY <1>1 DEF IInv, DisconnectedAlone
  <2>2. \A c \in Contexts : ~ User(c)
    BY <2>1 DEF User, InitSendMsg, SendMsg, CreateAccessor, HandlerPanic
  <2>3. \A c \in Contexts : ~ Thread(c)
    BY <2>1 DEF Thread, FinishInit, RecvLocal, Return, IntoUnowned, RecvMsg, RecvAccessorDropped,
                RecvStop, TakeItem, RecvDisconnected, SettleNone, SettleOne, SettleMany, Flush,
                FlushPanic, SendStop, FinishStop, Stopping
  <2>4. UNCHANGED pc
    BY <2>2, <2>3 DEF Next, Holder, AccessorCount, AccessorPush, AccessorDrop
  <2> QED BY <2>1, <2>4 DEF DisconnectedAlone
<1>2. CASE \A c \in Contexts : pc[c] # "disconnected"
  <2> SUFFICES ASSUME NEW c \in Contexts, pc'[c] = "disconnected"
               PROVE  \A d \in Contexts : Dead(d)'
    BY DEF DisconnectedAlone
  <2>9. PICK e \in Contexts : RecvDisconnected(e)
    BY <1>0, <1>2, Disconnects
  <2>10. \A d \in Contexts : pc'[d] = IF d = e THEN "disconnected" ELSE pc[d]
    BY <1>0, <2>9 DEF Typed, RecvDisconnected, Goto
  <2>11. \A d \in Contexts \ {e} : pc[d] # "exited"
    <3>1. SUFFICES ASSUME Over PROVE FALSE
      BY DEF Over, Leaving
    <3>2. PICK d \in Contexts : pc[d] \in Stopping /\ \E k \in next_link[d] .. N - 1 : Links(d)[k] = e
      BY <2>9, <3>1 DEF IInv, StopIsComing, RecvDisconnected
    <3> QED BY <2>9, <3>2 DEF RecvDisconnected, Gone, Stopping
  <2>12. \A d \in Contexts \ {e} : Dead(d)
    BY <2>9, <2>11 DEF RecvDisconnected, Gone
  <2> QED BY <2>10, <2>12
<1> QED
  BY <1>1, <1>2

------------------------------------------------------------------------------
(***************************************************************************)
(* The inductive invariant holds.                                          *)
(***************************************************************************)

\* It holds to begin with.
LEMMA InvariantInit == Init => IInv
<1> SUFFICES ASSUME Init PROVE IInv
  OBVIOUS
<1>1. Typed
  BY TypedInit
<1>2. IsFiniteSet(References) /\ CountExact
  BY CountInit DEF Counted
<1>3. ~ Over /\ ~ freed
  BY DEF Init, Over, Leaving, Stopping
<1>4. QueuesFitPc
  BY DEF Init, QueuesFitPc, Stopping
<1>5. NothingLeft /\ StopIsComing
  BY <1>3 DEF NothingLeft, StopIsComing
<1>6. StopMeansOver
  BY DEF Init, StopMeansOver
<1>7. StopReachesWaitingThreads /\ DisconnectedAlone
  BY DEF Init, StopReachesWaitingThreads, DisconnectedAlone, Stopping
<1> QED
  BY <1>1, <1>2, <1>4, <1>5, <1>6, <1>7 DEF IInv

\* Every step keeps it.
LEMMA InvariantStep == IInv /\ [Next]_vars => IInv'
<1> SUFFICES ASSUME IInv, [Next]_vars PROVE IInv'
  OBVIOUS
<1>1. CASE Next
  <2>1. Typed'
    BY <1>1, TypedStep DEF IInv
  <2>2. Counted'
    BY <1>1, CountStep
  <2>3. NothingLeft'
    BY <1>1, <2>2, NothingLeftStep
  <2>4. \A c \in Contexts : SendStop(c) => UNCHANGED pc
    BY StopIsReceived
  <2>5. QueuesFitPc'
    BY <1>1, <2>1, <2>4, QueuesFitPcStep DEF IInv
  <2>6. StopMeansOver'
    BY <1>1, StopMeansOverStep
  <2>7. StopReachesWaitingThreads'
    BY <1>1, <2>3, StopReachesStep
  <2>8. StopIsComing'
    BY <1>1, <2>3, StopIsComingStep
  <2>9. DisconnectedAlone'
    BY <1>1, DisconnectedAloneStep
  <2> QED BY <2>1, <2>2, <2>3, <2>5, <2>6, <2>7, <2>8, <2>9 DEF IInv, Counted
<1>2. CASE UNCHANGED vars
  <2>1. Typed'
    BY TypedStep DEF IInv
  <2>2. Counted'
    BY CountStep
  <2>3. /\ UNCHANGED <<pc, local_queue, outbox, rx, next_link, freed>>
        /\ References' = References
    BY <1>2 DEF vars, queues, block, access, References, ThreadReferences, HoldsReference,
                BatchReferences, QueueReferences, AccessorReferences, SendReferences
  <2>4. Over' <=> Over
    BY <2>3 DEF Over, Leaving
  <2>5. QueuesFitPc'
    BY <2>3 DEF IInv, QueuesFitPc, Leaving
  <2>6. NothingLeft' /\ StopMeansOver'
    BY <2>3, <2>4 DEF IInv, NothingLeft, StopMeansOver
  <2>7. StopReachesWaitingThreads' /\ DisconnectedAlone'
    BY <2>3 DEF IInv, StopReachesWaitingThreads, DisconnectedAlone
  <2>8. StopIsComing'
    BY <2>3, <2>4 DEF IInv, StopIsComing
  <2> QED BY <2>1, <2>2, <2>5, <2>6, <2>7, <2>8 DEF IInv, Counted
<1> QED
  BY <1>1, <1>2

\* IInv is an invariant of the runtime: the counter is exact, and what follows
\* from it about stopping.
THEOREM Invariance == Spec => []IInv
<1>1. Init => IInv
  BY InvariantInit
<1>2. IInv /\ [Next]_vars => IInv'
  BY InvariantStep
<1> QED
  BY <1>1, <1>2, PTL DEF Spec

------------------------------------------------------------------------------
(***************************************************************************)
(* What follows.                                                           *)
(***************************************************************************)

\* Every variable has its type and unhandled_events never goes below zero.
THEOREM TypeCorrect == Spec => []TypeOK
<1>1. IInv => TypeOK
  BY FS_CardinalityType DEF IInv, TypeOK, CountExact
<1> QED
  BY <1>1, Invariance, PTL

\* unhandled_events is the number of references.
THEOREM CounterIsExact == Spec => []CountExact
<1>1. IInv => CountExact
  BY DEF IInv
<1> QED
  BY <1>1, Invariance, PTL

\* Nobody reads the control block after it is deallocated.
THEOREM NoUseAfterFree == Spec => []BlockAliveWhileUsed
<1>1. ASSUME IInv, freed
      PROVE  (\A c \in Contexts : ~ UsesBlock(c)) /\ (\A a \in Accessors : ~ Live(a))
  <2>1. References = {}
    BY <1>1 DEF IInv, NothingLeft
  <2>2. \A a \in Accessors : ~ Live(a)
    BY <2>1, AccessorHasReference DEF Live
  <2>3. \A c \in Contexts : ~ HoldsReference(c)
    BY <2>1, ThreadHasReference
  <2>4. \A c \in Contexts : \A i \in DOMAIN rx[c] : rx[c][i] = Stop
    <3> SUFFICES ASSUME NEW c \in Contexts, NEW i \in DOMAIN rx[c], rx[c][i] # Stop
                 PROVE  FALSE
      OBVIOUS
    <3>1. i \in 1 .. Len(rx[c])
      BY <1>1 DEF IInv, Typed
    <3>2. <<"queue", c, i>> \in QueueReferences
      BY <3>1 DEF QueueReferences
    <3> QED BY <2>1, <3>2 DEF References
  <2>5. \A c \in Contexts : ~ UsesBlock(c)
    BY <2>3, <2>4 DEF UsesBlock, HoldsReference
  <2> QED BY <2>2, <2>5
<1>2. IInv => BlockAliveWhileUsed
  BY <1>1 DEF BlockAliveWhileUsed
<1> QED
  BY <1>2, Invariance, PTL

\* Nobody leaves while there is anything left to do.
THEOREM StopsWhenQuiescent == Spec => []StopOnlyWhenQuiescent
<1>1. ASSUME IInv, Over
      PROVE  /\ \A a \in Accessors : accessor[a] \in {"unborn", "dropped"}
             /\ \A c \in Contexts :
                  /\ pc[c] \in Stopping \cup {"recv", "exited"}
                  /\ local_queue[c] = <<>> /\ outbox[c] = <<>>
                  /\ \A i \in DOMAIN rx[c] : rx[c][i] = Stop
  <2>1. References = {}
    BY <1>1 DEF IInv, NothingLeft
  <2>2. \A a \in Accessors : accessor[a] \in {"unborn", "dropped"}
    BY <2>1, AccessorHasReference
  <2>3. ASSUME NEW c \in Contexts
        PROVE  pc[c] \in Stopping \cup {"recv", "exited"}
    <3>1. ~ HoldsReference(c) /\ pc[c] \in Pcs
      BY <1>1, <2>1, ThreadHasReference DEF IInv, Typed
    <3>2. pc[c] # "disconnected"
      BY <1>1 DEF IInv, DisconnectedAlone, Over, Leaving, Stopping
    <3> QED BY <3>1, <3>2 DEF HoldsReference, Pcs
  <2>4. \A c \in Contexts : local_queue[c] = <<>> /\ outbox[c] = <<>>
    BY <1>1, <2>3 DEF IInv, QueuesFitPc, Stopping
  <2>5. \A c \in Contexts : \A i \in DOMAIN rx[c] : rx[c][i] = Stop
    <3> SUFFICES ASSUME NEW c \in Contexts, NEW i \in DOMAIN rx[c], rx[c][i] # Stop
                 PROVE  FALSE
      OBVIOUS
    <3>1. i \in 1 .. Len(rx[c])
      BY <1>1 DEF IInv, Typed
    <3>2. <<"queue", c, i>> \in QueueReferences
      BY <3>1 DEF QueueReferences
    <3> QED BY <2>1, <3>2 DEF References
  <2> QED BY <2>2, <2>3, <2>4, <2>5
<1>2. IInv => StopOnlyWhenQuiescent
  BY <1>1 DEF StopOnlyWhenQuiescent, Over
<1> QED
  BY <1>2, Invariance, PTL

\* The unwrap on sending Stop never fails, and one thread at most sends it.
THEOREM StopIsDelivered == Spec => []StopReachesWaitingThreads
<1>1. IInv => StopReachesWaitingThreads
  BY DEF IInv
<1> QED
  BY <1>1, Invariance, PTL

\* After a panic no thread is ever told to stop.
THEOREM NoShutdownAfterPanic == Spec => []PanicBlocksShutdown
<1>1. ASSUME IInv, NEW c \in Contexts, pc[c] = "panicked"
      PROVE  ~ Over
  <2>1. <<"thread", c, 0>> \in References
    BY <1>1, ThreadHasReference DEF HoldsReference
  <2> QED BY <1>1, <2>1 DEF IInv, NothingLeft
<1>2. IInv => PanicBlocksShutdown
  BY <1>1 DEF PanicBlocksShutdown, Over
<1> QED
  BY <1>2, Invariance, PTL

------------------------------------------------------------------------------
(***************************************************************************)
(* A thread that finds its channel without senders.                        *)
(***************************************************************************)

\* Somebody notices when the last reference goes.
ZeroIsNoticed == unhandled_events <= 0 => freed \/ Over

\* Only a context that is over fails those who send to it.
FailedAtGone ==
  \A a \in Accessors : accessor[a] \in {"send_failed", "drop_failed"} => Gone(target[a])

DisconnectedHasReason ==
  (\E c \in Contexts : pc[c] = "disconnected") => freed \/ \E d \in Contexts : pc[d] = "panicked"

DInv == IInv /\ ZeroIsNoticed /\ FailedAtGone /\ DisconnectedHasReason

LEMMA ZeroIsNoticedStep ==
  ASSUME IInv, ZeroIsNoticed, Next
  PROVE  ZeroIsNoticed'
<1> USE DEF queues, block, access
<1>1. Typed /\ unhandled_events \in Int
  BY DEF IInv, Typed
<1>2. CASE Over
  BY <1>2, LeavingIsStable DEF Over, ZeroIsNoticed
<1>3. CASE freed
  <2>1. freed'
    BY <1>3 DEF Next, Thread, User, Holder, FinishInit, RecvLocal, Return, IntoUnowned, RecvMsg,
                RecvAccessorDropped, RecvStop, RecvDisconnected, SettleNone, SettleOne, SettleMany,
                Flush, FlushPanic, SendStop, FinishStop, InitSendMsg, SendMsg, Post, CreateAccessor,
                HandlerPanic, AccessorCount, AccessorPush, AccessorDrop
  <2> QED BY <2>1 DEF ZeroIsNoticed
<1>4. CASE ~ Over /\ ~ freed
  <2>1. unhandled_events >= 1
    BY <1>1, <1>4 DEF ZeroIsNoticed
  <2> SUFFICES ASSUME unhandled_events' <= 0 PROVE freed' \/ Over'
    BY DEF ZeroIsNoticed
  <2>2. ASSUME NEW a \in Accessors, Holder(a) PROVE FALSE
    BY <1>1, <2>1, <2>2 DEF Holder, AccessorCount, AccessorPush, AccessorDrop, SendReference
  <2>3. ASSUME NEW c \in Contexts, User(c) PROVE FALSE
    BY <1>1, <2>1, <2>3 DEF User, InitSendMsg, SendMsg, Post, CreateAccessor, HandlerPanic
  <2>4. ASSUME NEW c \in Contexts, FinishInit(c) \/ RecvLocal(c) \/ Return(c) \/ RecvMsg(c) \/ RecvStop(c)
                                    \/ RecvDisconnected(c) \/ SettleOne(c) \/ Flush(c)
                                    \/ FlushPanic(c) \/ SendStop(c) \/ FinishStop(c)
        PROVE  FALSE
    <3>1. CASE FinishInit(c) \/ RecvLocal(c) \/ Return(c) \/ RecvDisconnected(c) \/ SettleOne(c)
      BY <1>1, <2>1, <3>1 DEF FinishInit, RecvLocal, Return, RecvDisconnected, SettleOne
    <3>2. CASE RecvMsg(c) \/ RecvStop(c)
      BY <1>1, <2>1, <3>2 DEF RecvMsg, RecvStop
    <3>3. CASE Flush(c) \/ FlushPanic(c)
      BY <1>1, <2>1, <3>3 DEF Flush, FlushPanic
    <3>4. CASE SendStop(c) \/ FinishStop(c)
      BY <1>1, <2>1, <3>4 DEF SendStop, FinishStop
    <3> QED BY <2>4, <3>1, <3>2, <3>3, <3>4
  <2>5. ASSUME NEW c \in Contexts, SettleMany(c) PROVE FALSE
    <3>1. PICK n \in Nat : n = Len(unsent_messages[c])
      BY <1>1 DEF Typed
    <3>2. n >= 2
      BY <2>5, <3>1 DEF SettleMany
    <3>3. unhandled_events' = unhandled_events + FlushCredit(n)
      BY <2>5, <3>1, Zenon DEF SettleMany
    <3> QED BY <1>1, <2>1, <3>1, <3>2, <3>3 DEF FlushCredit
  <2>6. ASSUME NEW c \in Contexts, IntoUnowned(c) PROVE freed'
    <3>1. unhandled_events' = unhandled_events - 1
      BY <2>6 DEF IntoUnowned
    <3>2. unhandled_events <= 1
      BY <1>1, <3>1
    <3> QED BY <2>6, <3>2 DEF IntoUnowned, WasLast
  <2>7. ASSUME NEW c \in Contexts, RecvAccessorDropped(c) PROVE Over'
    <3>1. Goto(c, "stop_after_drop")
      BY <1>1, <2>7 DEF RecvAccessorDropped, AfterDrop, WasLast
    <3> QED BY <1>1, <3>1 DEF Goto, Typed, Over, Leaving, Stopping
  <2>8. ASSUME NEW c \in Contexts, SettleNone(c) PROVE Over'
    <3>1. Goto(c, "stop_after_msg")
      BY <1>1, <2>8 DEF SettleNone, WasLast
    <3> QED BY <1>1, <3>1 DEF Goto, Typed, Over, Leaving, Stopping
  <2> QED BY <2>2, <2>3, <2>4, <2>5, <2>6, <2>7, <2>8 DEF Next, Thread
<1> QED BY <1>2, <1>3, <1>4

\* A context that is over stays so.
LEMMA GoneIsStable ==
  ASSUME Typed, Next, NEW d \in Contexts, Gone(d)
  PROVE  Gone(d)' /\ (pc[d] = "panicked" => pc'[d] = "panicked")
<1> USE DEF queues, block, access
<1>1. ASSUME NEW c \in Contexts, NEW l, Goto(c, l), ~ Gone(c)
      PROVE  Gone(d)' /\ (pc[d] = "panicked" => pc'[d] = "panicked")
  BY <1>1 DEF Typed, Goto, Gone
<1>2. ASSUME UNCHANGED pc
      PROVE  Gone(d)' /\ (pc[d] = "panicked" => pc'[d] = "panicked")
  BY <1>2 DEF Gone
<1>3. ASSUME NEW a \in Accessors, Holder(a)
      PROVE  Gone(d)' /\ (pc[d] = "panicked" => pc'[d] = "panicked")
  BY <1>2, <1>3 DEF Holder, AccessorCount, AccessorPush, AccessorDrop
<1>4. ASSUME NEW c \in Contexts, User(c)
      PROVE  Gone(d)' /\ (pc[d] = "panicked" => pc'[d] = "panicked")
  BY <1>1, <1>2, <1>4 DEF User, InitSendMsg, SendMsg, Post, CreateAccessor, HandlerPanic, Gone
<1>5. ASSUME NEW c \in Contexts, FinishInit(c) \/ RecvLocal(c) \/ Return(c) \/ IntoUnowned(c)
                                  \/ RecvMsg(c) \/ RecvAccessorDropped(c) \/ RecvStop(c) \/ RecvDisconnected(c)
      PROVE  Gone(d)' /\ (pc[d] = "panicked" => pc'[d] = "panicked")
  BY <1>1, <1>2, <1>5 DEF FinishInit, RecvLocal, Return, IntoUnowned, RecvMsg, RecvAccessorDropped,
                          RecvStop, RecvDisconnected, TakeItem, Gone
<1>6. ASSUME NEW c \in Contexts, SettleNone(c) \/ SettleOne(c) \/ SettleMany(c) \/ Flush(c)
                                  \/ FlushPanic(c) \/ SendStop(c) \/ FinishStop(c)
      PROVE  Gone(d)' /\ (pc[d] = "panicked" => pc'[d] = "panicked")
  BY <1>1, <1>2, <1>6 DEF SettleNone, SettleOne, SettleMany, Flush, FlushPanic, SendStop, FinishStop,
                          Gone, Stopping
<1> QED BY <1>3, <1>4, <1>5, <1>6 DEF Next, Thread

LEMMA FailedAtGoneStep ==
  ASSUME IInv, FailedAtGone, Next
  PROVE  FailedAtGone'
<1> USE DEF queues, block, access
<1>1. Typed
  BY DEF IInv
<1> SUFFICES ASSUME NEW a \in Accessors, accessor'[a] \in {"send_failed", "drop_failed"}
             PROVE  Gone(target[a])'
  BY DEF FailedAtGone
<1>2. target[a] \in Contexts
  BY <1>1 DEF Typed
<1>3. ASSUME UNCHANGED access PROVE Gone(target[a])'
  <2>1. Gone(target[a])
    BY <1>3 DEF FailedAtGone
  <2> QED BY <1>1, <1>2, <1>3, <2>1, GoneIsStable DEF Gone
<1>4. ASSUME NEW b \in Accessors, Holder(b) PROVE Gone(target[a])'
  <2>1. UNCHANGED <<target, pc>>
    BY <1>4 DEF Holder, AccessorCount, AccessorPush, AccessorDrop
  <2>2. Gone(target[a])
    <3>1. CASE b = a
      BY <1>1, <1>4, <3>1 DEF Holder, AccessorCount, AccessorPush, AccessorDrop, Typed
    <3>2. CASE b # a
      BY <1>1, <1>4, <3>2 DEF Holder, AccessorCount, AccessorPush, AccessorDrop, Typed, FailedAtGone
    <3> QED BY <3>1, <3>2
  <2> QED BY <2>1, <2>2 DEF Gone
<1>5. ASSUME NEW c \in Contexts, NEW b \in Accessors, NEW d \in Contexts, CreateAccessor(c, b, d)
      PROVE  Gone(target[a])'
  <2>1. b # a /\ target'[a] = target[a] /\ accessor'[a] = accessor[a] /\ UNCHANGED pc
    BY <1>1, <1>5 DEF CreateAccessor, Typed
  <2> QED BY <2>1 DEF Gone, FailedAtGone
<1>6. ASSUME NEW c \in Contexts, Thread(c) PROVE UNCHANGED access
  BY <1>6 DEF Thread, FinishInit, RecvLocal, Return, IntoUnowned, RecvMsg, RecvAccessorDropped, RecvStop,
              RecvDisconnected, SettleNone, SettleOne, SettleMany, Flush, FlushPanic, SendStop, FinishStop
<1>7. ASSUME NEW c \in Contexts, User(c),
             \A b \in Accessors, d \in Contexts : ~ CreateAccessor(c, b, d)
      PROVE  UNCHANGED access
  BY <1>7 DEF User, InitSendMsg, SendMsg, Post, HandlerPanic
<1> QED BY <1>3, <1>4, <1>5, <1>6, <1>7 DEF Next

\* The last thread to find that nobody can send to it is the first, or alone.
LEMMA DisconnectedHasReasonStep ==
  ASSUME DInv, Next
  PROVE  DisconnectedHasReason'
<1> USE DEF queues, block, access
<1>1. Typed
  BY DEF DInv, IInv
<1>2. freed => freed'
  BY DEF Next, Thread, User, Holder, FinishInit, RecvLocal, Return, IntoUnowned, RecvMsg,
         RecvAccessorDropped, RecvStop, RecvDisconnected, SettleNone, SettleOne, SettleMany,
         Flush, FlushPanic, SendStop, FinishStop, InitSendMsg, SendMsg, Post, CreateAccessor,
         HandlerPanic, AccessorCount, AccessorPush, AccessorDrop
<1>3. \A d \in Contexts : pc[d] = "panicked" => pc'[d] = "panicked"
  BY <1>1, GoneIsStable DEF Gone
<1>4. CASE freed \/ \E d \in Contexts : pc[d] = "panicked"
  BY <1>2, <1>3, <1>4 DEF DisconnectedHasReason
<1>5. CASE ~ freed /\ \A d \in Contexts : pc[d] # "panicked"
  <2>1. \A d \in Contexts : pc[d] # "disconnected"
    BY <1>5 DEF DInv, DisconnectedHasReason
  <2> SUFFICES ASSUME NEW c \in Contexts, pc'[c] = "disconnected" PROVE FALSE
    BY DEF DisconnectedHasReason
  <2>2. DisconnectedAlone'
    BY DisconnectedAloneStep DEF DInv
  <2>3. PICK e \in Contexts : RecvDisconnected(e)
    BY <1>1, <2>1, Disconnects
  <2>4. \A d \in Contexts : d = e
    <3> SUFFICES ASSUME NEW d \in Contexts, d # e PROVE FALSE
      OBVIOUS
    <3>1. pc'[d] = pc[d]
      BY <1>1, <2>3 DEF RecvDisconnected, Goto, Typed
    <3>2. pc'[d] \in {"panicked", "disconnected"}
      BY <2>2 DEF DisconnectedAlone
    <3> QED BY <1>5, <2>1, <3>1, <3>2
  <2>5. \A a \in Accessors : accessor[a] \in {"unborn", "dropped"}
    <3> SUFFICES ASSUME NEW a \in Accessors, accessor[a] \notin {"unborn", "dropped"} PROVE FALSE
      OBVIOUS
    <3>1. target[a] = e
      BY <1>1, <2>4 DEF Typed
    <3>2. accessor[a] \in {"send_failed", "drop_failed"}
      BY <1>1, <2>3, <3>1 DEF RecvDisconnected, Typed
    <3>3. Gone(e)
      BY <3>1, <3>2 DEF DInv, FailedAtGone
    <3> QED BY <2>3, <3>3 DEF RecvDisconnected, Gone
  <2>6. pc[e] = "recv" /\ rx[e] = <<>> /\ outbox[e] = <<>>
    BY <2>3 DEF RecvDisconnected, DInv, IInv, QueuesFitPc
  <2>7. References = {}
    <3>1. ThreadReferences = {} /\ AccessorReferences = {} /\ SendReferences = {}
      BY <2>4, <2>5, <2>6 DEF ThreadReferences, HoldsReference, AccessorReferences, SendReferences
    <3>2. BatchReferences = {} /\ QueueReferences = {}
      BY <2>4, <2>6 DEF BatchReferences, QueueReferences
    <3> QED BY <3>1, <3>2 DEF References
  <2>8. unhandled_events = 0
    BY <2>7, FS_EmptySet DEF DInv, IInv, CountExact
  <2>9. Over
    BY <1>5, <2>8 DEF DInv, ZeroIsNoticed
  <2> QED BY <2>4, <2>6, <2>9 DEF Over, Leaving, Stopping
<1> QED BY <1>4, <1>5

LEMMA DInvHolds == Spec => []DInv
<1>1. Init => DInv
  <2> SUFFICES ASSUME Init PROVE DInv
    OBVIOUS
  <2>1. IInv
    BY InvariantInit
  <2>2. ZeroIsNoticed
    BY NAssumption DEF Init, ZeroIsNoticed
  <2> QED BY <2>1, <2>2 DEF Init, DInv, FailedAtGone, DisconnectedHasReason
<1>2. DInv /\ [Next]_vars => DInv'
  <2> SUFFICES ASSUME DInv, [Next]_vars PROVE DInv'
    OBVIOUS
  <2>1. IInv'
    BY InvariantStep DEF DInv
  <2>2. CASE Next
    BY <2>1, <2>2, ZeroIsNoticedStep, FailedAtGoneStep, DisconnectedHasReasonStep DEF DInv
  <2>3. CASE UNCHANGED vars
    BY <2>1, <2>3 DEF DInv, ZeroIsNoticed, FailedAtGone, DisconnectedHasReason, Gone, Over, Leaving,
                      vars, block, access
  <2> QED BY <2>2, <2>3
<1> QED BY <1>1, <1>2, PTL DEF Spec

\* A thread finds its channel without senders only after a panic of another, or
\* when into_unowned gave up the last reference and told nobody (mod.rs:287-292).
THEOREM DisconnectionHasReason == Spec => []DisconnectedOnlyAfterEarlyDrop
<1>1. DInv => DisconnectedOnlyAfterEarlyDrop
  <2> SUFFICES ASSUME DInv, NEW c \in Contexts, pc[c] = "disconnected"
               PROVE  DroppedByIntoUnowned \/ \E d \in Contexts \ {c} : pc[d] = "panicked"
    BY DEF DisconnectedOnlyAfterEarlyDrop
  <2>1. \A d \in Contexts : ~ Leaving(d)
    BY DEF DInv, IInv, DisconnectedAlone, Leaving, Stopping
  <2> QED BY <2>1 DEF DInv, DisconnectedHasReason, DroppedByIntoUnowned
<1> QED BY <1>1, DInvHolds, PTL

------------------------------------------------------------------------------
(***************************************************************************)
(* The runtime implements Quiescence.                                      *)
(***************************************************************************)

\* The counter stands for the outstanding work.
LEMMA CounterIsOutstanding ==
  ASSUME IInv
  PROVE  /\ Cardinality(References) = unhandled_events
         /\ unhandled_events \in Nat
         /\ References # {} => unhandled_events > 0
BY FS_CardinalityType, FS_EmptySet DEF IInv, CountExact

\* Only a thread that holds a reference, or an accessor, changes the counter.
LEMMA CounterMoves ==
  ASSUME IInv, Next
  PROVE  \/ UNCHANGED unhandled_events
         \/ References # {} /\ UNCHANGED Halted
            /\ \/ unhandled_events' = unhandled_events - 1
               \/ unhandled_events' \in Nat /\ unhandled_events' > unhandled_events
<1> USE DEF queues, block, access
<1> DEFINE Goal == \/ UNCHANGED unhandled_events
                   \/ References # {} /\ UNCHANGED Halted
                      /\ \/ unhandled_events' = unhandled_events - 1
                         \/ unhandled_events' \in Nat /\ unhandled_events' > unhandled_events
<1>1. Typed /\ unhandled_events \in Nat
  BY CounterIsOutstanding DEF IInv
<1>2. ASSUME NEW c \in Contexts, NEW l, l # "exited", pc[c] # "exited", Goto(c, l)
      PROVE  UNCHANGED Halted
  BY <1>1, <1>2 DEF Typed, Goto, Halted
<1>3. ASSUME UNCHANGED pc
      PROVE  UNCHANGED Halted
  BY <1>3 DEF Halted
<1>4. ASSUME NEW a \in Accessors, Holder(a)
      PROVE  Goal
  <2>1. CASE AccessorCount(a)
    <3>1. References # {}
      BY <2>1, AccessorHasReference DEF AccessorCount
    <3>2. unhandled_events' = unhandled_events + 1 /\ UNCHANGED pc
      BY <2>1 DEF AccessorCount, SendReference
    <3> QED BY <1>1, <1>3, <3>1, <3>2
  <2>2. CASE AccessorPush(a) \/ AccessorDrop(a)
    BY <2>2 DEF AccessorPush, AccessorDrop
  <2> QED BY <1>4, <2>1, <2>2 DEF Holder
<1>5. ASSUME NEW c \in Contexts, User(c)
      PROVE  Goal
  <2>1. CASE \E d \in Contexts, a \in Accessors : CreateAccessor(c, a, d)
    <3>1. References # {}
      BY <2>1, ThreadHasReference DEF CreateAccessor, HoldsReference
    <3>2. unhandled_events' = unhandled_events + 1 /\ UNCHANGED pc
      BY <2>1 DEF CreateAccessor
    <3> QED BY <1>1, <1>3, <3>1, <3>2
  <2>2. CASE ~ \E d \in Contexts, a \in Accessors : CreateAccessor(c, a, d)
    BY <1>5, <2>2 DEF User, InitSendMsg, SendMsg, Post, HandlerPanic
  <2> QED BY <2>1, <2>2
<1>6. ASSUME NEW c \in Contexts, IntoUnowned(c) \/ SettleNone(c)
      PROVE  Goal
  <2>1. References # {}
    BY <1>6, ThreadHasReference DEF IntoUnowned, SettleNone, HoldsReference
  <2>2. pc[c] # "exited" /\ unhandled_events' = unhandled_events - 1
        /\ (Goto(c, "recv") \/ Goto(c, "stop_after_msg"))
    BY <1>6 DEF IntoUnowned, SettleNone
  <2> QED BY <1>2, <2>1, <2>2
<1>7. ASSUME NEW c \in Contexts, SettleMany(c)
      PROVE  Goal
  <2>1. References # {}
    BY <1>7, ThreadHasReference DEF SettleMany, HoldsReference
  <2>2. pc[c] # "exited" /\ Goto(c, "flush")
    BY <1>7 DEF SettleMany
  <2>3. Len(unsent_messages[c]) \in Nat
    BY <1>1 DEF Typed
  <2>4. unhandled_events' = unhandled_events + (Len(unsent_messages[c]) - 1)
        /\ Len(unsent_messages[c]) >= 2
    BY <1>7 DEF SettleMany, FlushCredit
  <2> QED BY <1>1, <1>2, <2>1, <2>2, <2>3, <2>4
<1>8. ASSUME NEW c \in Contexts, RecvAccessorDropped(c)
      PROVE  Goal
  <2>1. References # {}
    <3>1. rx[c] # <<>> /\ Head(rx[c]) # Stop
      BY <1>8 DEF RecvAccessorDropped, TakeItem, Stop
    <3> QED BY <1>1, <3>1, ItemHasReference
  <2>2. pc[c] # "exited" /\ unhandled_events' = unhandled_events - 1
        /\ (Goto(c, "stop_after_drop") \/ UNCHANGED pc)
    BY <1>8 DEF RecvAccessorDropped, TakeItem, AfterDrop
  <2> QED BY <1>2, <1>3, <2>1, <2>2
<1>9. ASSUME NEW c \in Contexts,
             FinishInit(c) \/ RecvLocal(c) \/ Return(c) \/ RecvMsg(c) \/ RecvStop(c)
               \/ RecvDisconnected(c) \/ SettleOne(c) \/ Flush(c) \/ FlushPanic(c)
               \/ SendStop(c) \/ FinishStop(c)
      PROVE  Goal
  BY <1>9 DEF FinishInit, RecvLocal, Return, RecvMsg, RecvStop, RecvDisconnected, SettleOne,
              Flush, FlushPanic, SendStop, FinishStop
<1> QED
  BY <1>4, <1>5, <1>6, <1>7, <1>8, <1>9 DEF Next, Thread

\* A context halts one at a time, and only when nothing is outstanding.
LEMMA HaltedMoves ==
  ASSUME IInv, Next
  PROVE  \/ UNCHANGED Halted
         \/ \E c \in Contexts \ Halted : References = {} /\ Halted' = Halted \cup {c}
<1> USE DEF queues, block, access
<1>1. Typed
  BY DEF IInv
<1>2. CASE References = {}
  <2>1. PICK c \in Contexts : \/ RecvStop(c) \/ RecvDisconnected(c)
                             \/ SendStop(c) \/ FinishStop(c)
    BY <1>2, OnlyStopping
  <2>2. CASE SendStop(c)
    BY <2>2, StopIsReceived DEF Halted
  <2>3. CASE RecvDisconnected(c)
    BY <1>1, <2>3 DEF Typed, RecvDisconnected, Goto, Halted
  <2>4. CASE RecvStop(c) \/ FinishStop(c)
    <3>1. pc[c] # "exited" /\ Goto(c, "exited")
      BY <2>4 DEF RecvStop, FinishStop, TakeItem, Stopping
    <3>2. c \notin Halted /\ Halted' = Halted \cup {c}
      BY <1>1, <3>1 DEF Typed, Goto, Halted
    <3> QED BY <1>2, <3>2
  <2> QED BY <2>1, <2>2, <2>3, <2>4
<1>3. CASE References # {}
  <2>1. ~ Over
    BY <1>3, WhileReferences
  <2>2. Halted = {}
    BY <2>1 DEF Halted, Over, Leaving
  <2>3. CASE ~ Over'
    BY <2>2, <2>3 DEF Halted, Over, Leaving
  <2>4. CASE Over'
    <3>1. PICK c \in Contexts : \E l \in Stopping : Goto(c, l)
      BY <2>1, <2>4, FirstToLeave
    <3>2. UNCHANGED Halted
      BY <1>1, <2>1, <3>1 DEF Typed, Goto, Halted, Over, Leaving, Stopping
    <3> QED BY <3>2
  <2> QED BY <2>3, <2>4
<1> QED
  BY <1>2, <1>3

\* The runtime implements Quiescence.
THEOREM RuntimeImplementsQuiescence == Spec => ImplementsQuiescence
<1>1. Init => Q!Init
  <2> SUFFICES ASSUME Init PROVE Q!Init
    OBVIOUS
  <2>1. Cardinality(References) \in Nat
    BY CountInit, FS_CardinalityType DEF Counted
  <2>2. Halted = {}
    BY DEF Init, Halted
  <2> QED BY <2>1, <2>2 DEF Q!Init
<1>2. IInv /\ IInv' /\ [Next]_vars => [Q!Next]_Q!vars
  <2> SUFFICES ASSUME IInv, IInv', [Next]_vars PROVE [Q!Next]_Q!vars
    OBVIOUS
  <2>1. CASE UNCHANGED vars
    <3>1. References' = References /\ Halted' = Halted
      BY <2>1 DEF vars, queues, block, access, Halted, References, ThreadReferences, HoldsReference,
                  BatchReferences, QueueReferences, AccessorReferences, SendReferences
    <3> QED BY <3>1 DEF Q!vars
  <2>2. CASE Next
    <3>1. Cardinality(References) = unhandled_events /\ Cardinality(References)' = unhandled_events'
      BY DEF IInv, CountExact
    <3>2. unhandled_events \in Nat /\ (References # {} => unhandled_events > 0)
      BY CounterIsOutstanding
    <3>3. CASE UNCHANGED unhandled_events
      <4>1. CASE UNCHANGED Halted
        BY <3>1, <3>3, <4>1 DEF Q!vars
      <4>2. CASE ~ UNCHANGED Halted
        <5>1. PICK c \in Contexts \ Halted : References = {} /\ Halted' = Halted \cup {c}
          BY <2>2, <4>2, HaltedMoves
        <5>2. Cardinality(References) = 0
          BY <5>1, FS_EmptySet
        <5>3. Q!Halt(c)
          BY <3>1, <3>3, <5>1, <5>2 DEF Q!Halt
        <5> QED BY <5>1, <5>3 DEF Q!Next
      <4> QED BY <4>1, <4>2
    <3>4. CASE ~ UNCHANGED unhandled_events
      <4>1. References # {} /\ UNCHANGED Halted
            /\ \/ unhandled_events' = unhandled_events - 1
               \/ unhandled_events' \in Nat /\ unhandled_events' > unhandled_events
        BY <2>2, <3>4, CounterMoves
      <4>2. CASE unhandled_events' = unhandled_events - 1
        <5>1. Q!Complete
          BY <3>1, <3>2, <4>1, <4>2 DEF Q!Complete
        <5> QED BY <5>1 DEF Q!Next
      <4>3. CASE unhandled_events' \in Nat /\ unhandled_events' > unhandled_events
        <5>1. Q!Beget
          BY <3>1, <3>2, <4>1, <4>3 DEF Q!Beget
        <5> QED BY <5>1 DEF Q!Next
      <4> QED BY <4>1, <4>2, <4>3
    <3> QED BY <3>3, <3>4
  <2> QED BY <2>1, <2>2
<1> QED
  BY <1>1, <1>2, Invariance, PTL DEF Spec, ImplementsQuiescence, Q!Spec
==============================================================================
