------------------------------- MODULE Runtime -------------------------------
(***************************************************************************)
(* The thread runtime of dytor: one thread per context, a channel into     *)
(* each, and one shared counter, unhandled_events, that decides when every *)
(* thread may stop.  A thread constructs its actors, drains the messages   *)
(* they sent to each other, gives up its own reference and then serves its *)
(* channel (crates/core/dytor/src/runtime/mod.rs, run_thread).  Accessors  *)
(* are handles that code outside the runtime uses to send from any thread. *)
(*                                                                         *)
(* A step is one access to shared memory (an atomic operation on the       *)
(* counter or a send on a channel) with the thread-private work next to    *)
(* it, or one call into user code.  User code is arbitrary: a handler or a *)
(* constructor sends what it likes, and a handler of a context in          *)
(* FaultyContexts may panic.  Panics unwind (the dev profile).             *)
(***************************************************************************)
EXTENDS Integers, Sequences, FiniteSets

CONSTANTS
  N,               \* number of contexts, hence of threads
  Accessors,       \* the accessors the constructors may create
  MaxSends,        \* bound on the messages each context and accessor sends
  FaultyContexts   \* the contexts whose handlers may panic

Contexts == 1 .. N
Sources == Contexts \cup Accessors

ASSUME NAssumption == N \in Nat \ {0}
ASSUME AccessorsAssumption ==
  IsFiniteSet(Accessors) /\ Accessors \cap Contexts = {}
ASSUME MaxSendsAssumption == MaxSends \in [Sources -> Nat]
ASSUME FaultyAssumption == FaultyContexts \subseteq Contexts

VARIABLES
  pc,                \* where the thread of each context is
  local_queue,       \* ContextData::local_queue
  unsent_messages,   \* ContextData::unsent_messages
  outbox,            \* what is left of the drained unsent_messages
  rx,                \* the channel into each context
  next_link,         \* the link the Stop loop sends to next
  unhandled_events,  \* ControlBlock::unhandled_events
  freed,             \* has the control block been deallocated?
  accessor,          \* where each accessor is in its life
  target,            \* the context an accessor sends to
  sent,              \* history: how many messages each source has sent
  handled            \* history: the messages each context began to handle

queues == <<local_queue, unsent_messages, outbox, rx>>
block  == <<unhandled_events, freed>>
access == <<accessor, target>>
vars   == <<pc, queues, next_link, block, access, sent, handled>>

------------------------------------------------------------------------------
(***************************************************************************)
(* Messages and links.                                                     *)
(***************************************************************************)

\* A Box<dyn FnOnce(&mut Context)>: who sent it, its place in that source's
\* order of sending, and the context its key names.
Message == [kind : {"Msg"}, from : Sources, seq : Nat, to : Contexts]
Msg(src, dst) == [kind |-> "Msg", from |-> src, seq |-> sent[src] + 1, to |-> dst]

AccessorDropped == [kind |-> "AccessorDropped"]
Stop == [kind |-> "Stop"]
QueueItem == Message \cup {AccessorDropped, Stop}

\* Context::links: every context but c, in order.
Links(c) == [k \in 1 .. N - 1 |-> IF k < c THEN k ELSE k + 1]

\* Position in Links(c) that the code computes for context d, from 1:
\* rx_id.as_index() - (ctx.data.id > rx_id) as usize.
LinkSlot(c, d) == d - (IF c > d THEN 1 ELSE 0)

\* The receiver of a context has been dropped with its thread: sends fail.
Gone(c) == pc[c] \in {"exited", "panicked", "disconnected"}

\* Is the link the code picks for d there to be sent on?
LinkWorks(c, d) ==
  LinkSlot(c, d) \in DOMAIN Links(c) /\ ~ Gone(Links(c)[LinkSlot(c, d)])

\* LocalQueue::recv pops the end of the Vec that LocalQueue::send pushes to:
\* what a handler sends to its own context is handled last first.
NextLocal(q) == Len(q)

\* Plausible bug: ties are broken in reverse (an unstable sort).
IsStableOrderUnstable(p, s) ==
  \A i, j \in DOMAIN s : i < j =>
    \/ s[p[i]].to < s[p[j]].to
    \/ s[p[i]].to = s[p[j]].to /\ p[i] > p[j]

\* p is the permutation unsent_messages.sort_by_key(|(id, _)| *id) applies.
IsStableOrder(p, s) ==
  \A i, j \in DOMAIN s : i < j =>
    \/ s[p[i]].to < s[p[j]].to
    \/ s[p[i]].to = s[p[j]].to /\ p[i] < p[j]

------------------------------------------------------------------------------
(***************************************************************************)
(* The counter.                                                            *)
(***************************************************************************)

\* Plausible bug: the comparison forgets that fetch_sub returns the old value.
WasLastOffByOne(old) == old <= 2

\* fetch_sub(1) returned old: was that the last reference?
WasLast(old) == old <= 1

\* Plausible bug: the reference of the message being handled is not reused.
FlushCreditWhole(n) == n

\* References a thread adds before it sends n >= 2 messages: the one it holds
\* for the message it has just handled passes to one of them.
FlushCredit(n) == n - 1

------------------------------------------------------------------------------
(***************************************************************************)
(* create_context_args: the block is made with one reference, every        *)
(* context's arguments clone it and the first reference is released.       *)
(***************************************************************************)
Init ==
  /\ pc = [c \in Contexts |-> "init"]
  /\ local_queue = [c \in Contexts |-> <<>>]
  /\ unsent_messages = [c \in Contexts |-> <<>>]
  /\ outbox = [c \in Contexts |-> <<>>]
  /\ rx = [c \in Contexts |-> <<>>]
  /\ next_link = [c \in Contexts |-> 1]
  /\ unhandled_events = N
  /\ freed = FALSE
  /\ accessor = [a \in Accessors |-> "unborn"]
  /\ target = [a \in Accessors |-> 1]
  /\ sent = [s \in Sources |-> 0]
  /\ handled = [c \in Contexts |-> {}]

Goto(c, l) == pc' = [pc EXCEPT ![c] = l]

(***************************************************************************)
(* User code.                                                              *)
(***************************************************************************)

\* send_msg, and broadcast for one context of its group: the message goes to
\* the local queue or is kept until the handler is done.
Post(c, d) ==
  /\ sent[c] < MaxSends[c]
  /\ sent' = [sent EXCEPT ![c] = @ + 1]
  /\ IF d = c
     THEN /\ local_queue' = [local_queue EXCEPT ![c] = Append(@, Msg(c, d))]
          /\ UNCHANGED unsent_messages
     ELSE /\ unsent_messages' = [unsent_messages EXCEPT ![c] = Append(@, Msg(c, d))]
          /\ UNCHANGED local_queue
  /\ UNCHANGED <<pc, outbox, rx, next_link, block, access, handled>>

\* InitArgs::send_msg: a constructor sends.
InitSendMsg(c, d) == pc[c] = "init" /\ Post(c, d)

\* MainArgs::send_msg and broadcast: a handler sends.
SendMsg(c, d) == pc[c] \in {"first_run", "run"} /\ Post(c, d)

\* InitArgs::accessor, accessor_for_key, Query::all_accessors: a constructor
\* of context c makes a counted handle on context d.
CreateAccessor(c, a, d) ==
  /\ pc[c] = "init"
  /\ accessor[a] = "unborn"
  /\ accessor' = [accessor EXCEPT ![a] = "live"]
  /\ target' = [target EXCEPT ![a] = d]
  /\ unhandled_events' = unhandled_events + 1
  /\ UNCHANGED <<pc, queues, next_link, freed, sent, handled>>

\* A handler returns.
Return(c) ==
  /\ \/ pc[c] = "first_run" /\ Goto(c, "first")
     \/ pc[c] = "run" /\ Goto(c, "drain")
  /\ UNCHANGED <<queues, next_link, block, access, sent, handled>>

\* A handler panics and takes its thread with it: the receiver is dropped and
\* the reference of the message is never given up.  (What its queues held is
\* left in place as the record of what was dropped; nobody reads it again.)
HandlerPanic(c) ==
  /\ pc[c] = "run" /\ c \in FaultyContexts
  /\ Goto(c, "panicked")
  /\ UNCHANGED <<queues, next_link, block, access, sent, handled>>

(***************************************************************************)
(* Accessors, on whatever thread holds them.                               *)
(***************************************************************************)

\* Plausible bug: the message is sent without being counted.
SendReferenceForgotten(old) == old

\* Accessor::send counts the message before it sends it.
SendReference(old) == old + 1

\* Accessor::send, the fetch_add.
AccessorCount(a) ==
  /\ accessor[a] = "live" /\ sent[a] < MaxSends[a]
  /\ accessor' = [accessor EXCEPT ![a] = "sending"]
  /\ unhandled_events' = SendReference(unhandled_events)
  /\ UNCHANGED <<pc, queues, next_link, freed, target, sent, handled>>

\* Accessor::send, the send: it panics when the receiver is gone.
AccessorPush(a) ==
  LET d == target[a] IN
  /\ accessor[a] = "sending"
  /\ accessor' = [accessor EXCEPT ![a] = IF Gone(d) THEN "send_failed" ELSE "live"]
  /\ rx' = IF Gone(d) THEN rx ELSE [rx EXCEPT ![d] = Append(@, Msg(a, d))]
  /\ sent' = IF Gone(d) THEN sent ELSE [sent EXCEPT ![a] = @ + 1]
  /\ UNCHANGED <<pc, local_queue, unsent_messages, outbox, next_link, block,
                 target, handled>>

\* Accessor::drop: the reference travels to the target, which gives it up.
AccessorDrop(a) ==
  LET d == target[a] IN
  /\ accessor[a] = "live"
  /\ accessor' = [accessor EXCEPT ![a] = IF Gone(d) THEN "drop_failed" ELSE "dropped"]
  /\ rx' = IF Gone(d) THEN rx ELSE [rx EXCEPT ![d] = Append(@, AccessorDropped)]
  /\ UNCHANGED <<pc, local_queue, unsent_messages, outbox, next_link, block,
                 target, sent, handled>>

(***************************************************************************)
(* run_thread.                                                             *)
(***************************************************************************)

\* create_context returns: every actor of the context is constructed.
FinishInit(c) ==
  /\ pc[c] = "init"
  /\ Goto(c, "first")
  /\ UNCHANGED <<queues, next_link, block, access, sent, handled>>

\* A local message is taken and its handler entered, either in the loop
\* before the reference is released or in the one after each remote message.
RecvLocal(c) ==
  LET q == local_queue[c]
      k == NextLocal(q)
  IN
  /\ q # <<>>
  /\ \/ pc[c] = "first" /\ Goto(c, "first_run")
     \/ pc[c] = "drain" /\ Goto(c, "run")
  /\ handled' = [handled EXCEPT ![c] = @ \cup {q[k]}]
  /\ local_queue' = [local_queue EXCEPT
                       ![c] = [i \in 1 .. Len(q) - 1 |-> IF i < k THEN q[i] ELSE q[i + 1]]]
  /\ UNCHANGED <<unsent_messages, outbox, rx, next_link, block, access, sent>>

\* into_unowned: the thread gives up its own reference; if it was the last
\* one the block is deallocated and the thread carries on all the same.
IntoUnowned(c) ==
  /\ pc[c] = "first" /\ local_queue[c] = <<>>
  /\ unhandled_events' = unhandled_events - 1
  /\ freed' = (freed \/ WasLast(unhandled_events))
  /\ Goto(c, "recv")
  /\ UNCHANGED <<queues, next_link, access, sent, handled>>

TakeItem(c, kind) ==
  /\ pc[c] = "recv" /\ rx[c] # <<>>
  /\ Head(rx[c]).kind = kind
  /\ rx' = [rx EXCEPT ![c] = Tail(@)]
  /\ UNCHANGED <<local_queue, unsent_messages, outbox>>

RecvMsg(c) ==
  /\ TakeItem(c, "Msg")
  /\ Goto(c, "run")
  /\ handled' = [handled EXCEPT ![c] = @ \cup {Head(rx[c])}]
  /\ UNCHANGED <<next_link, block, access, sent>>

\* Plausible bug: a dropped accessor is noticed but its reference is kept.
AfterDropKept(old) == old

AfterDrop(old) == old - 1

RecvAccessorDropped(c) ==
  /\ TakeItem(c, "AccessorDropped")
  /\ unhandled_events' = AfterDrop(unhandled_events)
  /\ IF WasLast(unhandled_events) THEN Goto(c, "stop_after_drop") ELSE UNCHANGED pc
  /\ UNCHANGED <<next_link, freed, access, sent, handled>>

RecvStop(c) ==
  /\ TakeItem(c, "Stop")
  /\ Goto(c, "exited")
  /\ UNCHANGED <<next_link, block, access, sent, handled>>

\* rx.recv() returns None, whose unwrap panics: nothing is queued and nobody
\* is left who holds a sender.  Links die with their threads, make_tx with the
\* last constructor, and accessors hold one each.
RecvDisconnected(c) ==
  /\ pc[c] = "recv" /\ rx[c] = <<>>
  /\ \A d \in Contexts : pc[d] # "init" /\ (d # c => Gone(d))
  /\ \A a \in Accessors : target[a] = c => accessor[a] \notin {"live", "sending"}
  /\ Goto(c, "disconnected")
  /\ UNCHANGED <<queues, next_link, block, access, sent, handled>>

\* The local messages are done and there is nothing to send: the reference of
\* the handled message is given up.
SettleNone(c) ==
  /\ pc[c] = "drain" /\ local_queue[c] = <<>>
  /\ unsent_messages[c] = <<>>
  /\ unhandled_events' = unhandled_events - 1
  /\ Goto(c, IF WasLast(unhandled_events) THEN "stop_after_msg" ELSE "recv")
  /\ UNCHANGED <<queues, next_link, freed, access, sent, handled>>

\* One message to send: it takes over the reference.
SettleOne(c) ==
  /\ pc[c] = "drain" /\ local_queue[c] = <<>>
  /\ Len(unsent_messages[c]) = 1
  /\ outbox' = [outbox EXCEPT ![c] = unsent_messages[c]]
  /\ unsent_messages' = [unsent_messages EXCEPT ![c] = <<>>]
  /\ Goto(c, "flush")
  /\ UNCHANGED <<local_queue, rx, next_link, block, access, sent, handled>>

\* Plausible bug: they are grouped in a map, which keeps the last for each context.
SettleManyInMap(c) ==
  LET u == unsent_messages[c]
      last == {i \in DOMAIN u : \A j \in DOMAIN u : u[j].to = u[i].to => j <= i}
  IN
  /\ pc[c] = "drain" /\ local_queue[c] = <<>>
  /\ Len(u) >= 2
  /\ unhandled_events' = unhandled_events + FlushCredit(Len(u))
  /\ \E p \in [1 .. Cardinality(last) -> last] :
       /\ {p[k] : k \in DOMAIN p} = last
       /\ outbox' = [outbox EXCEPT ![c] = [k \in DOMAIN p |-> u[p[k]]]]
  /\ unsent_messages' = [unsent_messages EXCEPT ![c] = <<>>]
  /\ Goto(c, "flush")
  /\ UNCHANGED <<local_queue, rx, next_link, freed, access, sent, handled>>

\* Several: count all but one, then group them by context.
SettleMany(c) ==
  LET u == unsent_messages[c] IN
  /\ pc[c] = "drain" /\ local_queue[c] = <<>>
  /\ Len(u) >= 2
  /\ unhandled_events' = unhandled_events + FlushCredit(Len(u))
  /\ \E p \in [DOMAIN u -> DOMAIN u] :
       /\ IsStableOrder(p, u)
       /\ outbox' = [outbox EXCEPT ![c] = [k \in DOMAIN u |-> u[p[k]]]]
  /\ unsent_messages' = [unsent_messages EXCEPT ![c] = <<>>]
  /\ Goto(c, "flush")
  /\ UNCHANGED <<local_queue, rx, next_link, freed, access, sent, handled>>

\* One message goes out on the link the code picks for it.
Flush(c) ==
  LET m == Head(outbox[c])
      d == Links(c)[LinkSlot(c, m.to)]
  IN
  /\ pc[c] = "flush"
  /\ LinkWorks(c, m.to)
  /\ rx' = [rx EXCEPT ![d] = Append(@, m)]
  /\ outbox' = [outbox EXCEPT ![c] = Tail(@)]
  /\ IF Len(outbox[c]) = 1 THEN Goto(c, "recv") ELSE UNCHANGED pc
  /\ UNCHANGED <<local_queue, unsent_messages, next_link, block, access, sent, handled>>

\* Indexing links out of bounds, or sending to a context that is gone, panics.
FlushPanic(c) ==
  /\ pc[c] = "flush"
  /\ ~ LinkWorks(c, Head(outbox[c]).to)
  /\ Goto(c, "panicked")
  /\ UNCHANGED <<queues, next_link, block, access, sent, handled>>

Stopping == {"stop_after_drop", "stop_after_msg"}

\* Plausible bug: the loop steps over a link.
NextLinkSkipping(k) == k + 2

NextLink(k) == k + 1

\* One turn of "for link in ctx.links.iter()": Stop goes to the next link.
SendStop(c) ==
  LET d == Links(c)[next_link[c]] IN
  /\ pc[c] \in Stopping /\ next_link[c] < N
  /\ next_link' = [next_link EXCEPT ![c] = NextLink(@)]
  /\ rx' = IF Gone(d) THEN rx ELSE [rx EXCEPT ![d] = Append(@, Stop)]
  /\ IF Gone(d) THEN Goto(c, "panicked") ELSE UNCHANGED pc
  /\ UNCHANGED <<local_queue, unsent_messages, outbox, block, access, sent, handled>>

\* Plausible bug: the loop ends one link early.
FinishStopEarly(c) ==
  /\ pc[c] \in Stopping /\ next_link[c] >= N - 1
  /\ freed' = (freed \/ pc[c] = "stop_after_drop")
  /\ Goto(c, "exited")
  /\ UNCHANGED <<queues, next_link, unhandled_events, access, sent, handled>>

\* The loop is over.  Only the AccessorDropped branch deallocates the block.
FinishStop(c) ==
  /\ pc[c] \in Stopping /\ next_link[c] = N
  /\ freed' = (freed \/ pc[c] = "stop_after_drop")
  /\ Goto(c, "exited")
  /\ UNCHANGED <<queues, next_link, unhandled_events, access, sent, handled>>

------------------------------------------------------------------------------
\* What the thread of context c does by itself.  Handlers and constructors
\* return, so Return and FinishInit are among it.
Thread(c) ==
  \/ FinishInit(c)
  \/ RecvLocal(c)
  \/ Return(c)
  \/ IntoUnowned(c)
  \/ RecvMsg(c)
  \/ RecvAccessorDropped(c)
  \/ RecvStop(c)
  \/ RecvDisconnected(c)
  \/ SettleNone(c)
  \/ SettleOne(c)
  \/ SettleMany(c)
  \/ Flush(c)
  \/ FlushPanic(c)
  \/ SendStop(c)
  \/ FinishStop(c)

\* What user code may do, and need not.
User(c) ==
  \/ \E d \in Contexts : InitSendMsg(c, d) \/ SendMsg(c, d)
  \/ \E d \in Contexts, a \in Accessors : CreateAccessor(c, a, d)
  \/ HandlerPanic(c)

Holder(a) == AccessorCount(a) \/ AccessorPush(a) \/ AccessorDrop(a)

Next ==
  \/ \E c \in Contexts : Thread(c) \/ User(c)
  \/ \E a \in Accessors : Holder(a)

Spec == Init /\ [][Next]_vars

\* The operating system runs every thread, and a thread inside Accessor::send
\* gets to the end of it.  Nobody is obliged to send or to drop an accessor.
Fairness ==
  /\ \A c \in Contexts : WF_vars(Thread(c))
  /\ \A a \in Accessors : WF_vars(AccessorPush(a))

FairSpec == Spec /\ Fairness
------------------------------------------------------------------------------
(***************************************************************************)
(* Properties.                                                             *)
(***************************************************************************)

Pcs == {"init", "first", "first_run", "recv", "run", "drain", "flush",
        "exited", "panicked", "disconnected"} \cup Stopping

Typed ==
  /\ pc \in [Contexts -> Pcs]
  /\ local_queue \in [Contexts -> Seq(Message)]
  /\ unsent_messages \in [Contexts -> Seq(Message)]
  /\ outbox \in [Contexts -> Seq(Message)]
  /\ rx \in [Contexts -> Seq(QueueItem)]
  /\ next_link \in [Contexts -> 1 .. N]
  /\ unhandled_events \in Int
  /\ freed \in BOOLEAN
  /\ accessor \in [Accessors -> {"unborn", "live", "sending", "dropped",
                                 "send_failed", "drop_failed"}]
  /\ target \in [Accessors -> Contexts]
  /\ sent \in [Sources -> Nat]
  /\ handled \in [Contexts -> SUBSET Message]

\* Every variable has its type, and the u32 counter never wraps below zero
\* (fetch_sub at context.rs:370, mod.rs:299, 331).
TypeOK == Typed /\ unhandled_events \in Nat

(***************************************************************************)
(* What unhandled_events counts.  A reference is a triple so that each has *)
(* one name: a thread has one until into_unowned and again while it serves *)
(* an item, a batch being flushed has one for each message but the one     *)
(* that uses the thread's, a queued item has one, an accessor has one and  *)
(* another between the two halves of send.                                 *)
(***************************************************************************)
HoldsReference(c) ==
  pc[c] \in {"init", "first", "first_run", "run", "drain", "flush", "panicked"}

ThreadReferences == {<<"thread", c, 0>> : c \in {d \in Contexts : HoldsReference(d)}}
BatchReferences ==
  UNION {{<<"batch", c, i>> : i \in 2 .. Len(outbox[c])} : c \in Contexts}
QueueReferences ==
  UNION {{<<"queue", c, i>> : i \in {j \in 1 .. Len(rx[c]) : rx[c][j] # Stop}} : c \in Contexts}
AccessorReferences ==
  {<<"accessor", a, 0>> :
     a \in {b \in Accessors : accessor[b] \notin {"unborn", "dropped"}}}
SendReferences ==
  {<<"send", a, 0>> : a \in {b \in Accessors : accessor[b] \in {"sending", "send_failed"}}}

References ==
  ThreadReferences \cup BatchReferences \cup QueueReferences
    \cup AccessorReferences \cup SendReferences

\* The counter is exact: it is the number of references there are, whatever
\* the threads and the accessors are in the middle of (mod.rs:299, 331, 350;
\* context.rs:186, 435).
CountExact == unhandled_events = Cardinality(References)

Live(a) == accessor[a] \in {"live", "sending"}
Leaving(c) == pc[c] \in Stopping \cup {"exited"}

\* Would context c read the control block without being sent anything more?
UsesBlock(c) ==
  \/ pc[c] \in {"init", "first", "first_run", "run", "drain"}
  \/ pc[c] = "flush"
  \/ pc[c] = "recv" /\ \E i \in DOMAIN rx[c] : rx[c][i] # Stop

\* "Accessing control_block_ptr is safe until we decrement it again"
\* (mod.rs:287, 327): nobody who will read the block finds it deallocated.
BlockAliveWhileUsed ==
  freed => /\ \A c \in Contexts : ~ UsesBlock(c)
           /\ \A a \in Accessors : ~ Live(a)

\* The threads are told to stop only when there is nothing left to do: no
\* handler is running, no counted message is anywhere and no accessor could
\* send another (mod.rs:299, 331).
StopOnlyWhenQuiescent ==
  (\E c \in Contexts : Leaving(c)) =>
    /\ \A a \in Accessors : accessor[a] \in {"unborn", "dropped"}
    /\ \A c \in Contexts :
         /\ pc[c] \in Stopping \cup {"recv", "exited"}
         /\ local_queue[c] = <<>> /\ outbox[c] = <<>>
         /\ \A i \in DOMAIN rx[c] : rx[c][i] = Stop

\* Sending Stop cannot fail (the unwrap at mod.rs:301, 335): one thread at
\* most is stopping the others, and those it has still to reach are waiting
\* on an empty channel.
StopReachesWaitingThreads ==
  \A c \in Contexts : pc[c] \in Stopping =>
    /\ \A d \in Contexts \ {c} : pc[d] \notin Stopping
    /\ \A k \in next_link[c] .. N - 1 :
         pc[Links(c)[k]] = "recv" /\ rx[Links(c)[k]] = <<>>

\* A panic costs a reference, so after one no thread is ever told to stop and
\* run() never returns (mod.rs:320, 343, 360).
PanicBlocksShutdown ==
  (\E c \in Contexts : pc[c] = "panicked") => \A c \in Contexts : ~ Leaving(c)

\* The last reference was given up by into_unowned, which tells nobody.
DroppedByIntoUnowned == freed /\ \A c \in Contexts : ~ Leaving(c)

\* The unwrap on rx.recv() (mod.rs:292) fails only where the other threads
\* panicked, or the last reference was given up before anybody was listening;
\* never because a thread was forgotten when the others were told to stop.
DisconnectedOnlyAfterEarlyDrop ==
  \A c \in Contexts : pc[c] = "disconnected" =>
    DroppedByIntoUnowned \/ \E d \in Contexts \ {c} : pc[d] = "panicked"

(***************************************************************************)
(* Messages.                                                               *)
(***************************************************************************)
Occurrences(q, src, k) ==
  {i \in DOMAIN q : q[i].kind = "Msg" /\ q[i].from = src /\ q[i].seq = k}

Copies(src, k) ==
  UNION {{<<"local", c, i>> : i \in Occurrences(local_queue[c], src, k)}
    \cup {<<"unsent", c, i>> : i \in Occurrences(unsent_messages[c], src, k)}
    \cup {<<"outbox", c, i>> : i \in Occurrences(outbox[c], src, k)}
    \cup {<<"rx", c, i>> : i \in Occurrences(rx[c], src, k)}
    \cup {<<"handled", c, 0>> : m \in {x \in handled[c] : x.from = src /\ x.seq = k}}
         : c \in Contexts}

\* Every message that was sent is in exactly one place: it is never duplicated
\* and never lost while its thread lives.
ExactlyOneCopy ==
  \A s \in Sources : \A k \in 1 .. sent[s] : Cardinality(Copies(s, k)) = 1

\* When run() returns every message was handled, but for what a constructor
\* or a first-round handler left in unsent_messages of a context that never
\* got a message to handle (mod.rs:283-292).
OnlyEarlySendsAreLost ==
  (\A c \in Contexts : pc[c] = "exited") =>
    \A s \in Sources : \A k \in 1 .. sent[s] :
      \/ \E c \in Contexts : \E m \in handled[c] : m.from = s /\ m.seq = k
      \/ /\ s \in Contexts /\ Occurrences(unsent_messages[s], s, k) # {}
         /\ \A m \in handled[s] : m.from = s

\* What one source sends to one context is handled there in the order it was
\* sent, however the batches are grouped (mod.rs:357, context.rs:436).
RemoteOrderStep ==
  \A c \in Contexts : \A m \in handled'[c] \ handled[c] :
    m.from # c => \A e \in handled[c] : e.from = m.from /\ e.to = m.to => e.seq < m.seq
RemoteOrder == [][RemoteOrderStep]_vars

(***************************************************************************)
(* What the documentation says and the code does not do.                   *)
(***************************************************************************)

\* README.md:15 "passed to another thread via a queue transparently": a queue
\* holds messages for its own context only.
DeliveredToAddressee ==
  \A c \in Contexts : \A i \in DOMAIN rx[c] : rx[c][i].kind = "Msg" => rx[c][i].to = c

\* README.md:15 again: what a constructor sent to another thread has been
\* passed on by the time its own thread is done.
EarlySendsArePassedOn ==
  \A c \in Contexts : pc[c] = "exited" => unsent_messages[c] = <<>>

\* mod.rs:282 "we don't want to drop the control block prematurely": it is
\* deallocated by the thread that shuts the others down, not before.
NotDroppedPrematurely == freed => \E c \in Contexts : Leaving(c)

(***************************************************************************)
(* Liveness.                                                               *)
(***************************************************************************)
AllExited == \A c \in Contexts : pc[c] = "exited"
SomePanicked == \E c \in Contexts : pc[c] \in {"panicked", "disconnected"}

\* Every accessor there will ever be has been dropped.
AccessorsGone ==
  /\ \A c \in Contexts : pc[c] # "init"
  /\ \A a \in Accessors : accessor[a] \in {"unborn", "dropped"}

\* Once the last accessor is gone run() returns, unless a thread panicked or
\* the last reference was given up in into_unowned.
QuiescenceIsDetected ==
  AccessorsGone ~> (AllExited \/ SomePanicked \/ DroppedByIntoUnowned)

\* What an accessor sent is handled, unless a thread panics: the message is
\* counted before it is queued, so no thread stops over it (context.rs:433-436).
AccessorMessagesAreHandled ==
  \A a \in Accessors : \A k \in 1 .. MaxSends[a] :
    sent[a] >= k ~>
      (SomePanicked \/ \E c \in Contexts : \E m \in handled[c] : m.from = a /\ m.seq = k)

\* Once one thread begins to stop the others, all of them exit.
ShutdownCompletes == (\E c \in Contexts : pc[c] \in Stopping) ~> AllExited

(***************************************************************************)
(* The runtime implements Quiescence: what is outstanding are the          *)
(* references, and a context has halted when its thread is over.           *)
(***************************************************************************)
Halted == {c \in Contexts : pc[c] = "exited"}
Q == INSTANCE Quiescence WITH outstanding <- Cardinality(References), halted <- Halted

\* Every step of the runtime is a step Quiescence allows: work comes only from
\* work, and no thread is over while there is any.
ImplementsQuiescence == Q!Spec
==============================================================================
