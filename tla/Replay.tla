-------------------------------- MODULE Replay -------------------------------
(***************************************************************************)
(* The replay example (crates/examples/replay, replay_mock): actors that   *)
(* produce events, and one that asks each for its stream and replays them  *)
(* all in one order.                                                       *)
(*                                                                         *)
(*  - One thread runs every future: the loop that spawns what actors ask   *)
(*    it to, the synchronizer's background task and a generator for each   *)
(*    producer.  They take turns where they await (tokio_wrapper.rs).      *)
(*  - Producers are actors: what accessors send them is handled by the     *)
(*    thread of their context, in the order it was sent (Runtime).         *)
(*  - An interrupt ends the loop, not the tasks it has spawned.            *)
(*                                                                         *)
(* An event is its place in the order of (timestamp, tie_break).  Panics   *)
(* unwind; the contexts' own shutdown is Runtime's.                        *)
(***************************************************************************)
EXTENDS Integers, Sequences, FiniteSets

CONSTANTS
  Events,    \* the events of each producer, in its order
  Home,      \* the context of each producer
  Capacity   \* of a generator's channel

ASSUME EventsAssumption == Events \in Seq(Seq(Nat))
ASSUME HomeAssumption == DOMAIN Home = DOMAIN Events
ASSUME CapacityAssumption == Capacity \in Nat \ {0}

Producers == DOMAIN Events
Contexts == {Home[p] : p \in Producers}

VARIABLES
  loop,       \* run_async_event_loop: about to poll task_rx, or signal, or over
  signalled,  \* has there been a SIGINT?
  tasks,      \* task_rx: 0 for the synchronizer's task, p for p's generator
  sync,       \* background_task
  turn,       \* the producer whose answer or event background_task awaits
  answer,     \* the oneshot for each producer's stream
  gen,        \* the generator of each producer
  produced,   \* how many events it has sent
  channel,    \* the channel from it to the stream
  heap,       \* the events the heap holds, with their producers
  inbox,      \* what accessors sent to each context
  gone,       \* the contexts whose threads panicked
  handled,    \* history: the events each producer processed
  output      \* history: the events background_task sent, in its order

looping  == <<loop, signalled>>
merging  == <<sync, turn, heap, output>>
sources  == <<gen, produced>>
contexts == <<inbox, gone, handled>>
vars == <<looping, tasks, merging, answer, sources, channel, contexts>>

Init ==
  /\ loop = "recv" /\ signalled = FALSE
  /\ tasks = <<>>
  /\ sync = "unborn" /\ turn = 1
  /\ answer = [p \in Producers |-> "none"]
  /\ gen = [p \in Producers |-> "none"]
  /\ produced = [p \in Producers |-> 0]
  /\ channel = [p \in Producers |-> <<>>]
  /\ heap = {}
  /\ inbox = [c \in Contexts |-> <<>>]
  /\ gone = {}
  /\ handled = [p \in Producers |-> <<>>]
  /\ output = <<>>

------------------------------------------------------------------------------
(***************************************************************************)
(* The event loop.                                                         *)
(***************************************************************************)

\* Synchronizer::init: spawn_with, whose unwrap fails once the loop is over;
\* a panic in a constructor aborts (Setup: ConstructFails).
Launch ==
  /\ sync = "unborn"
  /\ IF loop = "over"
     THEN sync' = "aborted" /\ UNCHANGED tasks
     ELSE sync' = "queued" /\ tasks' = Append(tasks, 0)
  /\ UNCHANGED <<looping, turn, heap, output, answer, sources, channel, contexts>>

\* SIGINT, once the loop is there to hear it.
Interrupt ==
  /\ loop # "over"
  /\ signalled' = TRUE
  /\ UNCHANGED <<loop, tasks, merging, answer, sources, channel, contexts>>

\* task_rx.recv() is polled first and has a task.
SpawnLocal ==
  /\ loop = "recv" /\ tasks # <<>>
  /\ tasks' = Tail(tasks)
  /\ IF Head(tasks) = 0
     THEN sync' = "ask" /\ UNCHANGED gen
     ELSE gen' = [gen EXCEPT ![Head(tasks)] = "running"] /\ UNCHANGED sync
  /\ UNCHANGED <<looping, turn, heap, output, answer, produced, channel, contexts>>

\* No signal: the loop sleeps until there is a task or one.
NoSignal ==
  /\ loop = "signal" /\ ~ signalled
  /\ loop' = "recv"
  /\ UNCHANGED <<signalled, tasks, merging, answer, sources, channel, contexts>>

\* The loop is over: task_rx goes, and with it the tasks that wait in it.
Break ==
  /\ loop' = "over"
  /\ tasks' = <<>>
  /\ sync' = IF \E i \in DOMAIN tasks : tasks[i] = 0 THEN "dropped" ELSE sync
  /\ gen' = [p \in Producers |-> IF \E i \in DOMAIN tasks : tasks[i] = p THEN "dropped" ELSE gen[p]]
  /\ UNCHANGED <<signalled, turn, heap, output, answer, produced, channel, contexts>>

BreakOnSignal == loop = "signal" /\ signalled /\ Break

SyncOver == sync \in {"done", "panicked", "dropped"}

\* Plausible bug: the clones of TokioSingleThread in messages are not counted.
NoSendersButTask == SyncOver \/ sync = "await"

\* Nobody holds a TokioSingleThread: background_task does, and so does each
\* message that asks for a stream.  (The contexts' resources are gone by then.)
NoSenders ==
  /\ SyncOver
  /\ \A c \in Contexts \ gone : \A i \in DOMAIN inbox[c] : inbox[c][i].kind # "create"

\* It has none, and signal.recv() is polled next.
NoTask ==
  /\ loop = "recv" /\ tasks = <<>> /\ ~ NoSenders
  /\ loop' = "signal"
  /\ UNCHANGED <<signalled, tasks, merging, answer, sources, channel, contexts>>

\* task_rx.recv() gives None.
BreakOnNone == loop = "recv" /\ tasks = <<>> /\ NoSenders /\ Break

------------------------------------------------------------------------------
(***************************************************************************)
(* background_task.                                                        *)
(***************************************************************************)
Create(p) == [kind |-> "create", to |-> p, event |-> 0]
Process(p, e) == [kind |-> "process", to |-> p, event |-> e]

\* Plausible bug: one producer too many is waited for.
AwaitFromLate(k) ==
  IF k <= Len(Events) + 1 THEN sync' = "await" /\ turn' = k
                          ELSE sync' = "choose" /\ UNCHANGED turn

\* Await the answer of producer k, or go on when there is none left.
AwaitFrom(k) ==
  IF k <= Len(Events) THEN sync' = "await" /\ turn' = k
                      ELSE sync' = "choose" /\ UNCHANGED turn

\* Each producer in turn is sent a request for its stream.  (Nothing is awaited
\* until all are; other tasks are not kept from running in between.)  The thread of
\* a context that panics may still have its receiver.
Ask ==
  /\ sync = "ask" /\ turn <= Len(Events)
  /\ inbox' = [inbox EXCEPT ![Home[turn]] = Append(@, Create(turn))]
  /\ turn' = turn + 1
  /\ UNCHANGED <<looping, tasks, sync, heap, output, answer, sources, channel, gone, handled>>

\* The context is gone: send panics, the task drops its accessor to that context,
\* which panics again and aborts.
AskNobody ==
  /\ sync = "ask" /\ turn <= Len(Events)
  /\ Home[turn] \in gone
  /\ sync' = "aborted"
  /\ UNCHANGED <<looping, tasks, turn, heap, output, answer, sources, channel, contexts>>

AllAsked ==
  /\ sync = "ask" /\ turn > Len(Events)
  /\ AwaitFrom(1)
  /\ UNCHANGED <<looping, tasks, heap, output, answer, sources, channel, contexts>>

\* The stream of the producer whose turn it is.
TakeStream ==
  /\ sync = "await" /\ answer[turn] = "sent"
  /\ sync' = "first"
  /\ UNCHANGED <<looping, tasks, turn, heap, output, answer, sources, channel, contexts>>

\* "No stream returned": the task panics and drops its accessors.  Where the
\* context is down to its receiver, that panics again and aborts.
NoStream ==
  /\ sync = "await" /\ answer[turn] = "dropped"
  /\ sync' \in {"panicked", "aborted"}
  /\ UNCHANGED <<looping, tasks, turn, heap, output, answer, sources, channel, contexts>>

\* stream.next() gives the next event of producer p, or None.
TakeEvent(p) ==
  /\ channel[p] # <<>>
  /\ channel' = [channel EXCEPT ![p] = Tail(@)]
  /\ heap' = heap \cup {[from |-> p, event |-> Head(channel[p])]}

\* Plausible bug: somebody keeps a sender of a generator that never runs.
EndOfStreamDone(p) ==
  /\ channel[p] = <<>> /\ gen[p] = "done"
  /\ UNCHANGED <<channel, heap>>

EndOfStream(p) ==
  /\ channel[p] = <<>> /\ gen[p] \in {"done", "dropped"}
  /\ UNCHANGED <<channel, heap>>

\* The first event of the stream; one that has none is left out.
FirstEvent ==
  /\ sync = "first"
  /\ TakeEvent(turn) \/ EndOfStream(turn)
  /\ AwaitFrom(turn + 1)
  /\ UNCHANGED <<looping, tasks, output, answer, sources, contexts>>

\* Plausible bug: any event will do.
PopsAny(h) == TRUE

\* heap.pop(): a BinaryHeap gives the greatest, in any order among equals.
Pops(h) == \A g \in heap : g.event <= h.event

\* The event goes to its producer, and the next of its stream is awaited.
Choose ==
  /\ sync = "choose"
  /\ \E h \in heap :
       /\ Pops(h)
       /\ heap' = heap \ {h}
       /\ inbox' = [inbox EXCEPT ![Home[h.from]] = Append(@, Process(h.from, h.event))]
       /\ output' = Append(output, h)
       /\ turn' = h.from
  /\ sync' = "next"
  /\ UNCHANGED <<looping, tasks, answer, sources, channel, gone, handled>>

NextEvent ==
  /\ sync = "next"
  /\ TakeEvent(turn) \/ EndOfStream(turn)
  /\ sync' = "choose"
  /\ UNCHANGED <<looping, tasks, turn, output, answer, sources, contexts>>

Finish ==
  /\ sync = "choose" /\ heap = {}
  /\ sync' = "done"
  /\ UNCHANGED <<looping, tasks, turn, heap, output, answer, sources, channel, contexts>>

------------------------------------------------------------------------------
(***************************************************************************)
(* Producers.                                                              *)
(***************************************************************************)

\* The context's thread panics: whoever awaits an answer from it hears that there
\* will be none.
Unwind(c) ==
  /\ gone' = gone \cup {c}
  /\ answer' = [p \in Producers |->
                  IF Home[p] = c /\ answer[p] = "none" THEN "dropped" ELSE answer[p]]

\* create_stream: a channel, and a generator for the loop to spawn.  Once the
\* loop is over spawn_with panics.
CreateStream(c) ==
  LET m == Head(inbox[c]) IN
  /\ c \notin gone /\ inbox[c] # <<>> /\ m.kind = "create" /\ gen[m.to] = "none"
  /\ IF loop = "over"
     THEN Unwind(c) /\ UNCHANGED <<tasks, gen>>
     ELSE /\ tasks' = Append(tasks, m.to)
          /\ gen' = [gen EXCEPT ![m.to] = "queued"]
          /\ UNCHANGED <<gone, answer>>
  /\ UNCHANGED <<looping, merging, produced, channel, inbox, handled>>

\* The stream is sent to background_task; "Could not send" if that has panicked
\* in the meantime.
AnswerStream(c) ==
  LET m == Head(inbox[c]) IN
  /\ c \notin gone /\ inbox[c] # <<>> /\ m.kind = "create" /\ gen[m.to] # "none"
  /\ IF sync = "panicked"
     THEN Unwind(c) /\ UNCHANGED inbox
     ELSE /\ answer' = [answer EXCEPT ![m.to] = "sent"]
          /\ inbox' = [inbox EXCEPT ![c] = Tail(@)]
          /\ UNCHANGED gone
  /\ UNCHANGED <<looping, tasks, merging, sources, channel, handled>>

ProcessEvent(c) ==
  LET m == Head(inbox[c]) IN
  /\ c \notin gone /\ inbox[c] # <<>> /\ m.kind = "process"
  /\ inbox' = [inbox EXCEPT ![c] = Tail(@)]
  /\ handled' = [handled EXCEPT ![m.to] = Append(@, m.event)]
  /\ UNCHANGED <<looping, tasks, merging, answer, sources, channel, gone>>

\* The stream of producer p's generator was given up: it went with
\* background_task, or on its way there.
GivenUp(p) == sync = "panicked" /\ answer[p] # "none"

\* Plausible bug: try_send, whose failure is ignored.
SendEventLossy(p) ==
  /\ gen[p] = "running" /\ ~ GivenUp(p)
  /\ produced[p] < Len(Events[p])
  /\ channel' = [channel EXCEPT ![p] = IF Len(@) < Capacity THEN Append(@, Events[p][produced[p] + 1]) ELSE @]
  /\ produced' = [produced EXCEPT ![p] = @ + 1]
  /\ UNCHANGED <<looping, tasks, merging, answer, gen, contexts>>

\* tx.send(ev).await waits for room.
SendEvent(p) ==
  /\ gen[p] = "running" /\ ~ GivenUp(p)
  /\ produced[p] < Len(Events[p])
  /\ Len(channel[p]) < Capacity
  /\ channel' = [channel EXCEPT ![p] = Append(@, Events[p][produced[p] + 1])]
  /\ produced' = [produced EXCEPT ![p] = @ + 1]
  /\ UNCHANGED <<looping, tasks, merging, answer, gen, contexts>>

\* All are sent; or the stream was given up and the unwrap fails.
GeneratorEnds(p) ==
  /\ gen[p] = "running"
  /\ \/ produced[p] = Len(Events[p]) /\ gen' = [gen EXCEPT ![p] = "done"]
     \/ /\ produced[p] < Len(Events[p]) /\ GivenUp(p)
        /\ gen' = [gen EXCEPT ![p] = "panicked"]
  /\ UNCHANGED <<looping, tasks, merging, answer, produced, channel, contexts>>

------------------------------------------------------------------------------
Loop == SpawnLocal \/ NoTask \/ NoSignal \/ BreakOnSignal \/ BreakOnNone
Merger == Ask \/ AskNobody \/ AllAsked \/ TakeStream \/ NoStream \/ FirstEvent \/ Choose \/ NextEvent \/ Finish
Context(c) == CreateStream(c) \/ AnswerStream(c) \/ ProcessEvent(c)
Generator(p) == SendEvent(p) \/ GeneratorEnds(p)

Next ==
  /\ sync # "aborted"
  /\ \/ Launch \/ Interrupt \/ Loop \/ Merger
     \/ \E c \in Contexts : Context(c)
     \/ \E p \in Producers : Generator(p)

Spec == Init /\ [][Next]_vars

\* Threads run, and the Tokio thread polls every task that can go on.  Nobody
\* need interrupt.
Fairness ==
  /\ WF_vars(Launch)
  /\ WF_vars(sync # "aborted" /\ Loop)
  /\ WF_vars(Merger)
  /\ \A c \in Contexts : WF_vars(sync # "aborted" /\ Context(c))
  /\ \A p \in Producers : WF_vars(sync # "aborted" /\ Generator(p))

FairSpec == Spec /\ Fairness
------------------------------------------------------------------------------
(***************************************************************************)
(* Properties.                                                             *)
(***************************************************************************)
Event == [from : Producers, event : Nat]
Request == [kind : {"create", "process"}, to : Producers, event : Nat]

\* Every variable has its type.
TypeOK ==
  /\ loop \in {"recv", "signal", "over"} /\ signalled \in BOOLEAN
  /\ tasks \in Seq(Producers \cup {0})
  /\ sync \in {"unborn", "queued", "ask", "await", "first", "choose", "next",
               "done", "panicked", "dropped", "aborted"}
  /\ turn \in 1 .. Len(Events) + 1 /\ (sync \in {"await", "first", "next"} => turn \in Producers)
  /\ answer \in [Producers -> {"none", "sent", "dropped"}]
  /\ gen \in [Producers -> {"none", "queued", "running", "done", "dropped", "panicked"}]
  /\ produced \in [Producers -> Nat] /\ channel \in [Producers -> Seq(Nat)]
  /\ \A p \in Producers : produced[p] <= Len(Events[p]) /\ Len(channel[p]) <= Capacity
  /\ heap \subseteq Event
  /\ inbox \in [Contexts -> Seq(Request)]
  /\ gone \subseteq Contexts
  /\ handled \in [Producers -> Seq(Nat)]
  /\ output \in Seq(Event)

\* The places of the events that producer p is still to process.
Waiting(p) ==
  {i \in DOMAIN inbox[Home[p]] : inbox[Home[p]][i].kind = "process" /\ inbox[Home[p]][i].to = p}

\* The k-th of a finite set of numbers.
Nth(S, k) == CHOOSE i \in S : Cardinality({j \in S : j <= i}) = k

\* What producer p is still to process.
Queued(p) ==
  [k \in 1 .. Cardinality(Waiting(p)) |-> inbox[Home[p]][Nth(Waiting(p), k)].event]

\* The event in a set of one, or nothing.
OneEvent(S) == IF S = {} THEN <<>> ELSE <<(CHOOSE h \in S : TRUE).event>>

\* The heap's events of producer p: one at most.
InHeap(p) == OneEvent({h \in heap : h.from = p})

\* What a producer is given to process are its own events, each once and in
\* their order, and at every moment the rest of what its generator has sent is
\* on its way: queued, in the heap or in the channel, with never two of one
\* stream in the heap (synchronizer.rs:94-124, replay_mock/src/lib.rs:59-72).
PipelineIsExact ==
  \A p \in Producers :
    /\ Cardinality({h \in heap : h.from = p}) <= 1
    /\ handled[p] \o Queued(p) \o InHeap(p) \o channel[p] = SubSeq(Events[p], 1, produced[p])

\* Nothing panics, aborts or is dropped unless somebody interrupts: the loop
\* outlives everybody who spawns (tokio_wrapper.rs:36, 53-66).
CleanUnlessInterrupted ==
  (gone # {} \/ sync \in {"panicked", "dropped", "aborted"}
     \/ \E p \in Producers : gen[p] \in {"dropped", "panicked"})
  => signalled

\* The streams that will give nothing more than they have: dropped, or given
\* up with the task that reads them.
Lost(p) == gen[p] = "dropped" \/ sync \in {"panicked", "dropped", "aborted"}

\* What is still to come out of producer p's stream.
Left(p) ==
  IF Lost(p) THEN <<>>
  ELSE InHeap(p) \o channel[p] \o SubSeq(Events[p], produced[p] + 1, Len(Events[p]))

M == INSTANCE Merge WITH left <- [p \in Producers |-> Left(p)]

\* The synchronizer merges: with all its queues and awaits, each event it sends
\* is the greatest of the first ones of all streams that have not ended, and an
\* interrupt takes nothing from a replay that has begun.
ImplementsMerge == M!Spec

Replayed == \A p \in Producers : handled[p] = Events[p]

\* Without an interrupt everything is replayed; with one, it is if every
\* generator was spawned before (tokio_wrapper.rs:63, replay_mock/src/lib.rs:60).
ReplayCompletes ==
  /\ <>(signalled \/ Replayed)
  /\ (\A p \in Producers : gen[p] \in {"running", "done"}) ~> Replayed

\* block_on(local) returns: no task waits for ever, interrupted or not, for an
\* answer, an event or room in a channel (tokio_wrapper.rs:69).
TokioThreadEnds ==
  <>(sync = "aborted" \/
       (loop = "over" /\ SyncOver /\ \A p \in Producers : gen[p] \notin {"queued", "running"}))
==============================================================================
