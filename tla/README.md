# dytor in TLA+

dytor is a Rust framework in which a process is made of *actors*, grouped into
*contexts*; each context is one thread. Actors are registered by libraries as
they load, constructed from a configuration into one block of memory per
context, and then exchange messages until nothing is left to do. This directory
models the framework (`src/crates/core/dytor`) and the replay example built on
it (`src/crates/examples`), checks them with TLC and proves what matters most
with TLAPS. Paths below are relative to `src/crates/core/dytor/src/` unless they
say otherwise.

## 1. The system

| Component | State | Operations | Talks to |
|---|---|---|---|
| **Thread runtime** `runtime/mod.rs` | one thread per context: its place in `run_thread`, `local_queue`, `unsent_messages`, the channel `rx`, `links` to every other context | construct the actors; drain the first local messages; give up its own reference; then for ever: take an item, handle it, drain the local queue, flush what the handlers sent, or stop | channels to other threads, the control block, the handlers |
| **Control block** `context.rs:345-399` | the atomic `unhandled_events`; whether the block is deallocated | clone, release, `into_unowned`, bare `fetch_add`/`fetch_sub` elsewhere | every thread and accessor |
| **Queues** `queue/` | a `Vec` used as a stack; an `mpsc` channel | send, recv | runtime, accessors |
| **Accessors** `context.rs:401-438` | an offset, a channel, a pointer to the block | create, send (count, then queue), drop (queue `AccessorDropped`) | control block, channel of the target |
| **Sending from actors** `context.rs:112-343` | none of its own | `InitArgs::send_msg`, `MainArgs::send_msg`, `broadcast` | queues of the own context |
| **Set-up** `runtime/mod.rs:40-275`, `config.rs` | the tree of actors, channels, links; resources that are made when first asked for | check the configuration, number contexts and actors, allocate; in each thread construct its actors, search their keys for cycles; at the end drop what was constructed | arena, registry, lookup, cycle detection |
| **Cycle detection** `runtime/graph.rs` | the graph of dependence relations, a mark on each node | `has_cycles`, `dfs` | relations from `acyclic_local_key` |
| **Local keys** `lookup.rs:163-266` | keys that actors keep to others of their context | `acyclic_local_key`, `borrow_mut`, `call` | cycle detection makes them sound |
| **Lookup** `lookup.rs:35-161` | none: reads the tree and the registry | `all_keys`, `exactly_one_key`, `all_accessors`, `broadcast_group` | registry, accessors |
| **Arena** `arena.rs`, `Context::drop` | address, capacity | `compute_space_required`, `get_offsets`, `from_layouts`, `at_offset`, `drop` | layouts from the registry |
| **Registry** `registry.rs`, `object/` | a lock-free list `INIT_FNS`; a `OnceLock` with what it registered | `init_node` (static constructors), `get`, `by_name` | everything that names a type |
| **Library surface** `lib.rs`, `dytor_proc_macros` | none | re-exports, a derive macro | |
| **Replay example** `src/crates/examples/replay*` | a loop that spawns futures on a Tokio thread of its own; a heap of the first events of all streams; a channel from each generator | spawn, interrupt; ask producers for their streams, await them, choose the greatest event, send it to its producer | client of the framework: accessors, a resource |
| **Example application** `src/crates/examples/{app,common}` | none of its own | open libraries, run, close them; re-exports and type definitions | registry |

### What is hard

* **Termination detection** is a counter that several threads decrement and
  test and that accessors increment from anywhere. The reference of a message
  is *passed on* rather than given up and taken again: of `n` messages a handler
  leaves, `n - 1` are counted (`mod.rs:347-351`). One too few ends the process
  over the head of somebody's message, one too many hangs it.
* **The block outlives its owners.** After `into_unowned` a thread reads it
  through a raw pointer, without a reference of its own (`mod.rs:287-289`).
* **Two-step sends.** An accessor counts and then queues; anything may happen
  in between (`context.rs:433-436`).
* **Failure.** A handler that panics takes its reference and its receiver with
  it; sends to that context fail in other threads, halfway through a batch.
* **Cycle detection makes unchecked mutable references sound.** It searches a
  graph that lives in hash maps, in an order nobody chooses.
* **Memory is sized before its address is known**, by a formula different
  from the one that lays objects out afterwards.
* **The list of constructors is lock-free** and read while it may still grow.
* **Messages hold offsets.** They are sent to actors that are not constructed yet
  and are still queued when actors are dropped; an offset means something in one
  arena only, and the metadata beside it is that of whatever type was found.
* **Contexts are set up at the same time**, share lazily made resources and
  already exchange messages; one that fails aborts the process, because the
  panic unwinds through `ControlBlockPtr` (`context.rs:397`).
* **A merge needs the first event of every stream**, streams whose events come
  through bounded channels from tasks on one thread that await each other, while
  an interrupt may end the loop that was to spawn them.

### What makes each part correct

| Component | Properties |
|---|---|
| Runtime, control block, accessors | the counter is the number of references; the block outlives its readers; messages are neither lost nor duplicated and keep their order; threads stop only when nothing is left to do, and then all of them do |
| Cycle detection | the verdict is that of the definition of a cycle; the recursion is bounded |
| Local keys | no actor is reached through itself; references that can be used together are to different actors |
| Arena | objects fit, are aligned and disjoint, for every address; no byte too many; construction does not fail |
| Registry | no node is lost; what is read is what was there at one moment; names resolve to the right type; traits list their implementors |
| Set-up, lookup | a handler runs on a live actor, the one its message names and of the type its metadata is for; a group gets each message once for each implementor, but for what links lead astray; local keys lead to live actors of their own context and never back; resources are made once; set-up ends |
| Tear-down | actors are dropped once and only if they were constructed |
| Replay | events are neither lost, doubled nor reordered; what comes out is a merge; nothing fails without an interrupt; all tasks end |

## 2. The modules

| Module | What it is | Checked by | Proved in |
|---|---|---|---|
| `Quiescence` | abstract: work begets work, contexts halt when there is none | refined by `Runtime` | |
| `Runtime` | threads, control block, queues, accessors | `MCRuntime` | `RuntimeProofs`, `DeliveryProofs` |
| `Graph` | `has_cycles` | `MCGraph` | `GraphProofs` |
| `Borrow` | what local keys lend | `MCBorrow` | `BorrowProofs` |
| `Arena` | space, offsets, construction | `MCArena` | `ArenaProofs` |
| `Lookup` | queries: who is found, with which reference, and in which group | through `Setup` | `SetupProofs` |
| `Setup` | from a configuration to running actors and back; extends `Lookup` | `MCSetup` | `SetupProofs` |
| `Merge` | abstract: events of several streams come out in one order | refined by `Replay` | |
| `Replay` | the event loop, the synchronizer, generators and producers | `MCReplay` | `ReplayProofs` |
| `OnceRead` | abstract: things are registered, and read once | refined by `Registry` | |
| `Registry` | the list of constructors and the reading of it | `MCRegistry` | `RegistryProofs` |

The MC modules only give values to constants. A definition whose comment begins
"Plausible bug" is not part of any specification: it is a wrong version of the
definition that follows it, with which a run has been seen to fail, so that each
property is known to say something about the code.

### Runtime

One step is one access to shared memory, or one call into user code, with the
private work next to it. `pc[c]` is where the thread of context `c` is:

| `pc` | the code |
|---|---|
| `init` | `create_context`: constructors run (`mod.rs:209-280`) |
| `first`, `first_run` | the loop before `into_unowned`, outside and inside a handler (282-285) |
| `recv` | blocked on `ctx.rx.recv()` (292) |
| `run`, `drain` | inside a handler, and in the loop over the local queue (318-325) |
| `flush` | sending what `unsent_messages` held (341-362) |
| `stop_after_drop`, `stop_after_msg` | the two loops that send `Stop` (299-309, 331-337) |
| `exited`, `panicked`, `disconnected` | over: returned, by a panic, by `unwrap` on a channel without senders |

User code is arbitrary: in `init`, `first_run` and `run` it may send to any
context (`InitSendMsg`, `SendMsg`; a broadcast is one send per context of its
group), a constructor may make accessors (`CreateAccessor`), a handler of a
context in `FaultyContexts` may panic. Accessors live on any thread:
`AccessorCount` and `AccessorPush` are the halves of `send`.
`handled` and `sent` are history. What a thread that panicked leaves in its
queues stays in the model as a record of what was dropped.

What user code does is not tied to which actor runs: a context is the unit of
the model, and actors are `Setup`'s. A message the code routes to the wrong
context is handled there like any other; what its handler meets in another
context's arena is in `Setup`.

### Lookup and Setup

`Lookup` is what a query gives for the tree of actors: `LookupOf`, the reference
(`Ref`: an offset and the type the metadata is for), `Group`, and `LocalMatch`
for `acyclic_local_key`. `Setup` is the life of a process with the actor as its unit:

| `pc` | the code |
|---|---|
| `unborn` | no thread yet, or no such context (`mod.rs:40-180`) |
| `init` | inside a constructor, `at[c]` being the actor it is for, or past the last (`mod.rs:209-275`) |
| `asking`, `making` | the constructor is in `get_resource`: waiting for the `LazyLock`, or making the resource itself (`mod.rs:58-71`) |
| `first`, `first_run`, `recv`, `run`, `drain` | as in `Runtime` |
| `dropping`, `unwinding` | `Context::drop` after a return, or during a panic (`context.rs:79-85`) |
| `gone` | the arena is freed, or leaked by a drop that panicked |

`process` says how the program fares: a configuration it refuses (`Reject`), and
every panic that meets a `ControlBlockPtr` on its way (`ConstructFails`,
`CycleDetected`, `FirstHandlerPanics`, `RejectType`), end it, and so does a closure
called on memory that is not what it is for (`Astray`): nothing can be said of the
process then. A constructor may do what `InitArgs` offers and fail at any point: ask for a resource, make
accessors and keys, send and broadcast. `casts` records for each message which
actors it was meant for, `reached` on which it has run.

Messages go to other contexts by two ways. An accessor has the right channel
(`AccessorSend`). What a handler leaves is sent, context by context, on the link that
the code picks (`Flush`), which is that of another context or none at all
(`misrouted`): `LinkSlot` is the computation at `mod.rs:343`, and the receiver runs
the closure in its own arena. `strays` is the history of what links took
elsewhere. `Visit` is the call for one reference: in the arena the message is for, on
the actor at that offset; in another, on one of the type if chance has put one
there, or else `Astray`. `HandlersMeetTheirActor` and `EachTargetOnce` say what holds
of every other message, and that a stray one is lost to those it was for: they
except exactly what `misrouted` finds, and no more.

The model allows more than the program where counting would decide: a thread may
`Leave` whenever it waits, since references are `Runtime`'s; unsent messages to one
context have no order. An offset is the place of an actor among those of its context,
which `Arena` shows to be apart. A lookup answers from the whole tree, with
interfaces resolved by `Implementors`, the lists `Registry` builds.

### Replay

One Tokio thread runs the loop (`loop`), `background_task` (`sync`, with `turn`
the producer it awaits) and a generator for each producer (`gen`); they
interleave where they await. The contexts of the producers are threads of the
runtime that handle what accessors send them in order (`inbox`). An event
is its place in the order of `(timestamp, tie_break)`. `Choose` takes the greatest:
`BinaryHeap` is a max-heap and `HeapEntry` is not reversed. For the streams of
`replay_mock`, which go up, this replays one stream's later events before
another's earlier ones; no text in the repository says which order is meant.

The `select!` is biased and has two polls, `task_rx` and then the signal, so that
a task or a signal may come between them (`loop` is `recv` or `signal`). `Break`
drops the receiver with the tasks that wait in it. After it `spawn_with` panics:
in a context's thread (`CreateStream`), whose unanswered requests are then
answered by the drop of their `oneshot` (`NoStream`), or in the synchronizer's
constructor (`Launch`), which aborts as in `Setup`. `NoStream` drops
`background_task` and the accessors in it; when a receiver is gone that
panics in turn, so the model lets it abort. A request to a context that is gone
panics and, with its accessor, aborts (`AskNobody`); the thread of a context that
panics may still have its receiver, so the send may also succeed. A producer's handler
is two steps, the spawn (`CreateStream`) and the answer (`AnswerStream`), for the task
that awaits the answer may panic in between: then "Could not send" takes that
context too, and the generator that was spawned finds that its stream is gone
(`GivenUp`). Sleeps are left out, and so is
Tokio's budget, which only makes a task yield more often. The loop ends by itself
(`NoSenders`) once no `TokioSingleThread` is left; the contexts' own map of
resources is taken to be gone by then.

### Graph

The recursion of `dfs` is the stack `calls`, each call with the children it has
still to visit; `Try` is the loop of `has_cycles` and `Visit` that of `dfs`. Any
key and any child may come next, since hash maps order them. `Init` is every
relation `acyclic_local_key` can have recorded: it records none of an actor to itself.

### Borrow

A reference is the sequence of keys it came through from the actor whose handler
runs. What may be lent when is what the lifetimes in the signatures let the
compiler accept: the result of `borrow_mut` is tied to the key and not to
`MainArgs`; the closure of `call` is an `Fn`, but a shared reference to a `RefCell`
with a mutable one inside is something an `Fn` may capture, so within a call
everything that is live is in reach; and
a result may carry references out of the call. So a key of any actor in reach may
be used as long as it lends nothing (`CanLend`). Keys stay with the actor that
asked for them. (`AcyclicLocalKey` derives `Copy`, but that needs the actor type
to be `Copy`.) `Admits` is the verdict that `Graph` is proved to reach.

### Arena

`Measure` is one turn of `compute_space_required`, `Alloc` is `from_layouts`
(with alignment 1, so at any address), `Place` one turn of `get_offsets`,
`Construct` the assertions of `at_offset` for one actor.

### Registry

`LoadHead`, `StoreNext`, `Swap` and `SwapFails` are `init_node`, an access to
memory each; the swap is a weak one and may fail for no reason. `GetReady`,
`GetEmpty`, `Walk`, `WalkPanics` and `Build` are `Registry::get` and the
initialiser of its `OnceLock`, which stays empty after a panic. Memory is
sequentially consistent: the release sequence on the head orders what the walk
reads. An actor type is its name; the metadata of a trait's vtable is the type's.
`traits` is the list given to `register_actor!`, in which one may stand twice: then
the type is twice in the list of that trait.

## 3. The runs

| Run | Instance | What it shows |
|---|---|---|
| `threads` | 3 threads: handlers of the first send two messages, those of the second may panic; 2 accessors that send one each | `CountExact`, `BlockAliveWhileUsed`, `StopOnlyWhenQuiescent`, `StopReachesWaitingThreads`, `PanicBlocksShutdown`, `DisconnectedOnlyAfterEarlyDrop`; `ExactlyOneCopy`, `OnlyEarlySendsAreLost`, `RemoteOrder`; `QuiescenceIsDetected`, `AccessorMessagesAreHandled`, `ShutdownCompletes`; `Runtime` implements `Quiescence` |
| `setup` | 8 configurations: three actors of two types on two contexts that go by interfaces, two actors on one context with every query they can make and keys both ways, three contexts with links that lead astray, and each way to be refused; 2 messages, 2 keys a context | `HandlersMeetTheirActor`, `EachTargetOnce`, `LocalKeysAreSound`, `DropsAreSound`, `SetupEnds` |
| `replay` | 4 producers on 2 contexts: one with more events than its channel holds, equal events, one stream that goes down, one without events; an interrupt at any time | `PipelineIsExact`, `CleanUnlessInterrupted`, `ReplayCompletes`, `TokioThreadEnds`; `Replay` implements `Merge` |
| `cycles` | every relation on 4 actors up to renaming, every order of iteration | `VerdictIsRight` (against the definition of a cycle), `OneCallPerActor` |
| `lending` | 4 actors, every admitted choice of up to 4 keys, two of which may be alike | `NeverReachesItself`, `OnlyDiamondsAlias` |
| `layouts` | up to 3 actors, alignments 1 to 8, sizes of 0, 1 and 2 times the alignment, every address modulo 8 | `ObjectsFit`, `ObjectsDisjoint`, `SpaceIsExact` |
| `loading` | 4 nodes, two with one name, one with a trait given twice, and 2 callers of `get` | `ListHoldsPushed`, `NamesResolve`, `TraitsListImplementors`, `PushSucceeds`; `Registry` implements `OnceRead` |

Runs that end in a violation show where the code departs from what the
repository says of it:

| Run | What the code does |
|---|---|
| `misrouted` | With three contexts, what 1 sends to 2 arrives at 3: the index into `links` is one less for the contexts *below* the sender, where it should be for those above (`mod.rs:343`, `360`). What 1 sends to 3 is out of bounds |
| `premature_drop` | When the last reference goes in `into_unowned`, the block is deallocated and nobody is told to stop: every thread waits for ever, or panics on a channel without senders (`context.rs:382`) |
| `early_sends` | What a constructor or a first-round handler sends to another thread waits in `unsent_messages` for the first remote message, and is dropped when none comes (`mod.rs:283-292`) |
| `exact_fit` | The space is exact but `at_offset` demands a byte beyond the last object (`arena.rs:54`) |
| `diamond` | Two keys used one after the other lend one actor twice, which the comment at `lookup.rs:257-258` means to exclude |

**Bounds, and why they are enough.** *Threads.* Because of what `misrouted` shows, a
context of two cannot send to the other at all (the index is out of range and the
flush panics), and of three only 1 to 2 and 3 to 2 find a link, the wrong one; so
everything about messages between contexts needs three, as does a `Stop` loop
of more than one turn. Two messages make the smallest batch that is counted
(`FlushCredit`). Contexts 2 and 3 are given nothing to send: they receive,
panic, are woken and stop. Accessors that send one message each let a thread be
woken, drained and woken again. Everything counted in the runtime (references,
sends) is bounded by what sources may send, so no state is cut off.

*Set-up.* The first configuration has a group that spans two contexts and a trait
with two implementors of which one context holds both; a type on both contexts, so
that `acyclic_local_key` has to refuse it; and a trait with one implementor. The
second is the smallest where keys can form a cycle. The third is the smallest
where a link works at all: what 1 sends to 2 goes to 3, which has the actor of
the type at that offset or not, and what 1 sends to 3 finds no link. Two messages are one for
each of two threads, or two for one actor; what messages do to each other beyond
that is `Runtime`'s. The others are the configurations `create_context_args` and
`run` refuse.

*Replay.* The channel's capacity is that of the code, 2, and one stream is longer; with
three streams that have events a choice can be wrong in either direction.

*The rest.* Four actors hold
a diamond, a cycle of each length from two to four and a cycle reached from outside it.
Addresses matter modulo the largest alignment only, and all eight residues are
there; three objects make a rise, a fall and an equal step of alignment after
some padding. The theorems below need none of these bounds.

**Fairness.** `Runtime!Fairness` is that the operating system runs every thread
(`WF` on `Thread(c)`: user code returns from handlers and constructors) and that
a thread inside `Accessor::send` gets to its end. Nobody is obliged to send, to
panic or to drop an accessor; `QuiescenceIsDetected` begins once they are gone.
`Setup!Fairness` is that the main thread and those that construct go on, that constructors
return (or fail), and so what makes a resource. `Replay!Fairness` is that threads
run and that Tokio polls every task that can go on; nobody need interrupt.
`Registry!Fairness` is that a constructor that has begun goes on, and that its
weak swap, if it could succeed again and again, does: `WF` on `StoreNext` and `SwapFails`,
`SF` on `Swap`. `CHECK_DEADLOCK FALSE` stands where the program ends or, as found, hangs;
`lending` never stops.

## 4. The proofs

Every theorem holds for all values of the constants that satisfy the named
assumptions: `NAssumption` (at least one context: `run` needs a first),
`AccessorsAssumption` (finitely many, and not contexts), `MaxSendsAssumption`,
`FaultyAssumption`; `ActorsAssumption` (finitely many) in `Graph`; `NobodyAssumption`;
`NodesAssumption`, `DeclAssumption`;
`ConfigsAssumption` (a `ContextId` is not zero, and `N` bounds the contexts), with `N` a
natural number in `Setup`, `NoneAssumption` (no message is `None`), `NamesAssumption` and
`ImplementorsAssumption`; `LayoutsAssumption` (alignments divide one another, as powers of
two do), `MaxActorsAssumption`, `AddressesAssumption`; those of `Replay` are named below.
One theorem, `SpaceIsMinimal`, has a hypothesis of its own.
`MaxSends` is a parameter, so the bound of the model is none of the proof.

**RuntimeProofs.** `Invariance` proves `IInv` inductive. `CountExact` alone is
not: that a step keeps it depends on which queues may be filled where
(`QueuesFitPc`), and what happens after the counter reaches zero depends on there being
no reference at all. So `IInv` says: the references are finitely many and the
counter is their number; once the block is freed or a thread is stopping there
is none (`NothingLeft`), hence every thread waits on a channel that nobody can
put work into; a `Stop` in a queue means that somebody is stopping
(`StopMeansOver`), and every thread that waits has its `Stop` or is still to be
sent it (`StopIsComing`). Each action's effect on `References` is a lemma:
which triples it adds and removes. From it follow

* `TypeCorrect`, with the counter never below zero; `CounterIsExact`;
* `NoUseAfterFree`: nobody who will read the block finds it deallocated;
* `StopsWhenQuiescent`, `StopIsDelivered`, `NoShutdownAfterPanic`;
* `DisconnectionHasReason`, from `IInv` and three facts more (`DInv`): somebody notices
  that the counter is zero, by freeing the block or by stopping the others
  (`ZeroIsNoticed`); only a context that is over fails a sender (`FailedAtGone`); and so the
  one thread whose channel loses its senders holds no reference and nobody else does;
* `RuntimeImplementsQuiescence`: every step is one of `Quiescence`'s or a stutter.

**DeliveryProofs.** What the runtime does with messages, on top of `IInv`. `OneCopy`: message
`k` of a source is in exactly one place if it was sent and in none if not, a place being a
position in one of the four kinds of queue or a context that handled it. A step is then a
move: it carries the one place of a message to one place, and for an append, a tail, the last
item taken and a queue reordered into another there is a lemma each (`MessagesAreConserved`). `OrderInv`
follows a message from the batch (`BatchOrder`) into a channel (`ChannelOrder`) to the
handler (`HandledOrder`): at each stage what one source sent to one context is in order and
before what is at an earlier stage. Since a local queue is served from its end, this
holds only because nobody else's messages are in it (`FromOwn`), and it gives
`SourcesAreHandledInOrder` as an action property: no handler ever begins out of order. `LossIsEarly`:
after a message from elsewhere a context leaves no round without an empty
`unsent_messages` (`EarlyOnly`), so what is left when all have returned was sent too early.

**GraphProofs.** A *knot* is a non-empty set each of whose actors depends on
another of it: on finitely many actors, a cycle; and unlike "there is a path
from n to n" it needs no induction. The calls in progress are a path and are
the `Visiting` nodes, so meeting one closes a knot (`NoFalseAlarm`).
Children of `Visited` nodes are `Visited` and no set of these is a knot, which
`Leave` keeps: a knot with the new node would need a `Visited` node that has it as a child
(`NoCycleMissed`). `RecursionIsBounded` is the path having each node once.
`VerdictIsCorrect` is about the textbook definition, a closed walk of the relation: the actors
of one are a knot (`CycleIsKnot`). Conversely a walk in a knot can always go on, and if it comes
back to one of its actors there is a cycle (`ReturnIsCycle`); if it never does, there are walks
without repetition of every length, but none is longer than the number of actors
(`WalksAreShort`, `KnotHasCycle`). Every length is an induction. The library's
theorem for that takes an operator, so `AllNaturals` proves it for sets: one that
holds 0 and the successor of each of its members holds every number, since the successor
would otherwise be a map of a finite set into itself, one to one, that misses 0.

**BorrowProofs.** A live reference came along a path of the relations. If an
actor were on it twice, those between would be a knot, which `Admits` excludes
(`NoReentrance`). What a live reference came through is live too (`PathsLive`), so
`OnlyDiamondsAlias` is inductive: if a key lends what another reference is to, that one
is the handler's own, and an actor is reached through itself; or it came by another key,
and there are two; or it came by the same key, and the two references this key was reached by are
to one actor already (`AliasesNeedTwoKeys`).

**RegistryProofs.** `NoNodeIsLost`: when a node is ready to swap, its `next` is
the head it expects, so a swap that succeeds extends the list; and the `next` of
a node in the list is never written again. `WInv` adds what a walk knows: the node at its
pointer is in the list that was loaded, and the builder holds what lies before it
(`Reading`), in whatever order libraries push meanwhile; and one caller of
`get` walks at a time (`OneWalks`). A walk that reaches the end holds all that was loaded
(`AllIsRead`), whence `NamesAreRight`, `TraitListsAreRight` and
`RegistryImplementsOnceRead`. The last assumes `Distinct`: that no two nodes
declare the same, since from a registry nobody can tell which of two
was read (two actors of one name make the walk panic before there is one).

**SetupProofs.** Its first part is about the tree: the offsets of a context are
the numbers below the number of its actors, each of one actor (`Offsets`), by a
bijection that needs finite sets and no induction. The invariant `IInv` has three
parts. `ThreadsOk`: until a context opens, its constructed actors are those
with offsets below `at` and none is dropped; while it is open all are there and
its relations have no cycle; while it is dropped those below `at` are gone
(`Phase`); each key leads where the recorded relation says (`KeyOk`). `MailOk`: every
reference in a queue, or in an accessor, is that of an actor of the context the
message is to, of that type, and one of those the message was cast for
(`RefOk`), whether or not it is constructed; and a message in the channel of another context
than it is to is a stray (`Comes`). `HandlersOk`: so is what a thread runs.
Handlers run only while a context is open, so their actor is alive
(`HandlersAreSafe`); messages may be sent at any time because `RefOk` says
nothing of being alive. `LocalKeysAreSafe`: the keys' relation is part of the
one that was searched. `DropsAreSafe` and `TypeCorrect` follow from `Phase`. The
verdict of `HasCycles` is what `Graph` is proved to reach.

`TargetsAreMetOnce` follows the copies of a cast as `DeliveryProofs` follows messages.
`TargetInv` adds to `IInv` that each actor meant by a cast has one place, in a
queue, among what is unsent, in the group a thread works through, in the record of
what ran or among what links took astray (`AllPlaces`), and no other actor has any
(`OneTarget`); that a thread holds something exactly where its `pc` says so (`Idle`); and
that a batch has at most one message of a cast for a context (`OneToEach`), without which
two would be one in a set.

**ReplayProofs.** `NothingFailsByItself`: the loop ends uninterrupted only when
no task and no message that could spawn is left, and that stays so, since only
`background_task` sends requests (`LoopOutlivesSpawners`). `ReplayImplementsMerge`
maps a stream to the rest of it: what the heap, the channel and the generator
still have, in that order. When an event is chosen every stream has its first
event in the heap or has ended (`NoneOvertaken`); streams are lost
only while their generators wait to be spawned and have sent nothing
(`GeneratorsInOrder`), which is before the first event comes out, because each
producer is asked once and each generator spawned once (`RequestsInOrder`,
`TasksInOrder`). `NothingIsLostOnTheWay` cuts each producer's events into what was processed,
what is queued, the one in the heap, what is in the channel and what is still to be sent:
`Flow` says where each part begins and ends, and every step moves one event
over one of these borders. Several producers share an inbox, so a part of it is a
list of places in increasing order (`Holds`), and four lemmas say what an append and a tail
do to it. That it is also the sequence `Queued`, defined by counting, is `ListingIs`.
`EventsAssumption`, `HomeAssumption` and `CapacityAssumption`
are all it assumes.

**ArenaProofs.** The space is measured before the address is known, so the
invariant speaks of every way to place the layouts measured so far
(`IsPlacement`, from any address): none ends beyond `res` (`SpaceSuffices`) and
all end at `curr_offset` modulo `known_align` (`EndIsKnown`). Hence an object of a
smaller alignment needs exactly the padding counted for it (`PadIsExact`), and one of
a larger alignment at most that (`WidenIsEnough`); both rest on lemmas about
remainders that are proved from division, since alignments are variables. What `get_offsets`
places is one of those ways (`OffsetsAreRight`), whence `SpaceIsEnough`; `NoOverlap` is that
objects end no later than `curr`. `SpaceIsMinimal` is the converse of the first: some
address wastes nothing. Its invariant `Tight` names a remainder of `known_align` from
which every placement ends at `res` exactly; when `known_align` widens, one of the addresses that
agree with it before is the worst for the new alignment (`WorstAddress`,
`WidenIsNeeded`). It assumes `EveryRemainder`, that the allocator may return an address
of every remainder of each alignment, as in the run `layouts`; with an allocator that always aligns,
as in `exact_fit`, the space is more than enough and the theorem says nothing.

**Only model-checked.** Liveness: `QuiescenceIsDetected`, `AccessorMessagesAreHandled`,
`ShutdownCompletes`, `PushSucceeds`, `SetupEnds`, `ReplayCompletes` and
`TokioThreadEnds`, which with their fairness (`ENABLED`) are beyond the prover. Every
safety property and every refinement that a passing run checks is proved. The runs that end in a
violation show a behaviour of the code, which is all they need.

## 5. Plan

The modules above are done, and what can be proved of the properties they state is.
Should the code change where a violation run points (the index into `links`, the silent
last reference, the early sends), the property of that run becomes one to prove:
`OrderInv`, `StopIsComing` and `EarlyOnly` are the parts of the invariants to begin with.

## 6. What is not modelled

* The order of messages within a context: `LocalQueue::recv` pops the end that
  `send` pushes to, so they are handled last first. The model does so too; the
  repository promises no order, so no property states one.
* A panic in a constructor or a first-round handler: it unwinds through
  `ControlBlockPtr`, whose `drop` is `unreachable!` (`context.rs:397`), and the
  process aborts: `Setup` and `Replay` have it, `Runtime` does not. The release
  profile aborts on every panic (`src/Cargo.toml:6`), so only the dev profile
  reaches the states after one.
* The block is never deallocated on the path through `stop_after_msg`
  (`mod.rs:331-337`): `freed` stays false there. A leak at exit; no property forbids it.
* `dealloc` with `Layout::for_value` of a reference rather than of the block
  (`context.rs:375`); `alloc` of no bytes (taken to return some address).
* The orderings of the atomics: `unhandled_events` is one location, whose
  accesses are totally ordered whatever their ordering; what they order of
  *other* memory is not in the model.
* `thread_affinity`, which nothing reads.
* What consumers of the replay do with events: `replay_mock` broadcasts them, which is
  `Setup`'s `Broadcast`.
* Example application, proc macro, re-exports: no state.
