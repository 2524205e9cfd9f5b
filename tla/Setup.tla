-------------------------------- MODULE Setup --------------------------------
(***************************************************************************)
(* From a configuration to running actors and back                         *)
(* (crates/core/dytor/src/runtime/mod.rs, context.rs): the configuration   *)
(* is checked, actors are placed, each context's thread constructs its own *)
(* and searches their keys for cycles, and then messages run on actors     *)
(* until the context is dropped with them.                                 *)
(*                                                                         *)
(* Runtime follows contexts and counts references; here the unit is the    *)
(* actor: which one a handler runs on and whether it is there.  So the     *)
(* counter is left out (a thread may leave whenever it waits).  Messages   *)
(* go to other contexts through accessors and through links; a link takes  *)
(* its message to another context than it is for, and what the handler     *)
(* meets in that arena is a matter of chance.  Panics unwind.              *)
(***************************************************************************)
EXTENDS Lookup, Sequences

CONSTANTS
  N,          \* bound on the contexts of a configuration
  Configs,    \* the configurations, and what the code of their actors makes use of
  MaxCasts,   \* bound on what is sent, to one actor or to a group
  MaxKeys,    \* bound on the local keys of a context
  None        \* no handler

\* A ContextId is not zero.
ASSUME NAssumption == N \in Nat
ASSUME ConfigsAssumption ==
  \A cf \in Configs :
    /\ Len(cf.contexts) \in 0 .. N
    /\ Len(cf.actors) \in Nat /\ DOMAIN cf.actors = 1 .. Len(cf.actors)
    /\ \A i \in DOMAIN cf.actors : cf.actors[i].context \in Nat \ {0}

\* None is not what a thread runs.
ASSUME NoneAssumption ==
  LET Refs == [offset : Nat, meta : Types]
  IN  None \notin [cast : Nat, to : Nat, ref : Refs, refs : SUBSET Refs]

Threads == 1 .. N

VARIABLES
  config,     \* Config
  process,    \* "config" until there are threads; then how the process fares
  tree,       \* ActorTree
  pc,         \* where the thread of each context is
  at,         \* how many actors of its context it has constructed, or dropped
  built,      \* the ids of the actors whose constructors returned
  drops,      \* how often each actor was dropped
  relations,  \* InitData::dependence_relations
  keys,       \* the AcyclicLocalKeys that the actors of each context keep
  lazy,       \* the LazyLock of the resource: unmade, being made, or made
  made,       \* history: how often the resource was made
  local_queue,
  unsent_messages,  \* as a set: their order is Runtime's
  rx,
  strays,     \* history: the messages that links took to other contexts
  doing,      \* the message a thread runs: the actor it is on, and those left
  reached,    \* history: which actors each message ran on
  accessors,  \* the accessors there are
  casts       \* history: what was sent, as the set of actors it was meant for

tables   == <<config, process, tree>>
objects  == <<at, built, drops>>
local    == <<relations, keys>>
resource == <<lazy, made>>
queues   == <<local_queue, unsent_messages, rx, strays>>
handler  == <<doing, reached>>
outside  == <<accessors, casts>>
vars == <<tables, pc, objects, local, resource, queues, handler, outside>>

------------------------------------------------------------------------------
(***************************************************************************)
(* create_context_args.                                                    *)
(***************************************************************************)
Ids == DOMAIN config.actors

\* ActorId is the place in the configuration.  allocate_actors lays the actors
\* of a context out in that order, apart from each other (Arena): an offset
\* stands for a place among them.
Entry(i) ==
  LET a == config.actors[i]
  IN  [id |-> i, type |-> a.type,
       loc |-> [context |-> a.context,
                offset |-> Cardinality({j \in 1 .. i - 1 : config.actors[j].context = a.context})]]

Own(c) == {e \in tree : e.loc.context = c}

\* The actor at an offset of context c's arena.
ActorAt(c, offset) == CHOOSE e \in Own(c) : e.loc.offset = offset

\* No namespaces, contexts named 1 ..= n, a context for every actor; and run
\* has a first context to unwrap.
WellFormed ==
  /\ ~ config.nested
  /\ \A k \in DOMAIN config.contexts : config.contexts[k] = k
  /\ \A i \in Ids : config.actors[i].context <= Len(config.contexts)
  /\ config.contexts # <<>>

\* Registry::by_name finds every type.
Resolved == \A i \in Ids : config.actors[i].type \in Types

Init ==
  /\ config \in Configs
  /\ process = "config"
  /\ tree = {}
  /\ pc = [c \in Threads |-> "unborn"]
  /\ at = [c \in Threads |-> 0]
  /\ built = {}
  /\ drops = [i \in Ids |-> 0]
  /\ relations = [c \in Threads |-> {}]
  /\ keys = [c \in Threads |-> {}]
  /\ lazy = "unmade" /\ made = 0
  /\ local_queue = [c \in Threads |-> <<>>]
  /\ unsent_messages = [c \in Threads |-> {}]
  /\ rx = [c \in Threads |-> <<>>]
  /\ strays = {}
  /\ doing = [c \in Threads |-> None]
  /\ reached = {}
  /\ accessors = {}
  /\ casts = <<>>

\* The process is over, whatever its threads were doing, or nothing can be said
\* of it any more.
End(how) ==
  /\ process' = how
  /\ UNCHANGED <<config, tree, pc, objects, local, resource, queues, handler, outside>>

\* The panics of create_context_args and run while nothing is at stake.
Reject == process = "config" /\ ~ WellFormed /\ End("panicked")

\* The unwrap in allocate_actors unwinds through the first ControlBlockPtr,
\* whose drop panics.
RejectType == process = "config" /\ WellFormed /\ ~ Resolved /\ End("aborted")

Start ==
  /\ process = "config" /\ WellFormed /\ Resolved
  /\ process' = "running"
  /\ tree' = {Entry(i) : i \in Ids}
  /\ pc' = [c \in Threads |-> IF c <= Len(config.contexts) THEN "init" ELSE "unborn"]
  /\ UNCHANGED <<config, objects, local, resource, queues, handler, outside>>

------------------------------------------------------------------------------
(***************************************************************************)
(* create_context.                                                         *)
(***************************************************************************)
Goto(c, l) == pc' = [pc EXCEPT ![c] = l]

\* The actor that is next to be constructed, or to be dropped.
Current(c) == ActorAt(c, at[c]).id
AllDone(c) == at[c] = Cardinality(Own(c))

\* A constructor of context c runs.
Constructing(c) == pc[c] = "init" /\ ~ AllDone(c)

\* The constructor returns and its actor is in its place.
Construct(c) ==
  /\ Constructing(c)
  /\ at' = [at EXCEPT ![c] = @ + 1]
  /\ built' = built \cup {Current(c)}
  /\ UNCHANGED <<tables, pc, drops, local, resource, queues, handler, outside>>

\* Plausible bug: the thread drops its context and goes.
ConstructFailsAlone(c) ==
  /\ Constructing(c) \/ pc[c] \in {"asking", "making"}
  /\ Goto(c, "unwinding")
  /\ at' = [at EXCEPT ![c] = 0]
  /\ UNCHANGED <<tables, built, drops, local, resource, queues, handler, outside>>

\* deserialize_yaml_value, at_offset, an assertion in a lookup, the resource's
\* constructor or the actor's own fails: the panic unwinds through
\* ControlBlockPtr, whose drop panics, and that aborts.
ConstructFails(c) ==
  /\ Constructing(c) \/ pc[c] \in {"asking", "making"}
  /\ End("aborted")

\* InitArgs::get_resource.  (Once it is made, asking is no step.)
GetResource(c) ==
  /\ Constructing(c) /\ config.code.asks /\ lazy # "made"
  /\ Goto(c, "asking")
  /\ UNCHANGED <<tables, objects, local, resource, queues, handler, outside>>

\* Plausible bug: each context has LazyLocks of its own.
MakeResourceUnshared(c) ==
  /\ pc[c] = "asking"
  /\ lazy' = "making"
  /\ made' = made + 1
  /\ Goto(c, "making")
  /\ UNCHANGED <<tables, objects, local, queues, handler, outside>>

\* LazyLock: the first to ask makes it, on its own thread.
MakeResource(c) ==
  /\ pc[c] = "asking" /\ lazy = "unmade"
  /\ lazy' = "making"
  /\ made' = made + 1
  /\ Goto(c, "making")
  /\ UNCHANGED <<tables, objects, local, queues, handler, outside>>

\* It is made, or the wait for the thread that makes it is over.
ResourceReady(c) ==
  /\ pc[c] = "making" \/ (pc[c] = "asking" /\ lazy = "made")
  /\ lazy' = "made"
  /\ Goto(c, "init")
  /\ UNCHANGED <<tables, objects, local, made, queues, handler, outside>>

\* InitArgs::accessor, accessor_for_key, Query::all_accessors: for whatever
\* match, constructed or not.
MakeAccessor(c, e, q) ==
  /\ Constructing(c) /\ q \in config.code.accesses
  /\ e \in LookupOf(tree, q)
  /\ accessors' = accessors \cup {[context |-> e.loc.context, ref |-> Ref(e, q)]}
  /\ UNCHANGED <<tables, pc, objects, local, resource, queues, handler, casts>>

\* Query::acyclic_local_key: the key is the offset, the relation is the ids.
AcyclicLocalKey(c, q) ==
  /\ Constructing(c) /\ q \in config.code.keeps
  /\ Cardinality(keys[c]) < MaxKeys
  /\ \E e \in LocalMatch(tree, q, Current(c), c) :
       /\ relations' = [relations EXCEPT ![c] = @ \cup {<<Current(c), e.id>>}]
       /\ keys' = [keys EXCEPT ![c] = @ \cup {[holder |-> Current(c), ref |-> Ref(e, q)]}]
  /\ UNCHANGED <<tables, pc, objects, resource, queues, handler, outside>>

Knot(rels, S) == S # {} /\ \A n \in S : \E m \in S : <<n, m>> \in rels

\* graph::has_cycles, by what Graph shows of it (VerdictIsRight).
HasCycles(rels) == \E S \in SUBSET {r[1] : r \in rels} : Knot(rels, S)

\* No cycle: create_context returns.
FinishInit(c) ==
  /\ pc[c] = "init" /\ AllDone(c)
  /\ ~ HasCycles(relations[c])
  /\ Goto(c, "first")
  /\ UNCHANGED <<tables, objects, local, resource, queues, handler, outside>>

\* "Cycle detected": again through ControlBlockPtr.
CycleDetected(c) ==
  /\ pc[c] = "init" /\ AllDone(c)
  /\ HasCycles(relations[c])
  /\ End("aborted")

------------------------------------------------------------------------------
(***************************************************************************)
(* Messages.                                                               *)
(***************************************************************************)
InHandler(c) == pc[c] \in {"first_run", "run"}
UserCode(c) == Constructing(c) \/ InHandler(c)

\* Plausible bug: the own context's part of a group is also kept for later.
OthersAndOwn(c, gs) == DOMAIN gs

\* The contexts whose part of a group is for another thread.
Others(c, gs) == DOMAIN gs \ {c}

\* ContextData::broadcast for the group gs: a message for each context, into
\* the local queue or kept until the handlers are done.  ids: who it is for.
Post(c, ids, gs) ==
  LET k == Len(casts) + 1
      Msg(d) == [cast |-> k, to |-> d, refs |-> gs[d]]
  IN
  /\ k <= MaxCasts
  /\ casts' = Append(casts, ids)
  /\ local_queue' = [local_queue EXCEPT
                       ![c] = IF c \in DOMAIN gs THEN Append(@, Msg(c)) ELSE @]
  /\ unsent_messages' = [unsent_messages EXCEPT ![c] = @ \cup {Msg(d) : d \in Others(c, gs)}]
  /\ UNCHANGED <<tables, pc, objects, local, resource, rx, strays, handler, accessors>>

\* InitArgs::send_msg, MainArgs::send_msg: a key is one reference.
SendMsg(c, e, q) ==
  /\ UserCode(c) /\ q \in config.code.sends
  /\ e \in LookupOf(tree, q)
  /\ Post(c, {e.id}, [d \in {e.loc.context} |-> {Ref(e, q)}])

\* InitArgs::broadcast, MainArgs::broadcast, to the group of a query.
Broadcast(c, q) ==
  /\ UserCode(c) /\ q \in config.code.broadcasts
  /\ Post(c, {e.id : e \in LookupOf(tree, q)}, Group(tree, q))

\* Accessor::send, from any thread at any time.
AccessorSend(a) ==
  LET d == a.context
      m == [cast |-> Len(casts) + 1, to |-> d, refs |-> {a.ref}]
  IN
  /\ pc[d] # "gone"
  /\ Len(casts) < MaxCasts
  /\ casts' = Append(casts, {ActorAt(d, a.ref.offset).id})
  /\ rx' = [rx EXCEPT ![d] = Append(@, m)]
  /\ UNCHANGED <<tables, pc, objects, local, resource, local_queue, unsent_messages,
                 strays, handler, accessors>>

------------------------------------------------------------------------------
(***************************************************************************)
(* run_thread.                                                             *)
(***************************************************************************)

\* The thread of c comes to the next of refs, in the order of the tree.  In the
\* arena of another context it may chance upon an actor of the type.
Visit(c, m, refs) ==
  \E r \in refs :
    /\ \A x \in refs : r.offset <= x.offset
    /\ doing' = [doing EXCEPT ![c] = [cast |-> m.cast, to |-> m.to, ref |-> r, refs |-> refs \ {r}]]
    /\ \/ m.to = c /\ reached' = reached \cup {<<m.cast, ActorAt(c, r.offset).id>>}
       \/ m.to # c /\ reached' = reached /\ \E e \in Own(c) : e.type = r.meta

RecvLocal(c) ==
  LET q == local_queue[c] IN
  /\ q # <<>>
  /\ \/ pc[c] = "first" /\ Goto(c, "first_run")
     \/ pc[c] = "drain" /\ Goto(c, "run")
  /\ Visit(c, q[Len(q)], q[Len(q)].refs)
  /\ local_queue' = [local_queue EXCEPT ![c] = SubSeq(q, 1, Len(q) - 1)]
  /\ UNCHANGED <<tables, objects, local, resource, unsent_messages, rx, strays, outside>>

\* into_unowned, and the thread begins to serve its channel.
Serve(c) ==
  /\ pc[c] = "first" /\ local_queue[c] = <<>>
  /\ Goto(c, "recv")
  /\ UNCHANGED <<tables, objects, local, resource, queues, handler, outside>>

\* Plausible bug: messages are handled while actors are constructed.
ReceivingEarly(c) == pc[c] \in {"init", "recv"}

Receiving(c) == pc[c] = "recv"

RecvMsg(c) ==
  /\ Receiving(c) /\ rx[c] # <<>>
  /\ Goto(c, "run")
  /\ Visit(c, Head(rx[c]), Head(rx[c]).refs)
  /\ rx' = [rx EXCEPT ![c] = Tail(@)]
  /\ UNCHANGED <<tables, objects, local, resource, local_queue, unsent_messages, strays, outside>>

\* The closure returns from one actor of a group and is called on the next.
NextOfGroup(c) ==
  /\ InHandler(c) /\ doing[c].refs # {}
  /\ Visit(c, doing[c], doing[c].refs)
  /\ UNCHANGED <<tables, pc, objects, local, resource, queues, outside>>

\* What a stray message finds at its offset is none: the closure is called on
\* memory of another kind, and anything may happen.
Astray(c) ==
  /\ \/ Receiving(c) /\ rx[c] # <<>> /\ Head(rx[c]).to # c
     \/ InHandler(c) /\ doing[c].refs # {} /\ doing[c].to # c
  /\ End("undefined")

Return(c) ==
  /\ InHandler(c) /\ doing[c].refs = {}
  /\ doing' = [doing EXCEPT ![c] = None]
  /\ Goto(c, IF pc[c] = "first_run" THEN "first" ELSE "drain")
  /\ UNCHANGED <<tables, objects, local, resource, queues, reached, outside>>

\* A handler of the first round panics while run_thread owns a ControlBlockPtr.
FirstHandlerPanics(c) == pc[c] = "first_run" /\ End("aborted")

\* The thread leaves run_thread and drops its context.
Drop(c, l) == Goto(c, l) /\ at' = [at EXCEPT ![c] = 0]

HandlerPanics(c) ==
  /\ pc[c] = "run"
  /\ Drop(c, "unwinding")
  /\ UNCHANGED <<tables, built, drops, local, resource, queues, handler, outside>>

Settled(c) == pc[c] = "drain" /\ local_queue[c] = <<>>

\* No message is left over, and the counter is not at its last.
Wait(c) ==
  /\ Settled(c) /\ unsent_messages[c] = {}
  /\ Goto(c, "recv")
  /\ UNCHANGED <<tables, objects, local, resource, queues, handler, outside>>

\* create_context_args: the other contexts, in order.
Links(c) == [k \in 1 .. Len(config.contexts) - 1 |-> IF k < c THEN k ELSE k + 1]

\* Where among them context d is looked for; 0 is where the subtraction fails.
LinkSlot(c, d) == IF c > d THEN d - 1 ELSE d

\* The send on that link succeeds: there is one, and its receiver.
LinkWorks(c, d) ==
  LinkSlot(c, d) \in DOMAIN Links(c) /\ pc[Links(c)[LinkSlot(c, d)]] # "gone"

\* What is sent next: sorted by context.
Foremost(c) == {m \in unsent_messages[c] : \A x \in unsent_messages[c] : m.to <= x.to}

\* One message is sent on the link that is taken for its context's.
Flush(c) ==
  /\ Settled(c)
  /\ \E m \in Foremost(c) :
       LET d == Links(c)[LinkSlot(c, m.to)] IN
       /\ LinkWorks(c, m.to)
       /\ rx' = [rx EXCEPT ![d] = Append(@, m)]
       /\ strays' = IF d = m.to THEN strays ELSE strays \cup {m}
       /\ unsent_messages' = [unsent_messages EXCEPT ![c] = @ \ {m}]
       /\ pc' = IF unsent_messages[c] = {m} THEN [pc EXCEPT ![c] = "recv"] ELSE pc
  /\ UNCHANGED <<tables, objects, local, resource, local_queue, handler, outside>>

\* The link does not work, perhaps some messages into the batch.
FlushPanics(c) ==
  /\ Settled(c)
  /\ \E m \in Foremost(c) : ~ LinkWorks(c, m.to)
  /\ Drop(c, "unwinding")
  /\ UNCHANGED <<tables, built, drops, local, resource, queues, handler, outside>>

\* The loop ends by Stop or the last reference, or the unwraps there panic.
Leave(c) ==
  /\ pc[c] = "recv" \/ (Settled(c) /\ unsent_messages[c] = {})
  /\ \E l \in {"dropping", "unwinding"} : Drop(c, l)
  /\ UNCHANGED <<tables, built, drops, local, resource, queues, handler, outside>>

------------------------------------------------------------------------------
(***************************************************************************)
(* Context::drop, then Arena::drop.                                        *)
(***************************************************************************)
Dropping(c) == pc[c] \in {"dropping", "unwinding"}

\* One turn of the loop over drop_fns.
DropActor(c) ==
  /\ Dropping(c) /\ ~ AllDone(c)
  /\ drops' = [drops EXCEPT ![Current(c)] = @ + 1]
  /\ at' = [at EXCEPT ![c] = @ + 1]
  /\ UNCHANGED <<tables, pc, built, local, resource, queues, handler, outside>>

\* Plausible bug: unwinding, the loop begins with the actor it was at.
DropPanicsAgain(c) ==
  /\ pc[c] = "dropping" /\ ~ AllDone(c)
  /\ drops' = [drops EXCEPT ![Current(c)] = @ + 1]
  /\ Goto(c, "unwinding")
  /\ UNCHANGED <<tables, at, built, local, resource, queues, handler, outside>>

\* The actor's own drop panics (that of an accessor it keeps may): the rest is
\* leaked.
DropPanics(c) ==
  /\ pc[c] = "dropping" /\ ~ AllDone(c)
  /\ drops' = [drops EXCEPT ![Current(c)] = @ + 1]
  /\ Goto(c, "gone")
  /\ UNCHANGED <<tables, at, built, local, resource, queues, handler, outside>>

\* And so while a panic unwinds already.
DropPanicsTwice(c) == pc[c] = "unwinding" /\ ~ AllDone(c) /\ End("aborted")

FreeArena(c) ==
  /\ Dropping(c) /\ AllDone(c)
  /\ Goto(c, "gone")
  /\ UNCHANGED <<tables, objects, local, resource, queues, handler, outside>>

------------------------------------------------------------------------------
\* What a thread does by itself until its context runs.
SetUp(c) ==
  \/ Construct(c)
  \/ MakeResource(c)
  \/ ResourceReady(c)
  \/ FinishInit(c)
  \/ CycleDetected(c)

Main == Reject \/ RejectType \/ Start

Constructor(c) ==
  \/ ConstructFails(c)
  \/ GetResource(c)
  \/ \E q \in Query : AcyclicLocalKey(c, q) \/ \E e \in tree : MakeAccessor(c, e, q)

Handling(c) ==
  \/ \E q \in Query : Broadcast(c, q) \/ \E e \in tree : SendMsg(c, e, q)
  \/ RecvLocal(c)
  \/ Serve(c)
  \/ RecvMsg(c)
  \/ NextOfGroup(c)
  \/ Astray(c)
  \/ Return(c)
  \/ FirstHandlerPanics(c)
  \/ HandlerPanics(c)
  \/ Wait(c)
  \/ Flush(c)
  \/ FlushPanics(c)
  \/ Leave(c)

Leaving(c) ==
  \/ DropActor(c)
  \/ DropPanics(c)
  \/ DropPanicsTwice(c)
  \/ FreeArena(c)

Running ==
  /\ process = "running"
  /\ \/ \E c \in Threads : SetUp(c) \/ Constructor(c) \/ Handling(c) \/ Leaving(c)
     \/ \E a \in accessors : AccessorSend(a)

Next == Main \/ Running

Spec == Init /\ [][Next]_vars

\* The operating system runs the main thread and every other, constructors
\* return, and so does what makes a resource.
Fairness ==
  /\ WF_vars(Main)
  /\ \A c \in Threads : WF_vars(process = "running" /\ SetUp(c))

FairSpec == Spec /\ Fairness
------------------------------------------------------------------------------
(***************************************************************************)
(* Properties.                                                             *)
(***************************************************************************)
Reference == [offset : Nat, meta : Types]
Typed(m) == m.cast \in DOMAIN casts /\ m.to \in Threads /\ m.refs \in SUBSET Reference

\* Every variable has its type; what is in a queue is a message that was cast;
\* the resource of all contexts is made once, whoever asks (mod.rs:58-71).
TypeOK ==
  /\ process \in {"config", "running", "panicked", "aborted", "undefined"}
  /\ tree \in SUBSET {Entry(i) : i \in Ids}
  /\ pc \in [Threads -> {"unborn", "init", "asking", "making", "first", "first_run", "recv", "run",
                         "drain", "dropping", "unwinding", "gone"}]
  /\ at \in [Threads -> 0 .. Len(config.actors)]
  /\ built \subseteq Ids
  /\ drops \in [Ids -> Nat]
  /\ relations \in [Threads -> SUBSET (Ids \X Ids)]
  /\ keys \in [Threads -> SUBSET [holder : Ids, ref : Reference]]
  /\ lazy \in {"unmade", "making", "made"} /\ made \in 0 .. 1
  /\ \A c \in Threads :
       /\ \A j \in DOMAIN local_queue[c] : Typed(local_queue[c][j])
       /\ \A j \in DOMAIN rx[c] : Typed(rx[c][j])
       /\ \A m \in unsent_messages[c] : Typed(m)
       /\ doing[c] # None => Typed(doing[c]) /\ doing[c].ref \in Reference
  /\ \A m \in strays : Typed(m)
  /\ reached \subseteq (DOMAIN casts) \X Ids
  /\ accessors \subseteq [context : Threads, ref : Reference]
  /\ casts \in Seq(SUBSET Ids)

\* The actor is in its arena.
Alive(i) == i \in built /\ drops[i] = 0

\* A link took the message to another context than it is for.
Stray(m) == \E x \in strays : x.cast = m.cast /\ x.to = m.to

\* ptr::from_raw_parts_mut is sound in every message but those that a link took
\* to another context: when the closure runs, what is at the offset in the arena
\* of the thread it runs on is an actor that is constructed and not dropped, of
\* the type its metadata is for, and one the sender meant, although a message
\* can be sent before its actor is constructed (context.rs:150-158, 275-283,
\* 319-323, 424-432).  Of a stray nothing is claimed but where it comes from.
HandlersMeetTheirActor ==
  \A c \in Threads : InHandler(c) =>
    \/ doing[c].to # c /\ Stray(doing[c])
    \/ \E e \in Own(c) :
         /\ e.loc.offset = doing[c].ref.offset /\ e.type = doing[c].ref.meta
         /\ Alive(e.id)
         /\ e.id \in casts[doing[c].cast]

\* Message m, which context c is to run, is message k and for actor i: one that
\* went astray is for nobody.
IsFor(c, m, k, i) ==
  /\ m.cast = k /\ m.to = c
  /\ \E r \in m.refs : ActorAt(c, r.offset).id = i

\* Where message k still is, or was, for actor i.
Places(k, i) ==
  {<<"reached", 0, 0>> : r \in {<<k, i>>} \cap reached} \cup
  UNION {{<<"local", c, j>> : j \in {x \in DOMAIN local_queue[c] : IsFor(c, local_queue[c][x], k, i)}}
    \cup {<<"rx", c, j>> : j \in {x \in DOMAIN rx[c] : IsFor(c, rx[c][x], k, i)}}
    \cup {<<"unsent", c, m.to>> : m \in {x \in unsent_messages[c] : IsFor(x.to, x, k, i)}}
    \cup {<<"group", c, 0>> : m \in {x \in {doing[c]} \ {None} : IsFor(c, x, k, i)}}
         : c \in Threads}

\* A message is for each actor of its group in one place, or has run there, and
\* is for no other actor anywhere, until a link takes the part for a context to
\* another one: those actors have lost it, and it comes to them on no other way
\* (lookup.rs:141-160, context.rs:310-341, runtime/mod.rs:341-362).  Whom the
\* stray part meets instead is not counted.
EachTargetOnce ==
  \A k \in DOMAIN casts : \A i \in Ids :
    Cardinality(Places(k, i)) =
      IF i \in casts[k] /\ ~ \E m \in strays : IsFor(m.to, m, k, i) THEN 1 ELSE 0

\* The actors of context c can be asked to do things.
Open(c) == pc[c] \in {"first", "first_run", "recv", "run", "drain"}

\* The relation that the local keys of context c make among its actors.
KeyRelation(c) == {<<k.holder, ActorAt(c, k.ref.offset).id>> : k \in keys[c]}

\* borrow_mut and call need no check: an offset that an actor keeps is that of
\* a live actor of its own context and of the right type, and no chain of keys
\* leads back to where it began (lookup.rs:171-182, 252-266, mod.rs:260).
LocalKeysAreSound ==
  \A c \in Threads : Open(c) =>
    /\ \A k \in keys[c] : \E e \in Own(c) :
         e.loc.offset = k.ref.offset /\ e.type = k.ref.meta /\ Alive(e.id)
    /\ ~ \E S \in SUBSET Ids : Knot(KeyRelation(c), S)

\* An actor is dropped at most once and only if it was constructed; unless a
\* drop panics, none is left when its context is gone (context.rs:79-85).
DropsAreSound ==
  /\ \A i \in Ids : drops[i] <= 1 /\ (drops[i] = 1 => i \in built)
  /\ \A c \in Threads : pc[c] = "gone" /\ AllDone(c) => \A e \in Own(c) : drops[e.id] = 1

\* Set-up comes to an end: no configuration leaves a process in which a context
\* waits for ever for an actor, a resource or another thread to be ready; when
\* one cannot be set up, none goes on (mod.rs:249, 261, context.rs:397).
SetupEnds ==
  <>(\/ process \in {"panicked", "aborted", "undefined"}
     \/ /\ process = "running" /\ Ids \subseteq built
        /\ \A c \in Threads : pc[c] \notin {"init", "asking", "making"})
==============================================================================
