------------------------------ MODULE Registry -------------------------------
(***************************************************************************)
(* The registry of actor types and resources (crates/core/dytor/src/       *)
(* registry.rs).  Static constructors, run by whatever thread loads a      *)
(* library, push a node each to a shared list with compare-and-swap        *)
(* (init_node).  The first call of Registry::get walks the list once and   *)
(* runs each node's function on a builder; an error panics out of the      *)
(* OnceLock, which stays empty for the next call.                          *)
(*                                                                         *)
(* A step is one access to INIT_FNS or to a node, with the private work    *)
(* next to it.  The orderings in the code (a Release swap, an Acquire load *)
(* of the head, and swaps that continue the release sequence) make every   *)
(* node that is reached visible with its next, so memory is taken to be    *)
(* sequentially consistent.                                                *)
(***************************************************************************)
EXTENDS Integers, Sequences, FiniteSets, SequencesExt

CONSTANTS
  Nodes,     \* the ListNodes of all libraries that are ever loaded
  Decl,      \* what each node's function registers
  Getters,   \* the threads that call Registry::get
  Traits,    \* the traits actors are registered with
  Null       \* the null pointer

\* register_actor!(type {traits}) or register_resource!(|| type).  Nothing
\* keeps a trait from being given twice.
Declaration ==
  [kind : {"actor", "resource"}, type : STRING, name : STRING, traits : Seq(Traits)]

\* How often e is in the sequence s.
Copies(s, e) == Cardinality({i \in DOMAIN s : s[i] = e})

ASSUME NodesAssumption == IsFiniteSet(Nodes) /\ Null \notin Nodes
ASSUME DeclAssumption == Decl \in [Nodes -> Declaration]

VARIABLES
  INIT_FNS,    \* the head of the list
  next,        \* ListNode::next
  prev_init,   \* init_node's local variable
  pushing,     \* where each init_node is
  lock,        \* REGISTRY: "empty", "busy" or "ready"
  getting,     \* where each call of get is
  ptr,         \* the node that each call of get has come to
  builder,     \* the RegistryBuilder being filled
  registry,    \* the contents of REGISTRY
  pushed,      \* history: the nodes in the order they were pushed
  loaded       \* history: the nodes there were when the list was loaded

list == <<INIT_FNS, next, prev_init, pushing, pushed>>
cell == <<lock, getting, ptr, builder, registry, loaded>>
vars == <<list, cell>>

EmptyBuilder ==
  [actor_types |-> {}, resource_constructors |-> {},
   name_to_type_id |-> {}, trait_types |-> [t \in Traits |-> <<>>]]

Init ==
  /\ INIT_FNS = Null
  /\ next = [n \in Nodes |-> Null]
  /\ prev_init = [n \in Nodes |-> Null]
  /\ pushing = [n \in Nodes |-> "idle"]
  /\ lock = "empty"
  /\ getting = [g \in Getters |-> "idle"]
  /\ ptr = [g \in Getters |-> Null]
  /\ builder = EmptyBuilder
  /\ registry = EmptyBuilder
  /\ pushed = <<>> /\ loaded = {}

------------------------------------------------------------------------------
(***************************************************************************)
(* init_node.                                                              *)
(***************************************************************************)

LoadHead(n) ==
  /\ pushing[n] = "idle"
  /\ prev_init' = [prev_init EXCEPT ![n] = INIT_FNS]
  /\ pushing' = [pushing EXCEPT ![n] = "store"]
  /\ UNCHANGED <<INIT_FNS, next, pushed, cell>>

StoreNext(n) ==
  /\ pushing[n] = "store"
  /\ next' = [next EXCEPT ![n] = prev_init[n]]
  /\ pushing' = [pushing EXCEPT ![n] = "swap"]
  /\ UNCHANGED <<INIT_FNS, prev_init, pushed, cell>>

Swap(n) ==
  /\ pushing[n] = "swap" /\ INIT_FNS = prev_init[n]
  /\ INIT_FNS' = n
  /\ pushing' = [pushing EXCEPT ![n] = "done"]
  /\ pushed' = Append(pushed, n)
  /\ UNCHANGED <<next, prev_init, cell>>

\* Plausible bug: the store of next is outside the loop.
SwapFailsStoreSkipped(n) ==
  /\ pushing[n] = "swap"
  /\ prev_init' = [prev_init EXCEPT ![n] = INIT_FNS]
  /\ UNCHANGED <<INIT_FNS, next, pushing, pushed, cell>>

\* Plausible bug: the value found is not taken over.
SwapFailsNoReload(n) ==
  /\ pushing[n] = "swap"
  /\ pushing' = [pushing EXCEPT ![n] = "store"]
  /\ UNCHANGED <<INIT_FNS, next, prev_init, pushed, cell>>

\* The head was another, or the weak swap fails without a reason.
SwapFails(n) ==
  /\ pushing[n] = "swap"
  /\ prev_init' = [prev_init EXCEPT ![n] = INIT_FNS]
  /\ pushing' = [pushing EXCEPT ![n] = "store"]
  /\ UNCHANGED <<INIT_FNS, next, pushed, cell>>

------------------------------------------------------------------------------
(***************************************************************************)
(* Registry::get.                                                          *)
(***************************************************************************)

\* The registry is there.
GetReady(g) ==
  /\ getting[g] = "idle" /\ lock = "ready"
  /\ getting' = [getting EXCEPT ![g] = "returned"]
  /\ UNCHANGED <<list, lock, ptr, builder, registry, loaded>>

\* This call fills it: the head is loaded.  Other calls wait.
GetEmpty(g) ==
  /\ getting[g] = "idle" /\ lock = "empty"
  /\ lock' = "busy"
  /\ getting' = [getting EXCEPT ![g] = "walking"]
  /\ ptr' = [ptr EXCEPT ![g] = INIT_FNS]
  /\ builder' = EmptyBuilder
  /\ loaded' = Range(pushed)
  /\ UNCHANGED <<list, registry>>

\* Plausible bug: names are not compared.
RegistersTypeOnly(d) ==
  IF d.kind = "actor" THEN d.type \notin builder.actor_types
  ELSE d.type \notin builder.resource_constructors

\* init_actor and init_resource return Ok, and no assertion fails.
Registers(d) ==
  IF d.kind = "actor"
  THEN /\ d.type \notin builder.actor_types
       /\ \A e \in builder.name_to_type_id : e[1] # d.name
  ELSE d.type \notin builder.resource_constructors

\* Plausible bug: the entry of the trait is replaced.
WithTraitsReplaced(d) ==
  [t \in Traits |-> IF t \in Range(d.traits) THEN <<d.type>> ELSE builder.trait_types[t]]

\* for (trait_id, meta) in traits: registry.trait_types.entry().push(meta)
WithTraits(d) ==
  [t \in Traits |->
     builder.trait_types[t] \o [i \in 1 .. Copies(d.traits, t) |-> d.type]]

With(d) ==
  IF d.kind = "actor"
  THEN [builder EXCEPT !.actor_types = @ \cup {d.type},
                       !.name_to_type_id = @ \cup {<<d.name, d.type>>},
                       !.trait_types = WithTraits(d)]
  ELSE [builder EXCEPT !.resource_constructors = @ \cup {d.type}]

\* One turn of the loop: the node's function runs and next is followed.
Walk(g) ==
  /\ getting[g] = "walking" /\ ptr[g] # Null
  /\ Registers(Decl[ptr[g]])
  /\ builder' = With(Decl[ptr[g]])
  /\ ptr' = [ptr EXCEPT ![g] = next[ptr[g]]]
  /\ UNCHANGED <<list, lock, getting, registry, loaded>>

\* The node's function fails: the panic leaves the cell empty.
WalkPanics(g) ==
  /\ getting[g] = "walking" /\ ptr[g] # Null
  /\ ~ Registers(Decl[ptr[g]])
  /\ lock' = "empty"
  /\ getting' = [getting EXCEPT ![g] = "panicked"]
  /\ UNCHANGED <<list, ptr, builder, registry, loaded>>

\* The end of the list: the builder becomes the registry.
Build(g) ==
  /\ getting[g] = "walking" /\ ptr[g] = Null
  /\ registry' = builder
  /\ lock' = "ready"
  /\ getting' = [getting EXCEPT ![g] = "returned"]
  /\ UNCHANGED <<list, ptr, builder, loaded>>

------------------------------------------------------------------------------
Push(n) == LoadHead(n) \/ StoreNext(n) \/ Swap(n) \/ SwapFails(n)

Get(g) == GetReady(g) \/ GetEmpty(g) \/ Walk(g) \/ WalkPanics(g) \/ Build(g)

Next == (\E n \in Nodes : Push(n)) \/ (\E g \in Getters : Get(g))

Spec == Init /\ [][Next]_vars

\* A constructor that has begun goes on, and a swap that could succeed again
\* and again does not fail for ever without a reason.
Fairness ==
  \A n \in Nodes : /\ WF_vars(StoreNext(n) \/ SwapFails(n))
                   /\ SF_vars(Swap(n))

FairSpec == Spec /\ Fairness

------------------------------------------------------------------------------
(***************************************************************************)
(* Properties.                                                             *)
(***************************************************************************)
BuilderType ==
  [actor_types : SUBSET STRING, resource_constructors : SUBSET STRING,
   name_to_type_id : SUBSET (STRING \X STRING), trait_types : [Traits -> Seq(STRING)]]

\* Every variable has its type.
TypeOK ==
  /\ INIT_FNS \in Nodes \cup {Null}
  /\ next \in [Nodes -> Nodes \cup {Null}]
  /\ prev_init \in [Nodes -> Nodes \cup {Null}]
  /\ pushing \in [Nodes -> {"idle", "store", "swap", "done"}]
  /\ lock \in {"empty", "busy", "ready"}
  /\ getting \in [Getters -> {"idle", "walking", "returned", "panicked"}]
  /\ ptr \in [Getters -> Nodes \cup {Null}]
  /\ pushed \in Seq(Nodes)
  /\ loaded \subseteq Nodes

\* The list holds every node that was pushed, the last one first, however
\* many swaps failed and were tried again (registry.rs:236-247).
ListHoldsPushed ==
  /\ INIT_FNS = IF pushed = <<>> THEN Null ELSE Last(pushed)
  /\ \A i \in DOMAIN pushed :
       next[pushed[i]] = IF i = 1 THEN Null ELSE pushed[i - 1]

Actors == {n \in loaded : Decl[n].kind = "actor"}

\* Once there is a registry, by_name finds every actor that was registered
\* when the list was loaded, and finds the right one: no two share a name or
\* a type (registry.rs:71-75, 216-229).
NamesResolve ==
  lock = "ready" =>
    /\ \A n \in Actors :
         /\ \E e \in registry.name_to_type_id : e = <<Decl[n].name, Decl[n].type>>
         /\ Decl[n].type \in registry.actor_types
    /\ \A m, n \in Actors : Decl[m].name = Decl[n].name => m = n

\* The trait t lists the types of the nodes in S, each as often as its actor
\* was registered with t, and nothing else.
Lists(types, t, S) ==
  /\ \A n \in S : Copies(types, Decl[n].type) = Copies(Decl[n].traits, t)
  /\ \A i \in DOMAIN types : \E n \in S : types[i] = Decl[n].type

\* A trait lists each of its actor types, as often as it was given and no
\* more, in whatever order the libraries were loaded and however many calls
\* panicked before (registry.rs:114-120, 218-220).
TraitsListImplementors ==
  lock = "ready" => \A t \in Traits : Lists(registry.trait_types[t], t, Actors)

\* Every node whose constructor begins gets into the list.
PushSucceeds == \A n \in Nodes : pushing[n] = "store" ~> n \in Range(pushed)

\* The nodes whose declarations the registry contains.
Contents ==
  {n \in Nodes :
     IF Decl[n].kind = "actor" THEN <<Decl[n].name, Decl[n].type>> \in registry.name_to_type_id
     ELSE Decl[n].type \in registry.resource_constructors}

\* The registry implements OnceRead: what is being read is what was there when
\* the list was loaded, and that is what the registry contains in the end,
\* although constructors push more meanwhile (registry.rs:41-48).
R == INSTANCE OnceRead WITH
       Things <- Nodes, NoReading <- Null, registered <- Range(pushed),
       reading <- IF lock = "busy" THEN loaded ELSE Null,
       result <- IF lock = "ready" THEN Contents ELSE Null
ImplementsOnceRead == R!Spec
==============================================================================
