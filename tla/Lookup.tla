------------------------------- MODULE Lookup -------------------------------
(***************************************************************************)
(* How actors find each other (crates/core/dytor/src/lookup.rs).  The tree *)
(* is the set of all actors of the process with their places; a query is   *)
(* by an actor type or by an interface (a trait), and its answer holds for *)
(* each match where the actor is and as what it is to be used.             *)
(***************************************************************************)
EXTENDS Integers, FiniteSets

CONSTANTS
  Types,         \* the actor types that are registered
  Interfaces,    \* the traits
  Implementors   \* Registry::trait_types: the types listed for each trait

ASSUME NamesAssumption == Types \cap Interfaces = {}
ASSUME ImplementorsAssumption == Implementors \in [Interfaces -> SUBSET Types]

\* What T: ?Sized can be in a query.
Query == Types \cup Interfaces

\* The filter of the two impls of Lookup: by type_id, or by being in the list
\* of the trait.
Satisfies(t, q) == IF q \in Interfaces THEN t \in Implementors[q] ELSE t = q

\* ActorTree::lookup, for whatever actor asks.
LookupOf(tree, q) == {e \in tree : Satisfies(e.type, q)}

\* Plausible bug: the metadata is not that of the type found.
RefOfQuery(e, q) == [offset |-> e.loc.offset, meta |-> q]

\* Where the actor is in its context's arena and the type whose methods are
\* called there: static for a type, in the metadata found for it for a trait.
Ref(e, q) == [offset |-> e.loc.offset, meta |-> IF q \in Interfaces THEN e.type ELSE q]

\* Query::broadcast_group: the matches by context, contexts without any left out.
Group(tree, q) ==
  LET found == LookupOf(tree, q)
  IN  [c \in {e.loc.context : e \in found} |->
         {Ref(e, q) : e \in {x \in found : x.loc.context = c}}]

\* Plausible bug: the context of the match is not looked at.
LocalMatchAnywhere(tree, q, id, c) ==
  LET found == LookupOf(tree, q)
  IN  {e \in found : Cardinality(found) = 1 /\ e.id # id}

\* The actor that Query::acyclic_local_key returns a key to when actor id of
\* context c asks: the only match of the whole process, of the same context
\* and another than the one that asks.  None where one of the assertions fails.
LocalMatch(tree, q, id, c) ==
  LET found == LookupOf(tree, q)
  IN  {e \in found : Cardinality(found) = 1 /\ e.loc.context = c /\ e.id # id}

==============================================================================
