-------------------------------- MODULE Graph --------------------------------
(***************************************************************************)
(* Cycle detection (crates/core/dytor/src/runtime/graph.rs).  Constructors *)
(* of a context record which actor will access which (acyclic_local_key,   *)
(* lookup.rs); when all are constructed, has_cycles searches the relations *)
(* depth first and the context is refused if it finds a cycle.             *)
(*                                                                         *)
(* The recursion is a stack of calls.  A step is one call of dfs or one    *)
(* return.  HashMap and HashSet iterate in an arbitrary order, so the next *)
(* actor is any that is left.                                              *)
(***************************************************************************)
EXTENDS Integers, Sequences, FiniteSets

CONSTANT Actors   \* the actors of one context

ASSUME ActorsAssumption == IsFiniteSet(Actors)

VARIABLES
  relations,   \* the dependence relations, as pairs <<from, to>>
  untried,     \* the keys of graph the loop of has_cycles has still to try
  state,       \* Node::state
  calls,       \* the calls of dfs: the node and the children left to visit
  verdict      \* what has_cycles returns

vars == <<relations, untried, state, calls, verdict>>

Children(n) == {m \in Actors : <<n, m>> \in relations}

\* acyclic_local_key records no relation of an actor to itself.
Relations == SUBSET {r \in Actors \X Actors : r[1] # r[2]}

\* The graph is built: a node for either end of every relation.
Init ==
  /\ relations \in Relations
  /\ untried = {r[1] : r \in relations} \cup {r[2] : r \in relations}
  /\ state = [n \in Actors |-> "Unvisited"]
  /\ calls = <<>>
  /\ verdict = "none"

Top == calls[Len(calls)]

\* Plausible bug: a node that is done counts as one on the path.
OnPathOrDone(n) == state[n] # "Unvisited"

\* S::Visiting: the search has come back to a node of its own path.
OnPath(n) == state[n] = "Visiting"

\* Plausible bug: a node is marked only when its call is over.
MarkLate(n) == state

\* S::Unvisited: the node is put on the path.
Mark(n) == [state EXCEPT ![n] = "Visiting"]

\* dfs(n), called with the calls cs in progress.
Dfs(n, cs) ==
  \/ /\ OnPath(n)
     /\ verdict' = "cyclic"
     /\ calls' = cs
     /\ UNCHANGED state
  \/ /\ ~ OnPath(n) /\ state[n] # "Unvisited"
     /\ calls' = cs
     /\ UNCHANGED <<state, verdict>>
  \/ /\ ~ OnPath(n) /\ state[n] = "Unvisited"
     /\ state' = Mark(n)
     /\ calls' = Append(cs, [node |-> n, left |-> Children(n)])
     /\ UNCHANGED verdict

\* has_cycles comes to the next key.
Try(n) ==
  /\ verdict = "none" /\ calls = <<>>
  /\ n \in untried
  /\ untried' = untried \ {n}
  /\ Dfs(n, calls)
  /\ UNCHANGED relations

\* The innermost call comes to the next child.
Visit(n) ==
  /\ verdict = "none" /\ calls # <<>>
  /\ n \in Top.left
  /\ Dfs(n, [calls EXCEPT ![Len(calls)].left = @ \ {n}])
  /\ UNCHANGED <<relations, untried>>

\* The innermost call has visited every child.
Leave ==
  /\ verdict = "none" /\ calls # <<>>
  /\ Top.left = {}
  /\ state' = [state EXCEPT ![Top.node] = "Visited"]
  /\ calls' = SubSeq(calls, 1, Len(calls) - 1)
  /\ UNCHANGED <<relations, untried, verdict>>

\* Every key was tried.
Finish ==
  /\ verdict = "none" /\ calls = <<>> /\ untried = {}
  /\ verdict' = "acyclic"
  /\ UNCHANGED <<relations, untried, state, calls>>

Next ==
  \/ \E n \in Actors : Try(n) \/ Visit(n)
  \/ Leave
  \/ Finish

Spec == Init /\ [][Next]_vars

------------------------------------------------------------------------------
(***************************************************************************)
(* Properties.                                                             *)
(***************************************************************************)

Call == [node : Actors, left : SUBSET Actors]

\* Every variable has its type.
TypeOK ==
  /\ relations \in Relations
  /\ untried \subseteq Actors
  /\ state \in [Actors -> {"Unvisited", "Visiting", "Visited"}]
  /\ calls \in Seq(Call)
  /\ verdict \in {"none", "cyclic", "acyclic"}

\* The textbook definition: actors of which each depends on the next one, and
\* the last on the first.  A shortest cycle has each actor once.
Cycle(c, n) == \A i \in 1 .. n : <<c[i], c[IF i = n THEN 1 ELSE i + 1]>> \in relations
HasCycle == \E n \in 1 .. Cardinality(Actors) : \E c \in [1 .. n -> Actors] : Cycle(c, n)

\* The verdict is right for the textbook definition, whatever the order in
\* which the hash maps iterate (graph.rs:20-25).
VerdictIsRight ==
  verdict # "none" => (verdict = "cyclic" <=> HasCycle)

\* The recursion is no deeper than there are actors: an actor has one call
\* at most in progress (graph.rs:49-51).
OneCallPerActor ==
  \A i, j \in DOMAIN calls : calls[i].node = calls[j].node => i = j
==============================================================================
