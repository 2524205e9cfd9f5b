----------------------------- MODULE GraphProofs -----------------------------
(***************************************************************************)
(* The verdict of the depth-first search is right for every set of actors, *)
(* every relation among them and every order of iteration.                 *)
(*                                                                         *)
(* The nodes of the calls in progress form a path and are the Visiting     *)
(* nodes: coming back to one closes a knot.  Every child of a Visited node *)
(* is Visited and no set of Visited nodes is a knot: when the innermost    *)
(* call is over its node joins them, and it could be part of a knot only   *)
(* if a Visited node had it as a child.                                    *)
(*                                                                         *)
(* A knot is a cycle: a walk in it can always go on, and no walk is longer *)
(* than there are actors, so it comes back.                                *)
(***************************************************************************)
EXTENDS Graph, SequenceTheorems, FiniteSetTheorems, TLAPS

\* A set of actors among which every one depends on another of the set.  On
\* finitely many actors this is a cycle.
Knot(S) == S # {} /\ \A n \in S : \E m \in S : <<n, m>> \in relations
HasKnot == \E S \in SUBSET Actors : Knot(S)

Nodes == {calls[i].node : i \in DOMAIN calls}

\* The calls in progress are the Visiting nodes, each once.
CallsAreVisiting ==
  /\ \A n \in Actors : state[n] = "Visiting" <=> n \in Nodes
  /\ OneCallPerActor

\* Each call was made for a child of the one before it.
CallsArePath ==
  \A i \in 1 .. Len(calls) - 1 : <<calls[i].node, calls[i + 1].node>> \in relations

\* A call has dealt with every child that is not left, but for the one whose
\* call is in progress.
ChildrenDealtWith ==
  \A i \in DOMAIN calls :
    /\ calls[i].left \subseteq Children(calls[i].node)
    /\ \A m \in Children(calls[i].node) \ calls[i].left :
         \/ state[m] = "Visited"
         \/ i < Len(calls) /\ m = calls[i + 1].node

\* The search never goes back to a Visited node.
VisitedIsClosed ==
  \A n \in Actors : state[n] = "Visited" => \A m \in Children(n) : state[m] = "Visited"

NoVisitedKnot ==
  \A S \in SUBSET Actors : (\A n \in S : state[n] = "Visited") => ~ Knot(S)

\* No key is forgotten.
KeysTried ==
  \A r \in relations : r[1] \in untried \/ state[r[1]] # "Unvisited"

\* While the search goes on.
Search ==
  /\ CallsAreVisiting
  /\ CallsArePath
  /\ ChildrenDealtWith
  /\ VisitedIsClosed
  /\ NoVisitedKnot
  /\ KeysTried

NoFalseAlarm == verdict = "cyclic" => HasKnot
NoCycleMissed == verdict = "acyclic" => ~ HasKnot

IInv ==
  /\ TypeOK
  /\ OneCallPerActor
  /\ verdict = "none" => Search
  /\ NoFalseAlarm
  /\ NoCycleMissed

------------------------------------------------------------------------------
\* What a call of dfs needs to know of the calls cs it is made with: the
\* caller has taken n from what it has left, and all else stands.
CallerOf(n, cs) ==
  /\ cs \in Seq(Call)
  /\ Len(cs) = Len(calls)
  /\ \A i \in DOMAIN calls : cs[i].node = calls[i].node
  /\ \A i \in DOMAIN calls : i < Len(calls) => cs[i] = calls[i]
  /\ cs # <<>> =>
       /\ n \in Children(cs[Len(cs)].node)
       /\ cs[Len(cs)].left = calls[Len(cs)].left \ {n}

\* A call that meets a node of the path reports a knot: the path itself.
LEMMA BackOnPath ==
  ASSUME TypeOK, Search, NEW n \in Actors, state[n] = "Visiting",
         calls # <<>>, n \in Children(Top.node)
  PROVE  HasKnot
<1>1. Nodes \in SUBSET Actors
  <2>1. \A i \in DOMAIN calls : calls[i] \in Call
    BY DEF TypeOK
  <2> QED
    BY <2>1 DEF Nodes, Call
<1>2. calls[Len(calls)].node \in Nodes /\ Len(calls) \in DOMAIN calls
  BY DEF Nodes, TypeOK
<1>3. \A i \in DOMAIN calls : \E m \in Nodes : <<calls[i].node, m>> \in relations
  <2> SUFFICES ASSUME NEW i \in DOMAIN calls
               PROVE  \E m \in Nodes : <<calls[i].node, m>> \in relations
    OBVIOUS
  <2>1. CASE i = Len(calls)
    <3>1. n \in Nodes
      BY DEF Search, CallsAreVisiting
    <3> QED
      BY <2>1, <3>1 DEF Children, Top
  <2>2. CASE i # Len(calls)
    <3>1. i \in 1 .. Len(calls) - 1 /\ i + 1 \in DOMAIN calls
      BY <2>2 DEF TypeOK
    <3>2. <<calls[i].node, calls[i + 1].node>> \in relations
      BY <3>1 DEF Search, CallsArePath
    <3> QED
      BY <3>1, <3>2 DEF Nodes
  <2> QED
    BY <2>1, <2>2
<1>4. Knot(Nodes)
  BY <1>2, <1>3 DEF Knot, Nodes
<1> QED
  BY <1>1, <1>4 DEF HasKnot

\* A node whose children are all Visited joins the Visited nodes without
\* closing a knot among them.
LEMMA NoKnotWithDone ==
  ASSUME TypeOK, Search, NEW n \in Actors, state[n] # "Visited",
         \A m \in Children(n) : state[m] = "Visited",
         NEW S \in SUBSET Actors,
         \A m \in S : state[m] = "Visited" \/ m = n
  PROVE  ~ Knot(S)
<1> SUFFICES ASSUME Knot(S) PROVE FALSE
  OBVIOUS
<1>1. \A m \in S : <<m, n>> \notin relations
  <2> SUFFICES ASSUME NEW m \in S, <<m, n>> \in relations PROVE FALSE
    OBVIOUS
  <2>1. CASE state[m] = "Visited"
    BY <2>1 DEF Search, VisitedIsClosed, Children
  <2>2. CASE m = n
    BY <2>2 DEF Children
  <2> QED
    BY <2>1, <2>2
<1>2. S \ {n} # {}
  <2>1. PICK m \in S : TRUE
    BY DEF Knot
  <2>2. PICK k \in S : <<m, k>> \in relations
    BY DEF Knot
  <2>3. k # n
    BY <1>1, <2>2
  <2> QED
    BY <2>3
<1>3. \A m \in S \ {n} : \E k \in S \ {n} : <<m, k>> \in relations
  BY <1>1 DEF Knot
<1>4. Knot(S \ {n})
  BY <1>2, <1>3 DEF Knot
<1>5. S \ {n} \in SUBSET Actors /\ \A m \in S \ {n} : state[m] = "Visited"
  OBVIOUS
<1> QED
  BY <1>4, <1>5 DEF Search, NoVisitedKnot

------------------------------------------------------------------------------
\* A call of dfs keeps the search right while it gives no verdict.
LEMMA DfsKeepsSearch ==
  ASSUME TypeOK, Search, NEW n \in Actors, NEW cs, CallerOf(n, cs), Dfs(n, cs),
         relations' = relations, untried' \in {untried, untried \ {n}},
         ~ OnPath(n)
  PROVE  TypeOK' /\ Search'
<1> DEFINE L == Len(calls)
<1>0. /\ calls \in Seq(Call) /\ cs \in Seq(Call) /\ L \in Nat
      /\ DOMAIN calls = 1 .. L /\ DOMAIN cs = 1 .. L /\ Len(cs) = L
      /\ state \in [Actors -> {"Unvisited", "Visiting", "Visited"}]
  BY DEF TypeOK, CallerOf
<1>L. L \in Nat
  BY <1>0
<1>1. /\ \A i \in 1 .. L : cs[i].node = calls[i].node
      /\ \A i \in 1 .. L : i < L => cs[i] = calls[i]
  BY <1>0 DEF CallerOf
<1>2. ASSUME NEW i \in 1 .. L
      PROVE  /\ cs[i].left \subseteq Children(cs[i].node)
             /\ \A m \in Children(cs[i].node) \ cs[i].left :
                  \/ state[m] = "Visited"
                  \/ i < L /\ m = calls[i + 1].node
                  \/ i = L /\ m = n
  <2>1. /\ calls[i].left \subseteq Children(calls[i].node)
        /\ \A m \in Children(calls[i].node) \ calls[i].left :
             \/ state[m] = "Visited"
             \/ i < Len(calls) /\ m = calls[i + 1].node
    BY <1>0 DEF Search, ChildrenDealtWith
  <2>2. CASE i < L
    <3>1. cs[i] = calls[i]
      BY <1>1, <2>2
    <3> QED
      BY <2>1, <2>2, <3>1
  <2>3. CASE i = L
    <3>1. cs[i].left = calls[i].left \ {n} /\ cs[i].node = calls[i].node
      BY <1>0, <1>1, <2>3 DEF CallerOf
    <3> QED
      BY <2>1, <2>3, <3>1, <1>0
  <2>4. i < L \/ i = L
    BY <1>L
  <2> QED
    BY <2>2, <2>3, <2>4
<1>3. untried' \subseteq Actors /\ untried \ {n} \subseteq untried'
  BY DEF TypeOK
<1>4. CASE state[n] # "Unvisited"
  <2>1. calls' = cs /\ state' = state /\ verdict' = verdict /\ state[n] = "Visited"
    BY <1>4, <1>0 DEF Dfs, OnPath
  <2>2. TypeOK'
    BY <2>1, <1>3, <1>0 DEF TypeOK
  <2>3. Nodes' = Nodes
    BY <2>1, <1>0, <1>1 DEF Nodes
  <2>4. CallsAreVisiting'
    BY <2>1, <2>3, <1>0, <1>1 DEF Search, CallsAreVisiting, OneCallPerActor
  <2>5. CallsArePath'
    BY <2>1, <1>0, <1>1 DEF Search, CallsArePath
  <2>6. ChildrenDealtWith'
    <3> SUFFICES ASSUME NEW i \in 1 .. L
                 PROVE  /\ cs[i].left \subseteq Children(cs[i].node)
                        /\ \A m \in Children(cs[i].node) \ cs[i].left :
                             \/ state[m] = "Visited"
                             \/ i < L /\ m = cs[i + 1].node
      BY <2>1, <1>0 DEF ChildrenDealtWith, Children
    <3>1. i < L => cs[i + 1].node = calls[i + 1].node
      BY <1>0, <1>1
    <3> QED
      BY <3>1, <1>2, <2>1
  <2>7. VisitedIsClosed'
    BY <2>1 DEF Search, VisitedIsClosed, Children
  <2>8. NoVisitedKnot'
    BY <2>1 DEF Search, NoVisitedKnot, Knot
  <2>9. KeysTried'
    BY <2>1, <1>3, <1>4 DEF Search, KeysTried
  <2> QED
    BY <2>2, <2>4, <2>5, <2>6, <2>7, <2>8, <2>9 DEF Search
<1>5. CASE state[n] = "Unvisited"
  <2> DEFINE new == [node |-> n, left |-> Children(n)]
  <2>1. calls' = Append(cs, new) /\ state' = [state EXCEPT ![n] = "Visiting"] /\ verdict' = verdict
    BY <1>5, <1>0 DEF Dfs, Mark, OnPath
  <2>2. new \in Call
    BY DEF Call, Children
  <2>3. /\ calls' \in Seq(Call) /\ Len(calls') = L + 1 /\ DOMAIN calls' = 1 .. L + 1
        /\ \A i \in 1 .. L : calls'[i] = cs[i]
        /\ calls'[L + 1] = new
    <3> HIDE DEF new
    <3> QED
      BY <2>1, <2>2, <1>0, AppendProperties
  <2>4. TypeOK'
    BY <2>1, <2>3, <1>3, <1>0 DEF TypeOK
  <2>5. /\ \A i \in 1 .. L : calls'[i].node = calls[i].node
        /\ calls'[L + 1].node = n /\ calls'[L + 1].left = Children(n)
    BY <2>3, <1>1
  <2>6. Nodes' = Nodes \cup {n}
    BY <2>3, <2>5, <1>0 DEF Nodes
  <2>7. n \notin Nodes
    BY <1>5 DEF Search, CallsAreVisiting
  <2>8. CallsAreVisiting'
    <3>1. \A m \in Actors : state'[m] = "Visiting" <=> m \in Nodes'
      BY <2>1, <2>6, <1>0 DEF Search, CallsAreVisiting
    <3>2. \A i \in 1 .. L : calls[i].node # n
      BY <2>7, <1>0 DEF Nodes
    <3>3. \A i, j \in 1 .. L + 1 : calls'[i].node = calls'[j].node => i = j
      <4> SUFFICES ASSUME NEW i \in 1 .. L + 1, NEW j \in 1 .. L + 1,
                          calls'[i].node = calls'[j].node
                   PROVE  i = j
        OBVIOUS
      <4>1. CASE i \in 1 .. L /\ j \in 1 .. L
        BY <4>1, <2>5, <1>0 DEF Search, CallsAreVisiting, OneCallPerActor
      <4>2. CASE i = L + 1 /\ j \in 1 .. L
        BY <4>2, <2>5, <3>2
      <4>3. CASE i \in 1 .. L /\ j = L + 1
        BY <4>3, <2>5, <3>2
      <4> QED
        BY <4>1, <4>2, <4>3, <1>0
    <3> QED
      BY <3>1, <3>3, <2>3 DEF CallsAreVisiting, OneCallPerActor
  <2>9. CallsArePath'
    <3> SUFFICES ASSUME NEW i \in 1 .. L
                 PROVE  <<calls'[i].node, calls'[i + 1].node>> \in relations
      BY <2>3, <1>0 DEF CallsArePath
    <3>1. CASE i < L
      <4>1. i \in 1 .. Len(calls) - 1 /\ i + 1 \in 1 .. L
        BY <3>1, <1>0
      <4>2. <<calls[i].node, calls[i + 1].node>> \in relations
        BY <4>1 DEF Search, CallsArePath
      <4> QED
        BY <4>1, <4>2, <2>5
    <3>2. CASE i = L
      <4>1. cs # <<>> /\ cs[L].node = calls[L].node
        BY <3>2, <1>0, <1>1
      <4>2. <<calls[L].node, n>> \in relations
        BY <4>1, <1>0 DEF CallerOf, Children
      <4>3. calls'[i].node = calls[L].node /\ calls'[i + 1].node = n
        BY <3>2, <2>5
      <4> QED
        BY <4>2, <4>3
    <3>3. i < L \/ i = L
      BY <1>L
    <3> QED
      BY <3>1, <3>2, <3>3
  <2>10. ChildrenDealtWith'
    <3> SUFFICES ASSUME NEW i \in 1 .. L + 1
                 PROVE  /\ calls'[i].left \subseteq Children(calls'[i].node)
                        /\ \A m \in Children(calls'[i].node) \ calls'[i].left :
                             \/ state'[m] = "Visited"
                             \/ i < L + 1 /\ m = calls'[i + 1].node
      BY <2>3 DEF ChildrenDealtWith, Children
    <3>1. CASE i = L + 1
      BY <3>1, <2>5
    <3>2. CASE i \in 1 .. L
      <4>0. i < L + 1 /\ (i < L => i + 1 \in 1 .. L)
        BY <3>2, <1>0
      <4>1. calls'[i] = cs[i] /\ (i < L => calls'[i + 1].node = calls[i + 1].node)
            /\ (i = L => calls'[i + 1].node = n) /\ i < L + 1
        BY <4>0, <3>2, <2>3, <2>5
      <4>2. \A m \in Actors : state[m] = "Visited" => state'[m] = "Visited"
        BY <2>1, <1>5, <1>0
      <4>3. \A m \in Children(cs[i].node) : m \in Actors
        BY DEF Children
      <4> QED
        BY <3>2, <4>1, <4>2, <4>3, <1>2
    <3> QED
      BY <3>1, <3>2, <1>0
  <2>11. \A m \in Actors : state'[m] = "Visited" <=> state[m] = "Visited"
    BY <2>1, <1>5, <1>0
  <2>12. VisitedIsClosed'
    BY <2>11 DEF Search, VisitedIsClosed, Children
  <2>13. NoVisitedKnot'
    BY <2>11 DEF Search, NoVisitedKnot, Knot
  <2>14. KeysTried'
    <3> SUFFICES ASSUME NEW r \in relations
                 PROVE  r[1] \in untried' \/ state'[r[1]] # "Unvisited"
      BY DEF KeysTried
    <3>1. r[1] \in Actors
      BY DEF TypeOK, Relations
    <3>2. r[1] \in untried \/ state[r[1]] # "Unvisited"
      BY DEF Search, KeysTried
    <3> QED
      BY <3>1, <3>2, <2>1, <1>3, <1>0
  <2> QED
    BY <2>4, <2>8, <2>9, <2>10, <2>12, <2>13, <2>14 DEF Search
<1> QED
  BY <1>4, <1>5

\* When the innermost call is over, its node is Visited and the search is
\* right.
LEMMA LeaveKeepsSearch ==
  ASSUME TypeOK, Search, Leave
  PROVE  TypeOK' /\ Search'
<1> DEFINE L == Len(calls)
<1> DEFINE n == calls[L].node
<1>0. /\ calls \in Seq(Call) /\ L \in Nat \ {0} /\ DOMAIN calls = 1 .. L
      /\ state \in [Actors -> {"Unvisited", "Visiting", "Visited"}]
  BY DEF TypeOK, Leave
<1>L. L \in Nat \ {0} /\ L \in 1 .. L
  BY <1>0
<1>1. /\ calls[L] \in Call /\ n \in Actors /\ calls[L].left = {}
      /\ \A i \in 1 .. L : calls[i] \in Call
  <2>1. \A i \in 1 .. L : calls[i] \in Call
    BY <1>0
  <2> QED
    BY <2>1, <1>L DEF Leave, Top, Call
<1>2. /\ calls' = SubSeq(calls, 1, L - 1) /\ state' = [state EXCEPT ![n] = "Visited"]
      /\ relations' = relations /\ untried' = untried /\ verdict' = verdict
  BY DEF Leave, Top
<1>3. /\ calls' \in Seq(Call) /\ Len(calls') = L - 1 /\ DOMAIN calls' = 1 .. L - 1
      /\ \A i \in 1 .. L - 1 : calls'[i] = calls[i]
  <2>1. \A i \in 1 .. L - 1 : calls[i] \in Call
    BY <1>1, <1>0
  <2>2. /\ SubSeq(calls, 1, L - 1) \in Seq(Call)
        /\ Len(SubSeq(calls, 1, L - 1)) = IF 1 <= L - 1 THEN L - 1 - 1 + 1 ELSE 0
        /\ \A i \in 1 .. L - 1 - 1 + 1 : SubSeq(calls, 1, L - 1)[i] = calls[1 + i - 1]
    BY <2>1, <1>0, SubSeqProperties
  <2> QED
    BY <2>2, <1>2, <1>0
<1>4. n \in Nodes /\ state[n] = "Visiting"
  BY <1>0, <1>1 DEF Nodes, Search, CallsAreVisiting
<1>5. \A m \in Children(n) : state[m] = "Visited"
  BY <1>0, <1>1 DEF Search, ChildrenDealtWith
<1>6. TypeOK'
  BY <1>0, <1>1, <1>2, <1>3 DEF TypeOK
<1>7. Nodes' = Nodes \ {n}
  <2>1. \A i \in 1 .. L : calls[i].node = n => i = L
    BY <1>0, <1>L DEF Search, CallsAreVisiting, OneCallPerActor
  <2>2. \A i \in 1 .. L : i = L \/ i \in 1 .. L - 1
    BY <1>L
  <2>3. \A i \in 1 .. L - 1 : i \in 1 .. L /\ i # L
    BY <1>L
  <2> QED
    BY <2>1, <2>2, <2>3, <1>0, <1>3 DEF Nodes
<1>8. CallsAreVisiting'
  <2>1. \A m \in Actors : state'[m] = "Visiting" <=> m \in Nodes'
    BY <1>0, <1>2, <1>7 DEF Search, CallsAreVisiting
  <2>2. OneCallPerActor'
    BY <1>0, <1>3 DEF Search, CallsAreVisiting, OneCallPerActor
  <2> QED
    BY <2>1, <2>2 DEF CallsAreVisiting
<1>9. CallsArePath'
  <2>1. \A i \in 1 .. L - 1 - 1 : i \in 1 .. L - 1 /\ i + 1 \in 1 .. L - 1
    BY <1>0
  <2> QED
    BY <2>1, <1>2, <1>3 DEF Search, CallsArePath
<1>10. ChildrenDealtWith'
  <2> SUFFICES ASSUME NEW i \in 1 .. L - 1
               PROVE  /\ calls[i].left \subseteq Children(calls[i].node)
                      /\ \A m \in Children(calls[i].node) \ calls[i].left :
                           \/ state'[m] = "Visited"
                           \/ i < L - 1 /\ m = calls'[i + 1].node
    BY <1>2, <1>3 DEF ChildrenDealtWith, Children
  <2>1. i \in 1 .. L /\ i < L
    BY <1>0
  <2>2. /\ calls[i].left \subseteq Children(calls[i].node)
        /\ \A m \in Children(calls[i].node) \ calls[i].left :
             state[m] = "Visited" \/ m = calls[i + 1].node
    BY <2>1, <1>0 DEF Search, ChildrenDealtWith
  <2>3. \A m \in Actors : state[m] = "Visited" \/ m = n => state'[m] = "Visited"
    BY <1>0, <1>2
  <2>4. CASE i + 1 = L
    BY <2>2, <2>3, <2>4 DEF Children
  <2>5. CASE i < L - 1
    <3>1. calls'[i + 1].node = calls[i + 1].node
      BY <2>5, <1>0, <1>3
    <3> QED
      BY <2>2, <2>3, <2>5, <3>1 DEF Children
  <2>6. i + 1 = L \/ i < L - 1
    BY <1>L
  <2> QED
    BY <2>4, <2>5, <2>6
<1>11. \A m \in Actors : state'[m] = "Visited" <=> state[m] = "Visited" \/ m = n
  BY <1>0, <1>2
<1>12. VisitedIsClosed'
  <2>1. \A m \in Actors : Children(m)' = Children(m) /\ Children(m) \subseteq Actors
    BY <1>2 DEF Children
  <2> QED
    BY <2>1, <1>5, <1>11 DEF Search, VisitedIsClosed
<1>13. NoVisitedKnot'
  <2> SUFFICES ASSUME NEW S \in SUBSET Actors, \A m \in S : state'[m] = "Visited"
               PROVE  ~ Knot(S)
    BY <1>2 DEF NoVisitedKnot, Knot
  <2>1. \A m \in S : state[m] = "Visited" \/ m = n
    BY <1>11
  <2>2. state[n] # "Visited"
    BY <1>4
  <2> HIDE DEF n
  <2> QED
    BY <2>1, <2>2, <1>1, <1>5, NoKnotWithDone
<1>14. KeysTried'
  <2>1. \A m \in Actors : state[m] # "Unvisited" => state'[m] # "Unvisited"
    BY <1>0, <1>2
  <2>2. \A r \in relations : r[1] \in Actors
    BY DEF TypeOK, Relations
  <2> QED
    BY <2>1, <2>2, <1>2 DEF Search, KeysTried
<1> QED
  BY <1>6, <1>8, <1>9, <1>10, <1>12, <1>13, <1>14 DEF Search

------------------------------------------------------------------------------
\* The invariant holds before the first key is tried.
LEMMA InvInit == Init => IInv
<1> SUFFICES ASSUME Init PROVE IInv
  OBVIOUS
<1>1. calls = <<>> /\ DOMAIN calls = {} /\ Len(calls) = 0 /\ verdict = "none"
  BY DEF Init
<1>2. TypeOK
  BY DEF Init, TypeOK, Relations
<1>3. OneCallPerActor
  BY <1>1 DEF OneCallPerActor
<1>4. CallsAreVisiting
  BY <1>1, <1>3 DEF CallsAreVisiting, Nodes, Init
<1>5. CallsArePath /\ ChildrenDealtWith
  BY <1>1 DEF CallsArePath, ChildrenDealtWith
<1>6. VisitedIsClosed
  BY DEF Init, VisitedIsClosed
<1>7. NoVisitedKnot
  BY DEF Init, NoVisitedKnot, Knot
<1>8. KeysTried
  BY DEF Init, KeysTried
<1> QED
  BY <1>1, <1>2, <1>3, <1>4, <1>5, <1>6, <1>7, <1>8
     DEF IInv, Search, NoFalseAlarm, NoCycleMissed

\* A call of dfs preserves the invariant, whoever makes it.
LEMMA DfsKeepsInv ==
  ASSUME IInv, NEW n \in Actors, NEW cs, CallerOf(n, cs), Dfs(n, cs),
         calls = <<>> => cs = <<>>, calls # <<>> => n \in Children(Top.node),
         verdict = "none", relations' = relations,
         untried' \in {untried, untried \ {n}}
  PROVE  IInv'
<1>0. TypeOK /\ Search
  BY DEF IInv
<1>1. CASE OnPath(n)
  <2>1. calls' = cs /\ state' = state /\ verdict' = "cyclic"
    BY <1>1 DEF Dfs
  <2>2. calls # <<>>
    BY <1>0, <1>1 DEF OnPath, Search, CallsAreVisiting, Nodes
  <2>3. HasKnot
    BY <1>0, <1>1, <2>2, BackOnPath DEF OnPath
  <2>4. TypeOK'
    BY <1>0, <2>1 DEF TypeOK, CallerOf
  <2>5. OneCallPerActor'
    <3>1. DOMAIN cs = DOMAIN calls
      BY <1>0 DEF TypeOK, CallerOf
    <3> QED
      BY <2>1, <3>1 DEF CallerOf, IInv, OneCallPerActor
  <2> QED
    BY <2>1, <2>3, <2>4, <2>5 DEF IInv, NoFalseAlarm, NoCycleMissed, HasKnot, Knot
<1>2. CASE ~ OnPath(n)
  <2>1. TypeOK' /\ Search'
    BY <1>0, <1>2, DfsKeepsSearch
  <2>2. verdict' = "none"
    BY <1>2 DEF Dfs
  <2> QED
    BY <2>1, <2>2 DEF IInv, Search, CallsAreVisiting, NoFalseAlarm, NoCycleMissed
<1> QED
  BY <1>1, <1>2

\* Every step preserves it.
LEMMA InvStep == IInv /\ [Next]_vars => IInv'
<1> SUFFICES ASSUME IInv, [Next]_vars PROVE IInv'
  OBVIOUS
<1>0. TypeOK
  BY DEF IInv
<1>1. ASSUME NEW n \in Actors, Try(n) PROVE IInv'
  <2>1. CallerOf(n, calls)
    BY <1>0, <1>1 DEF Try, CallerOf, TypeOK
  <2> QED
    BY <2>1, <1>1, DfsKeepsInv DEF Try
<1>2. ASSUME NEW n \in Actors, Visit(n) PROVE IInv'
  <2> DEFINE L == Len(calls)
  <2> DEFINE top == [calls[L] EXCEPT !.left = @ \ {n}]
  <2> DEFINE cs == [calls EXCEPT ![L] = top]
  <2>1. calls \in Seq(Call) /\ L \in Nat \ {0} /\ L \in 1 .. L /\ calls[L] \in Call
        /\ DOMAIN calls = 1 .. L
    BY <1>0, <1>2 DEF TypeOK, Visit
  <2>2. top \in Call /\ top.node = calls[L].node /\ top.left = calls[L].left \ {n}
    BY <2>1 DEF Call
  <2>3. n \in calls[L].left /\ verdict = "none" /\ calls # <<>>
    BY <1>2 DEF Visit, Top
  <2>4. n \in Children(calls[L].node)
    BY <2>1, <2>3 DEF IInv, Search, ChildrenDealtWith
  <2>5. /\ cs \in Seq(Call) /\ Len(cs) = L /\ DOMAIN cs = 1 .. L
        /\ \A i \in 1 .. L : cs[i] = IF i = L THEN top ELSE calls[i]
    <3> HIDE DEF top
    <3> QED
      BY <2>1, <2>2, ExceptSeq
  <2>6. CallerOf(n, cs)
    BY <2>1, <2>2, <2>4, <2>5 DEF CallerOf
  <2>7. Dfs(n, cs) /\ UNCHANGED <<relations, untried>>
    BY <1>2 DEF Visit
  <2>8. calls # <<>> => n \in Children(Top.node)
    BY <2>4 DEF Top
  <2> HIDE DEF cs
  <2> QED
    BY <2>3, <2>6, <2>7, <2>8, DfsKeepsInv
<1>3. CASE Leave
  <2>1. Search /\ verdict = "none" /\ verdict' = "none"
    BY <1>3 DEF Leave, IInv
  <2>2. TypeOK' /\ Search'
    BY <1>0, <1>3, <2>1, LeaveKeepsSearch
  <2> QED
    BY <2>1, <2>2 DEF IInv, Search, CallsAreVisiting, NoFalseAlarm, NoCycleMissed
<1>4. CASE Finish
  <2>1. /\ verdict = "none" /\ calls = <<>> /\ untried = {} /\ verdict' = "acyclic"
        /\ UNCHANGED <<relations, untried, state, calls>>
    BY <1>4 DEF Finish
  <2>2. Search
    BY <2>1 DEF IInv
  <2>3. \A n \in Actors : state[n] # "Visiting"
    BY <2>1, <2>2 DEF Search, CallsAreVisiting, Nodes
  <2>4. \A r \in relations : r[1] \in Actors /\ state[r[1]] = "Visited"
    BY <1>0, <2>1, <2>2, <2>3 DEF Search, KeysTried, TypeOK, Relations
  <2>5. ASSUME NEW S \in SUBSET Actors PROVE ~ Knot(S)
    <3> SUFFICES ASSUME Knot(S) PROVE FALSE
      OBVIOUS
    <3>1. \A n \in S : state[n] = "Visited"
      <4> SUFFICES ASSUME NEW n \in S PROVE state[n] = "Visited"
        OBVIOUS
      <4>1. PICK m \in S : <<n, m>> \in relations
        BY DEF Knot
      <4> QED
        BY <4>1, <2>4
    <3> QED
      BY <3>1, <2>2 DEF Search, NoVisitedKnot
  <2>6. ~ HasKnot'
    BY <2>1, <2>5 DEF HasKnot, Knot
  <2> QED
    BY <2>1, <2>6, <1>0 DEF IInv, TypeOK, OneCallPerActor, NoFalseAlarm, NoCycleMissed
<1>5. CASE UNCHANGED vars
  <2>1. Search => Search'
    BY <1>5 DEF vars, Search, CallsAreVisiting, CallsArePath, ChildrenDealtWith, VisitedIsClosed,
       NoVisitedKnot, KeysTried, Nodes, OneCallPerActor, Children, Knot
  <2> QED
    BY <2>1, <1>5 DEF vars, IInv, TypeOK, OneCallPerActor, NoFalseAlarm, NoCycleMissed,
       HasKnot, Knot
<1> QED
  BY <1>1, <1>2, <1>3, <1>4, <1>5 DEF Next

------------------------------------------------------------------------------
\* The inductive invariant of the search.
THEOREM Invariance == Spec => []IInv
BY InvInit, InvStep, PTL DEF Spec

\* No actor has two calls in progress, so the recursion is bounded.
THEOREM RecursionIsBounded == Spec => []OneCallPerActor
<1>1. IInv => OneCallPerActor
  BY DEF IInv
<1> QED
  BY <1>1, Invariance, PTL

------------------------------------------------------------------------------
\* Induction over the natural numbers, for a set of them: were n not in S, the
\* successor would map the members of S below n one to one into themselves,
\* hence onto, and yet never give 0.
LEMMA AllNaturals ==
  ASSUME NEW S \in SUBSET Nat, 0 \in S, \A n \in S : n + 1 \in S
  PROVE  S = Nat
<1> SUFFICES ASSUME NEW n \in Nat, n \notin S PROVE FALSE
  OBVIOUS
<1> DEFINE A == {m \in 0 .. n : m \in S}
           succ == [m \in A |-> m + 1]
<1>1. IsFiniteSet(A)
  <2>1. IsFiniteSet(0 .. n)
    BY FS_Interval
  <2> QED
    BY <2>1, FS_Subset
<1>2. \A m \in A : m + 1 \in A /\ m + 1 # 0
  OBVIOUS
<1> HIDE DEF A
<1>3. succ \in Injection(A, A)
  BY <1>2, SMT DEF Injection, IsInjective, A
<1>4. succ \in Surjection(A, A)
  BY <1>1, <1>3, FS_Injection
<1>5. 0 \in A
  BY DEF A
<1> QED
  BY <1>2, <1>4, <1>5 DEF Surjection

\* A walk of n actors of S, none of them twice.
Walk(S, w, n) ==
  /\ w \in [1 .. n -> S]
  /\ \A i \in 1 .. n : i < n => <<w[i], w[i + 1]>> \in relations
  /\ \A i, j \in 1 .. n : w[i] = w[j] => i = j

\* A walk visits no more actors than there are.
LEMMA WalksAreShort ==
  ASSUME NEW S \in SUBSET Actors, NEW n \in Nat, NEW w, Walk(S, w, n)
  PROVE  n <= Cardinality(Actors) /\ Cardinality(Actors) \in Nat
<1>1. IsFiniteSet(Actors) /\ Cardinality(Actors) \in Nat
  BY ActorsAssumption, FS_CardinalityType
<1>2. w \in [1 .. n -> Actors]
  BY DEF Walk
<1>3. w \in Injection(1 .. n, Actors)
  BY <1>2 DEF Walk, Injection, IsInjective
<1>4. Cardinality(1 .. n) <= Cardinality(Actors)
  BY <1>1, <1>3, FS_Injection
<1>5. Cardinality(1 .. n) = n
  BY FS_Interval
<1> QED
  BY <1>1, <1>4, <1>5

\* A walk that comes back to one of its actors has a cycle at its end.
LEMMA ReturnIsCycle ==
  ASSUME NEW S \in SUBSET Actors, NEW n \in Nat, NEW w, Walk(S, w, n),
         NEW j \in 1 .. n, <<w[n], w[j]>> \in relations
  PROVE  HasCycle
<1> DEFINE len == n - j + 1
           c == [i \in 1 .. len |-> w[i + j - 1]]
<1>1. len \in Nat /\ len >= 1 /\ len <= n
  OBVIOUS
<1>2. len \in 1 .. Cardinality(Actors)
  BY <1>1, WalksAreShort
<1>3. \A i \in 1 .. len : i + j - 1 \in 1 .. n
  OBVIOUS
<1>4. c \in [1 .. len -> Actors]
  BY <1>3 DEF Walk
<1>5. ASSUME NEW i \in 1 .. len
      PROVE  <<c[i], c[IF i = len THEN 1 ELSE i + 1]>> \in relations
  <2>1. CASE i = len
    <3>1. c[i] = w[n] /\ c[1] = w[j]
      BY <1>1, <2>1
    <3> QED
      BY <2>1, <3>1
  <2>2. CASE i # len
    <3>1. i + 1 \in 1 .. len /\ i + j - 1 \in 1 .. n /\ i + j - 1 < n
      BY <2>2
    <3>2. c[i] = w[i + j - 1] /\ c[i + 1] = w[i + j - 1 + 1]
      BY <3>1
    <3>3. <<w[i + j - 1], w[i + j - 1 + 1]>> \in relations
      BY <3>1 DEF Walk
    <3> QED
      BY <2>2, <3>2, <3>3
  <2> QED
    BY <2>1, <2>2
<1> HIDE DEF c, len
<1> QED
  BY <1>2, <1>4, <1>5 DEF HasCycle, Cycle

\* From a knot one can walk on, and so must come back.
LEMMA KnotHasCycle ==
  ASSUME HasKnot
  PROVE  HasCycle
<1>1. PICK S \in SUBSET Actors : Knot(S)
  BY DEF HasKnot
<1> SUFFICES ASSUME ~ HasCycle PROVE FALSE
  OBVIOUS
<1> DEFINE Lengths == {n \in Nat : n > 0 /\ \E w : Walk(S, w, n)}
           Reached == {n \in Nat : n + 1 \in Lengths}
<1>2. 0 \in Reached
  <2>1. PICK a \in S : TRUE
    BY <1>1 DEF Knot
  <2>2. Walk(S, [i \in 1 .. 1 |-> a], 1)
    BY DEF Walk
  <2> QED
    BY <2>2
<1>3. ASSUME NEW n \in Nat, n > 0, NEW w, Walk(S, w, n)
      PROVE  \E v : Walk(S, v, n + 1)
  <2>1. w \in [1 .. n -> S] /\ n \in 1 .. n /\ w[n] \in S
    BY <1>3 DEF Walk
  <2>2. PICK a \in S : <<w[n], a>> \in relations
    BY <1>1, <2>1 DEF Knot
  <2>3. \A j \in 1 .. n : w[j] # a
    BY <1>3, <2>2, ReturnIsCycle
  <2> DEFINE v == [i \in 1 .. n + 1 |-> IF i = n + 1 THEN a ELSE w[i]]
  <2>4. /\ v \in [1 .. n + 1 -> S] /\ v[n + 1] = a
        /\ \A i \in 1 .. n : i \in 1 .. n + 1 /\ v[i] = w[i]
        /\ \A i \in 1 .. n + 1 : i = n + 1 \/ i \in 1 .. n
    BY <2>1
  <2> HIDE DEF v
  <2>5. ASSUME NEW i \in 1 .. n + 1, i < n + 1
        PROVE  <<v[i], v[i + 1]>> \in relations
    <3>1. CASE i = n
      BY <3>1, <2>1, <2>2, <2>4
    <3>2. CASE i < n
      <4>1. i \in 1 .. n /\ i + 1 \in 1 .. n
        BY <3>2
      <4> QED
        BY <4>1, <3>2, <2>4, <1>3 DEF Walk
    <3> QED
      BY <2>5, <3>1, <3>2
  <2>6. \A i, k \in 1 .. n + 1 : v[i] = v[k] => i = k
    BY <2>3, <2>4, <1>3 DEF Walk
  <2> QED
    BY <2>4, <2>5, <2>6 DEF Walk
<1>4. \A n \in Reached : n + 1 \in Reached
  BY <1>3
<1>5. Reached = Nat
  <2> HIDE DEF Reached
  <2>1. Reached \in SUBSET Nat
    BY DEF Reached
  <2> QED
    BY <2>1, <1>2, <1>4, AllNaturals
<1>6. Cardinality(Actors) \in Nat
  BY ActorsAssumption, FS_CardinalityType
<1>7. PICK w : Walk(S, w, Cardinality(Actors) + 1)
  BY <1>5, <1>6
<1>8. Cardinality(Actors) + 1 <= Cardinality(Actors)
  BY <1>6, <1>7, WalksAreShort
<1> QED
  BY <1>6, <1>8

\* The actors of a cycle are a knot.
LEMMA CycleIsKnot ==
  ASSUME HasCycle
  PROVE  HasKnot
<1>n. PICK n \in 1 .. Cardinality(Actors) : \E c \in [1 .. n -> Actors] : Cycle(c, n)
  BY DEF HasCycle
<1>1. PICK c \in [1 .. n -> Actors] : Cycle(c, n)
  BY <1>n
<1>0. Cardinality(Actors) \in Nat /\ n \in Nat /\ 1 \in 1 .. n
  BY ActorsAssumption, FS_CardinalityType
<1> DEFINE S == {c[i] : i \in 1 .. n}
<1>2. S \in SUBSET Actors /\ S # {}
  BY <1>0
<1>3. ASSUME NEW i \in 1 .. n PROVE \E m \in S : <<c[i], m>> \in relations
  <2> DEFINE k == IF i = n THEN 1 ELSE i + 1
  <2>1. k \in 1 .. n
    BY <1>0
  <2>2. <<c[i], c[k]>> \in relations
    BY <1>1 DEF Cycle
  <2> QED
    BY <2>1, <2>2
<1>4. Knot(S)
  BY <1>2, <1>3 DEF Knot
<1> QED
  BY <1>2, <1>4 DEF HasKnot

\* The verdict is that of the textbook definition.
THEOREM VerdictIsCorrect == Spec => []VerdictIsRight
<1>1. HasKnot <=> HasCycle
  BY KnotHasCycle, CycleIsKnot
<1>2. IInv => VerdictIsRight
  BY <1>1 DEF IInv, TypeOK, VerdictIsRight, NoFalseAlarm, NoCycleMissed
<1> QED
  BY <1>2, Invariance, PTL
==============================================================================
