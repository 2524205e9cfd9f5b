--------------------------- MODULE RegistryProofs ----------------------------
(***************************************************************************)
(* The list loses no node, for every number of constructors that push at   *)
(* once: a swap succeeds only while the head is what the node's next was   *)
(* last set to, and the next of a node that was pushed is never written    *)
(* again.  And the registry is what the list held when it was read: a walk *)
(* is in the list, and the builder holds what lies before it.              *)
(***************************************************************************)
EXTENDS Registry, SequenceTheorems, FiniteSetTheorems, TLAPS

\* The types of what constructors read and write.
ListTyped ==
  /\ INIT_FNS \in Nodes \cup {Null}
  /\ next \in [Nodes -> Nodes \cup {Null}]
  /\ prev_init \in [Nodes -> Nodes \cup {Null}]
  /\ pushing \in [Nodes -> {"idle", "store", "swap", "done"}]
  /\ pushed \in Seq(Nodes)

\* What a node will swap the head for leads to the head it expects.
SwapsAreReady == \A n \in Nodes : pushing[n] = "swap" => next[n] = prev_init[n]

\* A node in the list is done with, so its next stays.
PushedAreDone == \A i \in DOMAIN pushed : pushing[pushed[i]] = "done"

IInv ==
  /\ ListTyped
  /\ SwapsAreReady
  /\ PushedAreDone
  /\ ListHoldsPushed

\* The list is empty at first.
LEMMA InvInit == Init => IInv
BY DEF Init, IInv, ListTyped, SwapsAreReady, PushedAreDone, ListHoldsPushed

\* A node that is not done may have its next set.
LEMMA StoreKeeps ==
  ASSUME IInv, NEW n \in Nodes, StoreNext(n)
  PROVE  IInv'
<1>1. /\ next' = [next EXCEPT ![n] = prev_init[n]]
      /\ pushing' = [pushing EXCEPT ![n] = "swap"] /\ pushing[n] = "store"
      /\ UNCHANGED <<INIT_FNS, prev_init, pushed>>
  BY DEF StoreNext
<1>2. pushed \in Seq(Nodes) /\ \A i \in DOMAIN pushed : pushed[i] \in Nodes
  BY DEF IInv, ListTyped
<1>3. \A i \in DOMAIN pushed : pushed[i] # n
  BY <1>1 DEF IInv, PushedAreDone
<1>4. ListTyped'
  BY <1>1 DEF IInv, ListTyped
<1>5. SwapsAreReady'
  BY <1>1 DEF IInv, ListTyped, SwapsAreReady
<1>6. PushedAreDone'
  BY <1>1, <1>2, <1>3 DEF IInv, ListTyped, PushedAreDone
<1>7. \A i \in DOMAIN pushed : next'[pushed[i]] = next[pushed[i]]
  BY <1>1, <1>2, <1>3 DEF IInv, ListTyped
<1>8. ListHoldsPushed'
  BY <1>1, <1>7 DEF IInv, ListHoldsPushed, Last
<1> QED
  BY <1>4, <1>5, <1>6, <1>8 DEF IInv

\* A node that is swapped in leads to the rest of the list.
LEMMA SwapKeeps ==
  ASSUME IInv, NEW n \in Nodes, Swap(n)
  PROVE  IInv'
<1> DEFINE L == Len(pushed)
<1>1. /\ INIT_FNS' = n /\ pushed' = Append(pushed, n) /\ pushing[n] = "swap"
      /\ pushing' = [pushing EXCEPT ![n] = "done"] /\ INIT_FNS = prev_init[n]
      /\ UNCHANGED <<next, prev_init>>
  BY DEF Swap
<1>2. pushed \in Seq(Nodes) /\ L \in Nat /\ DOMAIN pushed = 1 .. L
      /\ \A i \in 1 .. L : pushed[i] \in Nodes
  BY DEF IInv, ListTyped
<1>3. /\ pushed' \in Seq(Nodes) /\ pushed' # <<>> /\ Len(pushed') = L + 1
      /\ DOMAIN pushed' = 1 .. L + 1
      /\ \A i \in 1 .. L : pushed'[i] = pushed[i]
      /\ pushed'[L + 1] = n
  BY <1>1, <1>2, AppendProperties
<1>4. \A i \in 1 .. L + 1 : i \in 1 .. L \/ i = L + 1
  BY <1>2
<1>5. ListTyped'
  BY <1>1, <1>3 DEF IInv, ListTyped
<1>6. SwapsAreReady'
  BY <1>1 DEF IInv, ListTyped, SwapsAreReady
<1>7. PushedAreDone'
  BY <1>1, <1>2, <1>3, <1>4 DEF IInv, ListTyped, PushedAreDone
<1>8. next[n] = IF pushed = <<>> THEN Null ELSE pushed[L]
  BY <1>1 DEF IInv, SwapsAreReady, ListHoldsPushed, Last
<1>9. ASSUME NEW i \in 1 .. L + 1
      PROVE  next[pushed'[i]] = IF i = 1 THEN Null ELSE pushed'[i - 1]
  <2>1. CASE i \in 1 .. L
    <3>1. next[pushed[i]] = IF i = 1 THEN Null ELSE pushed[i - 1]
      BY <2>1, <1>2 DEF IInv, ListHoldsPushed
    <3>2. i # 1 => i - 1 \in 1 .. L
      BY <2>1, <1>2
    <3> QED
      BY <2>1, <3>1, <3>2, <1>3
  <2>2. CASE i = L + 1
    <3>1. CASE L = 0
      BY <2>2, <3>1, <1>2, <1>3, <1>8
    <3>2. CASE L # 0
      <4>1. pushed # <<>> /\ i # 1 /\ i - 1 = L /\ L \in 1 .. L
        BY <2>2, <3>2, <1>2
      <4> QED
        BY <2>2, <4>1, <1>3, <1>8
    <3> QED
      BY <3>1, <3>2
  <2> QED
    BY <2>1, <2>2, <1>4
<1>10. ListHoldsPushed'
  BY <1>1, <1>3, <1>9 DEF ListHoldsPushed, Last
<1> QED
  BY <1>5, <1>6, <1>7, <1>10 DEF IInv

\* Every step preserves the invariant.
LEMMA InvStep == IInv /\ [Next]_vars => IInv'
<1> SUFFICES ASSUME IInv, [Next]_vars PROVE IInv'
  OBVIOUS
<1>0. \A i \in DOMAIN pushed : pushed[i] \in Nodes
  BY DEF IInv, ListTyped
<1>1. ASSUME NEW n \in Nodes, LoadHead(n) PROVE IInv'
  BY <1>0, <1>1 DEF LoadHead, IInv, ListTyped, SwapsAreReady, PushedAreDone, ListHoldsPushed
<1>2. ASSUME NEW n \in Nodes, StoreNext(n) PROVE IInv'
  BY <1>2, StoreKeeps
<1>3. ASSUME NEW n \in Nodes, Swap(n) PROVE IInv'
  BY <1>3, SwapKeeps
<1>4. ASSUME NEW n \in Nodes, SwapFails(n) PROVE IInv'
  BY <1>0, <1>4 DEF SwapFails, IInv, ListTyped, SwapsAreReady, PushedAreDone, ListHoldsPushed
<1>5. CASE UNCHANGED list
  BY <1>5 DEF list, IInv, ListTyped, SwapsAreReady, PushedAreDone, ListHoldsPushed
<1>6. ASSUME NEW g \in Getters, Get(g) PROVE UNCHANGED list
  BY <1>6 DEF Get, GetReady, GetEmpty, Walk, WalkPanics, Build
<1> QED
  BY <1>1, <1>2, <1>3, <1>4, <1>5, <1>6 DEF Next, Push, vars

\* No node is lost, whichever swaps fail.
THEOREM NoNodeIsLost == Spec => []ListHoldsPushed
<1>1. IInv => ListHoldsPushed
  BY DEF IInv
<1> QED
  BY <1>1, InvInit, InvStep, PTL DEF Spec

------------------------------------------------------------------------------
(***************************************************************************)
(* The walk.                                                               *)
(***************************************************************************)
ActorsOf(S) == {n \in S : Decl[n].kind = "actor"}

\* What a builder holds once the functions of the nodes in S have run.
Holds(b, S) ==
  /\ b \in BuilderType
  /\ b.actor_types = {Decl[n].type : n \in ActorsOf(S)}
  /\ b.resource_constructors = {Decl[n].type : n \in S \ ActorsOf(S)}
  /\ b.name_to_type_id = {<<Decl[n].name, Decl[n].type>> : n \in ActorsOf(S)}
  /\ \A m, n \in ActorsOf(S) : Decl[m].name = Decl[n].name => m = n
  /\ \A t \in Traits : Lists(b.trait_types[t], t, ActorsOf(S))

\* The nodes from the i-th to the j-th that was pushed.
Between(i, j) == {pushed[x] : x \in i .. j}

\* The walk has come to the j-th node, of k there were when it began.
Reading(g) ==
  \E k \in 0 .. Len(pushed) : \E j \in 0 .. k :
    /\ loaded = Between(1, k)
    /\ ptr[g] = IF j = 0 THEN Null ELSE pushed[j]
    /\ Holds(builder, Between(j + 1, k))

\* One call at most walks, and only while others wait.
OneWalks ==
  \A g \in Getters : getting[g] = "walking" =>
    lock = "busy" /\ \A h \in Getters : getting[h] = "walking" => h = g

CellTyped ==
  /\ lock \in {"empty", "busy", "ready"}
  /\ getting \in [Getters -> {"idle", "walking", "returned", "panicked"}]
  /\ ptr \in [Getters -> Nodes \cup {Null}]
  /\ loaded \subseteq Nodes

WInv ==
  /\ IInv
  /\ CellTyped
  /\ OneWalks
  /\ \A g \in Getters : getting[g] = "walking" => Reading(g)
  /\ lock = "ready" => Holds(registry, loaded)

LEMMA DeclTyped ==
  ASSUME NEW n \in Nodes
  PROVE  /\ Decl[n].kind \in {"actor", "resource"} /\ Decl[n].type \in STRING
         /\ Decl[n].name \in STRING /\ Decl[n].traits \in Seq(Traits)
BY DeclAssumption DEF Declaration

\* A new builder holds nothing.
LEMMA EmptyHolds == Holds(EmptyBuilder, {})
<1>1. EmptyBuilder \in BuilderType
  BY EmptySeq DEF EmptyBuilder, BuilderType
<1>2. \A t \in Traits : Lists(EmptyBuilder.trait_types[t], t, {})
  BY DEF EmptyBuilder, Lists
<1> QED BY <1>1, <1>2 DEF Holds, ActorsOf, EmptyBuilder

\* The range of a sequence grows by what is appended.
LEMMA AppendRange ==
  ASSUME NEW S, NEW s \in Seq(S), NEW e \in S
  PROVE  Range(Append(s, e)) = Range(s) \cup {e}
<1> DEFINE a == Append(s, e)
<1>1. /\ DOMAIN a = 1 .. Len(s) + 1 /\ DOMAIN s = 1 .. Len(s) /\ Len(s) \in Nat
      /\ a[Len(s) + 1] = e /\ \A i \in 1 .. Len(s) : a[i] = s[i]
  BY AppendProperties
<1> HIDE DEF a
<1>2. \A i \in DOMAIN a : i \in DOMAIN s \/ i = Len(s) + 1
  BY <1>1
<1>3. DOMAIN s \subseteq DOMAIN a /\ Len(s) + 1 \in DOMAIN a
  BY <1>1
<1>4. Range(a) = Range(s) \cup {e}
  BY <1>1, <1>2, <1>3 DEF Range
<1> QED BY <1>4 DEF a

\* A sequence contains an element a number of times.
LEMMA CopiesNat ==
  ASSUME NEW S, NEW s \in Seq(S), NEW e
  PROVE  Copies(s, e) \in Nat
<1>1. DOMAIN s = 1 .. Len(s) /\ Len(s) \in Nat
  OBVIOUS
<1>2. IsFiniteSet(DOMAIN s)
  BY <1>1, FS_Interval
<1>3. IsFiniteSet({i \in DOMAIN s : s[i] = e})
  BY <1>2, FS_Subset
<1> QED BY <1>3, FS_CardinalityType DEF Copies

\* c is s with n copies of an element that s does not have.
New(c, s, e, n) ==
  /\ c = s \o [i \in 1 .. n |-> e]
  /\ \A i \in DOMAIN s : s[i] # e

\* c has n of them, and as many of every other element as s.
Grown(S, c, s, e, n) ==
  /\ c \in Seq(S)
  /\ Copies(c, e) = n
  /\ \A f \in S \ {e} : Copies(c, f) = Copies(s, f)
  /\ \A i \in DOMAIN c : (i \in DOMAIN s /\ c[i] = s[i]) \/ (n # 0 /\ c[i] = e)

\* A sequence that gets n copies of an element it did not have has n of them,
\* and as many of every other as before.
LEMMA ConcatCopies ==
  ASSUME NEW S, NEW s \in Seq(S), NEW e \in S, NEW n \in Nat,
         NEW c, New(c, s, e, n)
  PROVE  Grown(S, c, s, e, n)
<1> DEFINE r == [i \in 1 .. n |-> e]
<1>0. c = s \o r /\ \A i \in DOMAIN s : s[i] # e
  BY DEF New
<1>1. r \in Seq(S) /\ Len(r) = n /\ \A i \in 1 .. n : r[i] = e
  <2>1. \A i \in 1 .. n : e \in S
    OBVIOUS
  <2> QED BY <2>1, IsASeq
<1> HIDE DEF r
<1>2. /\ c \in Seq(S) /\ Len(c) = Len(s) + n /\ Len(s) \in Nat /\ DOMAIN s = 1 .. Len(s)
      /\ \A i \in 1 .. Len(s) + n : c[i] = IF i <= Len(s) THEN s[i] ELSE r[i - Len(s)]
  <2>1. /\ s \o r \in Seq(S) /\ Len(s \o r) = Len(s) + n
        /\ \A i \in 1 .. Len(s) + n : (s \o r)[i] = IF i <= Len(s) THEN s[i] ELSE r[i - Len(s)]
    BY ONLY <1>1, s \in Seq(S), ConcatProperties
  <2> QED BY <2>1, <1>0
<1>3. DOMAIN c = 1 .. Len(s) + n
  BY <1>2
<1>4. PICK l \in Nat : l = Len(s)
  BY <1>2
<1>5. /\ DOMAIN s = 1 .. l /\ DOMAIN c = 1 .. l + n
      /\ \A i \in 1 .. l : i \in 1 .. l + n /\ c[i] = s[i] /\ s[i] # e
  BY ONLY <1>0, <1>2, <1>3, <1>4
<1>6. \A i \in l + 1 .. l + n : i \in 1 .. l + n /\ c[i] = e
  <2> SUFFICES ASSUME NEW i \in l + 1 .. l + n PROVE i \in 1 .. l + n /\ c[i] = e
    OBVIOUS
  <2>1. i \in 1 .. l + n /\ ~ (i <= l) /\ i - l \in 1 .. n
    OBVIOUS
  <2> QED BY <2>1, <1>1, <1>2, <1>4
<1>7. \A i \in 1 .. l + n : i \in 1 .. l \/ (n # 0 /\ i \in l + 1 .. l + n)
  OBVIOUS
<1>8. Copies(c, e) = n
  <2>1. {i \in DOMAIN c : c[i] = e} = l + 1 .. l + n
    BY <1>5, <1>6, <1>7
  <2>2. Cardinality(l + 1 .. l + n) = n
    BY FS_Interval
  <2> QED BY <2>1, <2>2 DEF Copies
<1>9. ASSUME NEW f \in S \ {e} PROVE Copies(c, f) = Copies(s, f)
  <2>1. {i \in DOMAIN c : c[i] = f} = {i \in DOMAIN s : s[i] = f}
    BY <1>5, <1>6, <1>7
  <2> QED BY <2>1 DEF Copies
<1>10. \A i \in DOMAIN c : (i \in DOMAIN s /\ c[i] = s[i]) \/ (n # 0 /\ c[i] = e)
  BY <1>5, <1>6, <1>7
<1> QED BY <1>2, <1>8, <1>9, <1>10 DEF Grown

\* What one node's function adds.
LEMMA WithHolds ==
  ASSUME NEW S \in SUBSET Nodes, NEW n \in Nodes, Holds(builder, S), Registers(Decl[n])
  PROVE  Holds(With(Decl[n]), S \cup {n})
<1> DEFINE d == Decl[n]
           w == With(d)
<1>1. /\ d.kind \in {"actor", "resource"} /\ d.type \in STRING /\ d.name \in STRING
      /\ d.traits \in Seq(Traits)
  BY DeclTyped
<1>2. /\ builder = [actor_types |-> builder.actor_types,
                    resource_constructors |-> builder.resource_constructors,
                    name_to_type_id |-> builder.name_to_type_id,
                    trait_types |-> builder.trait_types]
      /\ builder.actor_types \subseteq STRING /\ builder.resource_constructors \subseteq STRING
      /\ builder.name_to_type_id \subseteq STRING \X STRING
      /\ builder.trait_types \in [Traits -> Seq(STRING)]
  BY DEF Holds, BuilderType
<1>3. CASE d.kind = "actor"
  <2>1. /\ d.type \notin builder.actor_types
        /\ \A e \in builder.name_to_type_id : e[1] # d.name
    BY <1>3 DEF Registers
  <2>2. /\ w.actor_types = builder.actor_types \cup {d.type}
        /\ w.resource_constructors = builder.resource_constructors
        /\ w.name_to_type_id = builder.name_to_type_id \cup {<<d.name, d.type>>}
        /\ w.trait_types = WithTraits(d)
        /\ w = [actor_types |-> w.actor_types, resource_constructors |-> w.resource_constructors,
                name_to_type_id |-> w.name_to_type_id, trait_types |-> w.trait_types]
    BY <1>2, <1>3 DEF With
  <2>3. ActorsOf(S \cup {n}) = ActorsOf(S) \cup {n}
        /\ (S \cup {n}) \ ActorsOf(S \cup {n}) = S \ ActorsOf(S)
    BY <1>3 DEF ActorsOf
  <2>4. ASSUME NEW t \in Traits
        PROVE  /\ w.trait_types[t] \in Seq(STRING)
               /\ Lists(w.trait_types[t], t, ActorsOf(S \cup {n}))
    <3> DEFINE s == builder.trait_types[t]
               k == Copies(d.traits, t)
    <3>1. Lists(s, t, ActorsOf(S)) /\ s \in Seq(STRING) /\ k \in Nat
      BY <1>1, <1>2, CopiesNat DEF Holds
    <3>2. \A m \in ActorsOf(S) : Decl[m].type # d.type /\ Decl[m].type \in STRING
      BY <2>1, DeclTyped DEF Holds, ActorsOf
    <3>3b. PICK e \in STRING : e = d.type
      BY <1>1
    <3>3. PICK c : c = s \o [i \in 1 .. k |-> e]
      OBVIOUS
    <3>3a. w.trait_types[t] = c
      <4>1. w.trait_types[t] = s \o [i \in 1 .. k |-> d.type]
        BY <2>2 DEF WithTraits
      <4> QED BY ONLY <4>1, <3>3, <3>3b
    <3> HIDE DEF s, k, w
    <3>4. \A i \in DOMAIN s : s[i] # e
      BY <3>1, <3>2, <3>3b DEF Lists
    <3>5. /\ c \in Seq(STRING)
          /\ Copies(c, e) = k
          /\ \A f \in STRING \ {e} : Copies(c, f) = Copies(s, f)
          /\ \A i \in DOMAIN c : (i \in DOMAIN s /\ c[i] = s[i]) \/ (k # 0 /\ c[i] = e)
      <4>1. New(c, s, e, k)
        BY <3>3, <3>4 DEF New
      <4>2. k \in Nat /\ e \in STRING /\ s \in Seq(STRING)
        BY <3>1
      <4>3. Grown(STRING, c, s, e, k)
        BY ONLY <4>1, <4>2, ConcatCopies
      <4> QED BY ONLY <4>3 DEF Grown
    <3>6. \A m \in ActorsOf(S \cup {n}) : Copies(c, Decl[m].type) = Copies(Decl[m].traits, t)
      BY <2>3, <3>1, <3>2, <3>5, <3>3b DEF Lists, k
    <3>7. \A i \in DOMAIN c : \E m \in ActorsOf(S \cup {n}) : c[i] = Decl[m].type
      BY <2>3, <3>1, <3>5, <3>3b DEF Lists
    <3> QED BY <3>3a, <3>5, <3>6, <3>7 DEF Lists
  <2>5. WithTraits(d) \in [Traits -> Seq(STRING)]
    BY <2>2, <2>4 DEF WithTraits
  <2>6. w \in BuilderType
    BY <1>1, <1>2, <2>2, <2>5 DEF BuilderType
  <2>7. \A l, m \in ActorsOf(S \cup {n}) : Decl[l].name = Decl[m].name => l = m
    <3>1. \A m \in ActorsOf(S) : Decl[m].name # d.name
      <4> SUFFICES ASSUME NEW m \in ActorsOf(S) PROVE Decl[m].name # d.name
        OBVIOUS
      <4>1. <<Decl[m].name, Decl[m].type>> \in builder.name_to_type_id
        BY DEF Holds
      <4> QED BY <2>1, <4>1
    <3> QED BY <2>3, <3>1 DEF Holds
  <2>9. /\ w.actor_types = {Decl[m].type : m \in ActorsOf(S \cup {n})}
        /\ w.resource_constructors = {Decl[m].type : m \in (S \cup {n}) \ ActorsOf(S \cup {n})}
        /\ w.name_to_type_id = {<<Decl[m].name, Decl[m].type>> : m \in ActorsOf(S \cup {n})}
    <3>1. /\ builder.actor_types = {Decl[m].type : m \in ActorsOf(S)}
          /\ builder.resource_constructors = {Decl[m].type : m \in S \ ActorsOf(S)}
          /\ builder.name_to_type_id = {<<Decl[m].name, Decl[m].type>> : m \in ActorsOf(S)}
      BY DEF Holds
    <3> HIDE DEF w
    <3>2. w.actor_types = {Decl[m].type : m \in ActorsOf(S \cup {n})}
      BY <2>2, <2>3, <3>1
    <3>3. w.resource_constructors = {Decl[m].type : m \in (S \cup {n}) \ ActorsOf(S \cup {n})}
      BY <2>2, <2>3, <3>1
    <3>4. w.name_to_type_id = {<<Decl[m].name, Decl[m].type>> : m \in ActorsOf(S \cup {n})}
      BY <2>2, <2>3, <3>1
    <3> QED BY <3>2, <3>3, <3>4
  <2> QED BY <2>4, <2>6, <2>7, <2>9 DEF Holds
<1>4. CASE d.kind = "resource"
  <2>1. /\ w.actor_types = builder.actor_types
        /\ w.resource_constructors = builder.resource_constructors \cup {d.type}
        /\ w.name_to_type_id = builder.name_to_type_id
        /\ w.trait_types = builder.trait_types
        /\ w = [actor_types |-> w.actor_types, resource_constructors |-> w.resource_constructors,
                name_to_type_id |-> w.name_to_type_id, trait_types |-> w.trait_types]
    BY <1>2, <1>4 DEF With
  <2>2. n \notin ActorsOf(S) /\ ActorsOf(S \cup {n}) = ActorsOf(S)
        /\ (S \cup {n}) \ ActorsOf(S \cup {n}) = (S \ ActorsOf(S)) \cup {n}
    BY <1>4 DEF ActorsOf
  <2>3. w \in BuilderType
    BY <1>1, <1>2, <2>1 DEF BuilderType
  <2>4. w.resource_constructors = {Decl[m].type : m \in (S \cup {n}) \ ActorsOf(S \cup {n})}
    BY <2>1, <2>2 DEF Holds
  <2>5. /\ w.actor_types = {Decl[m].type : m \in ActorsOf(S \cup {n})}
        /\ w.name_to_type_id = {<<Decl[m].name, Decl[m].type>> : m \in ActorsOf(S \cup {n})}
    BY <2>1, <2>2 DEF Holds
  <2>6. \A l, m \in ActorsOf(S \cup {n}) : Decl[l].name = Decl[m].name => l = m
    BY <2>2 DEF Holds
  <2>7. ASSUME NEW t \in Traits
        PROVE  Lists(w.trait_types[t], t, ActorsOf(S \cup {n}))
    BY <2>1, <2>2 DEF Holds
  <2> HIDE DEF w
  <2>8. Holds(w, S \cup {n})
    BY <2>3, <2>4, <2>5, <2>6, <2>7 DEF Holds
  <2> QED BY <2>8 DEF w
<1> QED BY <1>1, <1>3, <1>4

------------------------------------------------------------------------------
LEMMA WInvInit == Init => WInv
<1> SUFFICES ASSUME Init PROVE WInv
  OBVIOUS
<1>1. IInv
  BY InvInit
<1> QED BY <1>1 DEF Init, WInv, CellTyped, OneWalks

\* What the list holds is only added to: a walk is not disturbed.
LEMMA PushKeepsReading ==
  ASSUME WInv, NEW n \in Nodes, Push(n)
  PROVE  WInv'
<1>1. IInv'
  BY InvStep DEF WInv, Next
<1>2. UNCHANGED cell /\ (pushed' = pushed \/ pushed' = Append(pushed, n))
  BY DEF Push, LoadHead, StoreNext, Swap, SwapFails, cell
<1>3. pushed \in Seq(Nodes) /\ Len(pushed) \in Nat
  BY DEF WInv, IInv, ListTyped
<1>4. /\ Len(pushed') \in Nat /\ Len(pushed) <= Len(pushed')
      /\ \A i \in 1 .. Len(pushed) : pushed'[i] = pushed[i]
  BY <1>2, <1>3, AppendProperties
<1>5. ASSUME NEW g \in Getters, getting'[g] = "walking" PROVE Reading(g)'
  <2>1. Reading(g)
    BY <1>2, <1>5 DEF WInv, cell
  <2>2. PICK k \in 0 .. Len(pushed) : \E j \in 0 .. k :
              /\ loaded = Between(1, k)
              /\ ptr[g] = IF j = 0 THEN Null ELSE pushed[j]
              /\ Holds(builder, Between(j + 1, k))
    BY <2>1 DEF Reading
  <2>3. PICK j \in 0 .. k :
              /\ loaded = Between(1, k)
              /\ ptr[g] = IF j = 0 THEN Null ELSE pushed[j]
              /\ Holds(builder, Between(j + 1, k))
    BY <2>2
  <2>4. k \in 0 .. Len(pushed') /\ \A x \in 1 .. k : pushed'[x] = pushed[x]
    BY <1>3, <1>4
  <2>5. Between(1, k)' = Between(1, k) /\ Between(j + 1, k)' = Between(j + 1, k)
    BY <2>4 DEF Between
  <2>6. ptr'[g] = IF j = 0 THEN Null ELSE pushed'[j]
    BY <1>2, <2>3, <2>4 DEF cell
  <2>7. loaded' = Between(1, k)' /\ Holds(builder', Between(j + 1, k)')
    BY <1>2, <2>3, <2>5 DEF cell
  <2> QED BY <2>4, <2>6, <2>7 DEF Reading, Holds
<1> QED BY <1>1, <1>2, <1>5 DEF WInv, cell, CellTyped, OneWalks, Holds

\* A walk from the n-th node has read it, and goes on with the one before.
LEMMA WalkReads ==
  ASSUME WInv, NEW g \in Getters, Walk(g)
  PROVE  WInv'
<1>1. /\ getting[g] = "walking" /\ ptr[g] # Null /\ Registers(Decl[ptr[g]])
      /\ builder' = With(Decl[ptr[g]]) /\ ptr' = [ptr EXCEPT ![g] = next[ptr[g]]]
      /\ UNCHANGED <<list, lock, getting, registry, loaded>>
  BY DEF Walk
<1>2. IInv'
  BY InvStep DEF WInv, Next, Get
<1>3. pushed \in Seq(Nodes) /\ Len(pushed) \in Nat /\ \A i \in 1 .. Len(pushed) : pushed[i] \in Nodes
  BY DEF WInv, IInv, ListTyped
<1>4. PICK k \in 0 .. Len(pushed) : \E j \in 0 .. k :
            /\ loaded = Between(1, k)
            /\ ptr[g] = IF j = 0 THEN Null ELSE pushed[j]
            /\ Holds(builder, Between(j + 1, k))
  BY <1>1 DEF WInv, Reading
<1>5. PICK j \in 0 .. k :
            /\ loaded = Between(1, k)
            /\ ptr[g] = IF j = 0 THEN Null ELSE pushed[j]
            /\ Holds(builder, Between(j + 1, k))
  BY <1>4
<1>6. /\ j \in 1 .. k /\ ptr[g] = pushed[j] /\ pushed[j] \in Nodes /\ j \in DOMAIN pushed
      /\ j - 1 \in 0 .. k /\ j = (j - 1) + 1
  BY <1>1, <1>3, <1>5
<1>7. next[ptr[g]] = IF j - 1 = 0 THEN Null ELSE pushed[j - 1]
  BY <1>6 DEF WInv, IInv, ListHoldsPushed
<1>8. /\ Between(j, k) = Between(j + 1, k) \cup {pushed[j]}
      /\ Between(j + 1, k) \in SUBSET Nodes
  <2>1. j .. k = ((j + 1) .. k) \cup {j}
    BY <1>6
  <2> QED BY <2>1, <1>3, <1>6 DEF Between
<1>9. Holds(builder', Between(j, k))
  BY <1>1, <1>5, <1>6, <1>8, WithHolds
<1>10. CellTyped'
  BY <1>1, <1>6 DEF WInv, CellTyped, IInv, ListTyped
<1>11. OneWalks'
  BY <1>1 DEF WInv, OneWalks
<1>12. ASSUME NEW h \in Getters, getting'[h] = "walking" PROVE Reading(h)'
  <2>1. h = g
    BY <1>1, <1>12 DEF WInv, OneWalks
  <2>2. ptr'[g] = IF j - 1 = 0 THEN Null ELSE pushed[j - 1]
    BY <1>1, <1>7 DEF WInv, CellTyped
  <2>3. \A x, y \in Nat : Between(x, y)' = Between(x, y)
    BY <1>1 DEF Between, list
  <2>4. loaded' = Between(1, k)' /\ Holds(builder', Between(j - 1 + 1, k)')
    BY <1>1, <1>5, <1>6, <1>9 DEF Between, list
  <2>5. pushed' = pushed
    BY <1>1 DEF list
  <2> QED BY <1>6, <2>1, <2>2, <2>4, <2>5 DEF Reading, Holds
<1>13. lock' # "ready"
  BY <1>1 DEF WInv, OneWalks
<1> QED BY <1>2, <1>10, <1>11, <1>12, <1>13 DEF WInv

\* A walk begins at the last node that was pushed, with nothing read.
LEMMA BeginReads ==
  ASSUME WInv, NEW g \in Getters, GetEmpty(g)
  PROVE  WInv'
<1>1. /\ getting[g] = "idle" /\ lock = "empty" /\ lock' = "busy"
      /\ getting' = [getting EXCEPT ![g] = "walking"]
      /\ ptr' = [ptr EXCEPT ![g] = INIT_FNS]
      /\ builder' = EmptyBuilder /\ loaded' = Range(pushed)
      /\ UNCHANGED list
  BY DEF GetEmpty
<1>2. IInv'
  BY InvStep DEF WInv, Next, Get
<1>3. /\ pushed \in Seq(Nodes) /\ Len(pushed) \in Nat /\ DOMAIN pushed = 1 .. Len(pushed)
      /\ \A i \in 1 .. Len(pushed) : pushed[i] \in Nodes
  BY DEF WInv, IInv, ListTyped
<1>4. INIT_FNS = IF Len(pushed) = 0 THEN Null ELSE pushed[Len(pushed)]
  BY <1>3 DEF WInv, IInv, ListHoldsPushed, Last
<1>5. Range(pushed) = Between(1, Len(pushed)) /\ Between(Len(pushed) + 1, Len(pushed)) = {}
  BY <1>3 DEF Range, Between
<1>6. \A h \in Getters : getting'[h] = "walking" <=> h = g
  BY <1>1 DEF WInv, CellTyped, OneWalks
<1>7. CellTyped' /\ OneWalks'
  BY <1>1, <1>3, <1>6 DEF WInv, CellTyped, OneWalks, IInv, ListTyped, Range
<1>8. Reading(g)'
  <2>1. PICK k \in Nat : k = Len(pushed)
    BY <1>3
  <2>2. /\ k \in 0 .. Len(pushed) /\ k \in 0 .. k /\ loaded' = Between(1, k)
        /\ ptr'[g] = IF k = 0 THEN Null ELSE pushed[k]
    BY <1>1, <1>3, <1>4, <1>5, <2>1 DEF WInv, CellTyped
  <2>3. Holds(builder', Between(k + 1, k))
    BY <1>1, <1>5, <2>1, EmptyHolds
  <2>4. pushed' = pushed /\ Between(1, k)' = Between(1, k) /\ Between(k + 1, k)' = Between(k + 1, k)
    BY <1>1 DEF list, Between
  <2>5. Holds(builder', Between(k + 1, k)')
    BY <2>3, <2>4
  <2> QED BY <2>2, <2>4, <2>5 DEF Reading, Holds
<1> QED BY <1>1, <1>2, <1>6, <1>7, <1>8 DEF WInv

\* The walk is over when it has come to the end of the list.
LEMMA AllIsRead ==
  ASSUME WInv, NEW g \in Getters, Build(g)
  PROVE  Holds(builder, loaded) /\ lock = "busy"
<1>1. getting[g] = "walking" /\ ptr[g] = Null
  BY DEF Build
<1>2. PICK k \in 0 .. Len(pushed) : \E j \in 0 .. k :
            /\ loaded = Between(1, k)
            /\ ptr[g] = IF j = 0 THEN Null ELSE pushed[j]
            /\ Holds(builder, Between(j + 1, k))
  BY <1>1 DEF WInv, Reading
<1>3. PICK j \in 0 .. k :
            /\ loaded = Between(1, k)
            /\ ptr[g] = IF j = 0 THEN Null ELSE pushed[j]
            /\ Holds(builder, Between(j + 1, k))
  BY <1>2
<1>4. j = 0
  <2>1. \A i \in 1 .. Len(pushed) : pushed[i] \in Nodes
    BY DEF WInv, IInv, ListTyped
  <2> QED BY <1>1, <1>3, <2>1, NodesAssumption
<1> QED BY <1>1, <1>3, <1>4 DEF WInv, OneWalks

LEMMA ReadingStays ==
  ASSUME NEW g \in Getters, Reading(g), UNCHANGED <<pushed, ptr, loaded, builder>>
  PROVE  Reading(g)'
<1>1. PICK k \in 0 .. Len(pushed) : \E j \in 0 .. k :
            /\ loaded = Between(1, k)
            /\ ptr[g] = IF j = 0 THEN Null ELSE pushed[j]
            /\ Holds(builder, Between(j + 1, k))
  BY DEF Reading
<1>2. PICK j \in 0 .. k :
            /\ loaded = Between(1, k)
            /\ ptr[g] = IF j = 0 THEN Null ELSE pushed[j]
            /\ Holds(builder, Between(j + 1, k))
  BY <1>1
<1>3. Between(1, k)' = Between(1, k) /\ Between(j + 1, k)' = Between(j + 1, k)
  BY DEF Between
<1>4. loaded' = Between(1, k)' /\ Holds(builder', Between(j + 1, k)')
  BY <1>2, <1>3
<1>5. /\ k \in 0 .. Len(pushed') /\ j \in 0 .. k
      /\ ptr'[g] = IF j = 0 THEN Null ELSE pushed'[j]
  BY <1>2
<1>6. Holds(builder, Between(j + 1, k))' <=> Holds(builder', Between(j + 1, k)')
  BY DEF Holds
<1> QED BY <1>4, <1>5, <1>6 DEF Reading

LEMMA WInvStep == WInv /\ [Next]_vars => WInv'
<1> SUFFICES ASSUME WInv, [Next]_vars PROVE WInv'
  OBVIOUS
<1>1. ASSUME NEW n \in Nodes, Push(n) PROVE WInv'
  BY <1>1, PushKeepsReading
<1>2. ASSUME NEW g \in Getters, GetEmpty(g) PROVE WInv'
  BY <1>2, BeginReads
<1>3. ASSUME NEW g \in Getters, Walk(g) PROVE WInv'
  BY <1>3, WalkReads
<1>4. ASSUME NEW g \in Getters, GetReady(g) \/ WalkPanics(g) \/ Build(g) PROVE WInv'
  <2>1. IInv'
    BY <1>4, InvStep DEF WInv, Next, Get
  <2>2. UNCHANGED <<list, ptr, loaded>>
    BY <1>4 DEF GetReady, WalkPanics, Build
  <2>3. \A h \in Getters : getting'[h] = "walking" =>
          getting[h] = "walking" /\ lock' = lock /\ builder' = builder
    BY <1>4 DEF GetReady, WalkPanics, Build, WInv, CellTyped, OneWalks
  <2>4. CellTyped' /\ OneWalks'
    BY <1>4, <2>2, <2>3 DEF GetReady, WalkPanics, Build, WInv, CellTyped, OneWalks
  <2>5. ASSUME NEW h \in Getters, getting'[h] = "walking" PROVE Reading(h)'
    <3>1. Reading(h) /\ UNCHANGED <<pushed, ptr, loaded, builder>>
      BY <2>2, <2>3, <2>5 DEF WInv, list
    <3> QED BY <3>1, ReadingStays
  <2>6. lock' = "ready" => Holds(registry', loaded')
    BY <1>4, <2>2, AllIsRead DEF GetReady, WalkPanics, Build, WInv
  <2> QED BY <2>1, <2>4, <2>5, <2>6 DEF WInv, Holds
<1>5. CASE UNCHANGED vars
  <2>1. IInv'
    BY <1>5, InvStep DEF WInv
  <2>2. ASSUME NEW g \in Getters, getting'[g] = "walking" PROVE Reading(g)'
    BY <1>5, <2>2, ReadingStays DEF vars, list, cell, WInv
  <2>3. UNCHANGED <<lock, getting, ptr, loaded, registry>>
    BY <1>5 DEF vars, cell
  <2>4. CellTyped' /\ OneWalks' /\ (lock' = "ready" => Holds(registry', loaded'))
    BY <2>3 DEF WInv, CellTyped, OneWalks
  <2> QED BY <2>1, <2>2, <2>4 DEF WInv, Holds
<1> QED BY <1>1, <1>2, <1>3, <1>4, <1>5 DEF Next, Get

LEMMA WInvHolds == Spec => []WInv
BY WInvInit, WInvStep, PTL DEF Spec

------------------------------------------------------------------------------
\* Whatever libraries register, and whichever calls of get panic: a registry
\* finds each actor by its name.
THEOREM NamesAreRight == Spec => []NamesResolve
<1>1. WInv => NamesResolve
  <2> SUFFICES ASSUME WInv, lock = "ready" PROVE NamesResolve
    BY DEF NamesResolve
  <2>1. Holds(registry, loaded) /\ Actors = ActorsOf(loaded)
    BY DEF WInv, Actors, ActorsOf
  <2> QED BY <2>1 DEF NamesResolve, Holds
<1> QED BY <1>1, WInvHolds, PTL

\* And it lists for each trait every actor type that was registered with it,
\* as often as it was, and no other.
THEOREM TraitListsAreRight == Spec => []TraitsListImplementors
<1>1. WInv => TraitsListImplementors
  <2> SUFFICES ASSUME WInv, lock = "ready" PROVE TraitsListImplementors
    BY DEF TraitsListImplementors
  <2>1. Holds(registry, loaded) /\ Actors = ActorsOf(loaded)
    BY DEF WInv, Actors, ActorsOf
  <2> QED BY <2>1 DEF TraitsListImplementors, Holds
<1> QED BY <1>1, WInvHolds, PTL

\* No two nodes declare the same actor or the same resource.  (Of two that do
\* only one can be read, and Contents cannot say which.)
Distinct ==
  \A m, n \in Nodes :
    Decl[m].kind = Decl[n].kind /\ Decl[m].type = Decl[n].type
      /\ (Decl[m].kind = "actor" => Decl[m].name = Decl[n].name) => m = n

LEMMA ContentsAreLoaded ==
  ASSUME Distinct, NEW S \in SUBSET Nodes, NEW b, Holds(b, S)
  PROVE  {n \in Nodes : IF Decl[n].kind = "actor"
                        THEN <<Decl[n].name, Decl[n].type>> \in b.name_to_type_id
                        ELSE Decl[n].type \in b.resource_constructors} = S
<1> DEFINE In(n) == IF Decl[n].kind = "actor"
                    THEN <<Decl[n].name, Decl[n].type>> \in b.name_to_type_id
                    ELSE Decl[n].type \in b.resource_constructors
<1>1. ASSUME NEW n \in Nodes PROVE In(n) <=> n \in S
  <2>1. CASE Decl[n].kind = "actor"
    <3>1. In(n) <=> \E m \in ActorsOf(S) : <<Decl[n].name, Decl[n].type>> = <<Decl[m].name, Decl[m].type>>
      BY <2>1 DEF Holds
    <3> QED BY <2>1, <3>1 DEF Distinct, ActorsOf
  <2>2. CASE Decl[n].kind = "resource"
    <3>1. In(n) <=> \E m \in S \ ActorsOf(S) : Decl[n].type = Decl[m].type
      BY <2>2 DEF Holds
    <3>2. \A m \in S \ ActorsOf(S) : Decl[m].kind = "resource"
      BY DeclTyped DEF ActorsOf
    <3> QED BY <2>2, <3>1, <3>2 DEF Distinct, ActorsOf
  <2> QED BY <2>1, <2>2, DeclTyped
<1> QED BY <1>1

\* Each step of the list and of the cell is one of OnceRead, or none.
LEMMA OnceReadStep ==
  ASSUME Distinct, WInv, WInv', [Next]_vars
  PROVE  [R!Next]_(R!vars)
<1> DEFINE reading == IF lock = "busy" THEN loaded ELSE Null
           result == IF lock = "ready" THEN Contents ELSE Null
<1>1. ASSUME NEW n \in Nodes, Push(n) PROVE [R!Next]_(R!vars)
  <2>1. UNCHANGED <<lock, loaded, registry>>
    BY <1>1 DEF Push, LoadHead, StoreNext, Swap, SwapFails, cell
  <2>2. UNCHANGED <<reading, result>>
    BY <2>1 DEF Contents
  <2> HIDE DEF reading, result
  <2>3. CASE pushed' = pushed
    BY <2>2, <2>3 DEF R!vars, reading, result
  <2>4. CASE Swap(n)
    <3>1. pushed' = Append(pushed, n) /\ pushing[n] = "swap" /\ pushed \in Seq(Nodes)
      BY <2>4 DEF Swap, WInv, IInv, ListTyped
    <3>2. Range(pushed') = Range(pushed) \cup {n}
      BY <3>1, AppendRange
    <3>3. n \notin Range(pushed)
      BY <3>1 DEF WInv, IInv, PushedAreDone, Range
    <3> QED BY <2>2, <3>2, <3>3 DEF R!Next, R!Register, reading, result
  <2> QED BY <1>1, <2>3, <2>4 DEF Push, LoadHead, StoreNext, SwapFails
<1>2. ASSUME NEW g \in Getters, GetEmpty(g) PROVE [R!Next]_(R!vars)
  <2>1. /\ lock = "empty" /\ lock' = "busy" /\ loaded' = Range(pushed) /\ pushed' = pushed
    BY <1>2 DEF GetEmpty, list
  <2> QED BY <2>1 DEF R!Next, R!Begin
<1>3. ASSUME NEW g \in Getters, GetReady(g) \/ Walk(g) PROVE [R!Next]_(R!vars)
  <2>1. UNCHANGED <<pushed, lock, loaded, registry>>
    BY <1>3 DEF GetReady, Walk, list
  <2> QED BY <2>1 DEF R!vars, Contents
<1>4. ASSUME NEW g \in Getters, WalkPanics(g) PROVE [R!Next]_(R!vars)
  <2>1. lock = "busy" /\ lock' = "empty" /\ pushed' = pushed
    BY <1>4 DEF WalkPanics, list, WInv, OneWalks
  <2> QED BY <2>1 DEF R!Next, R!GiveUp, R!vars
<1>5. ASSUME NEW g \in Getters, Build(g) PROVE [R!Next]_(R!vars)
  <2>1. lock = "busy" /\ lock' = "ready" /\ pushed' = pushed /\ loaded' = loaded
    BY <1>5, AllIsRead DEF Build, list
  <2>2. loaded \subseteq Nodes /\ Holds(registry, loaded)'
    BY <2>1 DEF WInv, CellTyped
  <2>3. Contents' = loaded
    <3>1. Holds(builder, loaded) /\ registry' = builder
      BY <1>5, AllIsRead DEF Build
    <3>2. Contents' = {n \in Nodes : IF Decl[n].kind = "actor"
                                     THEN <<Decl[n].name, Decl[n].type>> \in builder.name_to_type_id
                                     ELSE Decl[n].type \in builder.resource_constructors}
      BY <3>1 DEF Contents
    <3> QED BY <2>2, <3>1, <3>2, ContentsAreLoaded
  <2> QED BY <2>1, <2>3 DEF R!Next, R!Publish, R!vars
<1>6. CASE UNCHANGED vars
  BY <1>6 DEF vars, list, cell, R!vars, Contents
<1> QED BY <1>1, <1>2, <1>3, <1>4, <1>5, <1>6 DEF Next, Get

\* The registry is what the list held at one moment, and stays so.
THEOREM RegistryImplementsOnceRead ==
  ASSUME Distinct
  PROVE  Spec => ImplementsOnceRead
<1>1. Init => R!Init
  BY DEF Init, R!Init, Range
<1>2. Distinct /\ WInv /\ WInv' /\ [Next]_vars => [R!Next]_(R!vars)
  BY OnceReadStep
<1>3. Distinct
  OBVIOUS
<1> QED BY <1>1, <1>2, <1>3, WInvHolds, PTL DEF Spec, R!Spec, ImplementsOnceRead
====
