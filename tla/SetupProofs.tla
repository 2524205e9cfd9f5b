----------------------------- MODULE SetupProofs -----------------------------
(***************************************************************************)
(* Proofs about Setup, for every configuration, number of contexts and     *)
(* actors, and whatever constructors and handlers do.                      *)
(***************************************************************************)
EXTENDS Setup, FiniteSetTheorems, SequenceTheorems, TLAPS

------------------------------------------------------------------------------
(***************************************************************************)
(* Where actors are.                                                       *)
(***************************************************************************)

\* The actors of context c in the configuration, and those before actor i.
IdsOf(c) == {j \in Ids : config.actors[j].context = c}
Before(i) == {j \in 1 .. i - 1 : config.actors[j].context = config.actors[i].context}

LEMMA IdsAre ==
  ASSUME config \in Configs
  PROVE  /\ Len(config.actors) \in Nat /\ Ids = 1 .. Len(config.actors)
         /\ \A i \in Ids : config.actors[i].context \in Nat \ {0}
BY ConfigsAssumption DEF Ids

LEMMA EntryIs ==
  ASSUME NEW i
  PROVE  /\ Entry(i).id = i /\ Entry(i).type = config.actors[i].type
         /\ Entry(i).loc.context = config.actors[i].context
         /\ Entry(i).loc.offset = Cardinality(Before(i))
BY DEF Entry, Before

\* Before an actor there are fewer of its context than before a later one, and
\* fewer than there are.
LEMMA BeforeGrows ==
  ASSUME config \in Configs, NEW i \in Ids
  PROVE  /\ Cardinality(Before(i)) \in Nat
         /\ Cardinality(IdsOf(config.actors[i].context)) \in 0 .. Len(config.actors)
         /\ Cardinality(Before(i)) < Cardinality(IdsOf(config.actors[i].context))
         /\ \A k \in Ids : i < k /\ config.actors[k].context = config.actors[i].context
              => Cardinality(Before(i)) < Cardinality(Before(k))
<1> DEFINE c == config.actors[i].context
<1>1. Len(config.actors) \in Nat /\ Ids = 1 .. Len(config.actors)
  BY IdsAre
<1>2. IsFiniteSet(Ids) /\ Cardinality(Ids) = Len(config.actors)
  BY <1>1, FS_Interval
<1>3. IsFiniteSet(IdsOf(c)) /\ Cardinality(IdsOf(c)) <= Len(config.actors)
  BY <1>2, FS_Subset DEF IdsOf
<1>4. Before(i) \subseteq IdsOf(c) /\ i \in IdsOf(c) /\ i \notin Before(i)
  BY <1>1 DEF IdsOf, Before
<1>5. IsFiniteSet(Before(i)) /\ Cardinality(Before(i)) \in Nat /\ Cardinality(IdsOf(c)) \in Nat
  BY <1>3, <1>4, FS_Subset, FS_CardinalityType
<1>6. ASSUME NEW T, IsFiniteSet(T), Before(i) \subseteq T, i \in T
      PROVE  Cardinality(Before(i)) < Cardinality(T)
  <2>1. Cardinality(Before(i) \cup {i}) = Cardinality(Before(i)) + 1
    BY <1>4, <1>5, FS_AddElement
  <2>2. Before(i) \cup {i} \in SUBSET T
    BY <1>6
  <2>3. Cardinality(Before(i) \cup {i}) <= Cardinality(T) /\ Cardinality(T) \in Nat
    BY <1>6, <2>2, FS_Subset, FS_CardinalityType
  <2> QED BY <1>5, <2>1, <2>3
<1>7. ASSUME NEW k \in Ids, i < k, config.actors[k].context = c
      PROVE  Cardinality(Before(i)) < Cardinality(Before(k))
  <2>1. Before(k) \subseteq IdsOf(c)
    BY <1>1, <1>7 DEF IdsOf, Before
  <2>2. IsFiniteSet(Before(k))
    BY <1>3, <2>1, FS_Subset
  <2>3. Before(i) \subseteq Before(k) /\ i \in Before(k)
    BY <1>1, <1>7 DEF Before
  <2> QED BY <1>6, <2>2, <2>3
<1>8. Cardinality(Before(i)) < Cardinality(IdsOf(c))
  BY <1>3, <1>4, <1>6
<1> QED BY <1>3, <1>5, <1>7, <1>8

\* The tree, once there is one.
Placed == tree = {Entry(i) : i \in Ids} /\ WellFormed /\ Resolved

LEMMA EntriesOf ==
  ASSUME config \in Configs, Placed, NEW c
  PROVE  /\ Own(c) = {Entry(i) : i \in IdsOf(c)}
         /\ Cardinality(Own(c)) = Cardinality(IdsOf(c))
         /\ IsFiniteSet(IdsOf(c)) /\ Cardinality(IdsOf(c)) \in 0 .. Len(config.actors)
<1>1. Own(c) = {Entry(i) : i \in IdsOf(c)}
  BY EntryIs DEF Placed, Own, IdsOf
<1> DEFINE f == [i \in IdsOf(c) |-> Entry(i)]
<1>2. f \in Bijection(IdsOf(c), Own(c))
  <2>1. f \in [IdsOf(c) -> Own(c)]
    BY <1>1
  <2>2. \A i, j \in IdsOf(c) : f[i] = f[j] => i = j
    BY EntryIs
  <2>3. \A e \in Own(c) : \E i \in IdsOf(c) : f[i] = e
    BY <1>1
  <2> HIDE DEF f
  <2> QED BY <2>1, <2>2, <2>3 DEF Bijection, Injection, Surjection, IsInjective
<1>3. ExistsBijection(IdsOf(c), Own(c))
  BY <1>2 DEF ExistsBijection
<1>4. Len(config.actors) \in Nat /\ Ids = 1 .. Len(config.actors)
  BY IdsAre
<1>5. IsFiniteSet(Ids) /\ Cardinality(Ids) = Len(config.actors)
  BY <1>4, FS_Interval
<1>6. IdsOf(c) \in SUBSET Ids
  BY DEF IdsOf
<1>7. IsFiniteSet(IdsOf(c)) /\ Cardinality(IdsOf(c)) <= Len(config.actors) /\ Cardinality(IdsOf(c)) \in Nat
  BY <1>5, <1>6, FS_Subset, FS_CardinalityType
<1> QED BY <1>1, <1>3, <1>4, <1>7, FS_Bijection

\* The offsets of a context are those below the number of its actors, each of
\* one actor.
LEMMA Offsets ==
  ASSUME config \in Configs, Placed, NEW c
  PROVE  /\ Cardinality(Own(c)) \in 0 .. Len(config.actors) /\ Len(config.actors) \in Nat
         /\ \A e \in Own(c) : /\ e.loc.offset \in Nat /\ e.loc.offset < Cardinality(Own(c))
                              /\ e.id \in Ids /\ e.type \in Types
         /\ \A e, f \in Own(c) : e.loc.offset = f.loc.offset => e = f
         /\ \A o \in Nat : o < Cardinality(Own(c)) => \E e \in Own(c) : e.loc.offset = o
<1> DEFINE n == Cardinality(Own(c))
           h == [i \in IdsOf(c) |-> Entry(i).loc.offset]
<1>1. /\ Own(c) = {Entry(i) : i \in IdsOf(c)} /\ n = Cardinality(IdsOf(c))
      /\ IsFiniteSet(IdsOf(c)) /\ n \in 0 .. Len(config.actors) /\ Len(config.actors) \in Nat
      /\ Ids = 1 .. Len(config.actors)
  BY EntriesOf, IdsAre
<1>2. ASSUME NEW i \in IdsOf(c)
      PROVE  i \in Ids /\ Entry(i).loc.offset \in Nat /\ Entry(i).loc.offset < n
  BY <1>1, EntryIs, BeforeGrows DEF IdsOf
<1>3. ASSUME NEW i \in IdsOf(c), NEW j \in IdsOf(c), Entry(i).loc.offset = Entry(j).loc.offset
      PROVE  i = j
  <2>1. /\ i \in Ids /\ j \in Ids /\ i \in Nat /\ j \in Nat
        /\ config.actors[i].context = c /\ config.actors[j].context = c
    BY <1>1 DEF IdsOf
  <2>2. i < j => Entry(i).loc.offset < Entry(j).loc.offset
    BY <2>1, EntryIs, BeforeGrows
  <2>3. j < i => Entry(j).loc.offset < Entry(i).loc.offset
    BY <2>1, EntryIs, BeforeGrows
  <2>4. Entry(i).loc.offset \in Nat
    BY <1>2
  <2> QED BY <1>3, <2>1, <2>2, <2>3, <2>4
<1>4. h \in Injection(IdsOf(c), 0 .. n - 1)
  <2>1. h \in [IdsOf(c) -> 0 .. n - 1]
    <3>1. n \in Nat /\ \A i \in IdsOf(c) : Entry(i).loc.offset \in Nat /\ Entry(i).loc.offset < n
      BY <1>1, <1>2
    <3> HIDE DEF n
    <3>2. \A i \in IdsOf(c) : Entry(i).loc.offset \in 0 .. n - 1
      BY <3>1
    <3> QED BY <3>2
  <2>2. \A i, j \in IdsOf(c) : h[i] = h[j] => i = j
    BY <1>3
  <2> HIDE DEF h
  <2> QED BY <2>1, <2>2 DEF Injection, IsInjective
<1>5. IsFiniteSet(0 .. n - 1) /\ Cardinality(0 .. n - 1) = n
  <2>1. n \in Nat
    BY <1>1
  <2> HIDE DEF n
  <2>2. n - 1 \in Int /\ (0 > n - 1 <=> n = 0) /\ n - 1 - 0 + 1 = n
    BY <2>1
  <2> QED BY <2>2, FS_Interval
<1>6. h \in Surjection(IdsOf(c), 0 .. n - 1)
  <2> HIDE DEF h, n
  <2> QED BY <1>1, <1>4, <1>5, FS_Injection
<1>7. ASSUME NEW o \in Nat, o < n PROVE \E e \in Own(c) : e.loc.offset = o
  <2>1. o \in 0 .. n - 1
    BY <1>1, <1>7
  <2>2. \E i \in IdsOf(c) : h[i] = o
    <3> HIDE DEF h, n
    <3> QED BY <1>6, <2>1 DEF Surjection
  <2> QED BY <1>1, <2>2
<1>8. \A e, f \in Own(c) : e.loc.offset = f.loc.offset => e = f
  BY <1>1, <1>3
<1>9. \A e \in Own(c) : /\ e.loc.offset \in Nat /\ e.loc.offset < n
                        /\ e.id \in Ids /\ e.type \in Types
  BY <1>1, <1>2, EntryIs DEF Placed, Resolved
<1> QED BY <1>1, <1>7, <1>8, <1>9

\* Every actor is in one context, that of a thread, and has an id of its own.
LEMMA Entries ==
  ASSUME config \in Configs, Placed
  PROVE  /\ \A e \in tree : e.loc.context \in Threads /\ e \in Own(e.loc.context)
         /\ \A e, f \in tree : e.id = f.id => e = f
         /\ \A i \in Ids : \E e \in tree : e.id = i
         /\ \A c : Own(c) \subseteq tree /\ \A e \in Own(c) : e.loc.context = c
<1>1. \A i \in Ids : config.actors[i].context \in Threads
  BY IdsAre, ConfigsAssumption, NAssumption DEF Placed, WellFormed, Threads
<1> QED BY <1>1, EntryIs DEF Placed, Own

\* The actor at the offset of an actor of the context is that actor.
LEMMA ActorAtIs ==
  ASSUME config \in Configs, Placed, NEW c, NEW e \in Own(c)
  PROVE  ActorAt(c, e.loc.offset) = e
BY Offsets DEF ActorAt

\* As long as not all are done there is one to do.
LEMMA CurrentIs ==
  ASSUME config \in Configs, Placed, NEW c, at[c] \in Nat, at[c] <= Cardinality(Own(c)), ~ AllDone(c)
  PROVE  \E e \in Own(c) : e.loc.offset = at[c] /\ e.id = Current(c)
<1>1. Cardinality(Own(c)) \in Nat
  BY Offsets
<1>2. PICK e \in Own(c) : e.loc.offset = at[c]
  BY <1>1, Offsets DEF AllDone
<1> QED BY <1>2, ActorAtIs DEF Current

------------------------------------------------------------------------------
(***************************************************************************)
(* The invariant, in three parts: where threads and their actors are; what *)
(* is in queues; what handlers run on.                                     *)
(***************************************************************************)
Steps == {"unborn", "init", "asking", "making", "first", "first_run", "recv", "run",
          "drain", "dropping", "unwinding", "gone"}

\* Actors of context c may still be missing.
Early(c) == pc[c] \in {"unborn", "init", "asking", "making"}

\* What there is of context c: its actors are constructed, and dropped, in the
\* order of their offsets.
Phase(c) ==
  /\ at[c] > 0 => at[c] <= Cardinality(Own(c))
  /\ pc[c] = "unborn" => at[c] = 0
  /\ Early(c) => \A e \in Own(c) : (e.id \in built <=> e.loc.offset < at[c]) /\ drops[e.id] = 0
  /\ ~ Early(c) => \A e \in Own(c) : e.id \in built
  /\ Open(c) => ~ HasCycles(relations[c]) /\ \A e \in Own(c) : drops[e.id] = 0
  /\ Dropping(c) => \A e \in Own(c) : drops[e.id] = IF e.loc.offset < at[c] THEN 1 ELSE 0
  /\ pc[c] = "gone" => \A e \in Own(c) : drops[e.id] \in {0, 1} /\ (AllDone(c) => drops[e.id] = 1)

\* Before there is a tree.
Blank ==
  /\ tree = {} /\ process # "running" /\ built = {} /\ drops = [i \in Ids |-> 0]
  /\ \A c \in Threads : pc[c] = "unborn"

\* Reference r is that of an actor of context c whose id is in S.
RefOk(c, r, S) ==
  r \in Reference /\ \E e \in Own(c) : e.loc.offset = r.offset /\ e.type = r.meta /\ e.id \in S

\* A key leads where the relation says.
KeyOk(c, k) ==
  k.ref \in Reference /\ \E e \in Own(c) :
    e.loc.offset = k.ref.offset /\ e.type = k.ref.meta /\ <<k.holder, e.id>> \in relations[c]

ThreadsOk ==
  /\ config \in Configs
  /\ process \in {"config", "running", "panicked", "aborted", "undefined"}
  /\ Blank \/ (Placed /\ process # "config")
  /\ pc \in [Threads -> Steps] /\ at \in [Threads -> Nat]
  /\ built \subseteq Ids /\ drops \in [Ids -> Nat]
  /\ relations \in [Threads -> SUBSET (Ids \X Ids)]
  /\ keys \in [Threads -> SUBSET [holder : Ids, ref : Reference]]
  /\ lazy \in {"unmade", "making", "made"} /\ made = IF lazy = "unmade" THEN 0 ELSE 1
  /\ \A c \in Threads : pc[c] = "making" => lazy # "unmade"
  /\ \A c \in Threads : Phase(c) /\ \A k \in keys[c] : KeyOk(c, k)

Message == [cast : Nat, to : Threads, refs : SUBSET Reference]

\* A message was cast, and to what its references are to.
MsgOk(m) == m.cast \in DOMAIN casts /\ \A r \in m.refs : RefOk(m.to, r, casts[m.cast])

\* The channel of context c holds what is for it, and what went astray.
Comes(c, m) == m.to = c \/ Stray(m)

MailOk ==
  /\ casts \in Seq(SUBSET Ids)
  /\ local_queue \in [Threads -> Seq(Message)] /\ rx \in [Threads -> Seq(Message)]
  /\ unsent_messages \in [Threads -> SUBSET Message] /\ strays \subseteq Message
  /\ accessors \subseteq [context : Threads, ref : Reference]
  /\ \A c \in Threads :
       /\ \A j \in DOMAIN local_queue[c] : local_queue[c][j].to = c /\ MsgOk(local_queue[c][j])
       /\ \A j \in DOMAIN rx[c] : Comes(c, rx[c][j]) /\ MsgOk(rx[c][j])
       /\ \A m \in unsent_messages[c] : MsgOk(m)
  /\ \A m \in strays : MsgOk(m)
  /\ \A a \in accessors : RefOk(a.context, a.ref, Ids)

\* What the thread of context c runs, or ran when it panicked.
DoingOk(c) ==
  /\ Comes(c, doing[c]) /\ doing[c].to \in Threads /\ doing[c].refs \subseteq Reference
  /\ MsgOk(doing[c]) /\ RefOk(doing[c].to, doing[c].ref, casts[doing[c].cast])

HandlersOk ==
  /\ doing = [c \in Threads |-> doing[c]]
  /\ reached \subseteq (DOMAIN casts) \X Ids
  /\ \A c \in Threads : InHandler(c) \/ doing[c] # None => DoingOk(c)

IInv == ThreadsOk /\ MailOk /\ HandlersOk

------------------------------------------------------------------------------
(***************************************************************************)
(* What steps leave alone.                                                 *)
(***************************************************************************)
LEMMA PlacedStays ==
  ASSUME Placed, UNCHANGED <<config, tree>>
  PROVE  Placed'
BY DEF Placed, WellFormed, Resolved, Ids, Entry

LEMMA PhaseStays ==
  ASSUME NEW c, Phase(c), UNCHANGED <<config, tree>>,
         pc'[c] = pc[c], at'[c] = at[c], relations'[c] = relations[c],
         \A e \in Own(c) : (e.id \in built' <=> e.id \in built) /\ drops'[e.id] = drops[e.id]
  PROVE  Phase(c)'
<1>1. Own(c)' = Own(c)
  BY DEF Own
<1>2. HasCycles(relations[c])' <=> HasCycles(relations[c])
  BY DEF HasCycles, Knot
<1> QED BY <1>1, <1>2 DEF Phase, Early, Open, Dropping, AllDone

\* A step of one thread that leaves keys and mail alone.
LEMMA ThreadMoves ==
  ASSUME ThreadsOk, process = "running", NEW c \in Threads, NEW l \in Steps,
         UNCHANGED <<tables, relations, keys>>,
         pc' = [pc EXCEPT ![c] = l],
         at' \in [Threads -> Nat], \A d \in Threads \ {c} : at'[d] = at[d],
         built' \subseteq Ids, drops' \in [Ids -> Nat],
         \A d \in Threads \ {c} : \A e \in Own(d) :
           (e.id \in built' <=> e.id \in built) /\ drops'[e.id] = drops[e.id],
         lazy' \in {"unmade", "making", "made"}, made' = IF lazy' = "unmade" THEN 0 ELSE 1,
         lazy # "unmade" \/ l = "making" => lazy' # "unmade",
         Phase(c)'
  PROVE  ThreadsOk'
<1>1. UNCHANGED <<config, process, tree>>
  BY DEF tables
<1>2. Placed' /\ process' # "config"
  BY <1>1, PlacedStays DEF ThreadsOk, Blank
<1>3. pc' \in [Threads -> Steps]
  BY DEF ThreadsOk
<1>4. ASSUME NEW d \in Threads PROVE Phase(d)'
  <2>1. CASE d # c
    <3>1. pc'[d] = pc[d] /\ at'[d] = at[d] /\ relations'[d] = relations[d]
      BY <2>1 DEF ThreadsOk
    <3> QED BY <1>1, <2>1, <3>1, PhaseStays DEF ThreadsOk
  <2> QED BY <2>1
<1>5. ASSUME NEW d \in Threads, pc'[d] = "making" PROVE lazy' # "unmade"
  BY <1>5 DEF ThreadsOk
<1>6. ASSUME NEW d \in Threads, NEW k \in keys'[d] PROVE KeyOk(d, k)'
  BY <1>1, <1>6 DEF ThreadsOk, KeyOk, Own, Reference
<1>7. /\ config' \in Configs /\ process' \in {"config", "running", "panicked", "aborted", "undefined"}
      /\ relations' \in [Threads -> SUBSET (Ids \X Ids)]'
      /\ keys' \in [Threads -> SUBSET [holder : Ids, ref : Reference]]'
      /\ built' \subseteq Ids' /\ drops' \in [Ids' -> Nat]
  BY <1>1 DEF ThreadsOk, Ids, Reference, Threads
<1> QED BY <1>2, <1>3, <1>4, <1>5, <1>6, <1>7 DEF ThreadsOk

LEMMA ThreadsStay ==
  ASSUME ThreadsOk, UNCHANGED <<config, tree, pc, objects, local, resource>>,
         process' = process \/ process' \in {"panicked", "aborted", "undefined"}
  PROVE  ThreadsOk'
<1>1. UNCHANGED <<at, built, drops, relations, keys, lazy, made>>
  BY DEF objects, local, resource
<1>2. Blank' \/ (Placed /\ process # "config")'
  BY <1>1, PlacedStays DEF ThreadsOk, Blank, Ids
<1>3. \A c \in Threads : Phase(c)'
  BY <1>1, PhaseStays DEF ThreadsOk
<1>4. \A c \in Threads : \A k \in keys'[c] : KeyOk(c, k)'
  BY <1>1 DEF ThreadsOk, KeyOk, Own, Reference
<1>5. Ids' = Ids
  BY DEF Ids
<1> QED BY <1>1, <1>2, <1>3, <1>4, <1>5 DEF ThreadsOk

\* A message that went astray is not found again.
LEMMA StraysStay ==
  ASSUME strays \subseteq strays'
  PROVE  \A c, m : Comes(c, m) => Comes(c, m)'
BY DEF Comes, Stray

LEMMA MailStays ==
  ASSUME MailOk, UNCHANGED <<config, tree, queues, accessors, casts>>
  PROVE  MailOk'
<1>1. \A c, r, S : RefOk(c, r, S)' <=> RefOk(c, r, S)
  BY DEF RefOk, Own, Reference
<1>2. \A m : MsgOk(m)' <=> MsgOk(m)
  BY <1>1 DEF MsgOk
<1>3. Ids' = Ids
  BY DEF Ids
<1>4. \A c, m : Comes(c, m) => Comes(c, m)'
  BY StraysStay DEF queues
<1> QED BY <1>1, <1>2, <1>3, <1>4 DEF MailOk, queues

LEMMA HandlersStay ==
  ASSUME HandlersOk, UNCHANGED <<config, tree, handler, casts>>, strays \subseteq strays',
         \A c \in Threads : InHandler(c)' => InHandler(c)
  PROVE  HandlersOk'
<1>1. \A c, r, S : RefOk(c, r, S)' <=> RefOk(c, r, S)
  BY DEF RefOk, Own, Reference
<1>2. \A m : MsgOk(m)' <=> MsgOk(m)
  BY <1>1 DEF MsgOk
<1>3. Ids' = Ids
  BY DEF Ids
<1>4. \A c, m : Comes(c, m) => Comes(c, m)'
  BY StraysStay
<1>5. ASSUME NEW c \in Threads, InHandler(c)' \/ doing'[c] # None PROVE DoingOk(c)'
  <2>1. PICK m : m = doing[c] /\ doing'[c] = m
    BY DEF handler
  <2>2. DoingOk(c)
    BY <1>5, <2>1 DEF HandlersOk
  <2>3. PICK S : S = casts[m.cast] /\ S = casts'[m.cast]
    OBVIOUS
  <2>4. RefOk(m.to, m.ref, S)'
    BY <1>1, <2>1, <2>2, <2>3 DEF DoingOk
  <2>5. RefOk(m.to, m.ref, casts[m.cast])'
    BY <2>3, <2>4 DEF RefOk
  <2> QED BY <1>2, <1>4, <2>1, <2>2, <2>5 DEF DoingOk, Reference, Threads
<1> QED BY <1>3, <1>5 DEF HandlersOk, handler

------------------------------------------------------------------------------
(***************************************************************************)
(* Steps that move one thread.                                             *)
(***************************************************************************)
LEMMA MoveKeeps ==
  ASSUME IInv, process = "running", NEW c \in Threads, NEW l \in Steps,
         UNCHANGED <<tables, local, queues, handler, outside>>,
         pc' = [pc EXCEPT ![c] = l], l \in {"first_run", "run"} => InHandler(c),
         at' \in [Threads -> Nat], \A d \in Threads \ {c} : at'[d] = at[d],
         built' \subseteq Ids, drops' \in [Ids -> Nat],
         \A d \in Threads \ {c} : \A e \in Own(d) :
           (e.id \in built' <=> e.id \in built) /\ drops'[e.id] = drops[e.id],
         lazy' \in {"unmade", "making", "made"}, made' = IF lazy' = "unmade" THEN 0 ELSE 1,
         lazy # "unmade" \/ l = "making" => lazy' # "unmade",
         Phase(c)'
  PROVE  IInv'
<1>1. ThreadsOk'
  BY ThreadMoves DEF IInv, local
<1>2. \A d \in Threads : InHandler(d)' => InHandler(d)
  BY DEF IInv, ThreadsOk, InHandler
<1>3. UNCHANGED <<config, tree, accessors, casts>>
  BY DEF tables, outside
<1>4. MailOk'
  BY <1>3, MailStays DEF IInv
<1>5. \A d : InHandler(d)' => InHandler(d) \/ d \notin Threads
  BY <1>2
<1>6. HandlersOk'
  BY <1>2, <1>3, HandlersStay DEF IInv, queues
<1> QED BY <1>1, <1>4, <1>6 DEF IInv

LEMMA RunningIs ==
  ASSUME ThreadsOk, process = "running"
  PROVE  /\ Placed /\ config \in Configs
         /\ \A c \in Threads : Phase(c) /\ pc[c] \in Steps /\ at[c] \in Nat
         /\ \A i \in Ids : drops[i] \in Nat
BY DEF ThreadsOk, Blank

LEMMA ConstructKeeps ==
  ASSUME IInv, process = "running", NEW c \in Threads, Construct(c)
  PROVE  IInv'
<1>1. /\ pc[c] = "init" /\ ~ AllDone(c) /\ at' = [at EXCEPT ![c] = @ + 1]
      /\ built' = built \cup {Current(c)}
      /\ UNCHANGED <<tables, pc, drops, local, resource, queues, handler, outside>>
  BY DEF Construct, Constructing
<1>2. /\ Placed /\ config \in Configs /\ Phase(c) /\ at[c] \in Nat /\ pc \in [Threads -> Steps]
      /\ at \in [Threads -> Nat] /\ built \subseteq Ids /\ drops \in [Ids -> Nat]
  BY RunningIs DEF IInv, ThreadsOk
<1>3. Cardinality(Own(c)) \in Nat
  BY <1>2, Offsets
<1>4. at[c] <= Cardinality(Own(c))
  BY <1>2, <1>3 DEF Phase
<1>5. PICK f \in Own(c) : f.loc.offset = at[c] /\ f.id = Current(c)
  BY <1>1, <1>2, <1>4, CurrentIs
<1>6. f.id \in Ids /\ at[c] < Cardinality(Own(c))
  BY <1>2, <1>5, Offsets
<1>7. \A d \in Threads : \A e \in Own(d) : e.id = f.id => e = f /\ d = c
  BY <1>2, <1>5, Entries DEF Own
<1>8. Phase(c)'
  <2>1. Own(c)' = Own(c)
    BY <1>1 DEF Own, tables
  <2>2. at'[c] = at[c] + 1 /\ pc'[c] = "init"
    BY <1>1, <1>2
  <2>3. \A e \in Own(c) : (e.id \in built <=> e.loc.offset < at[c]) /\ drops[e.id] = 0
    BY <1>1, <1>2 DEF Phase, Early
  <2>4. \A e \in Own(c) : e.loc.offset \in Nat /\ (e.loc.offset = at[c] => e = f)
    BY <1>2, <1>5, Offsets
  <2>5. \A e \in Own(c) : e.id \in built' <=> e.loc.offset < at'[c]
    BY <1>1, <1>2, <1>5, <1>7, <2>2, <2>3, <2>4
  <2>6. at'[c] <= Cardinality(Own(c))
    BY <1>2, <1>3, <1>6, <2>2
  <2> QED BY <1>1, <2>1, <2>2, <2>3, <2>5, <2>6 DEF Phase, Early, Open, Dropping
<1>9. /\ pc' = [pc EXCEPT ![c] = "init"] /\ "init" \in Steps
      /\ at' \in [Threads -> Nat] /\ \A d \in Threads \ {c} : at'[d] = at[d]
      /\ built' \subseteq Ids /\ drops' \in [Ids -> Nat]
  BY <1>1, <1>2, <1>5, <1>6 DEF Steps
<1>10. \A d \in Threads \ {c} : \A e \in Own(d) :
         (e.id \in built' <=> e.id \in built) /\ drops'[e.id] = drops[e.id]
  BY <1>1, <1>5, <1>7
<1>11. /\ lazy' \in {"unmade", "making", "made"} /\ made' = IF lazy' = "unmade" THEN 0 ELSE 1
       /\ lazy' = lazy
  BY <1>1 DEF resource, IInv, ThreadsOk
<1> QED BY <1>1, <1>8, <1>9, <1>10, <1>11, MoveKeeps

\* Asking for a resource, and getting it.
LEMMA ResourceKeeps ==
  ASSUME IInv, process = "running", NEW c \in Threads,
         GetResource(c) \/ MakeResource(c) \/ ResourceReady(c)
  PROVE  IInv'
<1>1. PICK l \in {"init", "asking", "making"} :
        /\ pc' = [pc EXCEPT ![c] = l]
        /\ l = "making" => lazy' = "making"
  BY DEF GetResource, MakeResource, ResourceReady, Goto
<1>2. /\ pc[c] \in {"init", "asking", "making"}
      /\ UNCHANGED <<tables, objects, local, queues, handler, outside>>
  BY DEF GetResource, MakeResource, ResourceReady, Constructing, resource
<1>3. /\ lazy' \in {"unmade", "making", "made"} /\ made' = IF lazy' = "unmade" THEN 0 ELSE 1
      /\ lazy # "unmade" \/ l = "making" => lazy' # "unmade"
  BY <1>1, <1>2 DEF GetResource, MakeResource, ResourceReady, resource, IInv, ThreadsOk
<1>4. /\ Phase(c) /\ pc \in [Threads -> Steps] /\ l \in Steps /\ at \in [Threads -> Nat]
      /\ built \subseteq Ids /\ drops \in [Ids -> Nat] /\ at' = at /\ built' = built /\ drops' = drops
  BY <1>2 DEF IInv, ThreadsOk, objects, Steps
<1>5. Phase(c)'
  <2>1. Own(c)' = Own(c) /\ pc'[c] = l
    BY <1>1, <1>2, <1>4 DEF Own, tables
  <2> QED BY <1>2, <1>4, <2>1 DEF Phase, Early, Open, Dropping
<1> QED BY <1>1, <1>2, <1>3, <1>4, <1>5, MoveKeeps

\* A context opens, or its thread begins to serve its channel.
LEMMA OpenKeeps ==
  ASSUME IInv, process = "running", NEW c \in Threads, FinishInit(c) \/ Serve(c) \/ Wait(c)
  PROVE  IInv'
<1>1. PICK l \in {"first", "recv"} : pc' = [pc EXCEPT ![c] = l]
  BY DEF FinishInit, Serve, Wait, Goto
<1>2. UNCHANGED <<tables, objects, local, resource, queues, handler, outside>>
  BY DEF FinishInit, Serve, Wait
<1>3. /\ Placed /\ config \in Configs /\ Phase(c) /\ at[c] \in Nat
      /\ pc \in [Threads -> Steps] /\ l \in Steps /\ at \in [Threads -> Nat]
      /\ built \subseteq Ids /\ drops \in [Ids -> Nat] /\ at' = at /\ built' = built /\ drops' = drops
      /\ relations' = relations
      /\ lazy' \in {"unmade", "making", "made"} /\ made' = (IF lazy' = "unmade" THEN 0 ELSE 1) /\ lazy' = lazy
  BY <1>2, RunningIs DEF IInv, ThreadsOk, objects, local, resource, Steps
<1>4. Phase(c)'
  <2>1. Own(c)' = Own(c) /\ pc'[c] = l
    BY <1>1, <1>2, <1>3 DEF Own, tables
  <2>2. \A e \in Own(c) : e.id \in built /\ drops[e.id] = 0
    <3>1. CASE FinishInit(c)
      BY <1>3, <3>1, Offsets DEF FinishInit, Phase, Early, AllDone
    <3>2. CASE Serve(c) \/ Wait(c)
      BY <1>3, <3>2 DEF Serve, Wait, Settled, Phase, Early, Open
    <3> QED BY <3>1, <3>2
  <2>3. ~ HasCycles(relations[c])
    BY <1>3 DEF FinishInit, Serve, Wait, Settled, Phase, Open
  <2>4. ~ HasCycles(relations[c])'
    BY <1>3, <2>3 DEF HasCycles, Knot
  <2> QED BY <1>3, <2>1, <2>2, <2>4 DEF Phase, Early, Open, Dropping
<1> QED BY <1>1, <1>2, <1>3, <1>4, MoveKeeps

\* An open context begins to be dropped.
LEMMA PhaseDrop ==
  ASSUME IInv, process = "running", NEW c \in Threads, Open(c), NEW l \in {"dropping", "unwinding"},
         Drop(c, l), UNCHANGED <<tables, built, drops>>
  PROVE  /\ Phase(c)' /\ at' \in [Threads -> Nat] /\ \A d \in Threads \ {c} : at'[d] = at[d]
         /\ pc' = [pc EXCEPT ![c] = l]
<1>1. /\ Placed /\ config \in Configs /\ Phase(c) /\ pc \in [Threads -> Steps] /\ at \in [Threads -> Nat]
  BY RunningIs DEF IInv, ThreadsOk
<1>2. Own(c)' = Own(c) /\ pc'[c] = l /\ at'[c] = 0
  BY <1>1 DEF Own, tables, Drop, Goto
<1>3. \A e \in Own(c) : e.id \in built /\ drops[e.id] = 0 /\ e.loc.offset \in Nat
  BY <1>1, Offsets DEF Phase, Open, Early
<1> QED BY <1>1, <1>2, <1>3 DEF Phase, Early, Open, Dropping, Drop, Goto

LEMMA LeaveKeeps ==
  ASSUME IInv, process = "running", NEW c \in Threads, HandlerPanics(c) \/ FlushPanics(c) \/ Leave(c)
  PROVE  IInv'
<1>1. PICK l \in {"dropping", "unwinding"} : Drop(c, l)
  BY DEF HandlerPanics, FlushPanics, Leave
<1>2. UNCHANGED <<tables, built, drops, local, resource, queues, handler, outside>>
  BY DEF HandlerPanics, FlushPanics, Leave
<1>3. Open(c)
  BY DEF HandlerPanics, FlushPanics, Leave, Settled, Open
<1>4. /\ built \subseteq Ids /\ drops \in [Ids -> Nat] /\ l \in Steps
      /\ lazy' \in {"unmade", "making", "made"} /\ made' = (IF lazy' = "unmade" THEN 0 ELSE 1) /\ lazy' = lazy
  BY <1>2 DEF IInv, ThreadsOk, resource, Steps
<1>5. /\ Phase(c)' /\ at' \in [Threads -> Nat] /\ \A d \in Threads \ {c} : at'[d] = at[d]
      /\ pc' = [pc EXCEPT ![c] = l]
  BY <1>1, <1>2, <1>3, PhaseDrop
<1> QED BY <1>2, <1>4, <1>5, MoveKeeps

\* The next actor is dropped.
LEMMA DropKeeps ==
  ASSUME IInv, process = "running", NEW c \in Threads, DropActor(c) \/ DropPanics(c)
  PROVE  IInv'
<1>1. /\ Dropping(c) /\ ~ AllDone(c) /\ drops' = [drops EXCEPT ![Current(c)] = @ + 1]
      /\ UNCHANGED <<tables, built, local, resource, queues, handler, outside>>
      /\ \/ at' = [at EXCEPT ![c] = @ + 1] /\ pc' = pc
         \/ at' = at /\ pc' = [pc EXCEPT ![c] = "gone"]
  BY DEF DropActor, DropPanics, Dropping, Goto
<1>2. /\ Placed /\ config \in Configs /\ Phase(c) /\ at[c] \in Nat /\ pc \in [Threads -> Steps]
      /\ at \in [Threads -> Nat] /\ built \subseteq Ids /\ drops \in [Ids -> Nat]
  BY RunningIs DEF IInv, ThreadsOk
<1>3. Cardinality(Own(c)) \in Nat
  BY <1>2, Offsets
<1>4. at[c] <= Cardinality(Own(c))
  BY <1>2, <1>3 DEF Phase
<1>5. PICK f \in Own(c) : f.loc.offset = at[c] /\ f.id = Current(c)
  BY <1>1, <1>2, <1>4, CurrentIs
<1>6. f.id \in Ids /\ at[c] < Cardinality(Own(c))
  BY <1>2, <1>5, Offsets
<1>7. \A d \in Threads : \A e \in Own(d) : e.id = f.id => e = f /\ d = c
  BY <1>2, <1>5, Entries DEF Own
<1>8. \A e \in Own(c) : /\ e.loc.offset \in Nat /\ (e.loc.offset = at[c] => e = f) /\ e.id \in Ids
                        /\ e.id \in built /\ drops[e.id] = IF e.loc.offset < at[c] THEN 1 ELSE 0
  BY <1>1, <1>2, <1>5, Offsets DEF Phase, Dropping, Early
<1>9. \A e \in Own(c) : drops'[e.id] = IF e.loc.offset < at[c] + 1 THEN 1 ELSE 0
  BY <1>1, <1>2, <1>5, <1>6, <1>7, <1>8
<1>10. Phase(c)'
  <2>1. Own(c)' = Own(c) /\ built' = built
    BY <1>1 DEF Own, tables
  <2>2. CASE at' = [at EXCEPT ![c] = @ + 1] /\ pc' = pc
    <3>1. at'[c] = at[c] + 1 /\ pc'[c] = pc[c] /\ at'[c] <= Cardinality(Own(c))
      BY <1>2, <1>3, <1>6, <2>2
    <3> QED BY <1>1, <1>8, <1>9, <2>1, <3>1 DEF Phase, Early, Open, Dropping
  <2>3. CASE at' = at /\ pc' = [pc EXCEPT ![c] = "gone"]
    <3>1. at'[c] = at[c] /\ pc'[c] = "gone" /\ ~ AllDone(c)'
      BY <1>1, <1>2, <2>1, <2>3 DEF AllDone
    <3> QED BY <1>2, <1>8, <1>9, <2>1, <3>1 DEF Phase, Early, Open, Dropping
  <2> QED BY <1>1, <2>2, <2>3
<1>11. PICK l \in Steps : pc' = [pc EXCEPT ![c] = l] /\ l \notin {"making", "first_run", "run"}
  BY <1>1, <1>2 DEF Steps, Dropping
<1>12. /\ at' \in [Threads -> Nat] /\ \A d \in Threads \ {c} : at'[d] = at[d]
       /\ drops' \in [Ids -> Nat] /\ built' = built
       /\ lazy' \in {"unmade", "making", "made"} /\ made' = (IF lazy' = "unmade" THEN 0 ELSE 1) /\ lazy' = lazy
  BY <1>1, <1>2, <1>6, <1>5 DEF IInv, ThreadsOk, resource
<1>13. \A d \in Threads \ {c} : \A e \in Own(d) :
         (e.id \in built' <=> e.id \in built) /\ drops'[e.id] = drops[e.id]
  <2> SUFFICES ASSUME NEW d \in Threads \ {c}, NEW e \in Own(d) PROVE drops'[e.id] = drops[e.id]
    BY <1>1
  <2>1. e.id # Current(c) /\ e.id \in Ids
    BY <1>2, <1>5, <1>7, Offsets
  <2> QED BY <1>1, <1>2, <2>1
<1> QED BY <1>1, <1>2, <1>10, <1>11, <1>12, <1>13, MoveKeeps

\* All are dropped.
LEMMA FreeKeeps ==
  ASSUME IInv, process = "running", NEW c \in Threads, FreeArena(c)
  PROVE  IInv'
<1>1. /\ Dropping(c) /\ AllDone(c) /\ pc' = [pc EXCEPT ![c] = "gone"]
      /\ UNCHANGED <<tables, objects, local, resource, queues, handler, outside>>
  BY DEF FreeArena, Goto
<1>2. /\ Placed /\ config \in Configs /\ Phase(c) /\ at[c] \in Nat
      /\ pc \in [Threads -> Steps] /\ at \in [Threads -> Nat] /\ "gone" \in Steps
      /\ built \subseteq Ids /\ drops \in [Ids -> Nat] /\ at' = at /\ built' = built /\ drops' = drops
      /\ lazy' \in {"unmade", "making", "made"} /\ made' = (IF lazy' = "unmade" THEN 0 ELSE 1) /\ lazy' = lazy
  BY <1>1, RunningIs DEF IInv, ThreadsOk, objects, resource, Steps
<1>3. Phase(c)'
  <2>1. Own(c)' = Own(c) /\ pc'[c] = "gone"
    BY <1>1, <1>2 DEF Own, tables
  <2>2. \A e \in Own(c) : e.id \in built /\ drops[e.id] = 1
    BY <1>1, <1>2, Offsets DEF Phase, Dropping, Early, AllDone
  <2> QED BY <1>2, <2>1, <2>2 DEF Phase, Early, Open, Dropping
<1> QED BY <1>1, <1>2, <1>3, MoveKeeps

------------------------------------------------------------------------------
(***************************************************************************)
(* Mail.                                                                   *)
(***************************************************************************)

\* A reference from a lookup is good, and for that actor.
LEMMA RefIs ==
  ASSUME ThreadsOk, process = "running", NEW q \in Query, NEW e \in LookupOf(tree, q), NEW S, e.id \in S
  PROVE  /\ RefOk(e.loc.context, Ref(e, q), S)
         /\ e.loc.context \in Threads /\ e.id \in Ids /\ Ref(e, q) \in Reference
<1>1. e \in tree /\ Satisfies(e.type, q)
  BY DEF LookupOf
<1>2. /\ e \in Own(e.loc.context) /\ e.loc.context \in Threads
      /\ e.loc.offset \in Nat /\ e.type \in Types /\ e.id \in Ids
  BY <1>1, RunningIs, Entries, Offsets
<1>3. Ref(e, q) = [offset |-> e.loc.offset, meta |-> e.type]
  BY <1>1 DEF Ref, Satisfies
<1> QED BY <1>2, <1>3 DEF RefOk, Reference

\* What was cast stays so.
LEMMA CastsGrow ==
  ASSUME casts \in Seq(SUBSET Ids), NEW ids \in SUBSET Ids, casts' = Append(casts, ids),
         UNCHANGED <<config, tree>>
  PROVE  /\ casts' \in Seq(SUBSET Ids) /\ Ids' = Ids
         /\ Len(casts) + 1 \in Nat /\ Len(casts) + 1 \in DOMAIN casts' /\ casts'[Len(casts) + 1] = ids
         /\ DOMAIN casts \subseteq DOMAIN casts' /\ \A k \in DOMAIN casts : casts'[k] = casts[k]
         /\ \A c, r, S : RefOk(c, r, S)' <=> RefOk(c, r, S)
         /\ \A m : MsgOk(m) => MsgOk(m)'
<1>1. /\ casts' \in Seq(SUBSET Ids) /\ Len(casts) \in Nat
      /\ DOMAIN casts = 1 .. Len(casts) /\ DOMAIN casts' = 1 .. Len(casts) + 1
      /\ casts'[Len(casts) + 1] = ids /\ \A k \in 1 .. Len(casts) : casts'[k] = casts[k]
  BY AppendProperties
<1>2. Ids' = Ids
  BY DEF Ids
<1>3. \A c, r, S : RefOk(c, r, S)' <=> RefOk(c, r, S)
  BY DEF RefOk, Own, Reference
<1>4. DOMAIN casts \subseteq DOMAIN casts' /\ Len(casts) + 1 \in DOMAIN casts'
  BY <1>1
<1>5. \A m : MsgOk(m) => MsgOk(m)'
  BY <1>1, <1>3, <1>4 DEF MsgOk
<1> QED BY <1>1, <1>2, <1>3, <1>4, <1>5

\* Handlers go on while more is cast.
LEMMA HandlersGrow ==
  ASSUME HandlersOk, casts \in Seq(SUBSET Ids), NEW ids \in SUBSET Ids, casts' = Append(casts, ids),
         UNCHANGED <<config, tree, pc, strays, handler>>
  PROVE  HandlersOk'
<1>1. /\ DOMAIN casts \subseteq DOMAIN casts' /\ \A k \in DOMAIN casts : casts'[k] = casts[k]
      /\ \A c, r, S : RefOk(c, r, S)' <=> RefOk(c, r, S)
      /\ \A m : MsgOk(m) => MsgOk(m)'
      /\ Ids' = Ids
  BY CastsGrow
<1>2. UNCHANGED <<doing, reached, pc>>
  BY DEF handler
<1>3a. \A c : Own(c)' = Own(c)
  BY DEF Own
<1>3. ASSUME NEW c \in Threads, InHandler(c)' \/ doing'[c] # None PROVE DoingOk(c)'
  <2>1. DoingOk(c)
    BY <1>2, <1>3 DEF HandlersOk, InHandler
  <2>2. PICK m : m = doing[c] /\ doing'[c] = m
    BY <1>2
  <2>3. MsgOk(m)' /\ m.cast \in DOMAIN casts /\ RefOk(m.to, m.ref, casts[m.cast])
    BY <1>1, <2>1, <2>2 DEF DoingOk, MsgOk
  <2>4. RefOk(m.to, m.ref, casts'[m.cast])
    BY <1>1, <2>3
  <2>5. RefOk(m.to, m.ref, casts[m.cast])'
    BY <1>3a, <2>4 DEF RefOk
  <2>6. Comes(c, m)'
    BY <2>1, <2>2, StraysStay DEF DoingOk
  <2> QED BY <2>1, <2>2, <2>3, <2>5, <2>6 DEF DoingOk, Reference
<1>4. reached' \subseteq (DOMAIN casts') \X Ids'
  BY <1>1, <1>2 DEF HandlersOk
<1> QED BY <1>2, <1>3, <1>4 DEF HandlersOk

\* A new message is to what its references are to.
LEMMA NewMessage ==
  ASSUME NEW k \in Nat, NEW d \in Threads, NEW refs, NEW ids, k \in DOMAIN casts', casts'[k] = ids,
         \A r \in refs : RefOk(d, r, ids), \A c, r, S : RefOk(c, r, S)' <=> RefOk(c, r, S),
         NEW m, m = [cast |-> k, to |-> d, refs |-> refs]
  PROVE  m \in Message /\ m.to = d /\ MsgOk(m)'
<1>1. m.cast = k /\ m.to = d /\ m.refs = refs
  OBVIOUS
<1>2. refs \subseteq Reference
  BY DEF RefOk
<1>3. m \in Message
  BY <1>2 DEF Message
<1>4. \A r \in refs : RefOk(d, r, ids)'
  OBVIOUS
<1>5. ASSUME NEW r \in refs PROVE RefOk(m.to, r, casts[m.cast])'
  <2>1. RefOk(d, r, ids)'
    BY <1>4
  <2> QED BY <1>1, <2>1 DEF RefOk
<1>6. MsgOk(m)'
  BY <1>1, <1>5 DEF MsgOk
<1> QED BY <1>1, <1>3, <1>6

\* A message is put at the end of a queue.
LEMMA QueueGrows ==
  ASSUME NEW d, NEW q \in Seq(Message), NEW m \in Message, m.to = d, MsgOk(m)',
         \A j \in DOMAIN q : q[j].to = d /\ MsgOk(q[j]), \A x : MsgOk(x) => MsgOk(x)',
         NEW r, r = Append(q, m)
  PROVE  r \in Seq(Message) /\ \A j \in DOMAIN r : r[j].to = d /\ MsgOk(r[j])'
<1>1. /\ r \in Seq(Message) /\ Len(q) \in Nat /\ DOMAIN q = 1 .. Len(q) /\ DOMAIN r = 1 .. Len(q) + 1
      /\ r[Len(q) + 1] = m /\ \A j \in 1 .. Len(q) : r[j] = q[j]
  BY AppendProperties
<1>2. ASSUME NEW j \in DOMAIN r PROVE r[j] = m \/ (j \in DOMAIN q /\ r[j] = q[j])
  BY <1>1
<1>3. ASSUME NEW j \in DOMAIN r PROVE r[j].to = d /\ MsgOk(r[j])'
  <2>1. PICK x : x = r[j]
    OBVIOUS
  <2>2. x = m \/ (x.to = d /\ MsgOk(x))
    BY <1>2, <2>1
  <2> QED BY <2>1, <2>2
<1> QED BY <1>1, <1>3

\* And at the end of a channel.
LEMMA ChannelGrows ==
  ASSUME NEW d, NEW q \in Seq(Message), NEW m \in Message, Comes(d, m)', MsgOk(m)',
         \A j \in DOMAIN q : Comes(d, q[j]) /\ MsgOk(q[j]), \A x : MsgOk(x) => MsgOk(x)',
         \A x : Comes(d, x) => Comes(d, x)',
         NEW r, r = Append(q, m)
  PROVE  r \in Seq(Message) /\ \A j \in DOMAIN r : Comes(d, r[j])' /\ MsgOk(r[j])'
<1>1. /\ r \in Seq(Message) /\ Len(q) \in Nat /\ DOMAIN q = 1 .. Len(q) /\ DOMAIN r = 1 .. Len(q) + 1
      /\ r[Len(q) + 1] = m /\ \A j \in 1 .. Len(q) : r[j] = q[j]
  BY AppendProperties
<1>2. ASSUME NEW j \in DOMAIN r PROVE r[j] = m \/ (j \in DOMAIN q /\ r[j] = q[j])
  BY <1>1
<1>3. ASSUME NEW j \in DOMAIN r PROVE Comes(d, r[j])' /\ MsgOk(r[j])'
  <2>1. PICK x : x = r[j]
    OBVIOUS
  <2>2. x = m \/ (Comes(d, x) /\ MsgOk(x))
    BY <1>2, <2>1
  <2>3. Comes(d, x)' /\ MsgOk(x)'
    BY <2>2
  <2> QED BY <2>1, <2>3 DEF Comes, Stray, MsgOk, RefOk, Own
<1> QED BY <1>1, <1>3

LEMMA PostKeeps ==
  ASSUME IInv, process = "running", NEW c \in Threads, NEW ids \in SUBSET Ids, NEW gs,
         DOMAIN gs \subseteq Threads, \A d \in DOMAIN gs : \A r \in gs[d] : RefOk(d, r, ids),
         Post(c, ids, gs)
  PROVE  IInv'
<1>0. PICK k : k = Len(casts) + 1
  OBVIOUS
<1> DEFINE Msg(d) == [cast |-> k, to |-> d, refs |-> gs[d]]
<1>1. /\ casts' = Append(casts, ids)
      /\ local_queue' = [local_queue EXCEPT ![c] = IF c \in DOMAIN gs THEN Append(@, Msg(c)) ELSE @]
      /\ unsent_messages' = [unsent_messages EXCEPT ![c] = @ \cup {Msg(d) : d \in Others(c, gs)}]
      /\ UNCHANGED <<tables, pc, objects, local, resource, rx, strays, handler, accessors>>
  BY <1>0 DEF Post
<1>2. /\ casts \in Seq(SUBSET Ids) /\ local_queue \in [Threads -> Seq(Message)]
      /\ unsent_messages \in [Threads -> SUBSET Message]
  BY DEF IInv, MailOk
<1>3. UNCHANGED <<config, process, tree>>
  BY <1>1 DEF tables
<1>4. /\ casts' \in Seq(SUBSET Ids) /\ Ids' = Ids /\ k \in Nat /\ k \in DOMAIN casts' /\ casts'[k] = ids
      /\ \A d, r, S : RefOk(d, r, S)' <=> RefOk(d, r, S)
      /\ \A m : MsgOk(m) => MsgOk(m)'
  BY <1>0, <1>1, <1>2, <1>3, CastsGrow
<1>5. ASSUME NEW d \in DOMAIN gs, NEW m, m = Msg(d) PROVE m \in Message /\ m.to = d /\ MsgOk(m)'
  BY <1>4, <1>5, NewMessage
<1>6. ThreadsOk'
  BY <1>1, <1>3, ThreadsStay DEF IInv, ThreadsOk
<1>7. HandlersOk'
  BY <1>1, <1>2, <1>3, HandlersGrow DEF IInv
<1>7a. \A d, m : Comes(d, m) => Comes(d, m)'
  BY <1>1, StraysStay
<1>6a. PICK old, new : old = local_queue[c] /\ new = local_queue'[c]
  OBVIOUS
<1>8. \A d \in Threads : local_queue'[d] = IF d = c THEN new ELSE local_queue[d]
  BY <1>1, <1>2, <1>6a
<1>9. new \in Seq(Message) /\ \A j \in DOMAIN new : new[j].to = c /\ MsgOk(new[j])'
  <2>1. old \in Seq(Message) /\ \A j \in DOMAIN old : old[j].to = c /\ MsgOk(old[j])
    BY <1>6a DEF IInv, MailOk
  <2>2. CASE c \in DOMAIN gs
    <3>1. PICK m : m = Msg(c)
      OBVIOUS
    <3>2. new = Append(old, m)
      BY <1>1, <1>2, <1>6a, <2>2, <3>1
    <3> QED BY <1>4, <1>5, <2>1, <2>2, <3>1, <3>2, QueueGrows
  <2>3. CASE c \notin DOMAIN gs
    <3>1. new = old
      BY <1>1, <1>2, <1>6a, <2>3
    <3>2. ASSUME NEW j \in DOMAIN new PROVE new[j].to = c /\ MsgOk(new[j])'
      BY <1>4, <2>1, <3>1
    <3> QED BY <2>1, <3>1, <3>2
  <2> QED BY <2>2, <2>3
<1>10. /\ local_queue' \in [Threads -> Seq(Message)]
       /\ \A d \in Threads : \A j \in DOMAIN local_queue'[d] : (local_queue[d][j].to = d /\ MsgOk(local_queue[d][j]))'
  <2>1. ASSUME NEW d \in Threads, NEW j \in DOMAIN local_queue'[d]
        PROVE  (local_queue[d][j].to = d /\ MsgOk(local_queue[d][j]))'
    <3>1. CASE d = c
      BY <1>8, <1>9, <2>1, <3>1
    <3>2. CASE d # c
      <4>1. local_queue'[d] = local_queue[d]
        BY <1>8, <3>2
      <4> QED BY <1>4, <2>1, <4>1 DEF IInv, MailOk
    <3> QED BY <3>1, <3>2
  <2>2. local_queue' = [d \in Threads |-> local_queue'[d]]
    BY <1>1, <1>2
  <2>3. \A d \in Threads : local_queue'[d] \in Seq(Message)
    BY <1>2, <1>8, <1>9
  <2> QED BY <2>1, <2>2, <2>3
<1>11. /\ unsent_messages' \in [Threads -> SUBSET Message]
       /\ \A d \in Threads : \A m \in unsent_messages'[d] : MsgOk(m)'
  <2>1. \A m \in {Msg(d) : d \in Others(c, gs)} : m \in Message /\ MsgOk(m)'
    BY <1>5 DEF Others
  <2>2. \A d \in Threads : \A m \in unsent_messages[d] : MsgOk(m)'
    BY <1>4 DEF IInv, MailOk
  <2>3. PICK S : S = {Msg(d) : d \in Others(c, gs)}
    OBVIOUS
  <2>4. unsent_messages' = [unsent_messages EXCEPT ![c] = @ \cup S] /\ \A m \in S : m \in Message /\ MsgOk(m)'
    BY <1>1, <2>1, <2>3
  <2> QED BY <1>2, <2>2, <2>4
<1>12. MailOk'
  <2>1. UNCHANGED <<rx, strays, accessors>>
    BY <1>1
  <2>2. /\ \A d \in Threads : \A j \in DOMAIN rx'[d] : (Comes(d, rx[d][j]) /\ MsgOk(rx[d][j]))'
        /\ \A m \in strays' : MsgOk(m)'
        /\ \A a \in accessors' : RefOk(a.context, a.ref, Ids)'
    <3>1. ASSUME NEW d \in Threads, NEW j \in DOMAIN rx'[d] PROVE (Comes(d, rx[d][j]) /\ MsgOk(rx[d][j]))'
      <4>1. PICK x : x = rx[d][j] /\ x = rx'[d][j]
        BY <2>1
      <4>2. Comes(d, x)' /\ MsgOk(x)'
        BY <1>4, <1>7a, <2>1, <3>1, <4>1 DEF IInv, MailOk
      <4> QED BY <4>1, <4>2
    <3> QED BY <1>4, <2>1, <3>1 DEF IInv, MailOk
  <2>3. /\ rx' \in [Threads -> Seq(Message)] /\ strays' \subseteq Message
        /\ accessors' \subseteq [context : Threads, ref : Reference]
    BY <2>1 DEF IInv, MailOk
  <2> QED BY <1>4, <1>10, <1>11, <2>2, <2>3 DEF MailOk, Message, Reference
<1> QED BY <1>6, <1>7, <1>12 DEF IInv

LEMMA SendKeeps ==
  ASSUME IInv, process = "running", NEW c \in Threads, NEW q \in Query, NEW e \in tree, SendMsg(c, e, q)
  PROVE  IInv'
<1> DEFINE gs == [d \in {e.loc.context} |-> {Ref(e, q)}]
           ids == {e.id}
<1>1. Post(c, ids, gs) /\ e \in LookupOf(tree, q)
  BY DEF SendMsg
<1>2. RefOk(e.loc.context, Ref(e, q), ids) /\ e.loc.context \in Threads /\ e.id \in Ids
  BY <1>1, RefIs DEF IInv
<1>3. /\ ids \in SUBSET Ids /\ DOMAIN gs \subseteq Threads
      /\ \A d \in DOMAIN gs : \A r \in gs[d] : RefOk(d, r, ids)
  BY <1>2
<1> HIDE DEF gs, ids
<1> QED BY <1>1, <1>3, PostKeeps

LEMMA BroadcastKeeps ==
  ASSUME IInv, process = "running", NEW c \in Threads, NEW q \in Query, Broadcast(c, q)
  PROVE  IInv'
<1> DEFINE gs == Group(tree, q)
           ids == {e.id : e \in LookupOf(tree, q)}
<1>1. Post(c, ids, gs)
  BY DEF Broadcast
<1>2. \A e \in LookupOf(tree, q) :
        RefOk(e.loc.context, Ref(e, q), ids) /\ e.loc.context \in Threads /\ e.id \in Ids
  BY RefIs DEF IInv
<1>3. /\ ids \in SUBSET Ids /\ DOMAIN gs \subseteq Threads
      /\ \A d \in DOMAIN gs : \A r \in gs[d] : RefOk(d, r, ids)
  BY <1>2 DEF Group
<1> HIDE DEF gs, ids
<1> QED BY <1>1, <1>3, PostKeeps

LEMMA AccessorSendKeeps ==
  ASSUME IInv, process = "running", NEW a \in accessors, AccessorSend(a)
  PROVE  IInv'
<1> DEFINE d == a.context
<1>0. PICK k, i : k = Len(casts) + 1 /\ i = ActorAt(d, a.ref.offset).id
  OBVIOUS
<1> DEFINE ids == {i}
<1>0a. PICK m : m = [cast |-> k, to |-> d, refs |-> {a.ref}]
  OBVIOUS
<1>1. /\ casts' = Append(casts, ids) /\ rx' = [rx EXCEPT ![d] = Append(@, m)]
      /\ UNCHANGED <<tables, pc, objects, local, resource, local_queue, unsent_messages,
                     strays, handler, accessors>>
  BY <1>0, <1>0a DEF AccessorSend
<1>2. /\ casts \in Seq(SUBSET Ids) /\ rx \in [Threads -> Seq(Message)] /\ d \in Threads
      /\ RefOk(d, a.ref, Ids)
  BY DEF IInv, MailOk
<1>3. UNCHANGED <<config, process, tree>>
  BY <1>1 DEF tables
<1>4. ids \in SUBSET Ids /\ RefOk(d, a.ref, ids)
  <2>1. PICK e \in Own(d) : e.loc.offset = a.ref.offset /\ e.type = a.ref.meta /\ e.id \in Ids
    BY <1>2 DEF RefOk
  <2>2. ActorAt(d, a.ref.offset) = e
    BY <2>1, RunningIs, ActorAtIs DEF IInv
  <2> QED BY <1>0, <1>2, <2>1, <2>2 DEF RefOk
<1>5. /\ casts' \in Seq(SUBSET Ids) /\ Ids' = Ids /\ k \in Nat /\ k \in DOMAIN casts' /\ casts'[k] = ids
      /\ \A c, r, S : RefOk(c, r, S)' <=> RefOk(c, r, S)
      /\ \A x : MsgOk(x) => MsgOk(x)'
  BY <1>0, <1>1, <1>2, <1>3, <1>4, CastsGrow
<1>6. m \in Message /\ m.to = d /\ MsgOk(m)'
  <2>1. PICK x, refs, S : x = d /\ refs = {a.ref} /\ S = ids
    OBVIOUS
  <2>2. x \in Threads /\ \A r \in refs : RefOk(x, r, S)
    BY <1>2, <1>4, <2>1
  <2>3. m = [cast |-> k, to |-> x, refs |-> refs] /\ casts'[k] = S /\ k \in Nat /\ k \in DOMAIN casts'
    BY <1>0a, <1>5, <2>1
  <2>4. \A y, r, T : RefOk(y, r, T)' <=> RefOk(y, r, T)
    BY <1>5
  <2>5. m \in Message /\ m.to = x /\ MsgOk(m)'
    BY <2>2, <2>3, <2>4, NewMessage
  <2> QED BY <2>1, <2>5
<1>7. ThreadsOk'
  BY <1>1, <1>3, ThreadsStay DEF IInv, ThreadsOk
<1>8. HandlersOk'
  BY <1>1, <1>2, <1>3, <1>4, HandlersGrow DEF IInv
<1> HIDE DEF ids
<1>8a. PICK old, new : old = rx[d] /\ new = rx'[d]
  OBVIOUS
<1>8b. \A c, x : Comes(c, x) => Comes(c, x)'
  BY <1>1, StraysStay
<1>9. /\ new = Append(old, m) /\ new \in Seq(Message)
      /\ \A j \in DOMAIN new : Comes(d, new[j])' /\ MsgOk(new[j])'
  <2>1. new = Append(old, m)
    BY <1>1, <1>2, <1>8a
  <2>2. old \in Seq(Message) /\ \A j \in DOMAIN old : Comes(d, old[j]) /\ MsgOk(old[j])
    BY <1>2, <1>8a DEF IInv, MailOk
  <2> HIDE DEF d
  <2>3. Comes(d, m)'
    BY <1>6 DEF Comes
  <2> QED BY <1>5, <1>6, <1>8b, <2>1, <2>2, <2>3, ChannelGrows
<1>10. ASSUME NEW c \in Threads, NEW j \in DOMAIN rx'[c]
       PROVE  (Comes(c, rx[c][j]) /\ MsgOk(rx[c][j]))'
  <2>1. PICK x : x = rx'[c][j]
    OBVIOUS
  <2>2. Comes(c, x)' /\ MsgOk(x)'
    <3>1. CASE c = d
      BY <1>8a, <1>9, <1>10, <2>1, <3>1
    <3>2. CASE c # d
      <4>1. rx'[c] = rx[c]
        BY <1>1, <1>2, <3>2
      <4>2. Comes(c, x) /\ MsgOk(x)
        BY <1>10, <2>1, <4>1 DEF IInv, MailOk
      <4> QED BY <1>5, <1>8b, <4>2
    <3> QED BY <3>1, <3>2
  <2> QED BY <2>1, <2>2
<1>10a. rx' \in [Threads -> Seq(Message)]
  BY <1>1, <1>2, <1>8a, <1>9
<1>11. MailOk'
  <2>1. UNCHANGED <<local_queue, unsent_messages, strays, accessors>>
    BY <1>1
  <2>2. /\ \A c \in Threads : \A j \in DOMAIN local_queue'[c] : (local_queue[c][j].to = c /\ MsgOk(local_queue[c][j]))'
        /\ \A c \in Threads : \A x \in unsent_messages'[c] : MsgOk(x)'
        /\ \A x \in strays' : MsgOk(x)'
        /\ \A x \in accessors' : RefOk(x.context, x.ref, Ids)'
    BY <1>5, <2>1 DEF IInv, MailOk
  <2>3. /\ local_queue' \in [Threads -> Seq(Message)] /\ strays' \subseteq Message
        /\ unsent_messages' \in [Threads -> SUBSET Message]
        /\ accessors' \subseteq [context : Threads, ref : Reference]
    BY <2>1 DEF IInv, MailOk
  <2> QED BY <1>5, <1>10, <1>10a, <2>2, <2>3 DEF MailOk, Message, Reference
<1> QED BY <1>7, <1>8, <1>11 DEF IInv

\* An accessor is to an actor that was found.
LEMMA MakeAccessorKeeps ==
  ASSUME IInv, process = "running", NEW c \in Threads, NEW q \in Query, NEW e \in tree, MakeAccessor(c, e, q)
  PROVE  IInv'
<1> DEFINE a == [context |-> e.loc.context, ref |-> Ref(e, q)]
<1>1. /\ e \in LookupOf(tree, q) /\ accessors' = accessors \cup {a}
      /\ UNCHANGED <<tables, pc, objects, local, resource, queues, handler, casts>>
  BY DEF MakeAccessor
<1>2. UNCHANGED <<config, process, tree>>
  BY <1>1 DEF tables
<1>3. RefOk(e.loc.context, Ref(e, q), Ids) /\ e.loc.context \in Threads /\ Ref(e, q) \in Reference
  <2>1. e.id \in Ids
    BY <1>1, RefIs DEF IInv
  <2> QED BY <1>1, <2>1, RefIs DEF IInv
<1>4. ThreadsOk'
  BY <1>1, <1>2, ThreadsStay DEF IInv, ThreadsOk
<1>5. HandlersOk'
  BY <1>1, <1>2, HandlersStay DEF IInv, InHandler, queues
<1>6. MailOk'
  <2>1. \A d, r, S : RefOk(d, r, S)' <=> RefOk(d, r, S)
    BY <1>2 DEF RefOk, Own, Reference
  <2>2. \A m : MsgOk(m)' <=> MsgOk(m)
    BY <1>1, <2>1 DEF MsgOk
  <2>3. a \in [context : Threads, ref : Reference] /\ RefOk(a.context, a.ref, Ids)
    BY <1>3
  <2>4. Ids' = Ids /\ Reference' = Reference /\ UNCHANGED <<local_queue, unsent_messages, rx, strays, casts>>
    BY <1>1, <1>2 DEF Ids, Reference, queues
  <2>5. \A x, y : Comes(x, y) => Comes(x, y)'
    BY <2>4, StraysStay
  <2> HIDE DEF a
  <2> QED BY <1>1, <2>1, <2>2, <2>3, <2>4, <2>5 DEF IInv, MailOk, Message
<1> QED BY <1>4, <1>5, <1>6 DEF IInv

------------------------------------------------------------------------------
(***************************************************************************)
(* Local keys.                                                             *)
(***************************************************************************)
LEMMA LocalKeyKeeps ==
  ASSUME IInv, process = "running", NEW c \in Threads, NEW q \in Query, AcyclicLocalKey(c, q)
  PROVE  IInv'
<1>0. PICK h : h = Current(c)
  OBVIOUS
<1>1. PICK e \in LocalMatch(tree, q, h, c) :
        /\ relations' = [relations EXCEPT ![c] = @ \cup {<<h, e.id>>}]
        /\ keys' = [keys EXCEPT ![c] = @ \cup {[holder |-> h, ref |-> Ref(e, q)]}]
  BY <1>0 DEF AcyclicLocalKey
<1>2. /\ pc[c] = "init" /\ ~ AllDone(c)
      /\ UNCHANGED <<tables, pc, objects, resource, queues, handler, outside>>
  BY DEF AcyclicLocalKey, Constructing
<1>3. UNCHANGED <<config, process, tree, pc, at, built, drops, lazy, made, accessors, casts>>
  BY <1>2 DEF tables, objects, resource, outside
<1>4. /\ Placed /\ config \in Configs /\ Phase(c) /\ at[c] \in Nat
      /\ relations \in [Threads -> SUBSET (Ids \X Ids)]
      /\ keys \in [Threads -> SUBSET [holder : Ids, ref : Reference]]
  BY RunningIs DEF IInv, ThreadsOk
<1>5. h \in Ids
  <2>1. Cardinality(Own(c)) \in Nat
    BY <1>4, Offsets
  <2>2. at[c] <= Cardinality(Own(c))
    BY <1>4, <2>1 DEF Phase
  <2> QED BY <1>0, <1>2, <1>4, <2>2, CurrentIs, Offsets
<1>6. /\ e \in LookupOf(tree, q) /\ e.loc.context = c
  BY DEF LocalMatch
<1>7. e.id \in Ids /\ Ref(e, q) \in Reference /\ RefOk(c, Ref(e, q), {e.id})
  BY <1>6, RefIs DEF IInv
<1>8. \A d \in Threads : Phase(d)'
  <2>1. ASSUME NEW d \in Threads, d # c PROVE Phase(d)'
    <3>1. relations'[d] = relations[d] /\ Phase(d)
      BY <1>1, <1>4, <2>1, RunningIs DEF IInv
    <3> QED BY <1>3, <3>1, PhaseStays
  <2>2. Phase(c)'
    BY <1>2, <1>3, <1>4 DEF Phase, Early, Open, Dropping, Own
  <2> QED BY <2>1, <2>2
<1>9. ASSUME NEW d \in Threads, NEW k \in keys'[d] PROVE KeyOk(d, k)'
  <2>1. Own(d)' = Own(d) /\ relations[d] \subseteq relations'[d]
    BY <1>1, <1>3, <1>4 DEF Own
  <2>2. CASE k \in keys[d]
    <3>1. KeyOk(d, k)
      BY <2>2 DEF IInv, ThreadsOk
    <3> QED BY <2>1, <3>1 DEF KeyOk, Reference
  <2>3. CASE k \notin keys[d]
    <3>1. d = c /\ k = [holder |-> h, ref |-> Ref(e, q)]
      BY <1>1, <1>4, <1>9, <2>3
    <3>2. k.holder = h /\ k.ref = Ref(e, q) /\ <<h, e.id>> \in relations'[c]
      BY <1>1, <1>4, <3>1
    <3>3. PICK f \in Own(c) : f.loc.offset = k.ref.offset /\ f.type = k.ref.meta /\ f.id = e.id
      BY <1>7, <3>2 DEF RefOk
    <3> QED BY <1>7, <2>1, <3>1, <3>2, <3>3 DEF KeyOk, Reference
  <2> QED BY <2>2, <2>3
<1>10. /\ relations' \in [Threads -> SUBSET (Ids \X Ids)]
       /\ keys' \in [Threads -> SUBSET [holder : Ids, ref : Reference]]
  BY <1>1, <1>4, <1>5, <1>7
<1>11. Placed'
  BY <1>3, <1>4, PlacedStays
<1>12. ThreadsOk'
  <2>1. Ids' = Ids /\ Reference' = Reference
    BY <1>3 DEF Ids, Reference
  <2> QED BY <1>3, <1>8, <1>9, <1>10, <1>11, <2>1 DEF IInv, ThreadsOk
<1>13. MailOk' /\ HandlersOk'
  BY <1>2, <1>3, MailStays, HandlersStay DEF IInv, InHandler, queues
<1> QED BY <1>12, <1>13 DEF IInv

------------------------------------------------------------------------------
(***************************************************************************)
(* Handlers.                                                               *)
(***************************************************************************)

\* The thread of an open context goes on.
LEMMA OpenMoves ==
  ASSUME ThreadsOk, process = "running", NEW c \in Threads, Open(c),
         NEW l \in {"first", "first_run", "recv", "run", "drain"}, pc' = [pc EXCEPT ![c] = l],
         UNCHANGED <<tables, objects, local, resource>>
  PROVE  ThreadsOk'
<1>1. UNCHANGED <<config, process, tree, at, built, drops, relations, keys, lazy, made>>
  BY DEF tables, objects, local, resource
<1>2. Phase(c) /\ l \in Steps /\ pc \in [Threads -> Steps]
  BY DEF ThreadsOk, Steps
<1>3. Phase(c)'
  <2>1. Own(c)' = Own(c) /\ pc'[c] = l /\ (HasCycles(relations[c])' <=> HasCycles(relations[c]))
    BY <1>1, <1>2 DEF Own, HasCycles, Knot
  <2> QED BY <1>1, <1>2, <2>1 DEF Phase, Early, Open, Dropping
<1>4. /\ at' \in [Threads -> Nat] /\ built' \subseteq Ids /\ drops' \in [Ids -> Nat]
      /\ lazy' \in {"unmade", "making", "made"} /\ made' = (IF lazy' = "unmade" THEN 0 ELSE 1)
  BY <1>1 DEF ThreadsOk
<1> QED BY <1>1, <1>2, <1>3, <1>4, ThreadMoves

\* What a thread runs is from a message, for its context or astray.
LEMMA VisitKeeps ==
  ASSUME ThreadsOk, HandlersOk, process = "running", casts \in Seq(SUBSET Ids),
         NEW c \in Threads, NEW m, MsgOk(m), Comes(c, m), m.to \in Threads, m.refs \subseteq Reference,
         Visit(c, m, m.refs), UNCHANGED <<config, tree, casts, strays>>,
         \A d \in Threads \ {c} : pc'[d] = pc[d]
  PROVE  HandlersOk'
<1>1. PICK r \in m.refs :
        /\ doing' = [doing EXCEPT ![c] = [cast |-> m.cast, to |-> m.to, ref |-> r, refs |-> m.refs \ {r}]]
        /\ \/ m.to = c /\ reached' = reached \cup {<<m.cast, ActorAt(c, r.offset).id>>}
           \/ reached' = reached
  BY DEF Visit
<1>2. PICK n : n = [cast |-> m.cast, to |-> m.to, ref |-> r, refs |-> m.refs \ {r}]
  OBVIOUS
<1>3. /\ doing' = [doing EXCEPT ![c] = n]
      /\ n.cast = m.cast /\ n.to = m.to /\ n.ref = r /\ n.refs = m.refs \ {r}
  BY <1>1, <1>2
<1>4. /\ doing'[c] = n /\ doing' = [d \in Threads |-> doing'[d]]
      /\ \A d \in Threads \ {c} : doing'[d] = doing[d]
  BY <1>3 DEF HandlersOk
<1>5. m.cast \in DOMAIN casts /\ RefOk(m.to, r, casts[m.cast])
  BY <1>1 DEF MsgOk
<1>6. \A d, x, S : RefOk(d, x, S)' <=> RefOk(d, x, S)
  BY DEF RefOk, Own, Reference
<1>7. /\ \A x : MsgOk(x)' <=> MsgOk(x)
      /\ \A d, x : Comes(d, x) => Comes(d, x)'
  BY <1>6, StraysStay DEF MsgOk
<1>8. DoingOk(c)'
  <2>1. MsgOk(n) /\ Comes(c, n)
    BY <1>3 DEF MsgOk, Comes, Stray
  <2>2. RefOk(n.to, n.ref, casts[n.cast])'
    <3>1. PICK S : S = casts[n.cast] /\ S = casts'[n.cast]
      OBVIOUS
    <3>2. RefOk(n.to, n.ref, S)'
      BY <1>3, <1>5, <1>6, <3>1
    <3> QED BY <3>1, <3>2 DEF RefOk
  <2>3. n.refs \subseteq Reference' /\ n.to \in Threads
    BY <1>3 DEF Reference
  <2>4. MsgOk(n)' /\ Comes(c, n)'
    BY <1>7, <2>1
  <2> QED BY <1>3, <1>4, <2>2, <2>3, <2>4 DEF DoingOk
<1>9. ASSUME NEW d \in Threads, InHandler(d)' \/ doing'[d] # None PROVE DoingOk(d)'
  <2>1. CASE d = c
    BY <1>8, <2>1
  <2>2. CASE d # c
    <3>1. PICK x : x = doing[d] /\ doing'[d] = x
      BY <1>4, <2>2
    <3>2. DoingOk(d)
      BY <1>9, <2>2, <3>1 DEF HandlersOk, InHandler
    <3>3. RefOk(x.to, x.ref, casts[x.cast])'
      <4>1. PICK S : S = casts[x.cast] /\ S = casts'[x.cast]
        OBVIOUS
      <4>2. RefOk(x.to, x.ref, S)'
        BY <1>6, <3>1, <3>2, <4>1 DEF DoingOk
      <4> QED BY <4>1, <4>2 DEF RefOk
    <3>4. MsgOk(x)' /\ Comes(d, x)'
      BY <1>7, <3>1, <3>2 DEF DoingOk
    <3> QED BY <3>1, <3>2, <3>3, <3>4 DEF DoingOk, Reference
  <2> QED BY <2>1, <2>2
<1>10. reached' \subseteq (DOMAIN casts') \X Ids'
  <2>1. reached \subseteq (DOMAIN casts) \X Ids /\ Ids' = Ids /\ casts' = casts
    BY DEF HandlersOk, Ids
  <2>2. CASE m.to = c /\ reached' = reached \cup {<<m.cast, ActorAt(c, r.offset).id>>}
    <3>1. PICK e \in Own(c) : e.loc.offset = r.offset /\ e.id \in casts[m.cast]
      BY <1>5, <2>2 DEF RefOk
    <3>2. ActorAt(c, r.offset) = e
      BY <3>1, RunningIs, ActorAtIs
    <3>3. e.id \in Ids
      BY <3>1, RunningIs, Offsets
    <3> QED BY <1>5, <2>1, <2>2, <3>2, <3>3
  <2>3. CASE reached' = reached
    BY <2>1, <2>3
  <2> QED BY <1>1, <2>2, <2>3
<1> QED BY <1>4, <1>9, <1>10 DEF HandlersOk

\* What is taken from a queue leaves the rest as it was.
LEMMA MailShrinks ==
  ASSUME MailOk, UNCHANGED <<config, tree, unsent_messages, strays, accessors, casts>>,
         local_queue' \in [Threads -> Seq(Message)], rx' \in [Threads -> Seq(Message)],
         \A d \in Threads : \A j \in DOMAIN local_queue'[d] :
           \E i \in DOMAIN local_queue[d] : local_queue'[d][j] = local_queue[d][i],
         \A d \in Threads : \A j \in DOMAIN rx'[d] :
           \E i \in DOMAIN rx[d] : rx'[d][j] = rx[d][i]
  PROVE  MailOk'
<1>1. \A c, r, S : RefOk(c, r, S)' <=> RefOk(c, r, S)
  BY DEF RefOk, Own, Reference
<1>2. \A m : MsgOk(m)' <=> MsgOk(m)
  BY <1>1 DEF MsgOk
<1>3. Ids' = Ids /\ Reference' = Reference
  BY DEF Ids, Reference
<1>4. ASSUME NEW d \in Threads, NEW j \in DOMAIN local_queue'[d]
      PROVE  (local_queue[d][j].to = d /\ MsgOk(local_queue[d][j]))'
  <2>1. PICK m : local_queue'[d][j] = m /\ \E i \in DOMAIN local_queue[d] : m = local_queue[d][i]
    BY <1>4
  <2> QED BY <1>2, <2>1 DEF MailOk
<1>5. ASSUME NEW d \in Threads, NEW j \in DOMAIN rx'[d]
      PROVE  (Comes(d, rx[d][j]) /\ MsgOk(rx[d][j]))'
  <2>1. PICK m : rx'[d][j] = m /\ \E i \in DOMAIN rx[d] : m = rx[d][i]
    BY <1>5
  <2>2. Comes(d, m)'
    BY <2>1, StraysStay DEF MailOk
  <2> QED BY <1>2, <2>1, <2>2 DEF MailOk
<1>6. /\ \A d \in Threads : \A m \in unsent_messages'[d] : MsgOk(m)'
      /\ \A m \in strays' : m \in Message /\ MsgOk(m)'
  BY <1>2 DEF MailOk
<1>7. \A a \in accessors' : RefOk(a.context, a.ref, Ids)'
  BY <1>1, <1>3 DEF MailOk
<1> QED BY <1>3, <1>4, <1>5, <1>6, <1>7 DEF MailOk, Message

LEMMA RecvLocalKeeps ==
  ASSUME IInv, process = "running", NEW c \in Threads, RecvLocal(c)
  PROVE  IInv'
<1>1. PICK q : q = local_queue[c]
  OBVIOUS
<1>2. PICK m : m = q[Len(q)]
  OBVIOUS
<1>3. /\ q # <<>> /\ Visit(c, m, m.refs)
      /\ local_queue' = [local_queue EXCEPT ![c] = SubSeq(q, 1, Len(q) - 1)]
      /\ UNCHANGED <<tables, objects, local, resource, unsent_messages, rx, strays, outside>>
  BY <1>1, <1>2 DEF RecvLocal
<1>4. PICK l \in {"first_run", "run"} : pc' = [pc EXCEPT ![c] = l] /\ Open(c)
  BY DEF RecvLocal, Goto, Open
<1>5. UNCHANGED <<config, process, tree, unsent_messages, rx, strays, accessors, casts>>
  BY <1>3 DEF tables, outside
<1>6. /\ q \in Seq(Message) /\ Len(q) \in Nat /\ DOMAIN q = 1 .. Len(q) /\ Len(q) \in DOMAIN q
      /\ local_queue \in [Threads -> Seq(Message)] /\ casts \in Seq(SUBSET Ids)
  BY <1>1, <1>3, EmptySeq DEF IInv, MailOk
<1>7. m \in Message /\ m.to = c /\ MsgOk(m) /\ m.refs \subseteq Reference
  <2>1. m \in Message
    BY <1>2, <1>6
  <2>2. m.to = c /\ MsgOk(m)
    BY <1>1, <1>2, <1>6 DEF IInv, MailOk
  <2> QED BY <2>1, <2>2 DEF Message
<1>7a. Comes(c, m) /\ m.to \in Threads
  BY <1>7 DEF Comes
<1>8. ThreadsOk'
  BY <1>3, <1>4, OpenMoves DEF IInv
<1>9. HandlersOk'
  <2>1. \A d \in Threads \ {c} : pc'[d] = pc[d]
    BY <1>4 DEF IInv, ThreadsOk
  <2> QED BY <1>3, <1>5, <1>6, <1>7, <1>7a, <2>1, VisitKeeps DEF IInv
<1>10. MailOk'
  <2>1. PICK r : r = SubSeq(q, 1, Len(q) - 1)
    OBVIOUS
  <2>2. /\ r \in Seq(Message) /\ \A j \in DOMAIN r : j \in DOMAIN q /\ r[j] = q[j]
    <3>1. /\ r \in Seq(Message) /\ Len(r) = (IF 1 <= Len(q) - 1 THEN Len(q) - 1 ELSE 0)
          /\ \A j \in 1 .. Len(q) - 1 : r[j] = q[j]
      <4>1. PICK n : n = Len(q) - 1
        OBVIOUS
      <4>2. n \in Nat /\ 1 .. n \subseteq DOMAIN q
        BY <1>6, <4>1
      <4>3. \A j \in 1 .. n : q[j] \in Message
        BY <1>6, <4>2
      <4>4. n \in Int /\ 1 \in Int
        BY <4>2
      <4>5. /\ SubSeq(q, 1, n) \in Seq(Message) /\ Len(SubSeq(q, 1, n)) = (IF 1 <= n THEN n - 1 + 1 ELSE 0)
            /\ \A j \in 1 .. n - 1 + 1 : SubSeq(q, 1, n)[j] = q[1 + j - 1]
        BY <4>3, <4>4, SubSeqProperties
      <4>6. n - 1 + 1 = n /\ \A j \in 1 .. n : 1 + j - 1 = j
        BY <4>2
      <4> QED BY <2>1, <4>1, <4>5, <4>6
    <3>2. DOMAIN r = 1 .. Len(r)
      BY <3>1
    <3>3. PICK n : n = Len(q)
      OBVIOUS
    <3>4. n \in Nat /\ DOMAIN q = 1 .. n
      BY <1>6, <3>3
    <3>5. DOMAIN r \subseteq 1 .. n - 1 /\ \A j \in 1 .. n - 1 : r[j] = q[j]
      <4>1. DOMAIN r = 1 .. (IF 1 <= n - 1 THEN n - 1 ELSE 0)
        BY <3>1, <3>2, <3>3
      <4> QED BY <3>1, <3>3, <3>4, <4>1
    <3>6. 1 .. n - 1 \subseteq 1 .. n
      BY <3>4
    <3> QED BY <3>1, <3>4, <3>5, <3>6
  <2>3. \A d \in Threads : local_queue'[d] = IF d = c THEN r ELSE local_queue[d]
    BY <1>3, <1>6, <2>1
  <2>4. local_queue' \in [Threads -> Seq(Message)]
    BY <1>3, <1>6, <2>1, <2>2
  <2>5. ASSUME NEW d \in Threads, NEW j \in DOMAIN local_queue'[d]
        PROVE  \E i \in DOMAIN local_queue[d] : local_queue'[d][j] = local_queue[d][i]
    <3>1. CASE d = c
      BY <1>1, <2>2, <2>3, <2>5, <3>1
    <3>2. CASE d # c
      BY <2>3, <2>5, <3>2
    <3> QED BY <3>1, <3>2
  <2>6. MailOk
    BY DEF IInv
  <2>7. /\ rx' \in [Threads -> Seq(Message)]
        /\ \A d \in Threads : \A j \in DOMAIN rx'[d] : \E i \in DOMAIN rx[d] : rx'[d][j] = rx[d][i]
    BY <1>5, <2>6 DEF MailOk
  <2> QED BY <1>5, <2>4, <2>5, <2>6, <2>7, MailShrinks
<1> QED BY <1>8, <1>9, <1>10 DEF IInv

LEMMA RecvMsgKeeps ==
  ASSUME IInv, process = "running", NEW c \in Threads, RecvMsg(c)
  PROVE  IInv'
<1>1. PICK q, m : q = rx[c] /\ m = Head(q)
  OBVIOUS
<1>2. /\ q # <<>> /\ Visit(c, m, m.refs) /\ rx' = [rx EXCEPT ![c] = Tail(q)]
      /\ UNCHANGED <<tables, objects, local, resource, local_queue, unsent_messages, strays, outside>>
      /\ pc' = [pc EXCEPT ![c] = "run"] /\ Open(c)
  BY <1>1 DEF RecvMsg, Receiving, Goto, Open
<1>3. UNCHANGED <<config, process, tree, unsent_messages, local_queue, strays, accessors, casts>>
  BY <1>2 DEF tables, outside
<1>4. /\ q \in Seq(Message) /\ Len(q) \in Nat /\ DOMAIN q = 1 .. Len(q) /\ 1 \in DOMAIN q /\ m = q[1]
      /\ rx \in [Threads -> Seq(Message)] /\ casts \in Seq(SUBSET Ids)
  BY <1>1, <1>2, EmptySeq DEF IInv, MailOk
<1>5. m \in Message /\ Comes(c, m) /\ MsgOk(m) /\ m.to \in Threads /\ m.refs \subseteq Reference
  <2>1. m \in Message
    BY <1>4
  <2>2. Comes(c, m) /\ MsgOk(m)
    BY <1>1, <1>4 DEF IInv, MailOk
  <2> QED BY <2>1, <2>2 DEF Message
<1>6. ThreadsOk'
  BY <1>2, OpenMoves DEF IInv
<1>7. HandlersOk'
  <2>1. \A d \in Threads \ {c} : pc'[d] = pc[d]
    BY <1>2 DEF IInv, ThreadsOk
  <2> QED BY <1>2, <1>3, <1>4, <1>5, <2>1, VisitKeeps DEF IInv
<1>8. MailOk'
  <2>1. PICK r : r = Tail(q)
    OBVIOUS
  <2>2. /\ r \in Seq(Message) /\ \A j \in DOMAIN r : j + 1 \in DOMAIN q /\ r[j] = q[j + 1]
    <3>1. /\ r \in Seq(Message) /\ Len(r) = Len(q) - 1 /\ \A j \in 1 .. Len(r) : r[j] = q[j + 1]
      BY <1>2, <1>4, <2>1, HeadTailProperties
    <3>2. DOMAIN r = 1 .. Len(r)
      BY <3>1
    <3> QED BY <1>4, <3>1, <3>2
  <2>3. \A d \in Threads : rx'[d] = IF d = c THEN r ELSE rx[d]
    BY <1>2, <1>4, <2>1
  <2>4. rx' \in [Threads -> Seq(Message)]
    BY <1>2, <1>4, <2>1, <2>2
  <2>5. ASSUME NEW d \in Threads, NEW j \in DOMAIN rx'[d]
        PROVE  \E i \in DOMAIN rx[d] : rx'[d][j] = rx[d][i]
    <3>1. CASE d = c
      BY <1>1, <2>2, <2>3, <2>5, <3>1
    <3>2. CASE d # c
      BY <2>3, <2>5, <3>2
    <3> QED BY <3>1, <3>2
  <2>6. MailOk
    BY DEF IInv
  <2>7. /\ local_queue' \in [Threads -> Seq(Message)]
        /\ \A d \in Threads : \A j \in DOMAIN local_queue'[d] :
              \E i \in DOMAIN local_queue[d] : local_queue'[d][j] = local_queue[d][i]
    BY <1>3, <2>6 DEF MailOk
  <2> QED BY <1>3, <2>4, <2>5, <2>6, <2>7, MailShrinks
<1> QED BY <1>6, <1>7, <1>8 DEF IInv

\* From one actor of a group to the next, and the end of a message.
LEMMA GroupKeeps ==
  ASSUME IInv, process = "running", NEW c \in Threads, NextOfGroup(c) \/ Return(c)
  PROVE  IInv'
<1>1. /\ InHandler(c) /\ Open(c)
      /\ UNCHANGED <<tables, objects, local, resource, queues, outside>>
  BY DEF NextOfGroup, Return, InHandler, Open
<1>2. UNCHANGED <<config, process, tree, strays, accessors, casts>>
  BY <1>1 DEF tables, queues, outside
<1>3. pc \in [Threads -> Steps] /\ casts \in Seq(SUBSET Ids) /\ DoingOk(c)
  BY <1>1 DEF IInv, ThreadsOk, MailOk, HandlersOk
<1>4. PICK l \in {"first", "first_run", "run", "drain"} : pc' = [pc EXCEPT ![c] = l]
  BY <1>1, <1>3 DEF NextOfGroup, Return, Goto, InHandler
<1>5. ThreadsOk'
  BY <1>1, <1>4, OpenMoves DEF IInv
<1>6. MailOk'
  BY <1>1, <1>2, MailStays DEF IInv
<1>7. HandlersOk'
  <2>1. CASE NextOfGroup(c)
    <3>1. PICK m : m = doing[c]
      OBVIOUS
    <3>2. Visit(c, m, m.refs) /\ MsgOk(m) /\ Comes(c, m) /\ m.to \in Threads /\ m.refs \subseteq Reference
      BY <1>3, <2>1, <3>1 DEF NextOfGroup, DoingOk
    <3>3. \A d \in Threads \ {c} : pc'[d] = pc[d]
      BY <2>1 DEF NextOfGroup
    <3> QED BY <1>2, <1>3, <3>2, <3>3, VisitKeeps DEF IInv
  <2>2. CASE Return(c)
    <3>1. /\ doing' = [doing EXCEPT ![c] = None] /\ reached' = reached
          /\ pc' = [pc EXCEPT ![c] = IF pc[c] = "first_run" THEN "first" ELSE "drain"]
      BY <2>2 DEF Return, Goto
    <3>2. /\ doing'[c] = None /\ doing' = [d \in Threads |-> doing'[d]]
          /\ \A d \in Threads \ {c} : doing'[d] = doing[d] /\ pc'[d] = pc[d]
          /\ ~ InHandler(c)'
      BY <1>3, <3>1 DEF IInv, HandlersOk, InHandler
    <3>3. \A d, r, S : RefOk(d, r, S)' <=> RefOk(d, r, S)
      BY <1>2 DEF RefOk, Own, Reference
    <3>4. \A m : MsgOk(m)' <=> MsgOk(m)
      BY <1>2, <3>3 DEF MsgOk
    <3>5. ASSUME NEW d \in Threads, InHandler(d)' \/ doing'[d] # None PROVE DoingOk(d)'
      <4>1. d # c
        BY <3>2, <3>5
      <4>2. PICK x : x = doing[d] /\ doing'[d] = x
        BY <3>2, <4>1
      <4>3. DoingOk(d)
        BY <3>2, <3>5, <4>1 DEF IInv, HandlersOk, InHandler
      <4>4. PICK S : S = casts[x.cast] /\ S = casts'[x.cast]
        BY <1>2
      <4>5. RefOk(x.to, x.ref, S)'
        BY <3>3, <4>2, <4>3, <4>4 DEF DoingOk
      <4>6. RefOk(x.to, x.ref, casts[x.cast])'
        BY <4>4, <4>5 DEF RefOk
      <4>7. Comes(d, x)' /\ MsgOk(x)'
        BY <1>2, <3>4, <4>2, <4>3, StraysStay DEF DoingOk
      <4> QED BY <4>2, <4>3, <4>6, <4>7 DEF DoingOk, Reference
    <3>6. reached' \subseteq (DOMAIN casts') \X Ids'
      BY <1>2, <3>1 DEF IInv, HandlersOk, Ids
    <3> QED BY <3>2, <3>5, <3>6 DEF HandlersOk
  <2> QED BY <2>1, <2>2
<1> QED BY <1>5, <1>6, <1>7 DEF IInv

\* A link leads to another context of the process.
LEMMA LinksLead ==
  ASSUME config \in Configs, NEW c \in Threads, NEW k \in DOMAIN Links(c)
  PROVE  Links(c)[k] \in Threads /\ Links(c)[k] # c
<1>1. Len(config.contexts) \in 0 .. N /\ N \in Nat
  BY ConfigsAssumption, NAssumption
<1>2. PICK n : n = Len(config.contexts)
  OBVIOUS
<1>3. k \in 1 .. n - 1 /\ Links(c)[k] = IF k < c THEN k ELSE k + 1
  BY <1>2 DEF Links
<1> QED BY <1>1, <1>2, <1>3 DEF Threads

\* What is sent on a link, and to whom.
LEMMA FlushIs ==
  ASSUME IInv, NEW c \in Threads, Flush(c)
  PROVE  \E m \in unsent_messages[c], d \in Threads :
           /\ rx' = [rx EXCEPT ![d] = Append(@, m)]
           /\ strays' = IF d = m.to THEN strays ELSE strays \cup {m}
           /\ unsent_messages' = [unsent_messages EXCEPT ![c] = @ \ {m}]
           /\ pc' = IF unsent_messages[c] = {m} THEN [pc EXCEPT ![c] = "recv"] ELSE pc
<1>1. PICK m \in unsent_messages[c] :
        /\ LinkWorks(c, m.to)
        /\ rx' = [rx EXCEPT ![Links(c)[LinkSlot(c, m.to)]] = Append(@, m)]
        /\ strays' = IF Links(c)[LinkSlot(c, m.to)] = m.to THEN strays ELSE strays \cup {m}
        /\ unsent_messages' = [unsent_messages EXCEPT ![c] = @ \ {m}]
        /\ pc' = IF unsent_messages[c] = {m} THEN [pc EXCEPT ![c] = "recv"] ELSE pc
  BY DEF Flush, Foremost
<1>2. PICK d : d = Links(c)[LinkSlot(c, m.to)]
  OBVIOUS
<1>3. d \in Threads
  BY <1>1, <1>2, LinksLead DEF IInv, ThreadsOk, LinkWorks
<1> QED BY <1>1, <1>2, <1>3

\* A message is sent on a link.
LEMMA FlushKeeps ==
  ASSUME IInv, process = "running", NEW c \in Threads, Flush(c)
  PROVE  IInv'
<1>1. PICK m \in unsent_messages[c], d \in Threads :
        /\ rx' = [rx EXCEPT ![d] = Append(@, m)]
        /\ strays' = IF d = m.to THEN strays ELSE strays \cup {m}
        /\ unsent_messages' = [unsent_messages EXCEPT ![c] = @ \ {m}]
        /\ pc' = IF unsent_messages[c] = {m} THEN [pc EXCEPT ![c] = "recv"] ELSE pc
  BY FlushIs
<1>2. /\ pc[c] = "drain" /\ Open(c)
      /\ UNCHANGED <<tables, objects, local, resource, local_queue, handler, outside>>
  BY DEF Flush, Settled, Open
<1>3. UNCHANGED <<config, process, tree, local_queue, accessors, casts>>
  BY <1>2 DEF tables, outside
<1>4. MailOk /\ pc \in [Threads -> Steps]
  BY DEF IInv, ThreadsOk
<1>5. ThreadsOk' /\ \A x \in Threads : InHandler(x)' => InHandler(x)
  <2>1. PICK l \in {"recv", "drain"} : pc' = [pc EXCEPT ![c] = l]
    BY <1>1, <1>2, <1>4
  <2>2. ThreadsOk'
    BY <1>2, <2>1, OpenMoves DEF IInv
  <2> QED BY <1>4, <2>1, <2>2 DEF InHandler
<1>6. HandlersOk'
  BY <1>1, <1>2, <1>3, <1>5, HandlersStay DEF IInv
<1>8. m \in Message /\ MsgOk(m)
  BY <1>1, <1>4 DEF MailOk
<1>9. /\ \A x : MsgOk(x) => MsgOk(x)'
      /\ \A x, y : Comes(x, y) => Comes(x, y)'
      /\ \A x, y, S : RefOk(x, y, S)' <=> RefOk(x, y, S)
      /\ Ids' = Ids /\ Reference' = Reference
  <2>1. \A x, y, S : RefOk(x, y, S)' <=> RefOk(x, y, S)
    BY <1>3 DEF RefOk, Own, Reference
  <2>2. \A x : MsgOk(x) => MsgOk(x)'
    BY <1>3, <2>1 DEF MsgOk
  <2> QED BY <1>1, <1>3, <2>1, <2>2, StraysStay DEF Ids, Reference
<1>10. Comes(d, m)'
  BY <1>1 DEF Comes, Stray
<1>11. PICK old, new : old = rx[d] /\ new = rx'[d]
  OBVIOUS
<1>12. /\ new = Append(old, m) /\ old \in Seq(Message) /\ rx \in [Threads -> Seq(Message)]
       /\ \A j \in DOMAIN old : Comes(d, old[j]) /\ MsgOk(old[j])
  BY <1>1, <1>4, <1>11 DEF MailOk
<1>13. new \in Seq(Message) /\ \A j \in DOMAIN new : Comes(d, new[j])' /\ MsgOk(new[j])'
  BY <1>8, <1>9, <1>10, <1>12, ChannelGrows
<1>14. /\ rx' \in [Threads -> Seq(Message)]
       /\ \A x \in Threads : \A j \in DOMAIN rx'[x] : (Comes(x, rx[x][j]) /\ MsgOk(rx[x][j]))'
  <2>1. ASSUME NEW x \in Threads, NEW j \in DOMAIN rx'[x]
        PROVE  (Comes(x, rx[x][j]) /\ MsgOk(rx[x][j]))'
    <3>1. PICK y : y = rx'[x][j]
      OBVIOUS
    <3>2. Comes(x, y)' /\ MsgOk(y)'
      <4>1. CASE x = d
        BY <1>11, <1>13, <2>1, <3>1, <4>1
      <4>2. CASE x # d
        <5>1. rx'[x] = rx[x]
          BY <1>1, <1>12, <4>2
        <5>2. Comes(x, y) /\ MsgOk(y)
          BY <1>4, <2>1, <3>1, <5>1 DEF MailOk
        <5> QED BY <1>9, <5>2
      <4> QED BY <4>1, <4>2
    <3> QED BY <3>1, <3>2
  <2>2. rx' \in [Threads -> Seq(Message)]
    BY <1>1, <1>11, <1>12, <1>13
  <2> QED BY <2>1, <2>2
<1>15. /\ \A x \in Threads : \A j \in DOMAIN local_queue'[x] :
             (local_queue[x][j].to = x /\ MsgOk(local_queue[x][j]))'
       /\ local_queue' \in [Threads -> Seq(Message)]
  BY <1>3, <1>4, <1>9 DEF MailOk
<1>16. /\ unsent_messages' \in [Threads -> SUBSET Message]
       /\ \A x \in Threads : \A y \in unsent_messages'[x] : MsgOk(y)'
       /\ strays' \subseteq Message /\ \A y \in strays' : MsgOk(y)'
  BY <1>1, <1>4, <1>8, <1>9 DEF MailOk
<1>17. /\ casts' \in Seq(SUBSET Ids') /\ accessors' \subseteq [context : Threads, ref : Reference']
       /\ \A x \in accessors' : RefOk(x.context, x.ref, Ids)'
  BY <1>3, <1>4, <1>9 DEF MailOk
<1>18. MailOk'
  BY <1>9, <1>14, <1>15, <1>16, <1>17 DEF MailOk, Message
<1> QED BY <1>5, <1>6, <1>18 DEF IInv

------------------------------------------------------------------------------
(***************************************************************************)
(* The invariant.                                                          *)
(***************************************************************************)

\* The process ends, or goes on as it was.
LEMMA EndKeeps ==
  ASSUME IInv, process' = process \/ process' \in {"panicked", "aborted", "undefined"},
         UNCHANGED <<config, tree, pc, objects, local, resource, queues, handler, outside>>
  PROVE  IInv'
<1>1. ThreadsOk'
  BY ThreadsStay DEF IInv
<1>2. MailOk' /\ HandlersOk'
  BY MailStays, HandlersStay DEF IInv, outside, InHandler, queues
<1> QED BY <1>1, <1>2 DEF IInv

LEMMA IInvInit == Init => IInv
<1> SUFFICES ASSUME Init PROVE IInv
  OBVIOUS
<1>1. \A c : Own(c) = {}
  BY DEF Init, Own
<1>2. Blank
  BY DEF Init, Blank
<1>3. \A c \in Threads : Phase(c) /\ pc[c] = "unborn"
  BY <1>1 DEF Init, Phase, Early, Open, Dropping
<1>4. ThreadsOk
  BY <1>2, <1>3 DEF Init, ThreadsOk, Steps
<1>5. MailOk
  BY DEF Init, MailOk
<1>6. HandlersOk
  BY <1>3 DEF Init, HandlersOk, InHandler
<1> QED BY <1>4, <1>5, <1>6 DEF IInv

\* Before there is a tree no reference leads to an actor, and nothing has one.
LEMMA StartKeeps ==
  ASSUME IInv, Start
  PROVE  IInv'
<1>1. /\ process = "config" /\ WellFormed /\ Resolved /\ process' = "running"
      /\ tree' = {Entry(i) : i \in Ids}
      /\ pc' = [c \in Threads |-> IF c <= Len(config.contexts) THEN "init" ELSE "unborn"]
      /\ UNCHANGED <<config, at, built, drops, relations, keys, lazy, made, local_queue,
                     unsent_messages, rx, strays, doing, reached, accessors, casts>>
  BY DEF Start, objects, local, resource, queues, handler, outside
<1>2. Blank /\ config \in Configs
  BY <1>1 DEF IInv, ThreadsOk
<1>3. Placed'
  BY <1>1 DEF Placed, WellFormed, Resolved, Ids, Entry
<1>4. \A c : Own(c) = {}
  BY <1>2 DEF Blank, Own
<1>5. \A c, r, S : ~ RefOk(c, r, S)
  BY <1>4 DEF RefOk
<1>6. \A m : MsgOk(m) => m.refs = {}
  BY <1>5 DEF MsgOk
<1>7. \A m : MsgOk(m) => MsgOk(m)'
  BY <1>1, <1>6 DEF MsgOk
<1>8. Ids' = Ids /\ Reference' = Reference
  BY <1>1 DEF Ids, Reference
<1>9. \A c \in Threads : pc'[c] \in {"init", "unborn"} /\ ~ InHandler(c)'
  BY <1>1 DEF InHandler
<1>10. \A c \in Threads : keys'[c] = {} /\ doing'[c] = None
  BY <1>1, <1>4, <1>5 DEF IInv, ThreadsOk, HandlersOk, KeyOk, DoingOk
<1>11. ASSUME NEW c \in Threads PROVE Phase(c)'
  <2>1. at[c] = 0
    BY <1>2 DEF IInv, ThreadsOk, Phase, Blank
  <2>2. ASSUME NEW e \in Own(c)' PROVE e.id \in Ids /\ e.loc.offset \in Nat
    <3>1. PICK i \in Ids : e = Entry(i)
      BY <1>1, <2>2 DEF Own
    <3> QED BY <1>2, <3>1, EntryIs, BeforeGrows
  <2>3. \A e \in Own(c)' : e.id \notin built' /\ drops'[e.id] = 0 /\ ~ (e.loc.offset < at'[c])
    BY <1>1, <1>2, <2>1, <2>2 DEF Blank
  <2> QED BY <1>1, <1>9, <2>1, <2>3 DEF Phase, Early, Open, Dropping
<1>12. ThreadsOk'
  <2>1. /\ pc' \in [Threads -> Steps] /\ process' = "running"
        /\ \A c \in Threads : pc'[c] # "making"
    BY <1>1, <1>9 DEF Steps
  <2>2. /\ config' \in Configs /\ at' \in [Threads -> Nat] /\ built' \subseteq Ids' /\ drops' \in [Ids' -> Nat]
        /\ relations' \in [Threads -> SUBSET (Ids' \X Ids')]
        /\ keys' \in [Threads -> SUBSET [holder : Ids', ref : Reference']]
        /\ lazy' \in {"unmade", "making", "made"} /\ made' = (IF lazy' = "unmade" THEN 0 ELSE 1)
    BY <1>1, <1>8 DEF IInv, ThreadsOk
  <2> QED BY <1>3, <1>10, <1>11, <2>1, <2>2 DEF ThreadsOk
<1>13. MailOk'
  <2>1. /\ \A c \in Threads :
             /\ \A j \in DOMAIN local_queue'[c] : (local_queue[c][j].to = c /\ MsgOk(local_queue[c][j]))'
             /\ \A j \in DOMAIN rx'[c] : (Comes(c, rx[c][j]) /\ MsgOk(rx[c][j]))'
             /\ \A m \in unsent_messages'[c] : MsgOk(m)'
        /\ \A m \in strays' : MsgOk(m)'
    BY <1>1, <1>7, StraysStay DEF IInv, MailOk
  <2>2. accessors' = {}
    BY <1>1, <1>5 DEF IInv, MailOk
  <2>3. /\ casts' \in Seq(SUBSET Ids') /\ strays' \subseteq Message'
        /\ local_queue' \in [Threads -> Seq(Message')] /\ rx' \in [Threads -> Seq(Message')]
        /\ unsent_messages' \in [Threads -> SUBSET Message']
    BY <1>1, <1>8 DEF IInv, MailOk, Message
  <2> QED BY <2>1, <2>2, <2>3 DEF MailOk
<1>14. HandlersOk'
  BY <1>1, <1>8, <1>9, <1>10 DEF IInv, HandlersOk
<1> QED BY <1>12, <1>13, <1>14 DEF IInv

LEMMA IInvStep == IInv /\ [Next]_vars => IInv'
<1> SUFFICES ASSUME IInv, [Next]_vars PROVE IInv'
  OBVIOUS
<1>1. CASE UNCHANGED vars
  BY <1>1, EndKeeps DEF vars, tables
<1>2. CASE Main
  <2>1. CASE Reject
    BY <2>1, EndKeeps DEF Reject, End
  <2>2. CASE RejectType
    BY <2>2, EndKeeps DEF RejectType, End
  <2>3. CASE Start
    BY <2>3, StartKeeps
  <2> QED BY <1>2, <2>1, <2>2, <2>3 DEF Main
<1>3. CASE Running
  <2>1. process = "running"
    BY <1>3 DEF Running
  <2>2. ASSUME NEW a \in accessors, AccessorSend(a) PROVE IInv'
    BY <2>1, <2>2, AccessorSendKeeps
  <2>3. ASSUME NEW c \in Threads, SetUp(c) PROVE IInv'
    <3>1. CASE Construct(c)
      BY <2>1, <3>1, ConstructKeeps
    <3>2. CASE MakeResource(c) \/ ResourceReady(c)
      BY <2>1, <3>2, ResourceKeeps
    <3>3. CASE FinishInit(c)
      BY <2>1, <3>3, OpenKeeps
    <3>4. CASE CycleDetected(c)
      BY <3>4, EndKeeps DEF CycleDetected, End
    <3> QED BY <2>3, <3>1, <3>2, <3>3, <3>4 DEF SetUp
  <2>4. ASSUME NEW c \in Threads, Constructor(c) PROVE IInv'
    <3>1. CASE ConstructFails(c)
      BY <3>1, EndKeeps DEF ConstructFails, End
    <3>2. CASE GetResource(c)
      BY <2>1, <3>2, ResourceKeeps
    <3>3. ASSUME NEW q \in Query, AcyclicLocalKey(c, q) PROVE IInv'
      BY <2>1, <3>3, LocalKeyKeeps
    <3>4. ASSUME NEW q \in Query, NEW e \in tree, MakeAccessor(c, e, q) PROVE IInv'
      BY <2>1, <3>4, MakeAccessorKeeps
    <3> QED BY <2>4, <3>1, <3>2, <3>3, <3>4 DEF Constructor
  <2>5. ASSUME NEW c \in Threads, Handling(c) PROVE IInv'
    <3>1. ASSUME NEW q \in Query, Broadcast(c, q) PROVE IInv'
      BY <2>1, <3>1, BroadcastKeeps
    <3>2. ASSUME NEW q \in Query, NEW e \in tree, SendMsg(c, e, q) PROVE IInv'
      BY <2>1, <3>2, SendKeeps
    <3>3. CASE RecvLocal(c)
      BY <2>1, <3>3, RecvLocalKeeps
    <3>4. CASE Serve(c) \/ Wait(c)
      BY <2>1, <3>4, OpenKeeps
    <3>5. CASE RecvMsg(c)
      BY <2>1, <3>5, RecvMsgKeeps
    <3>6. CASE NextOfGroup(c) \/ Return(c)
      BY <2>1, <3>6, GroupKeeps
    <3>7. CASE FirstHandlerPanics(c) \/ Astray(c)
      BY <3>7, EndKeeps DEF FirstHandlerPanics, Astray, End
    <3>8. CASE HandlerPanics(c) \/ FlushPanics(c) \/ Leave(c)
      BY <2>1, <3>8, LeaveKeeps
    <3>9. CASE Flush(c)
      BY <2>1, <3>9, FlushKeeps
    <3> QED BY <2>5, <3>1, <3>2, <3>3, <3>4, <3>5, <3>6, <3>7, <3>8, <3>9 DEF Handling
  <2>6. ASSUME NEW c \in Threads, Leaving(c) PROVE IInv'
    <3>1. CASE DropActor(c) \/ DropPanics(c)
      BY <2>1, <3>1, DropKeeps
    <3>2. CASE DropPanicsTwice(c)
      BY <3>2, EndKeeps DEF DropPanicsTwice, End
    <3>3. CASE FreeArena(c)
      BY <2>1, <3>3, FreeKeeps
    <3> QED BY <2>6, <3>1, <3>2, <3>3 DEF Leaving
  <2> QED BY <1>3, <2>2, <2>3, <2>4, <2>5, <2>6 DEF Running
<1> QED BY <1>1, <1>2, <1>3 DEF Next

LEMMA IInvHolds == Spec => []IInv
BY IInvInit, IInvStep, PTL DEF Spec

------------------------------------------------------------------------------
(***************************************************************************)
(* What follows.                                                           *)
(***************************************************************************)

\* What is in a queue, or runs, is as TypeOK says.
LEMMA MailTyped ==
  ASSUME MailOk, HandlersOk
  PROVE  /\ \A c \in Threads :
              /\ \A j \in DOMAIN local_queue[c] : Typed(local_queue[c][j])
              /\ \A j \in DOMAIN rx[c] : Typed(rx[c][j])
              /\ \A m \in unsent_messages[c] : Typed(m)
              /\ doing[c] # None => Typed(doing[c]) /\ doing[c].ref \in Reference
         /\ \A m \in strays : Typed(m)
<1>1. \A m \in Message : MsgOk(m) => Typed(m)
  BY DEF Message, MsgOk, Typed
<1>2. ASSUME NEW c \in Threads, NEW j \in DOMAIN local_queue[c] PROVE Typed(local_queue[c][j])
  <2>1. local_queue[c] \in Seq(Message) /\ MsgOk(local_queue[c][j])
    BY <1>2 DEF MailOk
  <2>2. local_queue[c][j] \in Message
    BY <1>2, <2>1
  <2> QED BY <1>1, <2>1, <2>2
<1>3. ASSUME NEW c \in Threads, NEW j \in DOMAIN rx[c] PROVE Typed(rx[c][j])
  <2>1. rx[c] \in Seq(Message) /\ MsgOk(rx[c][j])
    BY <1>3 DEF MailOk
  <2>2. rx[c][j] \in Message
    BY <1>3, <2>1
  <2> QED BY <1>1, <2>1, <2>2
<1>4. ASSUME NEW c \in Threads, NEW m \in unsent_messages[c] PROVE Typed(m)
  BY <1>1, <1>4 DEF MailOk
<1>5. ASSUME NEW c \in Threads, doing[c] # None PROVE Typed(doing[c]) /\ doing[c].ref \in Reference
  BY <1>5 DEF HandlersOk, DoingOk, MsgOk, RefOk, Typed
<1>6. ASSUME NEW m \in strays PROVE Typed(m)
  BY <1>1 DEF MailOk
<1> QED BY <1>2, <1>3, <1>4, <1>5, <1>6

\* Every variable keeps its type, and the resource is made once at most
\* (runtime/mod.rs:58-71), whatever configuration, and however constructors and
\* handlers interleave.
THEOREM TypeCorrect == Spec => []TypeOK
<1>1. IInv => TypeOK
  <2> SUFFICES ASSUME IInv PROVE TypeOK
    OBVIOUS
  <2>1. tree \in SUBSET {Entry(i) : i \in Ids}
    BY DEF IInv, ThreadsOk, Blank, Placed
  <2>2. at \in [Threads -> 0 .. Len(config.actors)]
    <3>1. Len(config.actors) \in Nat
      BY IdsAre DEF IInv, ThreadsOk
    <3>2. ASSUME NEW c \in Threads PROVE at[c] <= Len(config.actors)
      <4>1. CASE Blank
        BY <3>1, <4>1 DEF IInv, ThreadsOk, Blank, Phase
      <4>2. CASE Placed
        <5>1. Cardinality(Own(c)) \in 0 .. Len(config.actors)
          BY <4>2, Offsets DEF IInv, ThreadsOk
        <5> QED BY <3>1, <5>1 DEF IInv, ThreadsOk, Phase
      <4> QED BY <4>1, <4>2 DEF IInv, ThreadsOk
    <3> QED BY <3>1, <3>2 DEF IInv, ThreadsOk
  <2>3. /\ \A c \in Threads :
              /\ \A j \in DOMAIN local_queue[c] : Typed(local_queue[c][j])
              /\ \A j \in DOMAIN rx[c] : Typed(rx[c][j])
              /\ \A m \in unsent_messages[c] : Typed(m)
              /\ doing[c] # None => Typed(doing[c]) /\ doing[c].ref \in Reference
        /\ \A m \in strays : Typed(m)
    BY MailTyped DEF IInv
  <2>4. made \in 0 .. 1 /\ lazy \in {"unmade", "making", "made"}
    BY DEF IInv, ThreadsOk
  <2>5. reached \subseteq (DOMAIN casts) \X Ids /\ casts \in Seq(SUBSET Ids)
        /\ accessors \subseteq [context : Threads, ref : Reference]
    BY DEF IInv, MailOk, HandlersOk
  <2> QED BY <2>1, <2>2, <2>3, <2>4, <2>5 DEF IInv, ThreadsOk, TypeOK, Steps
<1> QED BY <1>1, IInvHolds, PTL

\* Whatever was sent, before or after the actor it is for was constructed, a
\* handler runs on that actor, in its arena and alive, unless a link took the
\* message to another context (context.rs:150-158, 275-283, 319-323, 424-432).
THEOREM HandlersAreSafe == Spec => []HandlersMeetTheirActor
<1>1. IInv => HandlersMeetTheirActor
  <2> SUFFICES ASSUME IInv, NEW c \in Threads, InHandler(c), ~ (doing[c].to # c /\ Stray(doing[c]))
               PROVE  \E e \in Own(c) :
                        /\ e.loc.offset = doing[c].ref.offset /\ e.type = doing[c].ref.meta
                        /\ Alive(e.id)
                        /\ e.id \in casts[doing[c].cast]
    BY DEF HandlersMeetTheirActor
  <2>1. RefOk(c, doing[c].ref, casts[doing[c].cast])
    BY DEF IInv, HandlersOk, DoingOk, Comes
  <2>2. \A e \in Own(c) : Alive(e.id)
    BY DEF IInv, ThreadsOk, Phase, InHandler, Open, Early, Alive
  <2> QED BY <2>1, <2>2 DEF RefOk
<1> QED BY <1>1, IInvHolds, PTL

\* An actor that borrows by a local key finds a live actor of the type the key
\* is for, and keys never lead in a circle, whatever keys constructors ask for
\* (lookup.rs:171-182, 252-266, mod.rs:260).
THEOREM LocalKeysAreSafe == Spec => []LocalKeysAreSound
<1>1. IInv => LocalKeysAreSound
  <2> SUFFICES ASSUME IInv, NEW c \in Threads, Open(c)
               PROVE  /\ \A k \in keys[c] : \E e \in Own(c) :
                           e.loc.offset = k.ref.offset /\ e.type = k.ref.meta /\ Alive(e.id)
                      /\ ~ \E S \in SUBSET Ids : Knot(KeyRelation(c), S)
    BY DEF LocalKeysAreSound
  <2>1. /\ Placed /\ config \in Configs
        /\ ~ HasCycles(relations[c]) /\ \A e \in Own(c) : Alive(e.id)
    BY DEF IInv, ThreadsOk, Blank, Phase, Open, Early, Alive
  <2>2. \A k \in keys[c] : KeyOk(c, k)
    BY DEF IInv, ThreadsOk
  <2>3. KeyRelation(c) \subseteq relations[c]
    <3>1. ASSUME NEW k \in keys[c] PROVE <<k.holder, ActorAt(c, k.ref.offset).id>> \in relations[c]
      <4>1. PICK e \in Own(c) : e.loc.offset = k.ref.offset /\ <<k.holder, e.id>> \in relations[c]
        BY <2>2 DEF KeyOk
      <4>2. ActorAt(c, k.ref.offset) = e
        BY <2>1, <4>1, ActorAtIs
      <4> QED BY <4>1, <4>2
    <3> QED BY <3>1 DEF KeyRelation
  <2>4. ASSUME NEW S \in SUBSET Ids, Knot(KeyRelation(c), S) PROVE FALSE
    <3>1. Knot(relations[c], S)
      BY <2>3, <2>4 DEF Knot
    <3>2. ASSUME NEW n \in S PROVE n \in {r[1] : r \in relations[c]}
      <4>1. PICK m \in S : <<n, m>> \in relations[c]
        BY <3>1 DEF Knot
      <4>2. <<n, m>>[1] = n
        OBVIOUS
      <4> QED BY <4>1, <4>2
    <3>3. S \in SUBSET {r[1] : r \in relations[c]}
      BY <3>2
    <3> QED BY <2>1, <3>1, <3>3 DEF HasCycles
  <2> QED BY <2>1, <2>2, <2>4 DEF KeyOk
<1> QED BY <1>1, IInvHolds, PTL

\* Every actor that is dropped was constructed and is dropped once, and with
\* its context gone by an orderly way none is left (context.rs:79-85).
THEOREM DropsAreSafe == Spec => []DropsAreSound
<1>1. IInv => DropsAreSound
  <2> SUFFICES ASSUME IInv PROVE DropsAreSound
    OBVIOUS
  <2>1. ASSUME NEW i \in Ids PROVE drops[i] <= 1 /\ (drops[i] = 1 => i \in built)
    <3>1. CASE Blank
      BY <3>1 DEF Blank
    <3>2. CASE Placed
      <4>1. PICK e \in tree : e.id = i /\ e.loc.context \in Threads /\ e \in Own(e.loc.context)
        BY <3>2, Entries DEF IInv, ThreadsOk
      <4>2. PICK c \in Threads : e \in Own(c) /\ Phase(c) /\ pc[c] \in Steps
        BY <4>1 DEF IInv, ThreadsOk
      <4>3. drops[e.id] \in {0, 1} /\ (drops[e.id] = 1 => e.id \in built)
        BY <4>2 DEF Phase, Steps, Early, Open, Dropping
      <4> QED BY <4>1, <4>3
    <3> QED BY <3>1, <3>2 DEF IInv, ThreadsOk
  <2>2. ASSUME NEW c \in Threads, pc[c] = "gone", AllDone(c), NEW e \in Own(c) PROVE drops[e.id] = 1
    BY <2>2 DEF IInv, ThreadsOk, Phase
  <2> QED BY <2>1, <2>2 DEF DropsAreSound
<1> QED BY <1>1, IInvHolds, PTL
------------------------------------------------------------------------------
(***************************************************************************)
(* Where a message is for an actor, by kind of place.                      *)
(***************************************************************************)

\* The place x, if m, which context c is to run, is message k and for actor i.
Slot(c, m, k, i, x) == IF IsFor(c, m, k, i) THEN {x} ELSE {}

\* In the queues q, one for each context.
Queued(tag, q, k, i) ==
  UNION {{<<tag, c, j>> : j \in {x \in DOMAIN q[c] : IsFor(c, q[c][x], k, i)}} : c \in Threads}

\* Among the messages u that are kept until the handlers are done.
Kept(u, k, i) ==
  UNION {{<<"unsent", c, m.to>> : m \in {x \in u[c] : IsFor(x.to, x, k, i)}} : c \in Threads}

\* Lost, among the messages h that links took astray.
Lost(h, k, i) == {<<"lost", m.to, 0>> : m \in {x \in h : IsFor(x.to, x, k, i)}}

\* Where a message is, or was lost.
AllPlaces(k, i) == Places(k, i) \cup Lost(strays, k, i)

\* In the rest of a group, by the handlers d of the contexts C.
InGroup(C, d, k, i) ==
  UNION {{<<"group", c, 0>> : m \in {x \in {d[c]} \ {None} : IsFor(c, x, k, i)}} : c \in C}

\* It ran there.
Ran(r, k, i) == {<<"reached", 0, 0>> : x \in {<<k, i>>} \cap r}

\* A is one place, and so is B; or there is none in either.
Carried(A, B) ==
  /\ A = {} => B = {}
  /\ \A x : A = {x} => \E y : B = {y}

\* The type of local_queue and rx.
MessageQueues == [Threads -> Seq(Message)]

\* The actor that a reference is to does not change while there is a tree.
LEMMA IsForStays ==
  ASSUME tree' = tree
  PROVE  \A c, m, k, i : IsFor(c, m, k, i)' <=> IsFor(c, m, k, i)
BY DEF IsFor, ActorAt, Own

\* The places of a message for an actor, kind by kind.
LEMMA PlacesByKind ==
  ASSUME NEW k, NEW i
  PROVE  AllPlaces(k, i) =
           Queued("local", local_queue, k, i) \cup Queued("rx", rx, k, i)
             \cup Kept(unsent_messages, k, i) \cup Lost(strays, k, i)
             \cup InGroup(Threads, doing, k, i) \cup Ran(reached, k, i)
BY DEF AllPlaces, Places, Queued, Kept, Lost, InGroup, Ran

\* And so after a step.
LEMMA PlacesByKindNext ==
  ASSUME NEW k, NEW i, tree' = tree
  PROVE  AllPlaces(k, i)' =
           Queued("local", local_queue', k, i) \cup Queued("rx", rx', k, i)
             \cup Kept(unsent_messages', k, i) \cup Lost(strays', k, i)
             \cup InGroup(Threads, doing', k, i) \cup Ran(reached', k, i)
<1>1. \A c, m : IsFor(c, m, k, i)' <=> IsFor(c, m, k, i)
  BY IsForStays
<1> QED BY <1>1 DEF AllPlaces, Places, Queued, Kept, Lost, InGroup, Ran, Threads

\* A place is in the set when the queue has such a message there.
LEMMA QueuedIs ==
  ASSUME NEW tag, NEW q, NEW k, NEW i, NEW x
  PROVE  x \in Queued(tag, q, k, i) <=>
           \E c \in Threads : \E j \in DOMAIN q[c] : IsFor(c, q[c][j], k, i) /\ x = <<tag, c, j>>
BY DEF Queued

\* The first field of a place tells its kind.
LEMMA KindsDiffer ==
  ASSUME NEW k, NEW i
  PROVE  /\ \A tag, q : \A x \in Queued(tag, q, k, i) : x[1] = tag
         /\ \A u : \A x \in Kept(u, k, i) : x[1] = "unsent"
         /\ \A h : \A x \in Lost(h, k, i) : x[1] = "lost"
         /\ \A C, d : \A x \in InGroup(C, d, k, i) : x[1] = "group"
         /\ \A r : \A x \in Ran(r, k, i) : x[1] = "reached"
BY DEF Queued, Kept, Lost, InGroup, Ran

\* What carries a part of the places carries them all.
LEMMA CarriedPart ==
  ASSUME NEW P, NEW A, NEW B, Carried(A, B), P \cap A = {}
  PROVE  Carried(P \cup A, P \cup B)
<1>1. CASE A = {}
  BY <1>1 DEF Carried
<1>2. CASE A # {}
  <2> SUFFICES ASSUME NEW x, P \cup A = {x} PROVE \E y : P \cup B = {y}
    BY <1>2 DEF Carried
  <2>1. A = {x} /\ P = {}
    BY <1>2
  <2>2. PICK y : B = {y}
    BY <2>1 DEF Carried
  <2> QED BY <2>1, <2>2
<1> QED BY <1>1, <1>2

\* Carrying can be done in steps.
LEMMA CarriedOn ==
  ASSUME NEW A, NEW B, NEW C, Carried(A, B), Carried(B, C)
  PROVE  Carried(A, C)
BY DEF Carried

\* The queues r are the queues q, but that message m joined the end of that of c.
Joins(m, c, q, r) ==
  /\ q \in MessageQueues /\ c \in Threads /\ m \in Message
  /\ r[c] = Append(q[c], m) /\ \A d \in Threads : d # c => r[d] = q[d]

\* Its place is the last.
LEMMA QueuedAppend ==
  ASSUME NEW tag, NEW q, NEW c, NEW m, NEW k, NEW i, NEW r, Joins(m, c, q, r)
  PROVE  Queued(tag, r, k, i) =
           Queued(tag, q, k, i) \cup Slot(c, m, k, i, <<tag, c, Len(q[c]) + 1>>)
<1> DEFINE n == Len(q[c])
<1>1. n \in Nat /\ DOMAIN q[c] = 1 .. n
  BY DEF MessageQueues, Joins
<1>2. c \in Threads /\ r[c] = Append(q[c], m) /\ \A d \in Threads : d # c => r[d] = q[d]
  BY DEF Joins
<1>3. /\ DOMAIN r[c] = 1 .. n + 1
      /\ \A j \in 1 .. n : r[c][j] = q[c][j]
      /\ r[c][n + 1] = m
  BY <1>1, <1>2 DEF MessageQueues
<1>4. \A j : j \in 1 .. n + 1 <=> j \in 1 .. n \/ j = n + 1
  BY <1>1
<1> HIDE DEF n
<1>5. \A x : x \in Queued(tag, r, k, i) <=>
               x \in Queued(tag, q, k, i) \/ (IsFor(c, m, k, i) /\ x = <<tag, c, n + 1>>)
  <2> TAKE x
  <2>1. ASSUME x \in Queued(tag, r, k, i)
        PROVE  x \in Queued(tag, q, k, i) \/ (IsFor(c, m, k, i) /\ x = <<tag, c, n + 1>>)
    <3>1. PICK d \in Threads : \E j \in DOMAIN r[d] : IsFor(d, r[d][j], k, i) /\ x = <<tag, d, j>>
      BY <2>1, QueuedIs
    <3>2. PICK j \in DOMAIN r[d] : IsFor(d, r[d][j], k, i) /\ x = <<tag, d, j>>
      BY <3>1
    <3>3. CASE d = c /\ j = n + 1
      BY <1>3, <3>2, <3>3
    <3>4. CASE ~ (d = c /\ j = n + 1)
      <4>1. j \in DOMAIN q[d] /\ r[d][j] = q[d][j]
        BY <1>1, <1>2, <1>3, <1>4, <3>2, <3>4
      <4> QED BY <3>2, <4>1, QueuedIs
    <3> QED BY <3>3, <3>4
  <2>2. ASSUME x \in Queued(tag, q, k, i) PROVE x \in Queued(tag, r, k, i)
    <3>1. PICK d \in Threads : \E j \in DOMAIN q[d] : IsFor(d, q[d][j], k, i) /\ x = <<tag, d, j>>
      BY <2>2, QueuedIs
    <3> QED BY <1>1, <1>2, <1>3, <1>4, <3>1, QueuedIs
  <2>3. ASSUME IsFor(c, m, k, i), x = <<tag, c, n + 1>> PROVE x \in Queued(tag, r, k, i)
    BY <1>2, <1>3, <1>4, <2>3, QueuedIs
  <2> QED BY <2>1, <2>2, <2>3
<1> QED BY <1>5 DEF n, Slot

\* The message at the head of a queue is taken.
LEMMA QueuedTail ==
  ASSUME NEW tag, NEW q \in MessageQueues, NEW c \in Threads, q[c] # <<>>, NEW k, NEW i, NEW y,
         NEW r, r[c] = Tail(q[c]), \A d \in Threads : d # c => r[d] = q[d]
  PROVE  Carried(Queued(tag, q, k, i),
                 Queued(tag, r, k, i) \cup Slot(c, Head(q[c]), k, i, y))
<1> DEFINE n == Len(q[c])
           B == Queued(tag, r, k, i) \cup (IF IsFor(c, Head(q[c]), k, i) THEN {y} ELSE {})
<1>1. n \in Nat \ {0} /\ DOMAIN q[c] = 1 .. n
  BY DEF MessageQueues
<1>2. r[c] = Tail(q[c]) /\ \A d \in Threads : d # c => r[d] = q[d]
  OBVIOUS
<1>3. /\ DOMAIN r[c] = 1 .. n - 1
      /\ \A j \in 1 .. n - 1 : r[c][j] = q[c][j + 1]
      /\ Head(q[c]) = q[c][1]
  BY <1>1, <1>2 DEF MessageQueues
<1>4. /\ \A j \in 1 .. n - 1 : j + 1 \in 1 .. n /\ j + 1 # 1
      /\ \A j \in 1 .. n : j # 1 => j - 1 \in 1 .. n - 1 /\ (j - 1) + 1 = j
      /\ 1 \in 1 .. n
      /\ \A h, j \in Int : h + 1 = j + 1 => h = j
  BY <1>1
<1> HIDE DEF n
<1>5. \A d \in Threads : \A j \in DOMAIN q[d] : IsFor(d, q[d][j], k, i) =>
         <<tag, d, j>> \in Queued(tag, q, k, i)
  BY QueuedIs
<1>6. \A d \in Threads : \A j \in DOMAIN r[d] : IsFor(d, r[d][j], k, i) =>
         IF d = c THEN <<tag, c, j + 1>> \in Queued(tag, q, k, i)
                  ELSE <<tag, d, j>> \in Queued(tag, q, k, i)
  BY <1>1, <1>2, <1>3, <1>4, <1>5
<1>7. ASSUME Queued(tag, q, k, i) = {} PROVE B = {}
  <2>1. ~ IsFor(c, Head(q[c]), k, i)
    BY <1>1, <1>3, <1>4, <1>5, <1>7
  <2>2. Queued(tag, r, k, i) = {}
    BY <1>6, <1>7, QueuedIs
  <2> QED BY <2>1, <2>2
<1>8. ASSUME NEW x, Queued(tag, q, k, i) = {x} PROVE \E z : B = {z}
  <2>1. PICK e \in Threads : \E j \in DOMAIN q[e] : IsFor(e, q[e][j], k, i) /\ x = <<tag, e, j>>
    BY <1>8, QueuedIs
  <2>2. PICK h \in DOMAIN q[e] : IsFor(e, q[e][h], k, i) /\ x = <<tag, e, h>>
    BY <2>1
  <2>3. \A d \in Threads : \A j \in DOMAIN q[d] : IsFor(d, q[d][j], k, i) => d = e /\ j = h
    <3> TAKE d \in Threads
    <3> TAKE j \in DOMAIN q[d]
    <3> HAVE IsFor(d, q[d][j], k, i)
    <3>1. <<tag, d, j>> = <<tag, e, h>>
      BY <1>5, <1>8, <2>2
    <3> QED BY <3>1
  <2>4. CASE e = c /\ h = 1
    <3>1. IsFor(c, Head(q[c]), k, i)
      BY <1>3, <2>2, <2>4
    <3>2. Queued(tag, r, k, i) = {}
      <4> SUFFICES ASSUME NEW z \in Queued(tag, r, k, i) PROVE FALSE
        OBVIOUS
      <4>1. PICK d \in Threads : \E j \in DOMAIN r[d] : IsFor(d, r[d][j], k, i)
        BY QueuedIs
      <4>2. d = c
        BY <1>2, <2>3, <2>4, <4>1
      <4>3. PICK j \in 1 .. n - 1 : IsFor(c, q[c][j + 1], k, i)
        BY <1>3, <4>1, <4>2
      <4> QED BY <1>1, <1>4, <2>3, <2>4, <4>3
    <3> QED BY <3>1, <3>2
  <2>5. CASE e # c
    <3>1. ~ IsFor(c, Head(q[c]), k, i)
      BY <1>1, <1>3, <1>4, <2>3, <2>5
    <3>2. \A z : z \in Queued(tag, r, k, i) <=> z = x
      <4> TAKE z
      <4>1. ASSUME z \in Queued(tag, r, k, i) PROVE z = x
        <5>1. PICK d \in Threads : \E j \in DOMAIN r[d] : IsFor(d, r[d][j], k, i) /\ z = <<tag, d, j>>
          BY <4>1, QueuedIs
        <5>2. ASSUME d = c PROVE FALSE
          <6>1. PICK j \in 1 .. n - 1 : IsFor(c, q[c][j + 1], k, i)
            BY <1>3, <5>1, <5>2
          <6>2. j + 1 \in DOMAIN q[c]
            BY <1>1, <1>4, <6>1
          <6> QED BY <2>3, <2>5, <6>1, <6>2
        <5> QED BY <1>2, <2>2, <2>3, <5>1, <5>2
      <4>2. x \in Queued(tag, r, k, i)
        BY <1>2, <2>2, <2>5, QueuedIs
      <4> QED BY <4>1, <4>2
    <3>3. Queued(tag, r, k, i) = {x}
      BY <3>2
    <3> QED BY <3>1, <3>3
  <2>6. CASE e = c /\ h # 1
    <3>1. ~ IsFor(c, Head(q[c]), k, i)
      BY <1>1, <1>3, <1>4, <2>3, <2>6
    <3>2. h - 1 \in 1 .. n - 1 /\ IsFor(c, r[c][h - 1], k, i)
      BY <1>1, <1>3, <1>4, <2>2, <2>6
    <3>3. \A z : z \in Queued(tag, r, k, i) <=> z = <<tag, c, h - 1>>
      <4> TAKE z
      <4>1. ASSUME z \in Queued(tag, r, k, i) PROVE z = <<tag, c, h - 1>>
        <5>1. PICK d \in Threads : \E j \in DOMAIN r[d] : IsFor(d, r[d][j], k, i) /\ z = <<tag, d, j>>
          BY <4>1, QueuedIs
        <5>2. d = c
          BY <1>2, <2>3, <2>6, <5>1
        <5>3. PICK j \in 1 .. n - 1 : IsFor(c, q[c][j + 1], k, i) /\ z = <<tag, c, j>>
          BY <1>3, <5>1, <5>2
        <5>4. j + 1 = h
          BY <1>1, <1>4, <2>3, <2>6, <5>3
        <5>5. j = h - 1
          BY <1>1, <5>3, <5>4
        <5> QED BY <5>3, <5>5
      <4>2. <<tag, c, h - 1>> \in Queued(tag, r, k, i)
        BY <1>3, <3>2, QueuedIs
      <4> QED BY <4>1, <4>2
    <3>4. Queued(tag, r, k, i) = {<<tag, c, h - 1>>}
      BY <3>3
    <3> QED BY <3>1, <3>4
  <2> QED BY <2>4, <2>5, <2>6
<1>9. Carried(Queued(tag, q, k, i), B)
  <2> HIDE DEF B
  <2> QED BY <1>7, <1>8 DEF Carried
<1> QED BY <1>9 DEF Slot

\* The message at the end of a queue is taken.
LEMMA QueuedFront ==
  ASSUME NEW tag, NEW q \in MessageQueues, NEW c \in Threads, q[c] # <<>>, NEW k, NEW i, NEW y,
         NEW r \in MessageQueues, Len(r[c]) = Len(q[c]) - 1,
         \A j \in DOMAIN r[c] : r[c][j] = q[c][j],
         \A d \in Threads : d # c => r[d] = q[d]
  PROVE  Carried(Queued(tag, q, k, i),
                 Queued(tag, r, k, i) \cup Slot(c, q[c][Len(q[c])], k, i, y))
<1> DEFINE n == Len(q[c])
           B == Queued(tag, r, k, i) \cup (IF IsFor(c, q[c][n], k, i) THEN {y} ELSE {})
<1>1. n \in Nat \ {0} /\ DOMAIN q[c] = 1 .. n
  BY DEF MessageQueues
<1>2. \A d \in Threads : d # c => r[d] = q[d]
  OBVIOUS
<1>3. DOMAIN r[c] = 1 .. n - 1 /\ \A j \in 1 .. n - 1 : r[c][j] = q[c][j]
  BY <1>1 DEF MessageQueues
<1>4. \A j : j \in 1 .. n - 1 <=> j \in 1 .. n /\ j # n
  BY <1>1
<1>5. n \in 1 .. n
  BY <1>1
<1> HIDE DEF n
<1>6. \A z : z \in Queued(tag, r, k, i) <=> z \in Queued(tag, q, k, i) /\ z # <<tag, c, n>>
  <2> TAKE z
  <2>1. ASSUME z \in Queued(tag, r, k, i)
        PROVE  z \in Queued(tag, q, k, i) /\ z # <<tag, c, n>>
    <3>1. PICK d \in Threads : \E j \in DOMAIN r[d] : IsFor(d, r[d][j], k, i) /\ z = <<tag, d, j>>
      BY <2>1, QueuedIs
    <3>2. PICK j \in DOMAIN r[d] : IsFor(d, r[d][j], k, i) /\ z = <<tag, d, j>>
      BY <3>1
    <3>3. j \in DOMAIN q[d] /\ q[d][j] = r[d][j] /\ ~ (d = c /\ j = n)
      BY <1>1, <1>2, <1>3, <1>4, <3>2
    <3> QED BY <3>2, <3>3, QueuedIs
  <2>2. ASSUME z \in Queued(tag, q, k, i), z # <<tag, c, n>>
        PROVE  z \in Queued(tag, r, k, i)
    <3>1. PICK d \in Threads : \E j \in DOMAIN q[d] : IsFor(d, q[d][j], k, i) /\ z = <<tag, d, j>>
      BY <2>2, QueuedIs
    <3>2. PICK j \in DOMAIN q[d] : IsFor(d, q[d][j], k, i) /\ z = <<tag, d, j>>
      BY <3>1
    <3>3. j \in DOMAIN r[d] /\ q[d][j] = r[d][j]
      BY <1>1, <1>2, <1>3, <1>4, <2>2, <3>2
    <3> QED BY <3>2, <3>3, QueuedIs
  <2> QED BY <2>1, <2>2
<1>7. IsFor(c, q[c][n], k, i) <=> <<tag, c, n>> \in Queued(tag, q, k, i)
  <2>1. ASSUME <<tag, c, n>> \in Queued(tag, q, k, i) PROVE IsFor(c, q[c][n], k, i)
    BY <2>1, QueuedIs
  <2>2. ASSUME IsFor(c, q[c][n], k, i) PROVE <<tag, c, n>> \in Queued(tag, q, k, i)
    BY <1>1, <1>5, <2>2, QueuedIs
  <2> QED BY <2>1, <2>2
<1>8. Carried(Queued(tag, q, k, i), B)
  BY <1>6, <1>7 DEF Carried
<1> QED BY <1>8 DEF n, Slot

------------------------------------------------------------------------------
(***************************************************************************)
(* The invariant: each message is in one place for each actor that it is   *)
(* for.  Besides, a thread keeps one message at most of a cast for each    *)
(* context, only one in a handler has a group under way (unless it is left *)
(* from a panic), and nothing is cast before there are threads.            *)
(***************************************************************************)
\* Message k is in one place for actor i if it is meant for it, or was lost there;
\* else nowhere.
OneTarget(k, i) ==
  IF i \in casts[k] THEN \E x : AllPlaces(k, i) = {x} ELSE AllPlaces(k, i) = {}

\* Which threads have a message under way.
Idle ==
  \A c \in Threads :
    /\ pc[c] \notin {"first_run", "run", "unwinding", "gone"} => doing[c] = None
    /\ pc[c] \in {"first_run", "run"} => doing[c] # None

\* No two of the messages S are of the same cast and to the same context.
OneToEach(S) == \A m, n \in S : m.cast = n.cast /\ m.to = n.to => m = n

\* The inductive invariant.
TargetInv ==
  /\ IInv
  /\ Idle
  /\ \A c \in Threads : OneToEach(unsent_messages[c])
  /\ process = "config" => casts = <<>>
  /\ \A k \in DOMAIN casts : \A i \in Ids : OneTarget(k, i)

\* A step that only moves messages.
LEMMA MovesKeepTargets ==
  ASSUME \A k \in DOMAIN casts : \A i \in Ids : OneTarget(k, i),
         config' = config, casts' = casts,
         \A k \in DOMAIN casts : \A i \in Ids : Carried(AllPlaces(k, i), AllPlaces(k, i)')
  PROVE  (\A k \in DOMAIN casts : \A i \in Ids : OneTarget(k, i))'
<1> SUFFICES ASSUME NEW k \in DOMAIN casts, NEW i \in Ids PROVE OneTarget(k, i)'
  BY DEF Ids
<1> DEFINE A == AllPlaces(k, i)
           B == AllPlaces(k, i)'
<1>1. Carried(A, B) /\ OneTarget(k, i)
  OBVIOUS
<1>2. i \in casts'[k] <=> i \in casts[k]
  OBVIOUS
<1>3. (IF i \in casts[k] THEN \E x : A = {x} ELSE A = {})
  BY <1>1 DEF OneTarget
<1> HIDE DEF A, B
<1>4. (IF i \in casts[k] THEN \E x : B = {x} ELSE B = {})
  BY <1>1, <1>3 DEF Carried
<1> QED BY <1>2, <1>4 DEF OneTarget, B

\* A step that moves no message.
LEMMA TargetsStay ==
  ASSUME TargetInv, UNCHANGED <<config, tree, queues, handler, casts>>,
         process' = "config" => process = "config",
         \A c \in Threads : pc'[c] \notin {"first_run", "run", "unwinding", "gone"}
                              => pc[c] \notin {"first_run", "run", "unwinding", "gone"},
         \A c \in Threads : pc'[c] \in {"first_run", "run"} => pc[c] \in {"first_run", "run"},
         IInv'
  PROVE  TargetInv'
<1>1. UNCHANGED <<local_queue, unsent_messages, rx, strays, doing, reached>>
  BY DEF queues, handler
<1>2. \A k, i : AllPlaces(k, i)' = AllPlaces(k, i)
  BY <1>1, PlacesByKind, PlacesByKindNext
<1>3. \A k, i : Carried(AllPlaces(k, i), AllPlaces(k, i)')
  BY <1>2 DEF Carried
<1>4. (\A k \in DOMAIN casts : \A i \in Ids : OneTarget(k, i))'
  BY <1>3, MovesKeepTargets DEF TargetInv
<1>5. Idle' /\ \A c \in Threads : OneToEach(unsent_messages'[c])
  BY <1>1 DEF TargetInv, Idle
<1> QED BY <1>4, <1>5 DEF TargetInv, OneToEach

------------------------------------------------------------------------------
(***************************************************************************)
(* A handler is called.                                                    *)
(***************************************************************************)

\* The references of a message are to different actors.
LEMMA RefsDiffer ==
  ASSUME ThreadsOk, process = "running", NEW m, MsgOk(m), m.refs \subseteq Reference,
         NEW r \in m.refs, NEW x \in m.refs,
         ActorAt(m.to, r.offset).id = ActorAt(m.to, x.offset).id
  PROVE  r = x
<1>1. Placed /\ config \in Configs
  BY RunningIs
<1>2. PICK e \in Own(m.to) : e.loc.offset = r.offset /\ e.type = r.meta
  BY DEF MsgOk, RefOk
<1>3. PICK f \in Own(m.to) : f.loc.offset = x.offset /\ f.type = x.meta
  BY DEF MsgOk, RefOk
<1>4. ActorAt(m.to, r.offset) = e /\ ActorAt(m.to, x.offset) = f
  BY <1>1, <1>2, <1>3, ActorAtIs
<1>5. e \in tree /\ f \in tree
  BY DEF Own
<1>6. e = f
  BY <1>1, <1>4, <1>5, Entries
<1>7. r.offset = x.offset /\ r.meta = x.meta
  BY <1>2, <1>3, <1>6
<1> QED BY <1>7 DEF Reference

\* It runs on the actor of one reference; the rest of the message is for the
\* others.
LEMMA VisitCarries ==
  ASSUME ThreadsOk, process = "running", NEW m, MsgOk(m), m.refs \subseteq Reference, NEW r \in m.refs,
         NEW n, n.cast = m.cast, n.to = m.to, n.refs = m.refs \ {r}, NEW c,
         NEW S, NEW T,
         T = IF m.to = c THEN S \cup {<<m.cast, ActorAt(m.to, r.offset).id>>} ELSE S,
         NEW k, NEW i, NEW x, NEW y, x # <<"reached", 0, 0>>
  PROVE  Carried(Slot(c, m, k, i, x) \cup Ran(S, k, i), Slot(c, n, k, i, y) \cup Ran(T, k, i))
<1>0. CASE m.to # c
  <2>1. Slot(c, m, k, i, x) = {} /\ Slot(c, n, k, i, y) = {} /\ T = S
    BY <1>0 DEF Slot, IsFor
  <2> QED BY <2>1 DEF Carried
<1> SUFFICES ASSUME m.to = c
             PROVE  Carried(Slot(c, m, k, i, x) \cup Ran(S, k, i), Slot(c, n, k, i, y) \cup Ran(T, k, i))
  BY <1>0
<1> DEFINE j == ActorAt(m.to, r.offset).id
           z == <<"reached", 0, 0>>
<1>1. ASSUME k = m.cast, i = j PROVE IsFor(c, m, k, i) /\ ~ IsFor(c, n, k, i)
  <2>1. IsFor(c, m, k, i)
    BY <1>1 DEF IsFor
  <2>2. ASSUME NEW w \in n.refs, ActorAt(n.to, w.offset).id = i PROVE FALSE
    <3>1. w \in m.refs /\ w # r
      OBVIOUS
    <3>2. ActorAt(m.to, w.offset).id = ActorAt(m.to, r.offset).id
      BY <1>1, <2>2
    <3> QED BY <3>1, <3>2, RefsDiffer
  <2> QED BY <2>1, <2>2 DEF IsFor
<1>2. ASSUME ~ (k = m.cast /\ i = j) PROVE IsFor(c, n, k, i) <=> IsFor(c, m, k, i)
  BY <1>2 DEF IsFor
<1>3. <<k, i>> \in T <=> <<k, i>> \in S \/ (k = m.cast /\ i = j)
  OBVIOUS
<1>4. /\ Ran(S, k, i) = IF <<k, i>> \in S THEN {z} ELSE {}
      /\ Ran(T, k, i) = IF <<k, i>> \in T THEN {z} ELSE {}
  BY DEF Ran
<1> HIDE DEF j, z
<1>5. x # z
  BY DEF z
<1> DEFINE A == Slot(c, m, k, i, x) \cup Ran(S, k, i)
           B == Slot(c, n, k, i, y) \cup Ran(T, k, i)
<1>6. A = {} => B = {}
  BY <1>1, <1>2, <1>3, <1>4 DEF Slot
<1>7. ASSUME NEW w, A = {w} PROVE B = {y} \/ B = {z}
  <2>1. ~ (IsFor(c, m, k, i) /\ <<k, i>> \in S)
    BY <1>4, <1>5, <1>7 DEF Slot
  <2>2. CASE k = m.cast /\ i = j
    BY <1>1, <1>3, <1>4, <2>2 DEF Slot
  <2>3. CASE ~ (k = m.cast /\ i = j)
    <3>1. (IsFor(c, n, k, i) <=> IsFor(c, m, k, i)) /\ (<<k, i>> \in T <=> <<k, i>> \in S)
      BY <1>2, <1>3, <2>3
    <3>2. IsFor(c, m, k, i) \/ <<k, i>> \in S
      BY <1>4, <1>7 DEF Slot
    <3> QED BY <1>4, <2>1, <3>1, <3>2 DEF Slot
  <2> QED BY <2>2, <2>3
<1> HIDE DEF A, B
<1>8. Carried(A, B)
  BY <1>6, <1>7 DEF Carried
<1> QED BY <1>8 DEF A, B

\* What Visit does to the thread that it is a step of, and to others.
LEMMA VisitIs ==
  ASSUME IInv, process = "running", NEW c \in Threads, NEW m, MsgOk(m), m.to \in Threads, m.refs \subseteq Reference,
         Visit(c, m, m.refs)
  PROVE  \E r \in m.refs : \E n :
           /\ n.cast = m.cast /\ n.to = m.to /\ n.refs = m.refs \ {r} /\ n # None
           /\ doing'[c] = n /\ \A d \in Threads : d # c => doing'[d] = doing[d]
           /\ reached' = IF m.to = c THEN reached \cup {<<m.cast, ActorAt(m.to, r.offset).id>>}
                                     ELSE reached
<1>1. PICK r \in m.refs :
        /\ doing' = [doing EXCEPT ![c] = [cast |-> m.cast, to |-> m.to, ref |-> r, refs |-> m.refs \ {r}]]
        /\ reached' = IF m.to = c THEN reached \cup {<<m.cast, ActorAt(m.to, r.offset).id>>}
                                  ELSE reached
  BY DEF Visit
<1>2. PICK n : n = [cast |-> m.cast, to |-> m.to, ref |-> r, refs |-> m.refs \ {r}]
  OBVIOUS
<1>3. doing' = [doing EXCEPT ![c] = n]
  BY <1>1, <1>2
<1>4. doing'[c] = n /\ \A d \in Threads : d # c => doing'[d] = doing[d]
  BY <1>3 DEF IInv, HandlersOk
<1>5. n # None
  <2>1. m.cast \in Nat /\ m.to \in Nat
    BY NAssumption DEF IInv, MailOk, MsgOk, Threads
  <2>2. r \in Reference /\ m.refs \ {r} \in SUBSET Reference
    OBVIOUS
  <2>3. n \in [cast : Nat, to : Nat, ref : Reference, refs : SUBSET Reference]
    BY <1>2, <2>1, <2>2
  <2> QED BY <2>3, NoneAssumption DEF Reference
<1>6. n.cast = m.cast /\ n.to = m.to /\ n.refs = m.refs \ {r}
  BY <1>2
<1> QED BY <1>1, <1>4, <1>5, <1>6

\* The groups under way are that of one thread and those of the others.
LEMMA GroupSplit ==
  ASSUME NEW c \in Threads, NEW d, NEW k, NEW i
  PROVE  /\ d[c] # None => InGroup(Threads, d, k, i) =
                             InGroup(Threads \ {c}, d, k, i) \cup Slot(c, d[c], k, i, <<"group", c, 0>>)
         /\ <<"group", c, 0>> \notin InGroup(Threads \ {c}, d, k, i)
<1>1. \A C, x : x \in InGroup(C, d, k, i) <=>
                  \E e \in C : d[e] # None /\ IsFor(e, d[e], k, i) /\ x = <<"group", e, 0>>
  BY DEF InGroup
<1>2. <<"group", c, 0>> \notin InGroup(Threads \ {c}, d, k, i)
  <2> SUFFICES ASSUME NEW e \in Threads \ {c}, <<"group", c, 0>> = <<"group", e, 0>> PROVE FALSE
    BY <1>1
  <2> QED OBVIOUS
<1>3. \A x : x \in Slot(c, d[c], k, i, <<"group", c, 0>>) <=> IsFor(c, d[c], k, i) /\ x = <<"group", c, 0>>
  BY DEF Slot
<1>5. ASSUME d[c] # None
      PROVE  InGroup(Threads, d, k, i) =
               InGroup(Threads \ {c}, d, k, i) \cup Slot(c, d[c], k, i, <<"group", c, 0>>)
  BY <1>1, <1>3, <1>5
<1> QED BY <1>2, <1>5

\* One that is not in a handler has none.
LEMMA IdleGroup ==
  ASSUME NEW c \in Threads, doing[c] = None, NEW k, NEW i
  PROVE  InGroup(Threads, doing, k, i) = InGroup(Threads \ {c}, doing, k, i)
<1>1. \A C, x : x \in InGroup(C, doing, k, i) <=>
                  \E e \in C : doing[e] # None /\ IsFor(e, doing[e], k, i) /\ x = <<"group", e, 0>>
  BY DEF InGroup
<1> QED BY <1>1

\* A step of one thread leaves the groups of the others.
LEMMA GroupsOfOthers ==
  ASSUME NEW c \in Threads, NEW d, NEW e, \A x \in Threads : x # c => e[x] = d[x], NEW k, NEW i
  PROVE  InGroup(Threads \ {c}, e, k, i) = InGroup(Threads \ {c}, d, k, i)
BY DEF InGroup

\* Every place after a step in which thread c comes to a reference.
LEMMA PlacesVisited ==
  ASSUME NEW c \in Threads, NEW n, n # None, doing'[c] = n,
         \A d \in Threads : d # c => doing'[d] = doing[d],
         tree' = tree, unsent_messages' = unsent_messages, strays' = strays, NEW k, NEW i
  PROVE  AllPlaces(k, i)' =
           Queued("local", local_queue', k, i) \cup Queued("rx", rx', k, i)
             \cup Kept(unsent_messages, k, i) \cup Lost(strays, k, i)
             \cup InGroup(Threads \ {c}, doing, k, i)
             \cup Slot(c, n, k, i, <<"group", c, 0>>) \cup Ran(reached', k, i)
<1>1. InGroup(Threads, doing', k, i) =
        InGroup(Threads \ {c}, doing', k, i) \cup Slot(c, n, k, i, <<"group", c, 0>>)
  <2>1. PICK d : d = doing'
    OBVIOUS
  <2>2. d[c] # None /\ d[c] = n
    BY <2>1
  <2>3. InGroup(Threads, d, k, i) = InGroup(Threads \ {c}, d, k, i) \cup Slot(c, n, k, i, <<"group", c, 0>>)
    BY <2>2, GroupSplit
  <2> QED BY <2>1, <2>3
<1>2. InGroup(Threads \ {c}, doing', k, i) = InGroup(Threads \ {c}, doing, k, i)
  BY GroupsOfOthers
<1>3. /\ Kept(unsent_messages', k, i) = Kept(unsent_messages, k, i)
      /\ Lost(strays', k, i) = Lost(strays, k, i)
  OBVIOUS
<1>4. AllPlaces(k, i)' =
        Queued("local", local_queue', k, i) \cup Queued("rx", rx', k, i)
          \cup Kept(unsent_messages', k, i) \cup Lost(strays', k, i)
          \cup InGroup(Threads, doing', k, i) \cup Ran(reached', k, i)
  BY PlacesByKindNext
<1> QED BY <1>1, <1>2, <1>3, <1>4

\* A message is taken from a queue and its first handler called.
LEMMA TakenCarries ==
  ASSUME IInv, process = "running", NEW c \in Threads, NEW m, MsgOk(m), m.to \in Threads,
         m.refs \subseteq Reference, Visit(c, m, m.refs), doing[c] = None,
         tree' = tree, unsent_messages' = unsent_messages, strays' = strays, NEW k, NEW i,
         Carried(Queued("local", local_queue, k, i) \cup Queued("rx", rx, k, i),
                 Queued("local", local_queue', k, i) \cup Queued("rx", rx', k, i)
                   \cup Slot(c, m, k, i, <<"hand", 0, 0>>))
  PROVE  Carried(AllPlaces(k, i), AllPlaces(k, i)')
<1> DEFINE Q1 == Queued("local", local_queue, k, i)
           Q2 == Queued("rx", rx, k, i)
           N1 == Queued("local", local_queue', k, i)
           N2 == Queued("rx", rx', k, i)
           K1 == Kept(unsent_messages, k, i)
           K2 == Lost(strays, k, i)
           K3 == InGroup(Threads \ {c}, doing, k, i)
           Q == Q1 \cup Q2
           Qn == N1 \cup N2
           K == K1 \cup K2 \cup K3
           M == Slot(c, m, k, i, <<"hand", 0, 0>>)
           R == Ran(reached, k, i)
<1>0. PICK r \in m.refs : \E n :
           /\ n.cast = m.cast /\ n.to = m.to /\ n.refs = m.refs \ {r} /\ n # None
           /\ doing'[c] = n /\ \A d \in Threads : d # c => doing'[d] = doing[d]
           /\ reached' = IF m.to = c THEN reached \cup {<<m.cast, ActorAt(m.to, r.offset).id>>}
                                     ELSE reached
  BY VisitIs
<1>1. PICK n :
           /\ n.cast = m.cast /\ n.to = m.to /\ n.refs = m.refs \ {r} /\ n # None
           /\ doing'[c] = n /\ \A d \in Threads : d # c => doing'[d] = doing[d]
           /\ reached' = IF m.to = c THEN reached \cup {<<m.cast, ActorAt(m.to, r.offset).id>>}
                                     ELSE reached
  BY <1>0
<1> DEFINE V == Slot(c, n, k, i, <<"group", c, 0>>)
           Rn == Ran(reached', k, i)
<1>2. AllPlaces(k, i) = K \cup R \cup Q
  <2>1. AllPlaces(k, i) = Q1 \cup Q2 \cup K1 \cup K2 \cup K3 \cup R
    <3>1. InGroup(Threads, doing, k, i) = K3
      BY IdleGroup
    <3> QED BY <3>1, PlacesByKind
  <2> HIDE DEF Q1, Q2, K1, K2, K3, R
  <2> QED BY <2>1
<1>3. AllPlaces(k, i)' = Qn \cup K \cup V \cup Rn
  <2>1. AllPlaces(k, i)' = N1 \cup N2 \cup K1 \cup K2 \cup K3 \cup V \cup Rn
    <3>1. /\ n # None /\ doing'[c] = n /\ \A d \in Threads : d # c => doing'[d] = doing[d]
          /\ tree' = tree /\ unsent_messages' = unsent_messages /\ strays' = strays
      BY <1>1
    <3> HIDE <1>1
    <3> QED BY ONLY <3>1, PlacesVisited
  <2> HIDE DEF N1, N2, K1, K2, K3, V, Rn
  <2> QED BY <2>1
<1>4. Carried(Q, Qn \cup M)
  OBVIOUS
<1>5. <<"hand", 0, 0>> # <<"reached", 0, 0>>
  <2>1. <<"hand", 0, 0>>[1] = "hand" /\ <<"reached", 0, 0>>[1] = "reached"
    OBVIOUS
  <2>2. "hand" # "reached"
    OBVIOUS
  <2> QED BY <2>1, <2>2
<1>6. Carried(M \cup R, V \cup Rn)
  <2>1. ThreadsOk
    BY DEF IInv
  <2> QED BY <1>1, <1>5, <2>1, VisitCarries
<1>7. /\ \A x \in Q \cup Qn : x[1] \in {"local", "rx"}
      /\ \A x \in K : x[1] \in {"unsent", "lost", "group"}
      /\ \A x \in R : x[1] = "reached"
      /\ \A x \in M : x[1] = "hand"
  <2>1. \A x \in M : x = <<"hand", 0, 0>>
    BY DEF Slot
  <2> QED BY <2>1, KindsDiffer
<1> HIDE DEF Q, Qn, K, M, R, V, Rn
<1>8. (K \cup R) \cap Q = {} /\ (Qn \cup K) \cap (M \cup R) = {}
  BY <1>7
<1>9. Carried((K \cup R) \cup Q, (K \cup R) \cup (Qn \cup M))
  BY <1>4, <1>8, CarriedPart
<1>10. Carried((Qn \cup K) \cup (M \cup R), (Qn \cup K) \cup (V \cup Rn))
  BY <1>6, <1>8, CarriedPart
<1>11. (K \cup R) \cup (Qn \cup M) = (Qn \cup K) \cup (M \cup R)
  OBVIOUS
<1>12. Carried((K \cup R) \cup Q, (Qn \cup K) \cup (V \cup Rn))
  BY <1>9, <1>10, <1>11, CarriedOn
<1>13. (Qn \cup K) \cup (V \cup Rn) = Qn \cup K \cup V \cup Rn
  OBVIOUS
<1> QED BY <1>2, <1>3, <1>12, <1>13

\* RecvLocal: out of the local queue, to its first actor.
LEMMA RecvLocalTargets ==
  ASSUME TargetInv, process = "running", NEW c \in Threads, RecvLocal(c), IInv'
  PROVE  TargetInv'
<1>1. PICK q : q = local_queue[c]
  OBVIOUS
<1>2. PICK m : m = q[Len(q)]
  OBVIOUS
<1>3. /\ q # <<>> /\ Visit(c, m, m.refs)
      /\ local_queue' = [local_queue EXCEPT ![c] = SubSeq(q, 1, Len(q) - 1)]
      /\ UNCHANGED <<tables, objects, local, resource, unsent_messages, rx, strays, outside>>
  BY <1>1, <1>2 DEF RecvLocal
<1>4. pc[c] \in {"first", "drain"} /\ \A d \in Threads : d # c => pc'[d] = pc[d]
  BY DEF RecvLocal, Goto, TargetInv, IInv, ThreadsOk
<1>4a. pc'[c] \in {"first_run", "run"}
  BY DEF RecvLocal, Goto, TargetInv, IInv, ThreadsOk
<1>5. UNCHANGED <<config, process, tree, unsent_messages, rx, strays, accessors, casts>>
  BY <1>3 DEF tables, outside
<1>6. /\ q \in Seq(Message) /\ Len(q) \in Nat /\ Len(q) \in DOMAIN q /\ local_queue \in MessageQueues
      /\ local_queue' \in MessageQueues
  <2>1. /\ q \in Seq(Message) /\ local_queue \in MessageQueues
        /\ local_queue' = [d \in Threads |-> local_queue'[d]] /\ \A d \in Threads : local_queue'[d] \in Seq(Message)
    BY <1>1, <1>5 DEF TargetInv, IInv, MailOk, MessageQueues, Threads, Message, Reference
  <2> QED BY <1>3, <2>1, EmptySeq DEF MessageQueues
<1>7. m \in Message /\ m.to \in Threads /\ MsgOk(m) /\ m.refs \subseteq Reference
  <2>1. m \in Message
    BY <1>2, <1>6
  <2>2. MsgOk(m)
    BY <1>1, <1>2, <1>6 DEF TargetInv, IInv, MailOk
  <2> QED BY <2>1, <2>2 DEF Message
<1>8. doing[c] = None
  BY <1>4 DEF TargetInv, Idle
<1>9. /\ Len(local_queue'[c]) = Len(q) - 1
      /\ \A j \in DOMAIN local_queue'[c] : local_queue'[c][j] = q[j]
      /\ \A d \in Threads : d # c => local_queue'[d] = local_queue[d]
  <2>1. PICK n : n = Len(q) - 1
    OBVIOUS
  <2>2. n \in Nat /\ 1 .. n \subseteq 1 .. Len(q)
    BY <1>6, <2>1
  <2>3. \A j \in 1 .. n : q[j] \in Message
    BY <1>6, <2>2
  <2>4. /\ Len(SubSeq(q, 1, n)) = (IF 1 <= n THEN n - 1 + 1 ELSE 0)
        /\ \A j \in 1 .. n - 1 + 1 : SubSeq(q, 1, n)[j] = q[1 + j - 1]
        /\ SubSeq(q, 1, n) \in Seq(Message)
    BY <2>2, <2>3, SubSeqProperties
  <2>5. n - 1 + 1 = n /\ \A j \in 1 .. n : 1 + j - 1 = j
    BY <2>2
  <2>6. Len(SubSeq(q, 1, n)) = n /\ \A j \in 1 .. n : SubSeq(q, 1, n)[j] = q[j]
    BY <2>2, <2>4, <2>5
  <2>7. local_queue'[c] = SubSeq(q, 1, n) /\ \A d \in Threads : d # c => local_queue'[d] = local_queue[d]
    BY <1>3, <1>6, <2>1 DEF MessageQueues
  <2>8. DOMAIN SubSeq(q, 1, n) = 1 .. n
    BY <2>4, <2>6
  <2> QED BY <2>1, <2>6, <2>7, <2>8
<1>10. ASSUME NEW k, NEW i PROVE Carried(AllPlaces(k, i), AllPlaces(k, i)')
  <2> DEFINE L == Queued("local", local_queue, k, i)
             Ln == Queued("local", local_queue', k, i)
             X == Queued("rx", rx, k, i)
             M == Slot(c, m, k, i, <<"hand", 0, 0>>)
  <2>1. Carried(L, Ln \cup M)
    <3>1. PICK old, new : old = local_queue /\ new = local_queue'
      OBVIOUS
    <3>2. old \in MessageQueues /\ new \in MessageQueues /\ old[c] # <<>> /\ m = old[c][Len(old[c])]
      BY <1>1, <1>2, <1>3, <1>6, <3>1
    <3>3. /\ Len(new[c]) = Len(old[c]) - 1
          /\ \A j \in DOMAIN new[c] : new[c][j] = old[c][j]
          /\ \A d \in Threads : d # c => new[d] = old[d]
      BY <1>1, <1>9, <3>1
    <3> HIDE <3>1
    <3>4. Carried(Queued("local", old, k, i), Queued("local", new, k, i) \cup Slot(c, m, k, i, <<"hand", 0, 0>>))
      BY <3>2, <3>3, QueuedFront
    <3> QED BY <3>1, <3>4
  <2>2. X \cap L = {}
    BY KindsDiffer
  <2>3. X = Queued("rx", rx', k, i)
    BY <1>5
  <2> HIDE DEF L, Ln, X, M
  <2>4. Carried(X \cup L, X \cup (Ln \cup M))
    BY <2>1, <2>2, CarriedPart
  <2>5. X \cup L = L \cup X /\ X \cup (Ln \cup M) = Ln \cup X \cup M
    OBVIOUS
  <2>6. Carried(L \cup X, Ln \cup X \cup M)
    BY <2>4, <2>5
  <2> USE DEF L, Ln, X, M
  <2> QED BY <1>3, <1>5, <1>7, <1>8, <2>3, <2>6, TakenCarries DEF TargetInv
<1>11. (\A k \in DOMAIN casts : \A i \in Ids : OneTarget(k, i))'
  BY <1>5, <1>10, MovesKeepTargets DEF TargetInv
<1>12. doing'[c] # None /\ \A d \in Threads : d # c => doing'[d] = doing[d]
  BY <1>3, <1>7, VisitIs DEF TargetInv
<1>13. Idle'
  BY <1>4, <1>4a, <1>12 DEF TargetInv, Idle
<1> QED BY <1>5, <1>11, <1>13 DEF TargetInv, OneToEach

\* RecvMsg: out of the channel, to its first actor.
LEMMA RecvMsgTargets ==
  ASSUME TargetInv, process = "running", NEW c \in Threads, RecvMsg(c), IInv'
  PROVE  TargetInv'
<1>1. PICK q, m : q = rx[c] /\ m = Head(q)
  OBVIOUS
<1>2. /\ q # <<>> /\ Visit(c, m, m.refs) /\ rx' = [rx EXCEPT ![c] = Tail(q)]
      /\ UNCHANGED <<tables, objects, local, resource, local_queue, unsent_messages, strays, outside>>
      /\ pc' = [pc EXCEPT ![c] = "run"] /\ pc[c] = "recv"
  BY <1>1 DEF RecvMsg, Receiving, Goto
<1>3. UNCHANGED <<config, process, tree, unsent_messages, local_queue, strays, accessors, casts>>
  BY <1>2 DEF tables, outside
<1>4. pc'[c] = "run" /\ \A d \in Threads : d # c => pc'[d] = pc[d]
  BY <1>2 DEF TargetInv, IInv, ThreadsOk
<1>5. q \in Seq(Message) /\ 1 \in DOMAIN q /\ m = q[1] /\ rx \in MessageQueues
  BY <1>1, <1>2, EmptySeq DEF TargetInv, IInv, MailOk, MessageQueues
<1>6. m \in Message /\ m.to \in Threads /\ MsgOk(m) /\ m.refs \subseteq Reference
  <2>1. m \in Message
    BY <1>5
  <2>2. MsgOk(m)
    BY <1>1, <1>5 DEF TargetInv, IInv, MailOk
  <2> QED BY <2>1, <2>2 DEF Message
<1>7. doing[c] = None
  BY <1>2 DEF TargetInv, Idle
<1>8. rx'[c] = Tail(q) /\ \A d \in Threads : d # c => rx'[d] = rx[d]
  BY <1>2, <1>5 DEF MessageQueues
<1>9. ASSUME NEW k, NEW i PROVE Carried(AllPlaces(k, i), AllPlaces(k, i)')
  <2> DEFINE L == Queued("local", local_queue, k, i)
             X == Queued("rx", rx, k, i)
             Xn == Queued("rx", rx', k, i)
             M == Slot(c, m, k, i, <<"hand", 0, 0>>)
  <2>1. Carried(X, Xn \cup M)
    <3>1. PICK old, new : old = rx /\ new = rx'
      OBVIOUS
    <3>2. old \in MessageQueues /\ old[c] # <<>> /\ m = Head(old[c])
      BY <1>1, <1>2, <1>5, <3>1
    <3>3. new[c] = Tail(old[c]) /\ \A d \in Threads : d # c => new[d] = old[d]
      BY <1>1, <1>8, <3>1
    <3> HIDE <3>1
    <3>4. Carried(Queued("rx", old, k, i), Queued("rx", new, k, i) \cup Slot(c, m, k, i, <<"hand", 0, 0>>))
      BY <3>2, <3>3, QueuedTail
    <3> QED BY <3>1, <3>4
  <2>2. L \cap X = {}
    BY KindsDiffer
  <2>3. L = Queued("local", local_queue', k, i)
    BY <1>3
  <2> HIDE DEF L, Xn, X, M
  <2>4. Carried(L \cup X, L \cup (Xn \cup M))
    BY <2>1, <2>2, CarriedPart
  <2>5. L \cup (Xn \cup M) = L \cup Xn \cup M
    OBVIOUS
  <2>6. Carried(L \cup X, L \cup Xn \cup M)
    BY <2>4, <2>5
  <2> USE DEF L, Xn, X, M
  <2> QED BY <1>2, <1>3, <1>6, <1>7, <2>3, <2>6, TakenCarries DEF TargetInv
<1>10. (\A k \in DOMAIN casts : \A i \in Ids : OneTarget(k, i))'
  BY <1>3, <1>9, MovesKeepTargets DEF TargetInv
<1>11. doing'[c] # None /\ \A d \in Threads : d # c => doing'[d] = doing[d]
  BY <1>2, <1>6, VisitIs DEF TargetInv
<1>12. Idle'
  BY <1>4, <1>11 DEF TargetInv, Idle
<1> QED BY <1>3, <1>10, <1>12 DEF TargetInv, OneToEach

\* NextOfGroup: the next actor is one that was still to come.
LEMMA NextOfGroupTargets ==
  ASSUME TargetInv, process = "running", NEW c \in Threads, NextOfGroup(c), IInv'
  PROVE  TargetInv'
<1>1. PICK m : m = doing[c]
  OBVIOUS
<1>2. /\ InHandler(c) /\ m.refs # {} /\ Visit(c, m, m.refs)
      /\ UNCHANGED <<tables, pc, objects, local, resource, queues, outside>>
  BY <1>1 DEF NextOfGroup
<1>3. UNCHANGED <<config, process, tree, pc, unsent_messages, local_queue, rx, strays, casts>>
  BY <1>2 DEF tables, outside, queues
<1>4. MsgOk(m) /\ m.to \in Threads /\ m.refs \subseteq Reference
  BY <1>1, <1>2 DEF TargetInv, IInv, HandlersOk, DoingOk
<1>5a. PICK r \in m.refs : \E n :
           /\ n.cast = m.cast /\ n.to = m.to /\ n.refs = m.refs \ {r} /\ n # None
           /\ doing'[c] = n /\ \A d \in Threads : d # c => doing'[d] = doing[d]
           /\ reached' = IF m.to = c THEN reached \cup {<<m.cast, ActorAt(m.to, r.offset).id>>}
                                     ELSE reached
  BY <1>2, <1>4, VisitIs DEF TargetInv
<1>5. PICK n :
           /\ n.cast = m.cast /\ n.to = m.to /\ n.refs = m.refs \ {r} /\ n # None
           /\ doing'[c] = n /\ \A d \in Threads : d # c => doing'[d] = doing[d]
           /\ reached' = IF m.to = c THEN reached \cup {<<m.cast, ActorAt(m.to, r.offset).id>>}
                                     ELSE reached
  BY <1>5a
<1>6. ASSUME NEW k, NEW i PROVE Carried(AllPlaces(k, i), AllPlaces(k, i)')
  <2> DEFINE Q1 == Queued("local", local_queue, k, i)
             Q2 == Queued("rx", rx, k, i)
             K1 == Kept(unsent_messages, k, i)
             K2 == Lost(strays, k, i)
             K3 == InGroup(Threads \ {c}, doing, k, i)
             x == <<"group", c, 0>>
             P == Q1 \cup Q2 \cup K1 \cup K2 \cup K3
             M == Slot(c, m, k, i, x)
             R == Ran(reached, k, i)
             V == Slot(c, n, k, i, x)
             Rn == Ran(reached', k, i)
  <2>1. AllPlaces(k, i)' = P \cup (V \cup Rn)
    <3>1. AllPlaces(k, i)' = Q1 \cup Q2 \cup K1 \cup K2 \cup K3 \cup V \cup Rn
      <4>1. /\ n # None /\ doing'[c] = n /\ \A d \in Threads : d # c => doing'[d] = doing[d]
            /\ tree' = tree /\ unsent_messages' = unsent_messages /\ strays' = strays
        BY <1>3, <1>5
      <4>2. AllPlaces(k, i)' = Queued("local", local_queue', k, i) \cup Queued("rx", rx', k, i)
                              \cup K1 \cup K2 \cup K3 \cup V \cup Rn
        BY ONLY <4>1, PlacesVisited
      <4> QED BY <1>3, <4>2
    <3> HIDE DEF Q1, Q2, K1, K2, K3, V, Rn
    <3> QED BY <3>1
  <2>2. AllPlaces(k, i) = P \cup (M \cup R) /\ x \notin K3
    <3>1. InGroup(Threads, doing, k, i) = K3 \cup M /\ x \notin K3
      <4>1. PICK d : d = doing
        OBVIOUS
      <4>2. d[c] # None /\ d[c] = m
        BY <1>1, <1>2, <4>1 DEF TargetInv, Idle, InHandler
      <4>3. /\ InGroup(Threads, d, k, i) = InGroup(Threads \ {c}, d, k, i) \cup Slot(c, m, k, i, x)
            /\ x \notin InGroup(Threads \ {c}, d, k, i)
        BY <4>2, GroupSplit
      <4> QED BY <4>1, <4>3
    <3>2. AllPlaces(k, i) = Q1 \cup Q2 \cup K1 \cup K2 \cup InGroup(Threads, doing, k, i) \cup R
      BY PlacesByKind
    <3> HIDE DEF Q1, Q2, K1, K2, K3, M, R
    <3> QED BY <3>1, <3>2
  <2>3. x # <<"reached", 0, 0>>
    <3>1. x[1] = "group" /\ <<"reached", 0, 0>>[1] = "reached"
      OBVIOUS
    <3>2. "group" # "reached"
      OBVIOUS
    <3> QED BY <3>1, <3>2
  <2>4. Carried(M \cup R, V \cup Rn)
    <3>1. ThreadsOk
      BY DEF TargetInv, IInv
    <3> HIDE DEF x
    <3> QED BY <1>4, <1>5, <2>3, <3>1, VisitCarries
  <2>5. P \cap (M \cup R) = {}
    <3>1. /\ \A w \in P : w[1] # "reached" /\ (w[1] = "group" => w \in K3)
          /\ \A w \in R : w[1] = "reached"
          /\ \A w \in M : w = x /\ w[1] = "group"
      <4>1. \A w \in M : w = x /\ w[1] = "group"
        BY DEF Slot
      <4>2. \A w \in P : w[1] # "reached" /\ (w[1] = "group" => w \in K3)
        BY KindsDiffer
      <4>3. \A w \in R : w[1] = "reached"
        BY KindsDiffer
      <4> QED BY <4>1, <4>2, <4>3
    <3> HIDE DEF P, M, R, K3, x
    <3> QED BY <2>2, <3>1
  <2> HIDE DEF P, M, R, V, Rn
  <2>6. Carried(P \cup (M \cup R), P \cup (V \cup Rn))
    BY ONLY <2>4, <2>5, CarriedPart
  <2> QED BY <2>1, <2>2, <2>6
<1>7. (\A k \in DOMAIN casts : \A i \in Ids : OneTarget(k, i))'
  BY <1>3, <1>6, MovesKeepTargets DEF TargetInv
<1>8. Idle'
  BY <1>2, <1>3, <1>5 DEF TargetInv, Idle, InHandler
<1> QED BY <1>3, <1>7, <1>8 DEF TargetInv, OneToEach

\* Return: nothing is left of the group.
LEMMA ReturnTargets ==
  ASSUME TargetInv, process = "running", NEW c \in Threads, Return(c), IInv'
  PROVE  TargetInv'
<1>1. /\ InHandler(c) /\ doing[c].refs = {} /\ doing' = [doing EXCEPT ![c] = None]
      /\ pc' = [pc EXCEPT ![c] = IF pc[c] = "first_run" THEN "first" ELSE "drain"]
      /\ UNCHANGED <<tables, objects, local, resource, queues, reached, outside>>
  BY DEF Return, Goto
<1>2. UNCHANGED <<config, process, tree, unsent_messages, local_queue, rx, strays, reached, casts>>
  BY <1>1 DEF tables, outside, queues
<1>3. /\ doing'[c] = None /\ \A d \in Threads : d # c => doing'[d] = doing[d]
      /\ pc'[c] \in {"first", "drain"} /\ \A d \in Threads : d # c => pc'[d] = pc[d]
  BY <1>1 DEF TargetInv, IInv, HandlersOk, ThreadsOk
<1>4. ASSUME NEW k, NEW i PROVE AllPlaces(k, i)' = AllPlaces(k, i)
  <2>1. \A e : ~ (IsFor(c, doing[c], k, i) /\ e = c)
    BY <1>1 DEF IsFor
  <2>2. InGroup(Threads, doing', k, i) = InGroup(Threads, doing, k, i)
    <3>1. /\ \A x : x \in InGroup(Threads, doing, k, i) <=>
               \E e \in Threads : doing[e] # None /\ IsFor(e, doing[e], k, i) /\ x = <<"group", e, 0>>
          /\ \A x : x \in InGroup(Threads, doing', k, i) <=>
               \E e \in Threads : doing'[e] # None /\ IsFor(e, doing'[e], k, i) /\ x = <<"group", e, 0>>
      BY DEF InGroup
    <3>2. \A e \in Threads : doing'[e] # None /\ IsFor(e, doing'[e], k, i)
                               <=> doing[e] # None /\ IsFor(e, doing[e], k, i)
      BY <1>3, <2>1
    <3> QED BY <3>1, <3>2
  <2> QED BY <1>2, <2>2, PlacesByKind, PlacesByKindNext
<1>5. ASSUME NEW k, NEW i PROVE Carried(AllPlaces(k, i), AllPlaces(k, i)')
  BY <1>4 DEF Carried
<1>6. (\A k \in DOMAIN casts : \A i \in Ids : OneTarget(k, i))'
  BY <1>2, <1>5, MovesKeepTargets DEF TargetInv
<1>7. Idle'
  BY <1>3 DEF TargetInv, Idle
<1> QED BY <1>2, <1>6, <1>7 DEF TargetInv, OneToEach

\* Flush: the message is the only one kept for its actors; it joins a channel, and
\* if that is of another context they have lost it.
LEMMA FlushTargets ==
  ASSUME TargetInv, process = "running", NEW c \in Threads, Flush(c), IInv'
  PROVE  TargetInv'
<1>1. PICK m \in unsent_messages[c], d \in Threads :
        /\ rx' = [rx EXCEPT ![d] = Append(@, m)]
        /\ strays' = IF d = m.to THEN strays ELSE strays \cup {m}
        /\ unsent_messages' = [unsent_messages EXCEPT ![c] = @ \ {m}]
        /\ pc' = IF unsent_messages[c] = {m} THEN [pc EXCEPT ![c] = "recv"] ELSE pc
  BY FlushIs DEF TargetInv
<1>2. pc[c] = "drain" /\ UNCHANGED <<config, process, tree, local_queue, doing, reached, casts>>
  BY DEF Flush, Settled, tables, handler, outside
<1>3. PICK u, v, q, r : u = unsent_messages /\ v = unsent_messages' /\ q = rx /\ r = rx'
  OBVIOUS
<1>4. /\ v[c] = u[c] \ {m} /\ \A e \in Threads : e # c => v[e] = u[e]
      /\ \A e \in Threads : OneToEach(u[e])
      /\ m \in u[c] /\ m \in Message
  BY <1>1, <1>3 DEF TargetInv, IInv, MailOk
<1>5. Joins(m, d, q, r)
  <2>1. q \in MessageQueues
    BY <1>3 DEF TargetInv, IInv, MailOk, MessageQueues
  <2> QED BY <1>1, <1>3, <1>4, <2>1 DEF Joins, MessageQueues
<1>6. Idle'
  <2>1. pc'[c] \in {"recv", "drain"} /\ \A e \in Threads : e # c => pc'[e] = pc[e]
    BY <1>1, <1>2 DEF TargetInv, IInv, ThreadsOk
  <2> QED BY <1>2, <2>1 DEF TargetInv, Idle
<1>7. \A e \in Threads : OneToEach(v[e])
  BY <1>4 DEF OneToEach
<1>8. ASSUME NEW k, NEW i PROVE Carried(AllPlaces(k, i), AllPlaces(k, i)')
  <2> DEFINE K == Kept(u, k, i)
             Kn == Kept(v, k, i)
             H == Lost(strays, k, i)
             Hn == Lost(strays', k, i)
             X == Queued("rx", q, k, i)
             Xn == Queued("rx", r, k, i)
             P1 == Queued("local", local_queue, k, i)
             P2 == InGroup(Threads, doing, k, i)
             P3 == Ran(reached, k, i)
             P == P1 \cup P2 \cup P3
             A == K \cup H \cup X
             B == Kn \cup Hn \cup Xn
             U == <<"unsent", c, m.to>>
             Y == <<"lost", m.to, 0>>
             Z == <<"rx", d, Len(q[d]) + 1>>
             M == Slot(d, m, k, i, Z)
  <2>1. AllPlaces(k, i) = P \cup A /\ AllPlaces(k, i)' = P \cup B
    <3>1. /\ AllPlaces(k, i) = P1 \cup X \cup K \cup H \cup P2 \cup P3
          /\ AllPlaces(k, i)' = P1 \cup Xn \cup Kn \cup Hn \cup P2 \cup P3
      BY <1>2, <1>3, PlacesByKind, PlacesByKindNext
    <3> HIDE DEF P1, P2, P3, K, Kn, H, Hn, X, Xn
    <3> QED BY <3>1
  <2>2. /\ \A x \in P : x[1] \in {"local", "group", "reached"}
        /\ \A x \in A : x[1] \in {"unsent", "lost", "rx"}
        /\ \A x \in H : x[1] = "lost"
        /\ \A x \in X : x[1] = "rx"
    BY KindsDiffer
  <2>3. Xn = X \cup M
    BY ONLY <1>5, QueuedAppend
  <2>4. /\ \A x : x \in K <=> \E e \in Threads : \E n \in u[e] : IsFor(n.to, n, k, i) /\ x = <<"unsent", e, n.to>>
        /\ \A x : x \in Kn <=> \E e \in Threads : \E n \in v[e] : IsFor(n.to, n, k, i) /\ x = <<"unsent", e, n.to>>
        /\ \A x : x \in H <=> \E n \in strays : IsFor(n.to, n, k, i) /\ x = <<"lost", n.to, 0>>
        /\ \A x : x \in Hn <=> \E n \in strays' : IsFor(n.to, n, k, i) /\ x = <<"lost", n.to, 0>>
    BY DEF Kept, Lost
  <2>5. M = IF IsFor(m.to, m, k, i) /\ d = m.to THEN {Z} ELSE {}
    BY DEF Slot, IsFor
  <2>6. \A n : n \in strays' <=> n \in strays \/ (n = m /\ d # m.to)
    BY <1>1
  <2> HIDE DEF P, K, Kn, H, Hn, X, Xn, Z, M
  <2>7. ASSUME ~ IsFor(m.to, m, k, i) PROVE B = A
    <3>1. \A x : x \in Kn <=> x \in K
      BY <1>4, <2>4, <2>7
    <3>2. \A x : x \in Hn <=> x \in H
      BY <2>4, <2>6, <2>7
    <3> QED BY <2>3, <2>5, <2>7, <3>1, <3>2
  <2>8. ASSUME IsFor(m.to, m, k, i) PROVE U \in K
    BY <1>4, <2>4, <2>8
  <2>9. ASSUME IsFor(m.to, m, k, i), NEW x, A = {x} PROVE B = {Y} \/ B = {Z}
    <3>1. x = U /\ x[1] = "unsent"
      BY <2>8, <2>9
    <3>2. H = {} /\ X = {}
      BY <2>2, <2>9, <3>1
    <3>3. ASSUME NEW w \in Kn PROVE FALSE
      <4>1. PICK e \in Threads : \E n \in v[e] : IsFor(n.to, n, k, i) /\ w = <<"unsent", e, n.to>>
        BY <2>4
      <4>2. PICK n \in v[e] : IsFor(n.to, n, k, i) /\ w = <<"unsent", e, n.to>>
        BY <4>1
      <4>3. n \in u[e] /\ w \in K
        BY <1>4, <2>4, <4>2
      <4>4. <<"unsent", e, n.to>> = <<"unsent", c, m.to>>
        BY <2>9, <3>1, <4>2, <4>3
      <4>5. e = c /\ n.to = m.to
        BY <4>4
      <4>6. n \in u[c] /\ n # m /\ n.cast = m.cast
        BY <1>4, <2>9, <4>2, <4>5 DEF IsFor
      <4> QED BY <1>4, <4>5, <4>6 DEF OneToEach
    <3>4. Kn = {}
      BY <3>3
    <3>5. CASE d = m.to
      <4>1. Hn = H
        BY <2>4, <2>6, <3>5
      <4> QED BY <2>3, <2>5, <2>9, <3>2, <3>4, <3>5, <4>1
    <3>6. CASE d # m.to
      <4>1. \A w : w \in Hn <=> w = Y
        BY <2>4, <2>6, <2>9, <3>2, <3>6
      <4>2. Hn = {Y}
        BY <4>1
      <4> QED BY <2>3, <2>5, <3>2, <3>4, <3>6, <4>2
    <3> QED BY <3>5, <3>6
  <2>10. Carried(A, B)
    <3> HIDE DEF B, U, Y
    <3>1. CASE IsFor(m.to, m, k, i)
      BY <2>8, <2>9, <3>1 DEF Carried
    <3>2. CASE ~ IsFor(m.to, m, k, i)
      BY <2>7, <3>2 DEF Carried
    <3> QED BY <3>1, <3>2
  <2>11. P \cap A = {}
    BY <2>2
  <2> HIDE DEF A, B
  <2>12. Carried(P \cup A, P \cup B)
    BY ONLY <2>10, <2>11, CarriedPart
  <2> QED BY <2>1, <2>12
<1>9. (\A k \in DOMAIN casts : \A i \in Ids : OneTarget(k, i))'
  BY <1>2, <1>8, MovesKeepTargets DEF TargetInv
<1> QED BY <1>2, <1>3, <1>6, <1>7, <1>9 DEF TargetInv, OneToEach

------------------------------------------------------------------------------
(***************************************************************************)
(* A message is sent.                                                      *)
(***************************************************************************)

\* What has not been cast is nowhere.
LEMMA NotYetCast ==
  ASSUME IInv, NEW k, k \notin DOMAIN casts, NEW i
  PROVE  AllPlaces(k, i) = {}
<1>1. \A c, m : MsgOk(m) => ~ IsFor(c, m, k, i)
  BY DEF MsgOk, IsFor
<1>2. \A c \in Threads :
        /\ \A j \in DOMAIN local_queue[c] : MsgOk(local_queue[c][j])
        /\ \A j \in DOMAIN rx[c] : MsgOk(rx[c][j])
        /\ \A m \in unsent_messages[c] : MsgOk(m)
        /\ doing[c] # None => MsgOk(doing[c])
  BY DEF IInv, MailOk, HandlersOk, DoingOk
<1>3. \A m \in strays : MsgOk(m)
  BY DEF IInv, MailOk
<1>4. <<k, i>> \notin reached
  BY DEF IInv, HandlersOk
<1>5. /\ Queued("local", local_queue, k, i) = {} /\ Queued("rx", rx, k, i) = {}
      /\ Kept(unsent_messages, k, i) = {}
  BY <1>1, <1>2 DEF Queued, Kept
<1>6. Lost(strays, k, i) = {} /\ Ran(reached, k, i) = {}
  BY <1>1, <1>3, <1>4 DEF Lost, Ran
<1>7. InGroup(Threads, doing, k, i) = {}
  BY <1>1, <1>2 DEF InGroup
<1> QED BY <1>5, <1>6, <1>7, PlacesByKind

\* The references that gs has for each context are to the actors ids, each once.
Covers(gs, ids) ==
  /\ DOMAIN gs \subseteq Threads
  /\ \A d \in DOMAIN gs : \A r \in gs[d] : RefOk(d, r, ids)
  /\ \A i \in ids : \E d \in DOMAIN gs : \E r \in gs[d] : \E e \in Own(d) :
       e.id = i /\ e.loc.offset = r.offset

\* Each actor is covered by the references of one context.
LEMMA CoversOnce ==
  ASSUME ThreadsOk, process = "running", NEW gs, NEW ids, Covers(gs, ids), NEW i
  PROVE  /\ i \in ids => \E d \in DOMAIN gs : \E r \in gs[d] : ActorAt(d, r.offset).id = i
         /\ \A d \in DOMAIN gs : \A r \in gs[d] : ActorAt(d, r.offset).id = i => i \in ids
         /\ \A d, x \in DOMAIN gs : \A r \in gs[d], y \in gs[x] :
              ActorAt(d, r.offset).id = i /\ ActorAt(x, y.offset).id = i => d = x
<1>1. Placed /\ config \in Configs
  BY RunningIs
<1>2. \A d : \A e \in Own(d) : ActorAt(d, e.loc.offset) = e
  BY <1>1, ActorAtIs
<1>3. \A d \in DOMAIN gs : \A r \in gs[d] : \E e \in Own(d) : ActorAt(d, r.offset) = e /\ e.id \in ids
  BY <1>2 DEF Covers, RefOk
<1>4. \A d, x : \A e \in Own(d), f \in Own(x) : e.id = f.id => d = x
  BY <1>1, Entries DEF Own
<1>5. ASSUME i \in ids PROVE \E d \in DOMAIN gs : \E r \in gs[d] : ActorAt(d, r.offset).id = i
  BY <1>2, <1>5 DEF Covers
<1>6. ASSUME NEW d \in DOMAIN gs, NEW r \in gs[d], ActorAt(d, r.offset).id = i PROVE i \in ids
  BY <1>3, <1>6
<1>7. ASSUME NEW d \in DOMAIN gs, NEW x \in DOMAIN gs, NEW r \in gs[d], NEW y \in gs[x],
             ActorAt(d, r.offset).id = i, ActorAt(x, y.offset).id = i
      PROVE  d = x
  BY <1>3, <1>4, <1>7
<1> QED BY <1>5, <1>6, <1>7

\* One cast more.
LEMMA CastsAppend ==
  ASSUME casts \in Seq(SUBSET Ids), NEW ids \in SUBSET Ids, casts' = Append(casts, ids),
         NEW n, n = Len(casts) + 1
  PROVE  /\ n \in Nat /\ n \notin DOMAIN casts /\ \A k : k \in DOMAIN casts' <=> k \in DOMAIN casts \/ k = n
         /\ casts'[n] = ids /\ \A k \in DOMAIN casts : casts'[k] = casts[k]
<1>1. /\ Len(casts) \in Nat /\ DOMAIN casts = 1 .. Len(casts) /\ DOMAIN casts' = 1 .. Len(casts) + 1
      /\ casts'[Len(casts) + 1] = ids /\ \A k \in 1 .. Len(casts) : casts'[k] = casts[k]
  BY AppendProperties
<1>2. PICK l : l = Len(casts)
  OBVIOUS
<1>3. /\ l \in Nat /\ n = l + 1 /\ DOMAIN casts = 1 .. l /\ DOMAIN casts' = 1 .. l + 1
      /\ casts'[n] = ids /\ \A k \in 1 .. l : casts'[k] = casts[k]
  BY <1>1, <1>2
<1>4. \A k : k \in 1 .. l + 1 <=> k \in 1 .. l \/ k = l + 1
  BY <1>3
<1>5. l + 1 \notin 1 .. l
  BY <1>3
<1> QED BY <1>3, <1>4, <1>5

\* Post: the new message is in one place for each of ids.
LEMMA PostTargets ==
  ASSUME TargetInv, process = "running", NEW c \in Threads, NEW ids \in SUBSET Ids, NEW gs,
         Covers(gs, ids), Post(c, ids, gs), IInv'
  PROVE  TargetInv'
<1>0. PICK n : n = Len(casts) + 1
  OBVIOUS
<1> DEFINE Msg(d) == [cast |-> n, to |-> d, refs |-> gs[d]]
<1>1. /\ casts' = Append(casts, ids)
      /\ local_queue' = [local_queue EXCEPT ![c] = IF c \in DOMAIN gs THEN Append(@, Msg(c)) ELSE @]
      /\ unsent_messages' = [unsent_messages EXCEPT ![c] = @ \cup {Msg(d) : d \in Others(c, gs)}]
      /\ UNCHANGED <<tables, pc, objects, local, resource, rx, strays, handler, accessors>>
  BY <1>0 DEF Post
<1>2. UNCHANGED <<config, process, tree, rx, strays, doing, reached, pc>>
  BY <1>1 DEF tables, handler
<1>3. /\ casts \in Seq(SUBSET Ids) /\ local_queue \in MessageQueues
      /\ unsent_messages \in [Threads -> SUBSET Message] /\ ThreadsOk
  BY DEF TargetInv, IInv, MailOk, MessageQueues
<1>4. /\ n \in Nat /\ n \notin DOMAIN casts /\ \A k : k \in DOMAIN casts' <=> k \in DOMAIN casts \/ k = n
      /\ casts'[n] = ids /\ \A k \in DOMAIN casts : casts'[k] = casts[k]
  BY <1>0, <1>1, <1>3, CastsAppend
<1>5. \A d : Msg(d).cast = n /\ Msg(d).to = d /\ Msg(d).refs = gs[d]
  OBVIOUS
<1>6. PICK lq, ln, u, v : lq = local_queue /\ ln = local_queue' /\ u = unsent_messages /\ v = unsent_messages'
  OBVIOUS
<1>7. /\ ln[c] = (IF c \in DOMAIN gs THEN Append(lq[c], Msg(c)) ELSE lq[c])
      /\ \A d \in Threads : d # c => ln[d] = lq[d]
      /\ v[c] = u[c] \cup {Msg(d) : d \in Others(c, gs)} /\ \A d \in Threads : d # c => v[d] = u[d]
      /\ lq \in MessageQueues
  BY <1>1, <1>3, <1>6 DEF MessageQueues
<1> HIDE DEF Msg
<1>8. \A k, i, d : d \in DOMAIN gs =>
        (IsFor(d, Msg(d), k, i) <=> k = n /\ \E r \in gs[d] : ActorAt(d, r.offset).id = i)
  BY <1>5 DEF IsFor
<1> DEFINE X == <<"local", c, Len(lq[c]) + 1>>
           NL(k, i) == IF c \in DOMAIN gs /\ IsFor(c, Msg(c), k, i) THEN {X} ELSE {}
           NK(k, i) == {<<"unsent", c, d>> : d \in {x \in DOMAIN gs \ {c} : IsFor(x, Msg(x), k, i)}}
<1>9. ASSUME NEW k, NEW i PROVE AllPlaces(k, i)' = AllPlaces(k, i) \cup (NL(k, i) \cup NK(k, i))
  <2> DEFINE L == Queued("local", lq, k, i)
             Ln == Queued("local", ln, k, i)
             K == Kept(u, k, i)
             Kn == Kept(v, k, i)
             P1 == Queued("rx", rx, k, i)
             P2 == Lost(strays, k, i)
             P3 == InGroup(Threads, doing, k, i)
             P4 == Ran(reached, k, i)
  <2>1. Ln = L \cup NL(k, i)
    <3>1. CASE c \in DOMAIN gs
      <4>1. PICK m : m = Msg(c)
        OBVIOUS
      <4>2. m \in Message
        <5>1. m = [cast |-> n, to |-> c, refs |-> gs[c]]
          BY <4>1 DEF Msg
        <5>2. \A r \in gs[c] : r \in Reference
          BY <3>1 DEF Covers, RefOk
        <5> QED BY <1>4, <5>1, <5>2 DEF Message
      <4>3. ln[c] = Append(lq[c], m)
        BY <1>7, <3>1, <4>1
      <4>4. Ln = L \cup Slot(c, m, k, i, <<"local", c, Len(lq[c]) + 1>>)
        <5>1. Joins(m, c, lq, ln)
          BY ONLY <1>7, <4>2, <4>3 DEF Joins
        <5> QED BY ONLY <5>1, QueuedAppend
      <4>5. NL(k, i) = Slot(c, m, k, i, <<"local", c, Len(lq[c]) + 1>>)
        BY <3>1, <4>1 DEF Slot
      <4> QED BY <4>4, <4>5
    <3>2. CASE c \notin DOMAIN gs
      <4>1. \A d \in Threads : ln[d] = lq[d]
        BY <1>7, <3>2
      <4> QED BY <3>2, <4>1 DEF Queued
    <3> QED BY <3>1, <3>2
  <2>2. Kn = K \cup NK(k, i)
    <3>1. /\ \A x : x \in K <=> \E d \in Threads : \E m \in u[d] : IsFor(m.to, m, k, i) /\ x = <<"unsent", d, m.to>>
          /\ \A x : x \in Kn <=> \E d \in Threads : \E m \in v[d] : IsFor(m.to, m, k, i) /\ x = <<"unsent", d, m.to>>
      BY DEF Kept
    <3>2. \A m : m \in v[c] <=> m \in u[c] \/ \E d \in DOMAIN gs \ {c} : m = Msg(d)
      BY <1>7 DEF Others
    <3>3. \A x \in Kn : x \in K \/ x \in NK(k, i)
      BY <1>5, <1>7, <3>1, <3>2
    <3>4. \A x \in K : x \in Kn
      BY <1>7, <3>1, <3>2
    <3>5. \A x \in NK(k, i) : x \in Kn
      BY <1>5, <3>1, <3>2
    <3> HIDE DEF K, Kn, NK
    <3> QED BY <3>3, <3>4, <3>5
  <2>3. /\ AllPlaces(k, i) = L \cup P1 \cup K \cup P2 \cup P3 \cup P4
        /\ AllPlaces(k, i)' = Ln \cup P1 \cup Kn \cup P2 \cup P3 \cup P4
    BY <1>2, <1>6, PlacesByKind, PlacesByKindNext
  <2> HIDE DEF L, Ln, K, Kn, NL, NK, P1, P2, P3, P4
  <2> QED BY <2>1, <2>2, <2>3
<1>10. ASSUME NEW k \in DOMAIN casts', NEW i \in Ids PROVE OneTarget(k, i)'
  <2>1. CASE k # n
    <3>1. NL(k, i) = {} /\ NK(k, i) = {}
      BY <1>8, <2>1
    <3>2. AllPlaces(k, i)' = AllPlaces(k, i)
      BY <1>9, <3>1
    <3>3. k \in DOMAIN casts /\ casts'[k] = casts[k] /\ OneTarget(k, i)
      BY <1>4, <1>10, <2>1 DEF TargetInv
    <3> QED BY <3>2, <3>3 DEF OneTarget
  <2>2. CASE k = n
    <3>1. AllPlaces(k, i) = {}
      BY <1>4, <2>2, NotYetCast DEF TargetInv
    <3>2. AllPlaces(k, i)' = NL(k, i) \cup NK(k, i)
      BY <1>9, <3>1
    <3>3. CASE i \notin ids
      <4>1. \A d \in DOMAIN gs : ~ IsFor(d, Msg(d), k, i)
        BY <1>3, <1>8, <3>3, CoversOnce
      <4>2. NL(k, i) = {} /\ NK(k, i) = {}
        BY <4>1
      <4> QED BY <1>4, <2>2, <3>2, <3>3, <4>2 DEF OneTarget
    <3>4. CASE i \in ids
      <4>1. PICK d \in DOMAIN gs : \E r \in gs[d] : ActorAt(d, r.offset).id = i
        BY <1>3, <3>4, CoversOnce
      <4>2. \A x \in DOMAIN gs : IsFor(x, Msg(x), k, i) <=> x = d
        <5>1. \A x \in DOMAIN gs : \A y \in gs[x] : ActorAt(x, y.offset).id = i => x = d
          <6>1. \A x, z \in DOMAIN gs : \A r \in gs[x], y \in gs[z] :
                  ActorAt(x, r.offset).id = i /\ ActorAt(z, y.offset).id = i => x = z
            BY <1>3, CoversOnce
          <6> QED BY <4>1, <6>1
        <5>2. \A x \in DOMAIN gs : IsFor(x, Msg(x), k, i) <=> \E r \in gs[x] : ActorAt(x, r.offset).id = i
          BY <1>8, <2>2
        <5> QED BY <4>1, <5>1, <5>2
      <4>3. CASE d = c
        <5>1. NL(k, i) = {X} /\ NK(k, i) = {}
          BY <4>1, <4>2, <4>3
        <5> HIDE DEF X, NL, NK
        <5>2. AllPlaces(k, i)' = {X}
          BY <3>2, <5>1
        <5> QED BY <1>4, <2>2, <3>4, <5>2 DEF OneTarget
      <4>4. CASE d # c
        <5>1. NL(k, i) = {} /\ NK(k, i) = {<<"unsent", c, d>>}
          BY <4>1, <4>2, <4>4
        <5>2. AllPlaces(k, i)' = {<<"unsent", c, d>>}
          BY <3>2, <5>1
        <5> QED BY <1>4, <2>2, <3>4, <5>2 DEF OneTarget
      <4> QED BY <4>3, <4>4
    <3> QED BY <3>3, <3>4
  <2> QED BY <2>1, <2>2
<1>11. ASSUME NEW d \in Threads PROVE OneToEach(v[d])
  <2>1. OneToEach(u[d]) /\ \A m \in u[d] : m.cast # n
    BY <1>4, <1>6 DEF TargetInv, IInv, MailOk, MsgOk
  <2>2. CASE d # c
    BY <1>7, <2>1, <2>2
  <2>3. CASE d = c
    <3>1. \A m : m \in v[c] <=> m \in u[c] \/ \E x \in DOMAIN gs \ {c} : m = Msg(x)
      BY <1>7 DEF Others
    <3> QED BY <1>5, <2>1, <2>3, <3>1 DEF OneToEach
  <2> QED BY <2>2, <2>3
<1>12. Idle' /\ Ids' = Ids /\ process' # "config"
  BY <1>2 DEF TargetInv, Idle, Ids
<1> QED BY <1>6, <1>10, <1>11, <1>12 DEF TargetInv, OneToEach

\* SendMsg: one actor.
LEMMA SendTargets ==
  ASSUME TargetInv, process = "running", NEW c \in Threads, NEW q \in Query, NEW e \in tree,
         SendMsg(c, e, q), IInv'
  PROVE  TargetInv'
<1> DEFINE gs == [d \in {e.loc.context} |-> {Ref(e, q)}]
           ids == {e.id}
<1>1. Post(c, ids, gs) /\ e \in LookupOf(tree, q)
  BY DEF SendMsg
<1>2. RefOk(e.loc.context, Ref(e, q), ids) /\ e.loc.context \in Threads /\ e.id \in Ids
  BY <1>1, RefIs DEF TargetInv, IInv
<1>3. e \in Own(e.loc.context) /\ e.loc.offset = Ref(e, q).offset
  BY DEF Own, Ref
<1>4. ids \in SUBSET Ids /\ Covers(gs, ids)
  BY <1>2, <1>3 DEF Covers
<1> HIDE DEF gs, ids
<1> QED BY <1>1, <1>4, PostTargets

\* Broadcast: all that match.
LEMMA BroadcastTargets ==
  ASSUME TargetInv, process = "running", NEW c \in Threads, NEW q \in Query, Broadcast(c, q), IInv'
  PROVE  TargetInv'
<1> DEFINE gs == Group(tree, q)
           ids == {e.id : e \in LookupOf(tree, q)}
<1>1. Post(c, ids, gs)
  BY DEF Broadcast
<1>2. \A e \in LookupOf(tree, q) :
        RefOk(e.loc.context, Ref(e, q), ids) /\ e.loc.context \in Threads /\ e.id \in Ids
  BY RefIs DEF TargetInv, IInv
<1>3. /\ ids \in SUBSET Ids /\ DOMAIN gs \subseteq Threads
      /\ \A d \in DOMAIN gs : \A r \in gs[d] : RefOk(d, r, ids)
  BY <1>2 DEF Group
<1>4. ASSUME NEW i \in ids
      PROVE  \E d \in DOMAIN gs : \E r \in gs[d] : \E e \in Own(d) : e.id = i /\ e.loc.offset = r.offset
  <2>1. PICK e \in LookupOf(tree, q) : e.id = i
    OBVIOUS
  <2>2. e \in Own(e.loc.context) /\ e.loc.offset = Ref(e, q).offset
    BY DEF Own, Ref, LookupOf
  <2>3. e.loc.context \in DOMAIN gs /\ Ref(e, q) \in gs[e.loc.context]
    BY DEF Group
  <2> QED BY <2>1, <2>2, <2>3
<1> HIDE DEF gs, ids
<1>5. Covers(gs, ids)
  BY <1>3, <1>4 DEF Covers
<1> QED BY <1>1, <1>3, <1>5, PostTargets

\* AccessorSend: the actor that the accessor is to.
LEMMA AccessorSendTargets ==
  ASSUME TargetInv, process = "running", NEW a \in accessors, AccessorSend(a), IInv'
  PROVE  TargetInv'
<1> DEFINE d == a.context
<1>0. PICK n, j : n = Len(casts) + 1 /\ j = ActorAt(d, a.ref.offset).id
  OBVIOUS
<1> DEFINE ids == {j}
<1>0a. PICK m : m = [cast |-> n, to |-> d, refs |-> {a.ref}]
  OBVIOUS
<1>1. /\ casts' = Append(casts, ids) /\ rx' = [rx EXCEPT ![d] = Append(@, m)]
      /\ UNCHANGED <<tables, pc, objects, local, resource, local_queue, unsent_messages,
                     strays, handler, accessors>>
  BY <1>0, <1>0a DEF AccessorSend
<1>2. UNCHANGED <<config, process, tree, local_queue, unsent_messages, strays, doing, reached, pc>>
  BY <1>1 DEF tables, handler
<1>3. /\ casts \in Seq(SUBSET Ids) /\ rx \in MessageQueues /\ d \in Threads /\ RefOk(d, a.ref, Ids)
  BY DEF TargetInv, IInv, MailOk, MessageQueues
<1>4. j \in Ids
  <2>1. PICK e \in Own(d) : e.loc.offset = a.ref.offset /\ e.id \in Ids
    BY <1>3 DEF RefOk
  <2>2. ActorAt(d, a.ref.offset) = e
    BY <2>1, RunningIs, ActorAtIs DEF TargetInv, IInv
  <2> QED BY <1>0, <2>1, <2>2
<1>5. /\ n \in Nat /\ n \notin DOMAIN casts /\ \A k : k \in DOMAIN casts' <=> k \in DOMAIN casts \/ k = n
      /\ casts'[n] = ids /\ \A k \in DOMAIN casts : casts'[k] = casts[k]
  BY <1>0, <1>1, <1>3, <1>4, CastsAppend
<1>6. m \in Message /\ m.cast = n /\ m.to = d /\ m.refs = {a.ref}
  BY <1>0a, <1>3, <1>5 DEF Message, RefOk
<1>7. \A k, i : IsFor(d, m, k, i) <=> k = n /\ i = j
  BY <1>0, <1>6 DEF IsFor
<1>8. PICK q, r : q = rx /\ r = rx'
  OBVIOUS
<1>9. q \in MessageQueues /\ r[d] = Append(q[d], m) /\ \A x \in Threads : x # d => r[x] = q[x]
  BY <1>1, <1>3, <1>8 DEF MessageQueues
<1>9a. Joins(m, d, q, r)
  <2>1. d \in Threads /\ m \in Message
    BY <1>3, <1>6
  <2> QED BY ONLY <1>9, <2>1 DEF Joins
<1>9b. ASSUME NEW k, NEW i
       PROVE  Queued("rx", r, k, i) = Queued("rx", q, k, i) \cup Slot(d, m, k, i, <<"rx", d, Len(q[d]) + 1>>)
  <2> HIDE DEF d
  <2> QED BY ONLY <1>9a, QueuedAppend
<1> DEFINE X == <<"rx", d, Len(q[d]) + 1>>
<1>10. ASSUME NEW k, NEW i PROVE AllPlaces(k, i)' = AllPlaces(k, i) \cup Slot(d, m, k, i, X)
  <2> DEFINE Q == Queued("rx", q, k, i)
             Qn == Queued("rx", r, k, i)
             P1 == Queued("local", local_queue, k, i)
             P2 == Kept(unsent_messages, k, i)
             P3 == Lost(strays, k, i)
             P4 == InGroup(Threads, doing, k, i)
             P5 == Ran(reached, k, i)
             M == Slot(d, m, k, i, X)
  <2>1. Qn = Q \cup M
    BY <1>9b
  <2>2. /\ AllPlaces(k, i) = P1 \cup Q \cup P2 \cup P3 \cup P4 \cup P5
        /\ AllPlaces(k, i)' = P1 \cup Qn \cup P2 \cup P3 \cup P4 \cup P5
    BY <1>2, <1>8, PlacesByKind, PlacesByKindNext
  <2> HIDE DEF Q, Qn, P1, P2, P3, P4, P5, M
  <2>3. AllPlaces(k, i)' = AllPlaces(k, i) \cup M
    BY <2>1, <2>2
  <2> QED BY <2>3 DEF M
<1> HIDE DEF X
<1>11. ASSUME NEW k \in DOMAIN casts', NEW i \in Ids PROVE OneTarget(k, i)'
  <2>1. CASE k # n
    <3>1. AllPlaces(k, i)' = AllPlaces(k, i)
      BY <1>7, <1>10, <2>1 DEF Slot
    <3>2. k \in DOMAIN casts /\ casts'[k] = casts[k] /\ OneTarget(k, i)
      BY <1>5, <1>11, <2>1 DEF TargetInv
    <3> QED BY <3>1, <3>2 DEF OneTarget
  <2>2. CASE k = n
    <3>1. AllPlaces(k, i) = {}
      BY <1>5, <2>2, NotYetCast DEF TargetInv
    <3>2. AllPlaces(k, i)' = IF i = j THEN {X} ELSE {}
      BY <1>7, <1>10, <2>2, <3>1 DEF Slot
    <3>3. i \in casts'[k] <=> i = j
      BY <1>5, <2>2
    <3>4. i = j => \E x : AllPlaces(k, i)' = {x}
      BY <3>2
    <3> QED BY <3>2, <3>3, <3>4 DEF OneTarget
  <2> QED BY <2>1, <2>2
<1>12. Idle' /\ Ids' = Ids /\ process' # "config"
  BY <1>2 DEF TargetInv, Idle, Ids
<1> QED BY <1>2, <1>11, <1>12 DEF TargetInv, OneToEach

------------------------------------------------------------------------------
(***************************************************************************)
(* The invariant holds.                                                    *)
(***************************************************************************)
\* Nothing is cast yet.
LEMMA TargetInit == Init => TargetInv
<1> SUFFICES ASSUME Init PROVE TargetInv
  OBVIOUS
<1>1. IInv
  BY IInvInit
<1>2. casts = <<>> /\ DOMAIN casts = {}
  BY DEF Init
<1>3. Idle /\ \A c \in Threads : OneToEach(unsent_messages[c])
  BY DEF Init, Idle, OneToEach
<1> QED BY <1>1, <1>2, <1>3 DEF TargetInv

\* Every step keeps the invariant.
LEMMA TargetStep == TargetInv /\ [Next]_vars => TargetInv'
<1> SUFFICES ASSUME TargetInv, [Next]_vars PROVE TargetInv'
  OBVIOUS
<1>0. IInv'
  BY IInvStep DEF TargetInv
<1>1. CASE UNCHANGED vars
  BY <1>0, <1>1, TargetsStay DEF vars, tables, outside
<1>2. CASE Main
  <2>1. CASE Reject \/ RejectType
    BY <1>0, <2>1, TargetsStay DEF Reject, RejectType, End, outside
  <2>2. CASE Start
    <3>1. /\ process = "config" /\ process' = "running"
          /\ \A c \in Threads : pc'[c] \in {"init", "unborn"}
          /\ UNCHANGED <<unsent_messages, casts, doing>>
      BY <2>2 DEF Start, queues, handler, outside
    <3>2. casts' = <<>> /\ DOMAIN casts' = {}
      BY <3>1 DEF TargetInv
    <3>3. \A c \in Threads : pc[c] = "unborn"
      BY <3>1 DEF TargetInv, IInv, ThreadsOk, Blank
    <3>4. Idle' /\ \A c \in Threads : OneToEach(unsent_messages'[c])
      BY <3>1, <3>3 DEF TargetInv, Idle
    <3> QED BY <1>0, <3>1, <3>2, <3>4 DEF TargetInv, OneToEach
  <2> QED BY <1>2, <2>1, <2>2 DEF Main
<1>3. CASE Running
  <2>0. process = "running" /\ pc \in [Threads -> Steps]
    BY <1>3 DEF Running, TargetInv, IInv, ThreadsOk
  <2>1. ASSUME UNCHANGED <<tables, queues, handler, casts>>, NEW c \in Threads, NEW l \in Steps,
               pc' = [pc EXCEPT ![c] = l], l \notin {"first_run", "run"},
               pc[c] \in {"first_run", "run"} => l \in {"unwinding", "gone"},
               pc[c] \in {"unwinding", "gone"} => l \in {"unwinding", "gone"}
        PROVE  TargetInv'
    <3>1. UNCHANGED <<config, tree, queues, handler, casts>> /\ process' # "config"
      BY <2>0, <2>1 DEF tables
    <3>2. pc'[c] = l /\ \A d \in Threads : d # c => pc'[d] = pc[d]
      BY <2>0, <2>1
    <3> QED BY <1>0, <2>1, <3>1, <3>2, TargetsStay
  <2>2. ASSUME UNCHANGED <<config, tree, pc, queues, handler, casts>>, process' # "config" PROVE TargetInv'
    BY <1>0, <2>2, TargetsStay
  <2>3. ASSUME NEW a \in accessors, AccessorSend(a) PROVE TargetInv'
    BY <1>0, <2>0, <2>3, AccessorSendTargets
  <2>4. ASSUME NEW c \in Threads, SetUp(c) PROVE TargetInv'
    <3>1. CASE Construct(c)
      BY <2>0, <2>2, <3>1 DEF Construct, tables, outside
    <3>2. CASE MakeResource(c) \/ ResourceReady(c)
      BY <2>1, <3>2 DEF MakeResource, ResourceReady, Goto, Steps, outside
    <3>3. CASE FinishInit(c)
      BY <2>1, <3>3 DEF FinishInit, Goto, Steps, outside
    <3>4. CASE CycleDetected(c)
      BY <2>2, <3>4 DEF CycleDetected, End, outside
    <3> QED BY <2>4, <3>1, <3>2, <3>3, <3>4 DEF SetUp
  <2>5. ASSUME NEW c \in Threads, Constructor(c) PROVE TargetInv'
    <3>1. CASE ConstructFails(c)
      BY <2>2, <3>1 DEF ConstructFails, End, outside
    <3>2. CASE GetResource(c)
      BY <2>1, <3>2 DEF GetResource, Constructing, Goto, Steps, outside
    <3>3. ASSUME NEW q \in Query, AcyclicLocalKey(c, q) PROVE TargetInv'
      BY <2>0, <2>2, <3>3 DEF AcyclicLocalKey, tables, outside
    <3>4. ASSUME NEW q \in Query, NEW e \in tree, MakeAccessor(c, e, q) PROVE TargetInv'
      BY <2>0, <2>2, <3>4 DEF MakeAccessor, tables
    <3> QED BY <2>5, <3>1, <3>2, <3>3, <3>4 DEF Constructor
  <2>6. ASSUME NEW c \in Threads, Handling(c) PROVE TargetInv'
    <3>1. ASSUME NEW q \in Query, Broadcast(c, q) PROVE TargetInv'
      BY <1>0, <2>0, <3>1, BroadcastTargets
    <3>2. ASSUME NEW q \in Query, NEW e \in tree, SendMsg(c, e, q) PROVE TargetInv'
      BY <1>0, <2>0, <3>2, SendTargets
    <3>3. CASE RecvLocal(c)
      BY <1>0, <2>0, <3>3, RecvLocalTargets
    <3>4. CASE Serve(c) \/ Wait(c)
      BY <2>1, <3>4 DEF Serve, Wait, Settled, Goto, Steps, outside
    <3>5. CASE RecvMsg(c)
      BY <1>0, <2>0, <3>5, RecvMsgTargets
    <3>6. CASE NextOfGroup(c)
      BY <1>0, <2>0, <3>6, NextOfGroupTargets
    <3>7. CASE Return(c)
      BY <1>0, <2>0, <3>7, ReturnTargets
    <3>8. CASE FirstHandlerPanics(c) \/ Astray(c)
      BY <2>2, <3>8 DEF FirstHandlerPanics, Astray, End, outside
    <3>9. CASE HandlerPanics(c) \/ FlushPanics(c)
      BY <2>1, <3>9 DEF HandlerPanics, FlushPanics, Settled, Drop, Goto, Steps, outside
    <3>10. CASE Leave(c)
      BY <2>1, <3>10 DEF Leave, Settled, Drop, Goto, Steps, outside
    <3>11. CASE Flush(c)
      BY <1>0, <2>0, <3>11, FlushTargets
    <3> QED BY <2>6, <3>1, <3>2, <3>3, <3>4, <3>5, <3>6, <3>7, <3>8, <3>9, <3>10, <3>11 DEF Handling
  <2>7. ASSUME NEW c \in Threads, Leaving(c) PROVE TargetInv'
    <3>1. CASE DropActor(c)
      BY <2>0, <2>2, <3>1 DEF DropActor, tables, outside
    <3>2. CASE DropPanics(c) \/ FreeArena(c)
      BY <2>1, <3>2 DEF DropPanics, FreeArena, Dropping, Goto, Steps, outside
    <3>3. CASE DropPanicsTwice(c)
      BY <2>2, <3>3 DEF DropPanicsTwice, End, outside
    <3> QED BY <2>7, <3>1, <3>2, <3>3 DEF Leaving
  <2> QED BY <1>3, <2>3, <2>4, <2>5, <2>6, <2>7 DEF Running
<1> QED BY <1>1, <1>2, <1>3 DEF Next

\* Whatever is sent, to a key, an accessor or the group of a query, and however
\* threads take their turns and panic: for each actor it is meant for the
\* message is in one place or ran there, once, unless a link took that part of
\* it to another context; and for no other actor is it anywhere
\* (lookup.rs:141-160, context.rs:310-341, runtime/mod.rs:341-362).
THEOREM TargetsAreMetOnce == Spec => []EachTargetOnce
<1>1. TargetInv => EachTargetOnce
  <2> SUFFICES ASSUME TargetInv, NEW k \in DOMAIN casts, NEW i \in Ids
               PROVE  Cardinality(Places(k, i)) =
                        IF i \in casts[k] /\ ~ \E m \in strays : IsFor(m.to, m, k, i) THEN 1 ELSE 0
    BY DEF EachTargetOnce
  <2> DEFINE A == Places(k, i)
             B == Lost(strays, k, i)
  <2>1. IF i \in casts[k] THEN \E x : A \cup B = {x} ELSE A \cup B = {}
    BY DEF TargetInv, OneTarget, AllPlaces
  <2>2. B = {} <=> ~ \E m \in strays : IsFor(m.to, m, k, i)
    BY DEF Lost
  <2>3. A \cap B = {}
    <3>1. \A x \in A : x[1] # "lost"
      BY DEF Places
    <3> QED BY <3>1, KindsDiffer
  <2> HIDE DEF A, B
  <2>4. CASE i \in casts[k] /\ B = {}
    <3>1. PICK x : A = {x}
      BY <2>1, <2>4
    <3> QED BY <2>2, <2>4, <3>1, FS_Singleton DEF A
  <2>5. CASE ~ (i \in casts[k] /\ B = {})
    <3>1. A = {}
      BY <2>1, <2>3, <2>5
    <3> QED BY <2>2, <2>5, <3>1, FS_EmptySet DEF A
  <2> QED BY <2>4, <2>5
<1> QED BY <1>1, TargetInit, TargetStep, PTL DEF Spec
==============================================================================
