---------------------------- MODULE DeliveryProofs ----------------------------
(***************************************************************************)
(* Proofs about what the runtime does with messages: each is in one place, *)
(* those of one source to one context are handled in the order they were   *)
(* sent, and those lost when run() returns were sent too early.            *)
(*                                                                         *)
(* The argument: every step moves a message from one place to another, or  *)
(* puts a new one in one place.  A message on its way is in a batch, then  *)
(* in a channel, then handled, and no step takes it past an earlier one    *)
(* with the same source and the same addressee.                            *)
(***************************************************************************)
EXTENDS RuntimeProofs

------------------------------------------------------------------------------
(***************************************************************************)
(* Copies by kind of place.                                                *)
(***************************************************************************)

\* Is m message k of source s?
Is(m, s, k) == m.kind = "Msg" /\ m.from = s /\ m.seq = k

\* The place x, if m is message k of s.
At(m, s, k, x) == IF Is(m, s, k) THEN {x} ELSE {}

\* Where message k of s is in the queues q, one queue for each context.
Placed(tag, q, s, k) ==
  UNION {{<<tag, c, i>> : i \in Occurrences(q[c], s, k)} : c \in Contexts}

\* The contexts that have begun to handle it, as places.
Handlings(s, k) ==
  {<<"handled", c, 0>> : c \in {d \in Contexts : \E m \in handled[d] : m.from = s /\ m.seq = k}}

\* A is one place, and so is B; or there is none in either.
Carried(A, B) ==
  /\ A = {} => B = {}
  /\ \A x : A = {x} => \E y : B = {y}

\* The type of the four variables that hold queues.
AllQueues == [Contexts -> Seq(QueueItem)]

\* A place is in the set when the queue has the message there.
LEMMA PlacedIs ==
  ASSUME NEW tag, NEW q, NEW s, NEW k, NEW x
  PROVE  x \in Placed(tag, q, s, k) <=>
           \E c \in Contexts : \E i \in DOMAIN q[c] : Is(q[c][i], s, k) /\ x = <<tag, c, i>>
BY DEF Placed, Occurrences, Is

\* The places a message may be in are the queues and the contexts that handled it.
LEMMA CopiesByKind ==
  ASSUME NEW s, NEW k
  PROVE  Copies(s, k) =
           Placed("local", local_queue, s, k) \cup Placed("unsent", unsent_messages, s, k)
             \cup Placed("outbox", outbox, s, k) \cup Placed("rx", rx, s, k) \cup Handlings(s, k)
BY DEF Copies, Placed, Handlings

\* The first field of a place tells its kind.
LEMMA PlaceTags ==
  ASSUME NEW s, NEW k, NEW tag, NEW q
  PROVE  /\ \A x \in Placed(tag, q, s, k) : x[1] = tag
         /\ \A x \in Handlings(s, k) : x[1] = "handled"
BY PlacedIs DEF Handlings

\* All four kinds of queue are queues of items.
LEMMA QueuesTyped ==
  ASSUME Typed
  PROVE  /\ local_queue \in AllQueues /\ unsent_messages \in AllQueues
         /\ outbox \in AllQueues /\ rx \in AllQueues
<1>1. \A m \in Message : m \in QueueItem
  BY DEF QueueItem
<1>2. \A q \in Seq(Message) : q \in Seq(QueueItem)
  BY <1>1
<1> QED BY <1>2 DEF Typed, AllQueues

\* What carries a part of the places carries them all.
LEMMA CarriedPart ==
  ASSUME NEW P, NEW A, NEW B, Carried(A, B), P \cap A = {}
  PROVE  Carried(P \cup A, P \cup B)
<1>1. CASE A = {}
  BY <1>1 DEF Carried
<1>2. CASE A # {}
  <2> SUFFICES ASSUME NEW x, P \cup A = {x} PROVE \E y : P \cup B = {y}
    BY <1>2 DEF Carried
  <2>1. A = {x} /\ P = {}
    BY <1>2
  <2>2. PICK y : B = {y}
    BY <2>1 DEF Carried
  <2> QED BY <2>1, <2>2
<1> QED BY <1>1, <1>2

\* The queues r are the queues q, but that item m joined the end of that of c.
Joins(m, c, q, r) ==
  /\ q \in AllQueues /\ c \in Contexts /\ m \in QueueItem
  /\ r[c] = Append(q[c], m) /\ \A d \in Contexts : d # c => r[d] = q[d]

\* Its place is the last.
LEMMA PlacedAppend ==
  ASSUME NEW tag, NEW q, NEW c, NEW m, NEW s, NEW k, NEW r, Joins(m, c, q, r)
  PROVE  Placed(tag, r, s, k) =
           Placed(tag, q, s, k) \cup At(m, s, k, <<tag, c, Len(q[c]) + 1>>)
<1> DEFINE n == Len(q[c])
<1>1. n \in Nat /\ DOMAIN q[c] = 1 .. n
  BY DEF AllQueues, Joins
<1>2. c \in Contexts /\ r[c] = Append(q[c], m) /\ \A d \in Contexts : d # c => r[d] = q[d]
  BY DEF Joins
<1>3. /\ DOMAIN r[c] = 1 .. n + 1
      /\ \A i \in 1 .. n : r[c][i] = q[c][i]
      /\ r[c][n + 1] = m
  BY <1>1, <1>2 DEF AllQueues, Joins
<1>4. \A i : i \in 1 .. n + 1 <=> i \in 1 .. n \/ i = n + 1
  BY <1>1
<1> HIDE DEF n
<1>5. \A x : x \in Placed(tag, r, s, k) <=>
               x \in Placed(tag, q, s, k) \/ (Is(m, s, k) /\ x = <<tag, c, n + 1>>)
  <2> TAKE x
  <2>1. ASSUME x \in Placed(tag, r, s, k)
        PROVE  x \in Placed(tag, q, s, k) \/ (Is(m, s, k) /\ x = <<tag, c, n + 1>>)
    <3>1. PICK d \in Contexts : \E i \in DOMAIN r[d] : Is(r[d][i], s, k) /\ x = <<tag, d, i>>
      BY <2>1, PlacedIs
    <3>2. PICK i \in DOMAIN r[d] : Is(r[d][i], s, k) /\ x = <<tag, d, i>>
      BY <3>1
    <3>3. CASE d = c /\ i = n + 1
      BY <1>3, <3>2, <3>3
    <3>4. CASE ~ (d = c /\ i = n + 1)
      <4>1. i \in DOMAIN q[d] /\ r[d][i] = q[d][i]
        BY <1>1, <1>2, <1>3, <1>4, <3>2, <3>4
      <4> QED BY <3>2, <4>1, PlacedIs
    <3> QED BY <3>3, <3>4
  <2>2. ASSUME x \in Placed(tag, q, s, k) PROVE x \in Placed(tag, r, s, k)
    <3>1. PICK d \in Contexts : \E i \in DOMAIN q[d] : Is(q[d][i], s, k) /\ x = <<tag, d, i>>
      BY <2>2, PlacedIs
    <3> QED BY <1>1, <1>2, <1>3, <1>4, <3>1, PlacedIs
  <2>3. ASSUME Is(m, s, k), x = <<tag, c, n + 1>> PROVE x \in Placed(tag, r, s, k)
    BY <1>2, <1>3, <1>4, <2>3, PlacedIs
  <2> QED BY <2>1, <2>2, <2>3
<1> QED BY <1>5 DEF n, At

\* Taking the item at the head of a queue.
LEMMA PlacedTail ==
  ASSUME NEW tag, NEW q \in AllQueues, NEW c \in Contexts, q[c] # <<>>, NEW s, NEW k, NEW y,
         NEW r, r[c] = Tail(q[c]), \A d \in Contexts : d # c => r[d] = q[d]
  PROVE  Carried(Placed(tag, q, s, k),
                 Placed(tag, r, s, k) \cup At(Head(q[c]), s, k, y))
<1> DEFINE n == Len(q[c])
           B == Placed(tag, r, s, k) \cup (IF Is(Head(q[c]), s, k) THEN {y} ELSE {})
<1>1. n \in Nat \ {0} /\ DOMAIN q[c] = 1 .. n
  BY DEF AllQueues
<1>2. r[c] = Tail(q[c]) /\ \A d \in Contexts : d # c => r[d] = q[d]
  OBVIOUS
<1>3. /\ DOMAIN r[c] = 1 .. n - 1
      /\ \A i \in 1 .. n - 1 : r[c][i] = q[c][i + 1]
      /\ Head(q[c]) = q[c][1]
  BY <1>1, <1>2 DEF AllQueues
<1>4. /\ \A i \in 1 .. n - 1 : i + 1 \in 1 .. n /\ i + 1 # 1
      /\ \A i \in 1 .. n : i # 1 => i - 1 \in 1 .. n - 1 /\ (i - 1) + 1 = i
      /\ 1 \in 1 .. n
      /\ \A i, j \in Int : i + 1 = j + 1 => i = j
  BY <1>1
<1> HIDE DEF n
<1>5. \A d \in Contexts : \A i \in DOMAIN q[d] : Is(q[d][i], s, k) =>
         <<tag, d, i>> \in Placed(tag, q, s, k)
  BY PlacedIs
<1>6. \A d \in Contexts : \A i \in DOMAIN r[d] : Is(r[d][i], s, k) =>
         IF d = c THEN <<tag, c, i + 1>> \in Placed(tag, q, s, k)
                  ELSE <<tag, d, i>> \in Placed(tag, q, s, k)
  BY <1>1, <1>2, <1>3, <1>4, <1>5
<1>7. ASSUME Placed(tag, q, s, k) = {} PROVE B = {}
  <2>1. ~ Is(Head(q[c]), s, k)
    BY <1>1, <1>3, <1>4, <1>5, <1>7
  <2>2. Placed(tag, r, s, k) = {}
    BY <1>6, <1>7, PlacedIs
  <2> QED BY <2>1, <2>2
<1>8. ASSUME NEW x, Placed(tag, q, s, k) = {x} PROVE \E z : B = {z}
  <2>1. PICK e \in Contexts : \E i \in DOMAIN q[e] : Is(q[e][i], s, k) /\ x = <<tag, e, i>>
    BY <1>8, PlacedIs
  <2>2. PICK i \in DOMAIN q[e] : Is(q[e][i], s, k) /\ x = <<tag, e, i>>
    BY <2>1
  <2>3. \A d \in Contexts : \A j \in DOMAIN q[d] : Is(q[d][j], s, k) => d = e /\ j = i
    <3> TAKE d \in Contexts
    <3> TAKE j \in DOMAIN q[d]
    <3> HAVE Is(q[d][j], s, k)
    <3>1. <<tag, d, j>> = <<tag, e, i>>
      BY <1>5, <1>8, <2>2
    <3> QED BY <3>1
  <2>4. CASE e = c /\ i = 1
    <3>1. Is(Head(q[c]), s, k)
      BY <1>3, <2>2, <2>4
    <3>2. Placed(tag, r, s, k) = {}
      <4> SUFFICES ASSUME NEW z \in Placed(tag, r, s, k) PROVE FALSE
        OBVIOUS
      <4>1. PICK d \in Contexts : \E j \in DOMAIN r[d] : Is(r[d][j], s, k)
        BY PlacedIs
      <4>2. d = c
        BY <1>2, <2>3, <2>4, <4>1
      <4>3. PICK j \in 1 .. n - 1 : Is(q[c][j + 1], s, k)
        BY <1>3, <4>1, <4>2
      <4> QED BY <1>1, <1>4, <2>3, <2>4, <4>3
    <3> QED BY <3>1, <3>2
  <2>5. CASE e # c
    <3>1. ~ Is(Head(q[c]), s, k)
      BY <1>1, <1>3, <1>4, <2>3, <2>5
    <3>2. \A z : z \in Placed(tag, r, s, k) <=> z = x
      <4> TAKE z
      <4>1. ASSUME z \in Placed(tag, r, s, k) PROVE z = x
        <5>1. PICK d \in Contexts : \E j \in DOMAIN r[d] : Is(r[d][j], s, k) /\ z = <<tag, d, j>>
          BY <4>1, PlacedIs
        <5>2. ASSUME d = c PROVE FALSE
          <6>1. PICK j \in 1 .. n - 1 : Is(q[c][j + 1], s, k)
            BY <1>3, <5>1, <5>2
          <6>2. j + 1 \in DOMAIN q[c]
            BY <1>1, <1>4, <6>1
          <6> QED BY <2>3, <2>5, <6>1, <6>2
        <5> QED BY <1>2, <2>2, <2>3, <5>1, <5>2
      <4>2. x \in Placed(tag, r, s, k)
        BY <1>2, <2>2, <2>5, PlacedIs
      <4> QED BY <4>1, <4>2
    <3>3. Placed(tag, r, s, k) = {x}
      BY <3>2
    <3> QED BY <3>1, <3>3
  <2>6. CASE e = c /\ i # 1
    <3>1. ~ Is(Head(q[c]), s, k)
      BY <1>1, <1>3, <1>4, <2>3, <2>6
    <3>2. i - 1 \in 1 .. n - 1 /\ Is(r[c][i - 1], s, k)
      BY <1>1, <1>3, <1>4, <2>2, <2>6
    <3>3. \A z : z \in Placed(tag, r, s, k) <=> z = <<tag, c, i - 1>>
      <4> TAKE z
      <4>1. ASSUME z \in Placed(tag, r, s, k) PROVE z = <<tag, c, i - 1>>
        <5>1. PICK d \in Contexts : \E j \in DOMAIN r[d] : Is(r[d][j], s, k) /\ z = <<tag, d, j>>
          BY <4>1, PlacedIs
        <5>2. d = c
          BY <1>2, <2>3, <2>6, <5>1
        <5>3. PICK j \in 1 .. n - 1 : Is(q[c][j + 1], s, k) /\ z = <<tag, c, j>>
          BY <1>3, <5>1, <5>2
        <5>4. j + 1 = i
          BY <1>1, <1>4, <2>3, <2>6, <5>3
        <5>5. j = i - 1
          BY <1>1, <5>3, <5>4
        <5> QED BY <5>3, <5>5
      <4>2. <<tag, c, i - 1>> \in Placed(tag, r, s, k)
        BY <1>3, <3>2, PlacedIs
      <4> QED BY <4>1, <4>2
    <3>4. Placed(tag, r, s, k) = {<<tag, c, i - 1>>}
      BY <3>3
    <3> QED BY <3>1, <3>4
  <2> QED BY <2>4, <2>5, <2>6
<1>9. Carried(Placed(tag, q, s, k), B)
  <2> HIDE DEF B
  <2> QED BY <1>7, <1>8 DEF Carried
<1> QED BY <1>9 DEF At

\* Taking the item at the end of a queue.
LEMMA PlacedFront ==
  ASSUME NEW tag, NEW q \in AllQueues, NEW c \in Contexts, q[c] # <<>>, NEW s, NEW k, NEW y,
         NEW r \in AllQueues, Len(r[c]) = Len(q[c]) - 1,
         \A i \in DOMAIN r[c] : r[c][i] = q[c][i],
         \A d \in Contexts : d # c => r[d] = q[d]
  PROVE  Carried(Placed(tag, q, s, k),
                 Placed(tag, r, s, k) \cup At(q[c][Len(q[c])], s, k, y))
<1> DEFINE n == Len(q[c])
           B == Placed(tag, r, s, k) \cup (IF Is(q[c][n], s, k) THEN {y} ELSE {})
<1>1. n \in Nat \ {0} /\ DOMAIN q[c] = 1 .. n
  BY DEF AllQueues
<1>2. \A d \in Contexts : d # c => r[d] = q[d]
  OBVIOUS
<1>3. DOMAIN r[c] = 1 .. n - 1 /\ \A i \in 1 .. n - 1 : r[c][i] = q[c][i]
  BY <1>1 DEF AllQueues
<1>4. \A i : i \in 1 .. n - 1 <=> i \in 1 .. n /\ i # n
  BY <1>1
<1>5. n \in 1 .. n
  BY <1>1
<1> HIDE DEF n
<1>6. \A z : z \in Placed(tag, r, s, k) <=> z \in Placed(tag, q, s, k) /\ z # <<tag, c, n>>
  <2> TAKE z
  <2>1. ASSUME z \in Placed(tag, r, s, k)
        PROVE  z \in Placed(tag, q, s, k) /\ z # <<tag, c, n>>
    <3>1. PICK d \in Contexts : \E i \in DOMAIN r[d] : Is(r[d][i], s, k) /\ z = <<tag, d, i>>
      BY <2>1, PlacedIs
    <3>2. PICK i \in DOMAIN r[d] : Is(r[d][i], s, k) /\ z = <<tag, d, i>>
      BY <3>1
    <3>3. i \in DOMAIN q[d] /\ q[d][i] = r[d][i] /\ ~ (d = c /\ i = n)
      BY <1>1, <1>2, <1>3, <1>4, <3>2
    <3> QED BY <3>2, <3>3, PlacedIs
  <2>2. ASSUME z \in Placed(tag, q, s, k), z # <<tag, c, n>>
        PROVE  z \in Placed(tag, r, s, k)
    <3>1. PICK d \in Contexts : \E i \in DOMAIN q[d] : Is(q[d][i], s, k) /\ z = <<tag, d, i>>
      BY <2>2, PlacedIs
    <3>2. PICK i \in DOMAIN q[d] : Is(q[d][i], s, k) /\ z = <<tag, d, i>>
      BY <3>1
    <3>3. i \in DOMAIN r[d] /\ q[d][i] = r[d][i]
      BY <1>1, <1>2, <1>3, <1>4, <2>2, <3>2
    <3> QED BY <3>2, <3>3, PlacedIs
  <2> QED BY <2>1, <2>2
<1>7. Is(q[c][n], s, k) <=> <<tag, c, n>> \in Placed(tag, q, s, k)
  <2>1. ASSUME <<tag, c, n>> \in Placed(tag, q, s, k) PROVE Is(q[c][n], s, k)
    BY <2>1, PlacedIs
  <2>2. ASSUME Is(q[c][n], s, k) PROVE <<tag, c, n>> \in Placed(tag, q, s, k)
    BY <1>1, <1>5, <2>2, PlacedIs
  <2> QED BY <2>1, <2>2
<1>8. Carried(Placed(tag, q, s, k), B)
  BY <1>6, <1>7 DEF Carried
<1> QED BY <1>8 DEF n, At

\* A stable order is a permutation.
LEMMA StableOrderPermutes ==
  ASSUME NEW u \in Seq(Message), NEW p \in [DOMAIN u -> DOMAIN u], IsStableOrder(p, u)
  PROVE  /\ \A i, j \in DOMAIN u : p[i] = p[j] => i = j
         /\ \A i \in DOMAIN u : \E j \in DOMAIN u : p[j] = i
<1>1. Len(u) \in Nat /\ DOMAIN u = 1 .. Len(u) /\ IsFiniteSet(1 .. Len(u))
  BY FS_Interval
<1>2. \A i \in DOMAIN u : u[i].to \in Int
  <2> TAKE i \in DOMAIN u
  <2>1. u[i] \in Message
    OBVIOUS
  <2> QED BY <2>1, NAssumption DEF Message, Contexts
<1>3. \A i, j \in DOMAIN u : i < j => p[i] # p[j]
  <2> TAKE i, j \in DOMAIN u
  <2> HAVE i < j
  <2>1. u[p[i]].to < u[p[j]].to \/ p[i] < p[j]
    BY DEF IsStableOrder
  <2>2. p[i] \in Int /\ u[p[i]].to \in Int
    BY <1>1, <1>2
  <2> QED BY <2>1, <2>2
<1>4. \A i, j \in DOMAIN u : p[i] = p[j] => i = j
  <2> TAKE i, j \in DOMAIN u
  <2>1. i < j \/ j < i \/ i = j
    BY <1>1
  <2> QED BY <1>3, <2>1
<1>5. p \in Injection(DOMAIN u, DOMAIN u)
  BY <1>4 DEF Injection, IsInjective
<1>6. p \in Surjection(DOMAIN u, DOMAIN u)
  BY <1>1, <1>5, FS_Injection
<1> QED BY <1>4, <1>6 DEF Surjection

\* What context c has kept becomes its batch, in the order p.
BatchMoves(c, p) ==
  LET D == DOMAIN unsent_messages[c] IN
  /\ outbox[c] = <<>> /\ unsent_messages'[c] = <<>>
  /\ \A i \in D : p[i] \in D
  /\ \A i, j \in D : p[i] = p[j] => i = j
  /\ \A i \in D : \E j \in D : p[j] = i
  /\ DOMAIN outbox'[c] = D /\ \A i \in D : outbox'[c][i] = unsent_messages[c][p[i]]
  /\ \A d \in Contexts : d # c => unsent_messages'[d] = unsent_messages[d] /\ outbox'[d] = outbox[d]

\* A batch moves from one queue to another, in any order.
LEMMA PlacedMoved ==
  ASSUME NEW c \in Contexts, NEW p, BatchMoves(c, p), NEW s, NEW k
  PROVE  Carried(Placed("unsent", unsent_messages, s, k) \cup Placed("outbox", outbox, s, k),
                 Placed("unsent", unsent_messages', s, k) \cup Placed("outbox", outbox', s, k))
<1> DEFINE u == unsent_messages
           o == outbox
           v == unsent_messages'
           w == outbox'
           A == Placed("unsent", u, s, k) \cup Placed("outbox", o, s, k)
           B == Placed("unsent", v, s, k) \cup Placed("outbox", w, s, k)
           D == DOMAIN u[c]
<1>1. /\ DOMAIN v[c] = {} /\ DOMAIN o[c] = {}
      /\ DOMAIN w[c] = D /\ \A i \in D : w[c][i] = u[c][p[i]]
      /\ \A d \in Contexts : d # c => v[d] = u[d] /\ w[d] = o[d]
  BY DEF BatchMoves
<1>2. /\ \A i \in D : p[i] \in D
      /\ \A i, j \in D : p[i] = p[j] => i = j
      /\ \A i \in D : \E j \in D : p[j] = i
  BY DEF BatchMoves
<1> HIDE DEF D, u, o, v, w
<1>3. \A x : x \in A <=> \E d \in Contexts :
                \/ \E i \in DOMAIN u[d] : Is(u[d][i], s, k) /\ x = <<"unsent", d, i>>
                \/ \E i \in DOMAIN o[d] : Is(o[d][i], s, k) /\ x = <<"outbox", d, i>>
  BY PlacedIs
<1>4. \A x : x \in B <=> \E d \in Contexts :
                \/ \E i \in DOMAIN v[d] : Is(v[d][i], s, k) /\ x = <<"unsent", d, i>>
                \/ \E i \in DOMAIN w[d] : Is(w[d][i], s, k) /\ x = <<"outbox", d, i>>
  BY PlacedIs
<1>5. \A y \in B : \/ y \in A /\ y[2] # c
                   \/ \E i \in D : y = <<"outbox", c, i>> /\ <<"unsent", c, p[i]>> \in A
  <2> TAKE y \in B
  <2>1. PICK d \in Contexts :
               \/ \E i \in DOMAIN v[d] : Is(v[d][i], s, k) /\ y = <<"unsent", d, i>>
               \/ \E i \in DOMAIN w[d] : Is(w[d][i], s, k) /\ y = <<"outbox", d, i>>
    BY <1>4
  <2>2. CASE d # c
    <3>1. y \in A
      BY <1>1, <1>3, <2>1, <2>2
    <3>2. y[2] = d
      BY <2>1
    <3> QED BY <2>2, <3>1, <3>2
  <2>3. CASE d = c
    <3>1. PICK i \in D : Is(u[c][p[i]], s, k) /\ y = <<"outbox", c, i>>
      BY <1>1, <2>1, <2>3
    <3>2. p[i] \in DOMAIN u[c]
      BY <1>2, <3>1 DEF D
    <3>3. <<"unsent", c, p[i]>> \in A
      BY <1>3, <3>1, <3>2
    <3> QED BY <3>1, <3>3
  <2> QED BY <2>2, <2>3
<1>6. \A x \in A : \/ x \in B /\ x[2] # c
                   \/ \E i \in D : x = <<"unsent", c, p[i]>> /\ <<"outbox", c, i>> \in B
  <2> TAKE x \in A
  <2>1. PICK d \in Contexts :
               \/ \E i \in DOMAIN u[d] : Is(u[d][i], s, k) /\ x = <<"unsent", d, i>>
               \/ \E i \in DOMAIN o[d] : Is(o[d][i], s, k) /\ x = <<"outbox", d, i>>
    BY <1>3
  <2>2. CASE d # c
    <3>1. x \in B
      BY <1>1, <1>4, <2>1, <2>2
    <3>2. x[2] = d
      BY <2>1
    <3> QED BY <2>2, <3>1, <3>2
  <2>3. CASE d = c
    <3>1. PICK i \in D : Is(u[c][i], s, k) /\ x = <<"unsent", c, i>>
      BY <1>1, <2>1, <2>3 DEF D
    <3>2. PICK j \in D : p[j] = i
      BY <1>2, <3>1
    <3>3. <<"outbox", c, j>> \in B
      BY <1>1, <1>4, <3>1, <3>2
    <3> QED BY <3>1, <3>2, <3>3
  <2> QED BY <2>2, <2>3
<1> HIDE DEF A, B
<1>7. A = {} => B = {}
  BY <1>5
<1>8. ASSUME NEW x, A = {x} PROVE \E y : B = {y}
  <2>1. CASE x \in B /\ x[2] # c
    <3>1. \A y \in B : y = x
      <4> TAKE y \in B
      <4>1. ASSUME NEW i \in D, <<"unsent", c, p[i]>> \in A PROVE FALSE
        <5>1. x = <<"unsent", c, p[i]>>
          BY <1>8, <4>1
        <5> QED BY <2>1, <5>1
      <4> QED BY <1>5, <1>8, <4>1
    <3>2. B = {x}
      BY <2>1, <3>1
    <3> QED BY <3>2
  <2>2. CASE \E i \in D : x = <<"unsent", c, p[i]>> /\ <<"outbox", c, i>> \in B
    <3>1. PICK i \in D : x = <<"unsent", c, p[i]>> /\ <<"outbox", c, i>> \in B
      BY <2>2
    <3>2. \A y \in B : y = <<"outbox", c, i>>
      <4> TAKE y \in B
      <4>1. CASE y \in A /\ y[2] # c
        BY <1>8, <3>1, <4>1
      <4>2. ASSUME NEW j \in D, y = <<"outbox", c, j>>, <<"unsent", c, p[j]>> \in A
            PROVE  y = <<"outbox", c, i>>
        <5>1. <<"unsent", c, p[j]>> = <<"unsent", c, p[i]>>
          BY <1>8, <3>1, <4>2
        <5>2. p[j] = p[i]
          BY <5>1
        <5> QED BY <1>2, <4>2, <5>2
      <4> QED BY <1>5, <4>1, <4>2
    <3>3. B = {<<"outbox", c, i>>}
      BY <3>1, <3>2
    <3> QED BY <3>3
  <2> QED BY <1>6, <1>8, <2>1, <2>2
<1>9. Carried(A, B)
  BY <1>7, <1>8 DEF Carried
<1> QED BY <1>9 DEF A, B, u, o, v, w

------------------------------------------------------------------------------
(***************************************************************************)
(* Every message is in exactly one place.                                  *)
(***************************************************************************)

\* What was sent is in one place, and what was not is in none.
OneCopy ==
  \A s \in Sources : \A k \in Nat :
    IF k \in 1 .. sent[s] THEN \E x : Copies(s, k) = {x} ELSE Copies(s, k) = {}

\* The same of the next state.
LEMMA CopiesByKindNext ==
  ASSUME NEW s, NEW k
  PROVE  Copies(s, k)' =
           Placed("local", local_queue', s, k) \cup Placed("unsent", unsent_messages', s, k)
             \cup Placed("outbox", outbox', s, k) \cup Placed("rx", rx', s, k) \cup Handlings(s, k)'
BY DEF Copies, Placed, Handlings

\* A step that sends nothing carries every message.
LEMMA OneCopyCarried ==
  ASSUME OneCopy, UNCHANGED sent,
         \A s \in Sources : \A k \in Nat : Carried(Copies(s, k), Copies(s, k)')
  PROVE  OneCopy'
BY DEF OneCopy, Carried

\* A step that sends puts the message in one place.
LEMMA OneCopyAdded ==
  ASSUME Typed, OneCopy, NEW src \in Sources, NEW dst, sent' = [sent EXCEPT ![src] = @ + 1], NEW y,
         \A s \in Sources : \A k \in Nat :
           Copies(s, k)' = Copies(s, k) \cup At(Msg(src, dst), s, k, y)
  PROVE  OneCopy'
<1>0. \A s, k : Is(Msg(src, dst), s, k) <=> s = src /\ k = sent[src] + 1
  BY DEF Is, Msg
<1> SUFFICES ASSUME NEW s \in Sources, NEW k \in Nat
             PROVE  IF k \in 1 .. sent'[s] THEN \E x : Copies(s, k)' = {x} ELSE Copies(s, k)' = {}
  BY DEF OneCopy
<1>1. sent[s] \in Nat /\ sent'[s] = IF s = src THEN sent[s] + 1 ELSE sent[s]
  BY DEF Typed
<1>2. CASE s = src /\ k = sent[src] + 1
  <2>1. k \in 1 .. sent'[s] /\ k \notin 1 .. sent[s]
    BY <1>1, <1>2
  <2>2. Copies(s, k) = {}
    BY <2>1 DEF OneCopy
  <2>3. At(Msg(src, dst), s, k, y) = {y}
    BY <1>0, <1>2 DEF At
  <2>4. Copies(s, k)' = {y}
    BY <2>2, <2>3
  <2> QED BY <2>1, <2>4
<1>3. CASE ~ (s = src /\ k = sent[src] + 1)
  <2>1. k \in 1 .. sent'[s] <=> k \in 1 .. sent[s]
    BY <1>1, <1>3
  <2>2. At(Msg(src, dst), s, k, y) = {}
    BY <1>0, <1>3 DEF At
  <2>3. Copies(s, k)' = Copies(s, k)
    BY <2>2
  <2> QED BY <2>1, <2>3 DEF OneCopy
<1> QED BY <1>2, <1>3

\* A context begins to handle a message.
LEMMA HandlingsGain ==
  ASSUME Typed, NEW c \in Contexts, NEW m \in Message,
         handled' = [handled EXCEPT ![c] = @ \cup {m}], NEW s, NEW k
  PROVE  Handlings(s, k)' =
           Handlings(s, k) \cup At(m, s, k, <<"handled", c, 0>>)
<1>1. \A d \in Contexts : handled'[d] = IF d = c THEN handled[c] \cup {m} ELSE handled[d]
  BY DEF Typed
<1>2. m.kind = "Msg"
  BY DEF Message
<1>3. \A d \in Contexts : (\E e \in handled'[d] : e.from = s /\ e.seq = k) <=>
                            (\E e \in handled[d] : e.from = s /\ e.seq = k) \/ (d = c /\ Is(m, s, k))
  BY <1>1, <1>2 DEF Is
<1> QED BY <1>3 DEF Handlings, At

\* A step that moves no message.
LEMMA OneCopyKept ==
  ASSUME OneCopy, UNCHANGED <<queues, sent, handled>>
  PROVE  OneCopy'
<1>1. \A s, k : Copies(s, k)' = Copies(s, k)
  <2> TAKE s, k
  <2>1. Handlings(s, k)' = Handlings(s, k)
    BY DEF Handlings
  <2>2. UNCHANGED <<local_queue, unsent_messages, outbox, rx>>
    BY DEF queues
  <2> QED BY <2>1, <2>2, CopiesByKind, CopiesByKindNext
<1> QED BY <1>1 DEF OneCopy

\* A handler or a constructor sends.
LEMMA OneCopyPost ==
  ASSUME Typed, OneCopy, NEW c \in Contexts, NEW d \in Contexts, Post(c, d)
  PROVE  OneCopy'
<1> DEFINE m == Msg(c, d)
<1>1. c \in Sources /\ m \in QueueItem
  BY MsgType DEF Sources, QueueItem
<1>2. sent' = [sent EXCEPT ![c] = @ + 1] /\ UNCHANGED <<outbox, rx, handled>>
  BY DEF Post
<1> HIDE DEF m
<1>3. CASE d = c
  <2> DEFINE y == <<"local", c, Len(local_queue[c]) + 1>>
  <2>1. /\ local_queue'[c] = Append(local_queue[c], m) /\ UNCHANGED unsent_messages
        /\ \A e \in Contexts : e # c => local_queue'[e] = local_queue[e]
    BY <1>3 DEF Post, m, Typed
  <2>2. \A s \in Sources : \A k \in Nat : Copies(s, k)' = Copies(s, k) \cup At(m, s, k, y)
    <3> TAKE s \in Sources
    <3> TAKE k \in Nat
    <3>1. Placed("local", local_queue', s, k) = Placed("local", local_queue, s, k) \cup At(m, s, k, y)
      <4>1. Joins(m, c, local_queue, local_queue')
        BY <1>1, <2>1, QueuesTyped DEF Joins
      <4> QED BY ONLY <4>1, PlacedAppend
    <3>2. Handlings(s, k)' = Handlings(s, k)
      BY <1>2 DEF Handlings
    <3> HIDE DEF y
    <3> QED BY <1>2, <2>1, <3>1, <3>2, CopiesByKind, CopiesByKindNext
  <2> HIDE DEF y
  <2> QED BY <1>1, <1>2, <2>2, OneCopyAdded DEF m
<1>4. CASE d # c
  <2> DEFINE y == <<"unsent", c, Len(unsent_messages[c]) + 1>>
  <2>1. /\ unsent_messages'[c] = Append(unsent_messages[c], m) /\ UNCHANGED local_queue
        /\ \A e \in Contexts : e # c => unsent_messages'[e] = unsent_messages[e]
    BY <1>4 DEF Post, m, Typed
  <2>2. \A s \in Sources : \A k \in Nat : Copies(s, k)' = Copies(s, k) \cup At(m, s, k, y)
    <3> TAKE s \in Sources
    <3> TAKE k \in Nat
    <3>1. Placed("unsent", unsent_messages', s, k)
            = Placed("unsent", unsent_messages, s, k) \cup At(m, s, k, y)
      <4>1. Joins(m, c, unsent_messages, unsent_messages')
        BY <1>1, <2>1, QueuesTyped DEF Joins
      <4> QED BY ONLY <4>1, PlacedAppend
    <3>2. Handlings(s, k)' = Handlings(s, k)
      BY <1>2 DEF Handlings
    <3> HIDE DEF y
    <3> QED BY <1>2, <2>1, <3>1, <3>2, CopiesByKind, CopiesByKindNext
  <2> HIDE DEF y
  <2> QED BY <1>1, <1>2, <2>2, OneCopyAdded DEF m
<1> QED BY <1>3, <1>4

\* An item is queued in the channel of d.
LEMMA ChannelGains ==
  ASSUME Typed, NEW d \in Contexts, NEW m \in QueueItem,
         rx'[d] = Append(rx[d], m), \A e \in Contexts : e # d => rx'[e] = rx[e], NEW s, NEW k
  PROVE  Placed("rx", rx', s, k) =
           Placed("rx", rx, s, k) \cup At(m, s, k, <<"rx", d, Len(rx[d]) + 1>>)
<1>1. Joins(m, d, rx, rx')
  BY QueuesTyped DEF Joins
<1> QED BY ONLY <1>1, PlacedAppend

\* An accessor sends.
LEMMA OneCopyPush ==
  ASSUME Typed, OneCopy, NEW a \in Accessors, AccessorPush(a)
  PROVE  OneCopy'
<1> DEFINE d == target[a]
           m == Msg(a, d)
           y == <<"rx", d, Len(rx[d]) + 1>>
<1>1. a \in Sources /\ d \in Contexts
  BY DEF Sources, Typed
<1>2. m \in QueueItem
  BY <1>1, MsgType DEF QueueItem
<1>3. UNCHANGED <<local_queue, unsent_messages, outbox, handled>>
  BY DEF AccessorPush
<1>4. CASE Gone(d)
  <2>1. UNCHANGED <<rx, sent>>
    BY <1>4 DEF AccessorPush
  <2> QED BY <1>3, <2>1, OneCopyKept DEF queues
<1>5. CASE ~ Gone(d)
  <2>1. /\ rx'[d] = Append(rx[d], m) /\ \A e \in Contexts : e # d => rx'[e] = rx[e]
        /\ sent' = [sent EXCEPT ![a] = @ + 1]
    BY <1>1, <1>5 DEF AccessorPush, Typed
  <2> HIDE DEF d, m
  <2>2. \A s \in Sources : \A k \in Nat : Copies(s, k)' = Copies(s, k) \cup At(m, s, k, y)
    <3> TAKE s \in Sources
    <3> TAKE k \in Nat
    <3>1. Handlings(s, k)' = Handlings(s, k)
      BY <1>3 DEF Handlings
    <3>2. Placed("rx", rx', s, k) = Placed("rx", rx, s, k) \cup At(m, s, k, y)
      BY <1>1, <1>2, <2>1, ChannelGains
    <3> HIDE DEF y
    <3> QED BY <1>3, <3>1, <3>2, CopiesByKind, CopiesByKindNext
  <2> HIDE DEF y
  <2> QED BY <1>1, <2>1, <2>2, OneCopyAdded DEF m
<1> QED BY <1>4, <1>5

\* Something that is no message is queued.
LEMMA OneCopyNoMessage ==
  ASSUME Typed, OneCopy, NEW d \in Contexts, NEW m \in QueueItem, m.kind # "Msg",
         rx'[d] = Append(rx[d], m), \A e \in Contexts : e # d => rx'[e] = rx[e],
         UNCHANGED <<local_queue, unsent_messages, outbox, handled, sent>>
  PROVE  OneCopy'
<1>1. \A s, k : Copies(s, k)' = Copies(s, k)
  <2> TAKE s, k
  <2>1. At(m, s, k, <<"rx", d, Len(rx[d]) + 1>>) = {}
    BY DEF At, Is
  <2>2. Placed("rx", rx', s, k) =
          Placed("rx", rx, s, k) \cup At(m, s, k, <<"rx", d, Len(rx[d]) + 1>>)
    BY ChannelGains
  <2>3. Placed("rx", rx', s, k) = Placed("rx", rx, s, k)
    BY <2>1, <2>2
  <2>4. Handlings(s, k)' = Handlings(s, k)
    BY DEF Handlings
  <2> QED BY <2>3, <2>4, CopiesByKind, CopiesByKindNext
<1> QED BY <1>1 DEF OneCopy

\* A local message moves from the local queue to the handled ones.
LEMMA OneCopyRecvLocal ==
  ASSUME Typed, OneCopy, NEW c \in Contexts, RecvLocal(c)
  PROVE  OneCopy'
<1> USE DEF queues, block, access
<1> DEFINE q == local_queue[c]
           f == [i \in 1 .. Len(q) - 1 |-> IF i < Len(q) THEN q[i] ELSE q[i + 1]]
           m == q[Len(q)]
           y == <<"handled", c, 0>>
<1>1. q \in Seq(Message) /\ Len(q) \in Nat \ {0}
  BY DEF Typed, RecvLocal
<1>2. m \in Message
  BY <1>1
<1>3. f \in Seq(QueueItem) /\ Len(f) = Len(q) - 1 /\ \A i \in DOMAIN f : f[i] = q[i]
  <2>1. f \in [1 .. Len(q) - 1 -> QueueItem]
    BY <1>1 DEF QueueItem
  <2>2. f \in Seq(QueueItem)
    BY <1>1, <2>1, SeqDef
  <2>3. Len(f) = Len(q) - 1
    BY <1>1, <2>2
  <2>4. \A i \in 1 .. Len(q) - 1 : i < Len(q)
    BY <1>1
  <2> QED BY <2>2, <2>3, <2>4
<1>4. /\ local_queue' = [local_queue EXCEPT ![c] = f]
      /\ handled' = [handled EXCEPT ![c] = @ \cup {m}]
      /\ UNCHANGED <<unsent_messages, outbox, rx, sent>>
  BY DEF RecvLocal, NextLocal
<1>5. q # <<>>
  BY DEF RecvLocal
<1> HIDE DEF f
<1>6. \A s \in Sources : \A k \in Nat : Carried(Copies(s, k), Copies(s, k)')
  <2> TAKE s \in Sources
  <2> TAKE k \in Nat
  <2> DEFINE A == Placed("local", local_queue, s, k)
             B == Placed("local", local_queue', s, k) \cup At(m, s, k, y)
             P == Placed("unsent", unsent_messages, s, k) \cup Placed("outbox", outbox, s, k)
                    \cup Placed("rx", rx, s, k) \cup Handlings(s, k)
  <2>1. Carried(A, B)
    <3>1. local_queue'[c] = f /\ \A e \in Contexts : e # c => local_queue'[e] = local_queue[e]
      BY <1>4 DEF Typed
    <3>2. local_queue \in AllQueues
      BY QueuesTyped
    <3>3. local_queue' \in AllQueues
      BY <1>3, <1>4, <3>2 DEF AllQueues
    <3> QED BY <1>3, <1>5, <3>1, <3>2, <3>3, PlacedFront
  <2>2. P \cap A = {}
    BY PlaceTags
  <2>3. Handlings(s, k)' = Handlings(s, k) \cup At(m, s, k, y)
    BY <1>2, <1>4, HandlingsGain
  <2>4. Copies(s, k) = P \cup A
    BY CopiesByKind
  <2>5. Copies(s, k)' = P \cup B
    BY <1>4, <2>3, CopiesByKindNext
  <2> HIDE DEF A, B, P
  <2>7. Carried(P \cup A, P \cup B)
    BY <2>1, <2>2, CarriedPart
  <2> QED BY <2>4, <2>5, <2>7
<1> QED BY <1>4, <1>6, OneCopyCarried

\* The item at the head of a channel is taken; a message is then handled.
LEMMA OneCopyTake ==
  ASSUME Typed, OneCopy, NEW c \in Contexts, RecvMsg(c) \/ RecvAccessorDropped(c) \/ RecvStop(c)
  PROVE  OneCopy'
<1> USE DEF queues, block, access
<1> DEFINE m == Head(rx[c])
           y == <<"handled", c, 0>>
<1>1. rx[c] # <<>> /\ rx' = [rx EXCEPT ![c] = Tail(@)]
      /\ UNCHANGED <<local_queue, unsent_messages, outbox, sent>>
  BY DEF RecvMsg, RecvAccessorDropped, RecvStop, TakeItem
<1>2. m \in QueueItem
  BY <1>1 DEF Typed
<1>3. \A s, k : Handlings(s, k)' = Handlings(s, k) \cup At(m, s, k, y)
  <2> TAKE s, k
  <2>1. CASE RecvMsg(c)
    <3>1. m.kind = "Msg" /\ handled' = [handled EXCEPT ![c] = @ \cup {m}]
      BY <2>1 DEF RecvMsg, TakeItem
    <3>2. m \in Message
      BY <1>2, <3>1 DEF QueueItem, AccessorDropped, Stop
    <3> QED BY <3>1, <3>2, HandlingsGain
  <2>2. CASE RecvAccessorDropped(c) \/ RecvStop(c)
    <3>1. m.kind # "Msg" /\ UNCHANGED handled
      BY <2>2 DEF RecvAccessorDropped, RecvStop, TakeItem
    <3>2. At(m, s, k, y) = {}
      BY <3>1 DEF At, Is
    <3> QED BY <3>1, <3>2 DEF Handlings
  <2> QED BY <2>1, <2>2
<1>4. \A s \in Sources : \A k \in Nat : Carried(Copies(s, k), Copies(s, k)')
  <2> TAKE s \in Sources
  <2> TAKE k \in Nat
  <2> DEFINE A == Placed("rx", rx, s, k)
             B == Placed("rx", rx', s, k) \cup At(m, s, k, y)
             P == Placed("local", local_queue, s, k) \cup Placed("unsent", unsent_messages, s, k)
                    \cup Placed("outbox", outbox, s, k) \cup Handlings(s, k)
  <2>1. Carried(A, B)
    <3>1. rx'[c] = Tail(rx[c]) /\ \A e \in Contexts : e # c => rx'[e] = rx[e]
      BY <1>1 DEF Typed
    <3> QED BY <1>1, <3>1, QueuesTyped, PlacedTail
  <2>2. P \cap A = {}
    BY PlaceTags
  <2>4. Copies(s, k) = P \cup A
    BY CopiesByKind
  <2>5. Copies(s, k)' = P \cup B
    BY <1>1, <1>3, CopiesByKindNext
  <2> HIDE DEF A, B, P
  <2>7. Carried(P \cup A, P \cup B)
    BY <2>1, <2>2, CarriedPart
  <2> QED BY <2>4, <2>5, <2>7
<1> QED BY <1>1, <1>4, OneCopyCarried

\* What the thread's outbox is filled with: a permutation of what it kept.
LEMMA SettlePermutes ==
  ASSUME Typed, QueuesFitPc, NEW c \in Contexts, SettleOne(c) \/ SettleMany(c)
  PROVE  LET u == unsent_messages[c] IN
         /\ outbox[c] = <<>>
         /\ unsent_messages' = [unsent_messages EXCEPT ![c] = <<>>]
         /\ \E p \in [DOMAIN u -> DOMAIN u] :
              /\ IsStableOrder(p, u)
              /\ outbox' = [outbox EXCEPT ![c] = [i \in DOMAIN u |-> u[p[i]]]]
<1> DEFINE u == unsent_messages[c]
<1>1. u \in Seq(Message) /\ Len(u) \in Nat /\ DOMAIN u = 1 .. Len(u)
  BY DEF Typed
<1>2. pc[c] = "drain" /\ unsent_messages' = [unsent_messages EXCEPT ![c] = <<>>]
  BY DEF SettleOne, SettleMany
<1>3. outbox[c] = <<>>
  BY <1>2 DEF QueuesFitPc
<1>4. CASE SettleMany(c)
  BY <1>2, <1>3, <1>4 DEF SettleMany
<1>5. CASE SettleOne(c)
  <2> DEFINE p == [i \in DOMAIN u |-> i]
  <2>1. p \in [DOMAIN u -> DOMAIN u] /\ Len(u) = 1
    BY <1>5 DEF SettleOne
  <2>2. \A i, j \in DOMAIN u : ~ i < j
    BY <1>1, <2>1
  <2>3. IsStableOrder(p, u)
    BY <2>2 DEF IsStableOrder
  <2>4. u = [i \in DOMAIN u |-> u[p[i]]]
    <3>1. u = [i \in DOMAIN u |-> u[i]]
      BY <1>1
    <3> QED BY <3>1
  <2>5. outbox' = [outbox EXCEPT ![c] = u]
    BY <1>5 DEF SettleOne
  <2>6. outbox' = [outbox EXCEPT ![c] = [i \in DOMAIN u |-> u[p[i]]]]
    BY <2>4, <2>5
  <2> HIDE DEF p
  <2> QED BY <1>2, <1>3, <2>1, <2>3, <2>6
<1> QED BY <1>4, <1>5

\* A batch moves from what is kept to what is being sent.
LEMMA OneCopySettle ==
  ASSUME Typed, QueuesFitPc, OneCopy, NEW c \in Contexts, SettleOne(c) \/ SettleMany(c)
  PROVE  OneCopy'
<1> DEFINE u == unsent_messages[c]
<1>1. PICK p \in [DOMAIN u -> DOMAIN u] :
             /\ IsStableOrder(p, u)
             /\ outbox' = [outbox EXCEPT ![c] = [i \in DOMAIN u |-> u[p[i]]]]
  BY SettlePermutes
<1>2. outbox[c] = <<>> /\ unsent_messages' = [unsent_messages EXCEPT ![c] = <<>>]
  BY SettlePermutes
<1>3. UNCHANGED <<local_queue, rx, handled, sent>>
  BY DEF SettleOne, SettleMany
<1>4. u \in Seq(Message)
  BY DEF Typed
<1>5. /\ \A i, j \in DOMAIN u : p[i] = p[j] => i = j
      /\ \A i \in DOMAIN u : \E j \in DOMAIN u : p[j] = i
  BY <1>1, <1>4, StableOrderPermutes
<1>6. \A s \in Sources : \A k \in Nat : Carried(Copies(s, k), Copies(s, k)')
  <2> TAKE s \in Sources
  <2> TAKE k \in Nat
  <2> DEFINE A == Placed("unsent", unsent_messages, s, k) \cup Placed("outbox", outbox, s, k)
             B == Placed("unsent", unsent_messages', s, k) \cup Placed("outbox", outbox', s, k)
             P == Placed("local", local_queue, s, k) \cup Placed("rx", rx, s, k) \cup Handlings(s, k)
  <2>1. Carried(A, B)
    <3>0. p \in [DOMAIN u -> DOMAIN u]
      BY <1>1
    <3>1. /\ unsent_messages'[c] = <<>>
          /\ DOMAIN outbox'[c] = DOMAIN u /\ \A i \in DOMAIN u : outbox'[c][i] = u[p[i]]
          /\ \A e \in Contexts : e # c => unsent_messages'[e] = unsent_messages[e] /\ outbox'[e] = outbox[e]
      BY <1>1, <1>2 DEF Typed
    <3>2. BatchMoves(c, p)
      BY <1>2, <1>5, <3>0, <3>1 DEF BatchMoves
    <3> QED BY <3>2, PlacedMoved
  <2>2. P \cap A = {}
    BY PlaceTags
  <2>3. Handlings(s, k)' = Handlings(s, k)
    BY <1>3 DEF Handlings
  <2>4. Copies(s, k) = P \cup A
    BY CopiesByKind
  <2>5. Copies(s, k)' = P \cup B
    BY <1>3, <2>3, CopiesByKindNext
  <2> HIDE DEF A, B, P
  <2>7. Carried(P \cup A, P \cup B)
    BY <2>1, <2>2, CarriedPart
  <2> QED BY <2>4, <2>5, <2>7
<1> QED BY <1>3, <1>6, OneCopyCarried

\* A message of the batch moves to a channel.
LEMMA OneCopyFlush ==
  ASSUME Typed, QueuesFitPc, OneCopy, NEW c \in Contexts, Flush(c)
  PROVE  OneCopy'
<1> DEFINE m == Head(outbox[c])
           d == Links(c)[LinkSlot(c, m.to)]
           y == <<"rx", d, Len(rx[d]) + 1>>
<1>1. /\ outbox[c] # <<>> /\ outbox' = [outbox EXCEPT ![c] = Tail(@)]
      /\ UNCHANGED <<local_queue, unsent_messages, handled, sent>>
  BY DEF Flush, QueuesFitPc
<1>2. m \in QueueItem
  BY <1>1 DEF Typed, QueueItem
<1>3. d \in Contexts
  BY LinksType DEF Flush, LinkWorks
<1>0. rx'[d] = Append(rx[d], m) /\ \A e \in Contexts : e # d => rx'[e] = rx[e]
  BY <1>3 DEF Flush, Typed
<1> HIDE DEF d
<1>4. \A s \in Sources : \A k \in Nat : Carried(Copies(s, k), Copies(s, k)')
  <2> TAKE s \in Sources
  <2> TAKE k \in Nat
  <2> DEFINE A == Placed("outbox", outbox, s, k)
             B == Placed("outbox", outbox', s, k) \cup At(m, s, k, y)
             P == Placed("local", local_queue, s, k) \cup Placed("unsent", unsent_messages, s, k)
                    \cup Placed("rx", rx, s, k) \cup Handlings(s, k)
  <2>1. Carried(A, B)
    <3>1. outbox'[c] = Tail(outbox[c]) /\ \A e \in Contexts : e # c => outbox'[e] = outbox[e]
      BY <1>1 DEF Typed
    <3> QED BY <1>1, <3>1, QueuesTyped, PlacedTail
  <2>2. P \cap A = {}
    BY PlaceTags
  <2>3. Handlings(s, k)' = Handlings(s, k)
    BY <1>1 DEF Handlings
  <2>4. Placed("rx", rx', s, k) = Placed("rx", rx, s, k) \cup At(m, s, k, y)
    BY <1>0, <1>2, <1>3, ChannelGains
  <2>5. Copies(s, k) = P \cup A
    BY CopiesByKind
  <2>6. Copies(s, k)' = P \cup B
    BY <1>1, <2>3, <2>4, CopiesByKindNext
  <2> HIDE DEF A, B, P
  <2>7. Carried(P \cup A, P \cup B)
    BY <2>1, <2>2, CarriedPart
  <2> QED BY <2>5, <2>6, <2>7
<1> QED BY <1>1, <1>4, OneCopyCarried

\* Every step carries every message from one place to one place.
LEMMA OneCopyStep ==
  ASSUME Typed, QueuesFitPc, OneCopy, [Next]_vars
  PROVE  OneCopy'
<1> USE DEF queues, block, access
<1>1. ASSUME UNCHANGED <<queues, sent, handled>> PROVE OneCopy'
  BY <1>1, OneCopyKept
<1>2. ASSUME NEW a \in Accessors, AccessorDrop(a) PROVE OneCopy'
  <2>1. CASE Gone(target[a])
    BY <1>1, <1>2, <2>1 DEF AccessorDrop
  <2>2. CASE ~ Gone(target[a])
    <3>1. target[a] \in Contexts /\ AccessorDropped \in QueueItem /\ AccessorDropped.kind # "Msg"
      BY DEF Typed, QueueItem, AccessorDropped
    <3>2. /\ rx'[target[a]] = Append(rx[target[a]], AccessorDropped)
          /\ \A e \in Contexts : e # target[a] => rx'[e] = rx[e]
          /\ UNCHANGED <<local_queue, unsent_messages, outbox, handled, sent>>
      BY <1>2, <2>2, <3>1 DEF AccessorDrop, Typed
    <3> QED BY <3>1, <3>2, OneCopyNoMessage
  <2> QED BY <2>1, <2>2
<1>3. ASSUME NEW c \in Contexts, SendStop(c) PROVE OneCopy'
  <2> DEFINE d == Links(c)[next_link[c]]
  <2>1. CASE Gone(d)
    BY <1>1, <1>3, <2>1 DEF SendStop
  <2>2. CASE ~ Gone(d)
    <3>1. next_link[c] \in DOMAIN Links(c)
      BY <1>3, NAssumption DEF Typed, SendStop, Links
    <3>2. d \in Contexts /\ Stop \in QueueItem /\ Stop.kind # "Msg"
      BY <3>1, LinksType DEF QueueItem, Stop
    <3>3. /\ rx'[d] = Append(rx[d], Stop) /\ \A e \in Contexts : e # d => rx'[e] = rx[e]
          /\ UNCHANGED <<local_queue, unsent_messages, outbox, handled, sent>>
      BY <1>3, <2>2, <3>2 DEF SendStop, Typed
    <3> HIDE DEF d
    <3> QED BY <3>2, <3>3, OneCopyNoMessage
  <2> QED BY <2>1, <2>2
<1>4. ASSUME NEW a \in Accessors, AccessorCount(a) \/ AccessorPush(a) PROVE OneCopy'
  BY <1>1, <1>4, OneCopyPush DEF AccessorCount
<1>5. ASSUME NEW c \in Contexts, User(c) PROVE OneCopy'
  <2>1. ASSUME NEW d \in Contexts, InitSendMsg(c, d) \/ SendMsg(c, d) PROVE OneCopy'
    BY <2>1, OneCopyPost DEF InitSendMsg, SendMsg
  <2>2. CASE HandlerPanic(c) \/ \E d \in Contexts, a \in Accessors : CreateAccessor(c, a, d)
    BY <1>1, <2>2 DEF HandlerPanic, CreateAccessor
  <2> QED BY <1>5, <2>1, <2>2 DEF User
<1>6. ASSUME NEW c \in Contexts,
             FinishInit(c) \/ Return(c) \/ IntoUnowned(c) \/ RecvDisconnected(c) \/ SettleNone(c)
               \/ FlushPanic(c) \/ FinishStop(c)
      PROVE  OneCopy'
  BY <1>1, <1>6 DEF FinishInit, Return, IntoUnowned, RecvDisconnected, SettleNone, FlushPanic, FinishStop
<1>7. CASE UNCHANGED vars
  BY <1>1, <1>7 DEF vars
<1> QED
  BY <1>2, <1>3, <1>4, <1>5, <1>6, <1>7, OneCopyRecvLocal, OneCopyTake, OneCopySettle, OneCopyFlush
     DEF Next, Thread, Holder

\* Nothing was sent and nothing is anywhere.
LEMMA OneCopyInit == Init => OneCopy
<1> SUFFICES ASSUME Init, NEW s \in Sources, NEW k \in Nat
             PROVE  k \notin 1 .. sent[s] /\ Copies(s, k) = {}
  BY DEF OneCopy
<1>1. k \notin 1 .. sent[s]
  BY DEF Init
<1>2. Copies(s, k) = {}
  BY DEF Init, Copies, Occurrences
<1> QED BY <1>1, <1>2

\* It holds always.
LEMMA OneCopyHolds == Spec => [](IInv /\ OneCopy)
<1>1. Init => IInv /\ OneCopy
  BY InvariantInit, OneCopyInit
<1>2. IInv /\ OneCopy /\ [Next]_vars => (IInv /\ OneCopy)'
  BY InvariantStep, OneCopyStep DEF IInv
<1> QED BY <1>1, <1>2, PTL DEF Spec

\* Every message that was sent is in exactly one place (mod.rs:296, 342-358).
THEOREM MessagesAreConserved == Spec => []ExactlyOneCopy
<1>1. Typed /\ OneCopy => ExactlyOneCopy
  <2> SUFFICES ASSUME Typed, OneCopy, NEW s \in Sources, NEW k \in 1 .. sent[s]
               PROVE  Cardinality(Copies(s, k)) = 1
    BY DEF ExactlyOneCopy
  <2>1. k \in Nat
    BY DEF Typed
  <2>2. PICK x : Copies(s, k) = {x}
    BY <2>1 DEF OneCopy
  <2> QED BY <2>2, FS_Singleton
<1> QED BY <1>1, OneCopyHolds, PTL DEF IInv

------------------------------------------------------------------------------
(***************************************************************************)
(* Messages from one source to one context are handled in order.           *)
(***************************************************************************)

\* What context c has sent and not yet put in a channel.
Waiting(c) ==
  {outbox[c][i] : i \in DOMAIN outbox[c]}
    \cup {unsent_messages[c][i] : i \in DOMAIN unsent_messages[c]}

\* If the two are from one source to one context, m was sent first.
Before(m, w) == m.from = w.from /\ m.to = w.to => m.seq < w.seq

\* What a context keeps for itself and for others it has sent itself.
FromOwn ==
  \A c \in Contexts :
    /\ \A i \in DOMAIN local_queue[c] : local_queue[c][i].from = c
    /\ \A w \in Waiting(c) : w.from = c

\* What is kept is in the order of sending, a batch is so for each addressee, and
\* was sent before what is kept.
BatchOrder ==
  \A c \in Contexts :
    /\ \A i, j \in DOMAIN unsent_messages[c] :
         i < j => Before(unsent_messages[c][i], unsent_messages[c][j])
    /\ \A i, j \in DOMAIN outbox[c] : i < j => Before(outbox[c][i], outbox[c][j])
    /\ \A i \in DOMAIN outbox[c], j \in DOMAIN unsent_messages[c] :
         Before(outbox[c][i], unsent_messages[c][j])

\* What is in a channel was sent before what is behind it, and before what its
\* source has not put in a channel yet.
ChannelOrder ==
  \A d \in Contexts : \A i \in DOMAIN rx[d] : rx[d][i].kind = "Msg" =>
    /\ \A j \in DOMAIN rx[d] : i < j /\ rx[d][j].kind = "Msg" => Before(rx[d][i], rx[d][j])
    /\ \A c \in Contexts : \A w \in Waiting(c) : Before(rx[d][i], w)

\* What came through a channel was sent before what is still in it, and before
\* what its source has not put in a channel yet.
HandledOrder ==
  \A d \in Contexts : \A e \in handled[d] : e.from # d =>
    /\ \A j \in DOMAIN rx[d] : rx[d][j].kind = "Msg" => Before(e, rx[d][j])
    /\ \A c \in Contexts : \A w \in Waiting(c) : Before(e, w)

\* The order messages are in, from the batch to the handler.
OrderInv == FromOwn /\ BatchOrder /\ ChannelOrder /\ HandledOrder

\* What a message is made of.
LEMMA MessageFields ==
  ASSUME NEW m \in Message
  PROVE  m.kind = "Msg" /\ m.from \in Sources /\ m.seq \in Nat /\ m.to \in Contexts
BY DEF Message

\* An item of a channel marked as a message is one.
LEMMA ChannelMessages ==
  ASSUME Typed, NEW d \in Contexts, NEW i \in DOMAIN rx[d], rx[d][i].kind = "Msg"
  PROVE  rx[d][i] \in Message
<1>1. rx[d][i] \in QueueItem
  BY DEF Typed
<1> QED BY <1>1 DEF QueueItem, AccessorDropped, Stop

\* What waits is a message.
LEMMA WaitingMessages ==
  ASSUME Typed, NEW c \in Contexts, NEW w \in Waiting(c)
  PROVE  w \in Message
BY DEF Typed, Waiting

\* Nothing is anywhere that was not sent: places are few.
LEMMA SeqBound ==
  ASSUME Typed, OneCopy
  PROVE  /\ \A c \in Contexts : \A w \in Waiting(c) : w.seq <= sent[w.from]
         /\ \A c \in Contexts : \A i \in DOMAIN rx[c] :
              rx[c][i].kind = "Msg" => rx[c][i].seq <= sent[rx[c][i].from]
         /\ \A c \in Contexts : \A e \in handled[c] : e.seq <= sent[e.from]
<1>1. ASSUME NEW m \in Message, NEW x \in Copies(m.from, m.seq) PROVE m.seq <= sent[m.from]
  <2>1. m.from \in Sources /\ m.seq \in Nat
    BY MessageFields
  <2>2. m.seq \in 1 .. sent[m.from]
    BY <2>1 DEF OneCopy
  <2> QED BY <2>1, <2>2 DEF Typed
<1>2. ASSUME NEW c \in Contexts, NEW w \in Waiting(c) PROVE w.seq <= sent[w.from]
  <2>1. w \in Message
    BY WaitingMessages
  <2>2. CASE \E i \in DOMAIN outbox[c] : w = outbox[c][i]
    <3>1. PICK i \in DOMAIN outbox[c] : w = outbox[c][i]
      BY <2>2
    <3>2. <<"outbox", c, i>> \in Copies(w.from, w.seq)
      BY <2>1, <3>1, MessageFields DEF Copies, Occurrences
    <3> QED BY <1>1, <2>1, <3>2
  <2>3. CASE \E i \in DOMAIN unsent_messages[c] : w = unsent_messages[c][i]
    <3>1. PICK i \in DOMAIN unsent_messages[c] : w = unsent_messages[c][i]
      BY <2>3
    <3>2. <<"unsent", c, i>> \in Copies(w.from, w.seq)
      BY <2>1, <3>1, MessageFields DEF Copies, Occurrences
    <3> QED BY <1>1, <2>1, <3>2
  <2> QED BY <2>2, <2>3 DEF Waiting
<1>3. ASSUME NEW c \in Contexts, NEW i \in DOMAIN rx[c], rx[c][i].kind = "Msg"
      PROVE  rx[c][i].seq <= sent[rx[c][i].from]
  <2>1. rx[c][i] \in Message
    BY <1>3, ChannelMessages
  <2>2. <<"rx", c, i>> \in Copies(rx[c][i].from, rx[c][i].seq)
    BY <1>3 DEF Copies, Occurrences
  <2> QED BY <1>1, <2>1, <2>2
<1>4. ASSUME NEW c \in Contexts, NEW e \in handled[c] PROVE e.seq <= sent[e.from]
  <2>1. e \in Message
    BY DEF Typed
  <2>2. <<"handled", c, 0>> \in Copies(e.from, e.seq)
    BY DEF Copies
  <2> QED BY <1>1, <2>1, <2>2
<1> QED BY <1>2, <1>3, <1>4

\* The next message of a source comes after whatever is within the bound.
LEMMA NewIsLater ==
  ASSUME Typed, NEW m \in Message, m.seq <= sent[m.from], NEW s \in Sources, NEW d
  PROVE  Before(m, Msg(s, d))
<1>1. m.seq \in Nat /\ sent[s] \in Nat
  BY MessageFields DEF Typed
<1> QED BY <1>1 DEF Before, Msg

\* A step that changes no queue order.
LEMMA OrderKept ==
  ASSUME OrderInv, UNCHANGED <<queues, handled>>
  PROVE  OrderInv'
<1>1. \A c : Waiting(c)' = Waiting(c)
  BY DEF Waiting, queues
<1>2. UNCHANGED <<local_queue, unsent_messages, outbox, rx, handled>>
  BY DEF queues
<1> QED BY <1>1, <1>2 DEF OrderInv, FromOwn, BatchOrder, ChannelOrder, HandledOrder

\* The channels lose nothing and get no message: order depends on what waits.
LEMMA OrderWaits ==
  ASSUME ChannelOrder, HandledOrder, UNCHANGED <<rx, handled>>,
         \A c \in Contexts : \A w \in Waiting(c)' : w \in Waiting(c)
  PROVE  ChannelOrder' /\ HandledOrder'
BY DEF ChannelOrder, HandledOrder

\* A handler or a constructor sends: the newest message joins the end.
LEMMA OrderPost ==
  ASSUME Typed, OneCopy, OrderInv, NEW c \in Contexts, NEW d \in Contexts, Post(c, d)
  PROVE  OrderInv'
<1> DEFINE m == Msg(c, d)
<1>1. c \in Sources /\ m \in Message /\ m.from = c /\ UNCHANGED <<outbox, rx, handled>>
  BY MsgType DEF Sources, Msg, Post
<1>2. \A w \in Message : w.seq <= sent[w.from] => Before(w, m)
  BY <1>1, NewIsLater
<1> HIDE DEF m
<1>3. \A e \in Contexts : local_queue[e] \in Seq(Message) /\ unsent_messages[e] \in Seq(Message)
  BY DEF Typed
<1>4. CASE d = c
  <2>1. /\ local_queue'[c] = Append(local_queue[c], m) /\ UNCHANGED unsent_messages
        /\ \A e \in Contexts : e # c => local_queue'[e] = local_queue[e]
    BY <1>4 DEF Post, m, Typed
  <2>2. \A e : Waiting(e)' = Waiting(e)
    BY <1>1, <2>1 DEF Waiting
  <2>3. \A e \in Contexts : \A i \in DOMAIN local_queue'[e] : local_queue'[e][i].from = e
    <3> TAKE e \in Contexts
    <3> TAKE i \in DOMAIN local_queue'[e]
    <3>1. CASE e = c
      <4>1. \/ i \in DOMAIN local_queue[c] /\ local_queue'[c][i] = local_queue[c][i]
            \/ local_queue'[c][i] = m
        BY <1>3, <2>1, <3>1
      <4> QED BY <1>1, <3>1, <4>1 DEF OrderInv, FromOwn
    <3>2. CASE e # c
      BY <2>1, <3>2 DEF OrderInv, FromOwn
    <3> QED BY <3>1, <3>2
  <2>4. FromOwn'
    BY <2>2, <2>3 DEF OrderInv, FromOwn
  <2>5. BatchOrder'
    BY <1>1, <2>1 DEF OrderInv, BatchOrder
  <2>6. ChannelOrder' /\ HandledOrder'
    BY <1>1, <2>2, OrderWaits DEF OrderInv
  <2> QED BY <2>4, <2>5, <2>6 DEF OrderInv
<1>5. CASE d # c
  <2> DEFINE u == unsent_messages[c]
             n == Len(u)
  <2>1. /\ unsent_messages'[c] = Append(u, m) /\ UNCHANGED local_queue
        /\ \A e \in Contexts : e # c => unsent_messages'[e] = unsent_messages[e]
    BY <1>5 DEF Post, m, Typed
  <2>2. /\ n \in Nat /\ DOMAIN u = 1 .. n /\ DOMAIN unsent_messages'[c] = 1 .. n + 1
        /\ \A i \in 1 .. n : unsent_messages'[c][i] = u[i]
        /\ unsent_messages'[c][n + 1] = m
    BY <1>3, <2>1
  <2>3. \A i : i \in 1 .. n + 1 <=> i \in 1 .. n \/ i = n + 1
    BY <2>2
  <2> HIDE DEF n
  <2>4. \A e \in Contexts : \A w \in Waiting(e)' : w \in Waiting(e) \/ (e = c /\ w = m)
    BY <1>1, <2>1, <2>2, <2>3 DEF Waiting
  <2>5. \A e \in Contexts : \A w \in Waiting(e) : Before(w, m)
    BY <1>2, SeqBound, WaitingMessages
  <2>6. FromOwn'
    BY <1>1, <2>1, <2>4 DEF OrderInv, FromOwn
  <2>7. BatchOrder'
    <3> SUFFICES ASSUME NEW e \in Contexts
                 PROVE  /\ \A i, j \in DOMAIN unsent_messages'[e] :
                             i < j => Before(unsent_messages'[e][i], unsent_messages'[e][j])
                        /\ \A i, j \in DOMAIN outbox[e] : i < j => Before(outbox[e][i], outbox[e][j])
                        /\ \A i \in DOMAIN outbox[e], j \in DOMAIN unsent_messages'[e] :
                             Before(outbox[e][i], unsent_messages'[e][j])
      BY <1>1 DEF BatchOrder
    <3>1. CASE e # c
      BY <2>1, <3>1 DEF OrderInv, BatchOrder
    <3>2. CASE e = c
      <4>1. \A i \in DOMAIN u : Before(u[i], m)
        BY <2>5 DEF Waiting
      <4>2. \A i \in DOMAIN outbox[c] : Before(outbox[c][i], m)
        BY <2>5 DEF Waiting
      <4>3. \A i, j \in 1 .. n + 1 : i < j => i \in 1 .. n /\ (j \in 1 .. n \/ j = n + 1)
        BY <2>2
      <4>4. \A i, j \in DOMAIN unsent_messages'[c] :
               i < j => Before(unsent_messages'[c][i], unsent_messages'[c][j])
        BY <2>2, <4>1, <4>3 DEF OrderInv, BatchOrder
      <4>5. \A i \in DOMAIN outbox[c], j \in DOMAIN unsent_messages'[c] :
               Before(outbox[c][i], unsent_messages'[c][j])
        BY <2>2, <2>3, <4>2 DEF OrderInv, BatchOrder
      <4> QED BY <3>2, <4>4, <4>5 DEF OrderInv, BatchOrder
    <3> QED BY <3>1, <3>2
  <2>8. ChannelOrder'
    <3>1. \A e \in Contexts : \A i \in DOMAIN rx[e] : rx[e][i].kind = "Msg" => Before(rx[e][i], m)
      BY <1>2, SeqBound, ChannelMessages
    <3> QED BY <1>1, <2>4, <3>1 DEF OrderInv, ChannelOrder
  <2>9. HandledOrder'
    <3>1. \A e \in Contexts : \A x \in handled[e] : x \in Message
      BY DEF Typed
    <3>2. \A e \in Contexts : \A x \in handled[e] : Before(x, m)
      BY <1>2, <3>1, SeqBound
    <3> QED BY <1>1, <2>4, <3>2 DEF OrderInv, HandledOrder
  <2> QED BY <2>6, <2>7, <2>8, <2>9 DEF OrderInv
<1> QED BY <1>4, <1>5

\* An item is queued behind what it comes after.
LEMMA OrderChannelGains ==
  ASSUME Typed, ChannelOrder, HandledOrder, UNCHANGED handled,
         NEW d \in Contexts, NEW m,
         rx'[d] = Append(rx[d], m), \A e \in Contexts : e # d => rx'[e] = rx[e],
         \A c \in Contexts : \A w \in Waiting(c)' : w \in Waiting(c),
         m.kind = "Msg" =>
           /\ \A i \in DOMAIN rx[d] : rx[d][i].kind = "Msg" => Before(rx[d][i], m)
           /\ \A e \in handled[d] : e.from # d => Before(e, m)
           /\ \A c \in Contexts : \A w \in Waiting(c)' : Before(m, w)
  PROVE  ChannelOrder' /\ HandledOrder'
<1> DEFINE n == Len(rx[d])
<1>1. /\ n \in Nat /\ DOMAIN rx[d] = 1 .. n /\ DOMAIN rx'[d] = 1 .. n + 1
      /\ \A i \in 1 .. n : rx'[d][i] = rx[d][i]
      /\ rx'[d][n + 1] = m
  BY DEF Typed
<1>2. \A i : i \in 1 .. n + 1 <=> i \in 1 .. n \/ i = n + 1
  BY <1>1
<1>3. \A i, j \in 1 .. n + 1 : i < j => i \in 1 .. n /\ (j \in 1 .. n \/ j = n + 1)
  BY <1>1
<1> HIDE DEF n
<1>4. ChannelOrder'
  <2> SUFFICES ASSUME NEW e \in Contexts, NEW i \in DOMAIN rx'[e], rx'[e][i].kind = "Msg"
               PROVE  /\ \A j \in DOMAIN rx'[e] :
                           i < j /\ rx'[e][j].kind = "Msg" => Before(rx'[e][i], rx'[e][j])
                      /\ \A c \in Contexts : \A w \in Waiting(c)' : Before(rx'[e][i], w)
    BY DEF ChannelOrder
  <2>1. CASE e # d
    BY <2>1 DEF ChannelOrder
  <2>2. CASE e = d
    <3>1. \A j \in DOMAIN rx'[d] : i < j /\ rx'[d][j].kind = "Msg" => Before(rx'[d][i], rx'[d][j])
      BY <1>1, <1>3, <2>2 DEF ChannelOrder
    <3>2. \A c \in Contexts : \A w \in Waiting(c)' : Before(rx'[d][i], w)
      BY <1>1, <1>2, <2>2 DEF ChannelOrder
    <3> QED BY <2>2, <3>1, <3>2
  <2> QED BY <2>1, <2>2
<1>5. HandledOrder'
  <2> SUFFICES ASSUME NEW c \in Contexts, NEW e \in handled[c], e.from # c
               PROVE  /\ \A j \in DOMAIN rx'[c] : rx'[c][j].kind = "Msg" => Before(e, rx'[c][j])
                      /\ \A b \in Contexts : \A w \in Waiting(b)' : Before(e, w)
    BY DEF HandledOrder
  <2>1. CASE c # d
    BY <2>1 DEF HandledOrder
  <2>2. CASE c = d
    BY <1>1, <1>2, <2>2 DEF HandledOrder
  <2> QED BY <2>1, <2>2
<1> QED BY <1>4, <1>5

\* An accessor sends: the newest message joins the channel.
LEMMA OrderPush ==
  ASSUME Typed, OneCopy, OrderInv, NEW a \in Accessors, AccessorPush(a)
  PROVE  OrderInv'
<1> DEFINE d == target[a]
           m == Msg(a, d)
<1>1. a \in Sources /\ d \in Contexts /\ a \notin Contexts
  BY AccessorsAssumption DEF Sources, Typed
<1>2. m.from = a
  BY DEF Msg
<1>3. UNCHANGED <<local_queue, unsent_messages, outbox, handled>>
  BY DEF AccessorPush
<1>4. \A e : Waiting(e)' = Waiting(e)
  BY <1>3 DEF Waiting
<1>5. FromOwn' /\ BatchOrder'
  BY <1>3, <1>4 DEF OrderInv, FromOwn, BatchOrder
<1>6. CASE Gone(d)
  <2>1. UNCHANGED rx
    BY <1>6 DEF AccessorPush
  <2> QED BY <1>3, <2>1, OrderKept DEF queues
<1>7. CASE ~ Gone(d)
  <2>1. rx'[d] = Append(rx[d], m) /\ \A e \in Contexts : e # d => rx'[e] = rx[e]
    BY <1>1, <1>7 DEF AccessorPush, Typed
  <2>2. \A w \in Message : w.seq <= sent[w.from] => Before(w, m)
    BY <1>1, NewIsLater
  <2> HIDE DEF d, m
  <2>3. \A i \in DOMAIN rx[d] : rx[d][i].kind = "Msg" => Before(rx[d][i], m)
    BY <1>1, <2>2, SeqBound, ChannelMessages
  <2>4. \A e \in handled[d] : Before(e, m)
    <3>1. \A e \in handled[d] : e \in Message
      BY <1>1 DEF Typed
    <3> QED BY <1>1, <2>2, <3>1, SeqBound
  <2>5. \A c \in Contexts : \A w \in Waiting(c)' : w \in Waiting(c) /\ Before(m, w)
    BY <1>1, <1>2, <1>4 DEF OrderInv, FromOwn, Before
  <2>6. ChannelOrder' /\ HandledOrder'
    BY <1>1, <1>3, <2>1, <2>3, <2>4, <2>5, OrderChannelGains DEF OrderInv
  <2> QED BY <1>5, <2>6 DEF OrderInv
<1> QED BY <1>6, <1>7

\* Something that is no message is queued.
LEMMA OrderNoMessage ==
  ASSUME Typed, OrderInv, NEW d \in Contexts, NEW m \in QueueItem, m.kind # "Msg",
         rx'[d] = Append(rx[d], m), \A e \in Contexts : e # d => rx'[e] = rx[e],
         UNCHANGED <<local_queue, unsent_messages, outbox, handled>>
  PROVE  OrderInv'
<1>1. \A e : Waiting(e)' = Waiting(e)
  BY DEF Waiting
<1>2. FromOwn' /\ BatchOrder'
  BY <1>1 DEF OrderInv, FromOwn, BatchOrder
<1>3. ChannelOrder' /\ HandledOrder'
  BY <1>1, OrderChannelGains DEF OrderInv
<1> QED BY <1>2, <1>3 DEF OrderInv

\* A local message is taken: the context sent it itself.
LEMMA OrderRecvLocal ==
  ASSUME Typed, OrderInv, NEW c \in Contexts, RecvLocal(c)
  PROVE  OrderInv' /\ \E m : m.from = c /\ handled' = [handled EXCEPT ![c] = @ \cup {m}]
<1> DEFINE q == local_queue[c]
           f == [i \in 1 .. Len(q) - 1 |-> IF i < Len(q) THEN q[i] ELSE q[i + 1]]
           m == q[Len(q)]
<1>1. q \in Seq(Message) /\ Len(q) \in Nat \ {0}
  BY DEF Typed, RecvLocal
<1>2. /\ local_queue' = [local_queue EXCEPT ![c] = f]
      /\ handled' = [handled EXCEPT ![c] = @ \cup {m}]
      /\ UNCHANGED <<unsent_messages, outbox, rx>>
  BY DEF RecvLocal, NextLocal
<1>3. \A e : Waiting(e)' = Waiting(e)
  BY <1>2 DEF Waiting
<1>4. \A i \in 1 .. Len(q) : q[i].from = c
  BY <1>1 DEF OrderInv, FromOwn
<1>5. m.from = c
  BY <1>1, <1>4
<1>6. \A i \in DOMAIN f : f[i].from = c
  <2>1. \A i \in 1 .. Len(q) - 1 : i < Len(q) /\ i \in 1 .. Len(q)
    BY <1>1
  <2> QED BY <1>4, <2>1
<1> HIDE DEF f
<1>7. \A e \in Contexts : local_queue'[e] = IF e = c THEN f ELSE local_queue[e]
  BY <1>2 DEF Typed
<1>8. \A e \in Contexts : \A i \in DOMAIN local_queue'[e] : local_queue'[e][i].from = e
  BY <1>6, <1>7 DEF OrderInv, FromOwn
<1>9. FromOwn' /\ BatchOrder'
  BY <1>2, <1>3, <1>8 DEF OrderInv, FromOwn, BatchOrder
<1>10. ChannelOrder'
  BY <1>2, <1>3 DEF OrderInv, ChannelOrder
<1>11. \A d \in Contexts : \A e \in handled'[d] : e \in handled[d] \/ (d = c /\ e = m)
  BY <1>2 DEF Typed
<1>12. HandledOrder'
  BY <1>2, <1>3, <1>5, <1>11 DEF OrderInv, HandledOrder
<1> QED BY <1>2, <1>5, <1>9, <1>10, <1>12 DEF OrderInv

\* The item at the head of a channel is taken.
LEMMA OrderTake ==
  ASSUME Typed, OrderInv, NEW c \in Contexts,
         RecvMsg(c) \/ RecvAccessorDropped(c) \/ RecvStop(c)
  PROVE  OrderInv'
<1> DEFINE m == Head(rx[c])
           n == Len(rx[c])
<1>1. rx[c] # <<>> /\ UNCHANGED <<local_queue, unsent_messages, outbox>>
  BY DEF RecvMsg, RecvAccessorDropped, RecvStop, TakeItem
<1>2. rx'[c] = Tail(rx[c]) /\ \A d \in Contexts : d # c => rx'[d] = rx[d]
  BY DEF RecvMsg, RecvAccessorDropped, RecvStop, TakeItem, Typed
<1>3. /\ n \in Nat \ {0} /\ DOMAIN rx[c] = 1 .. n /\ DOMAIN rx'[c] = 1 .. n - 1
      /\ \A i \in 1 .. n - 1 : rx'[c][i] = rx[c][i + 1]
      /\ m = rx[c][1]
  BY <1>1, <1>2 DEF Typed
<1>4. /\ \A i \in 1 .. n - 1 : i + 1 \in 1 .. n /\ 1 < i + 1
      /\ \A i, j \in 1 .. n - 1 : i < j => i + 1 < j + 1
      /\ 1 \in 1 .. n
  BY <1>3
<1>5. \A e : Waiting(e)' = Waiting(e)
  BY <1>1 DEF Waiting
<1>6. FromOwn' /\ BatchOrder'
  BY <1>1, <1>5 DEF OrderInv, FromOwn, BatchOrder
<1>7. \A d \in Contexts : \A e \in handled'[d] :
        e \in handled[d] \/ (d = c /\ e = m /\ m.kind = "Msg")
  <2>1. CASE RecvMsg(c)
    <3>1. m.kind = "Msg" /\ handled' = [handled EXCEPT ![c] = @ \cup {m}]
      BY <2>1 DEF RecvMsg, TakeItem
    <3> QED BY <3>1 DEF Typed
  <2>2. CASE RecvAccessorDropped(c) \/ RecvStop(c)
    BY <2>2 DEF RecvAccessorDropped, RecvStop
  <2> QED BY <2>1, <2>2
<1> HIDE DEF m, n
<1>8. ChannelOrder'
  <2> SUFFICES ASSUME NEW d \in Contexts, NEW i \in DOMAIN rx'[d], rx'[d][i].kind = "Msg"
               PROVE  /\ \A j \in DOMAIN rx'[d] :
                           i < j /\ rx'[d][j].kind = "Msg" => Before(rx'[d][i], rx'[d][j])
                      /\ \A e \in Contexts : \A w \in Waiting(e)' : Before(rx'[d][i], w)
    BY DEF ChannelOrder
  <2>1. CASE d # c
    BY <1>2, <1>5, <2>1 DEF OrderInv, ChannelOrder
  <2>2. CASE d = c
    <3>1. i \in 1 .. n - 1 /\ rx'[c][i] = rx[c][i + 1] /\ i + 1 \in DOMAIN rx[c]
      BY <1>3, <1>4, <2>2
    <3>2. \A j \in 1 .. n - 1 : i < j => i + 1 < j + 1 /\ j + 1 \in DOMAIN rx[c] /\ rx'[c][j] = rx[c][j + 1]
      BY <1>3, <1>4, <3>1
    <3>3. \A j \in DOMAIN rx'[c] : i < j /\ rx'[c][j].kind = "Msg" => Before(rx'[c][i], rx'[c][j])
      BY <1>3, <2>2, <3>1, <3>2 DEF OrderInv, ChannelOrder
    <3>4. \A e \in Contexts : \A w \in Waiting(e)' : Before(rx'[c][i], w)
      BY <1>5, <2>2, <3>1 DEF OrderInv, ChannelOrder
    <3> QED BY <2>2, <3>3, <3>4
  <2> QED BY <2>1, <2>2
<1>9. HandledOrder'
  <2> SUFFICES ASSUME NEW d \in Contexts, NEW e \in handled'[d], e.from # d
               PROVE  /\ \A j \in DOMAIN rx'[d] : rx'[d][j].kind = "Msg" => Before(e, rx'[d][j])
                      /\ \A b \in Contexts : \A w \in Waiting(b)' : Before(e, w)
    BY DEF HandledOrder
  <2>1. CASE d # c
    BY <1>2, <1>5, <1>7, <2>1 DEF OrderInv, HandledOrder
  <2>2. CASE d = c /\ e \in handled[c]
    BY <1>3, <1>4, <1>5, <2>2 DEF OrderInv, HandledOrder
  <2>3. CASE d = c /\ e = m /\ m.kind = "Msg"
    <3>1. \A j \in 1 .. n - 1 : rx[c][j + 1].kind = "Msg" => Before(m, rx[c][j + 1])
      BY <1>3, <1>4, <2>3 DEF OrderInv, ChannelOrder
    <3>2. \A b \in Contexts : \A w \in Waiting(b) : Before(m, w)
      BY <1>3, <1>4, <2>3 DEF OrderInv, ChannelOrder
    <3> QED BY <1>3, <1>5, <2>3, <3>1, <3>2
  <2> QED BY <1>7, <2>1, <2>2, <2>3
<1> QED BY <1>6, <1>8, <1>9 DEF OrderInv

\* The batch is sorted by context, and keeps its order for each.
LEMMA OrderSettle ==
  ASSUME Typed, QueuesFitPc, OrderInv, NEW c \in Contexts, SettleOne(c) \/ SettleMany(c)
  PROVE  OrderInv'
<1> DEFINE u == unsent_messages[c]
<1>1. PICK p \in [DOMAIN u -> DOMAIN u] :
             /\ IsStableOrder(p, u)
             /\ outbox' = [outbox EXCEPT ![c] = [i \in DOMAIN u |-> u[p[i]]]]
  BY SettlePermutes
<1>2. unsent_messages' = [unsent_messages EXCEPT ![c] = <<>>]
  BY SettlePermutes
<1>3. UNCHANGED <<local_queue, rx, handled>>
  BY DEF SettleOne, SettleMany
<1>4. /\ unsent_messages'[c] = <<>>
      /\ DOMAIN outbox'[c] = DOMAIN u /\ \A i \in DOMAIN u : outbox'[c][i] = u[p[i]]
      /\ \A e \in Contexts : e # c => unsent_messages'[e] = unsent_messages[e] /\ outbox'[e] = outbox[e]
  BY <1>1, <1>2 DEF Typed
<1>5. \A i \in DOMAIN u : p[i] \in DOMAIN u /\ p[i] \in Int
  <2>1. \A i \in DOMAIN u : i \in Int
    BY DEF Typed
  <2> QED BY <1>1, <2>1
<1>6. \A e \in Contexts : \A w \in Waiting(e)' : w \in Waiting(e)
  <2> TAKE e \in Contexts
  <2> TAKE w \in Waiting(e)'
  <2>1. CASE e = c
    <3>1. PICK i \in DOMAIN u : w = u[p[i]]
      BY <1>4, <2>1 DEF Waiting
    <3> QED BY <1>5, <2>1, <3>1 DEF Waiting
  <2>2. CASE e # c
    BY <1>4, <2>2 DEF Waiting
  <2> QED BY <2>1, <2>2
<1>7. FromOwn'
  BY <1>3, <1>6 DEF OrderInv, FromOwn
<1>8. BatchOrder'
  <2> SUFFICES ASSUME NEW e \in Contexts
               PROVE  /\ \A i, j \in DOMAIN unsent_messages'[e] :
                           i < j => Before(unsent_messages'[e][i], unsent_messages'[e][j])
                      /\ \A i, j \in DOMAIN outbox'[e] : i < j => Before(outbox'[e][i], outbox'[e][j])
                      /\ \A i \in DOMAIN outbox'[e], j \in DOMAIN unsent_messages'[e] :
                           Before(outbox'[e][i], unsent_messages'[e][j])
    BY DEF BatchOrder
  <2>1. CASE e # c
    BY <1>4, <2>1 DEF OrderInv, BatchOrder
  <2>2. CASE e = c
    <3>1. DOMAIN unsent_messages'[c] = {}
      BY <1>4
    <3>2. \A i, j \in DOMAIN u : i < j => Before(u[p[i]], u[p[j]])
      <4> TAKE i, j \in DOMAIN u
      <4> HAVE i < j
      <4>1. \/ u[p[i]].to < u[p[j]].to
            \/ u[p[i]].to = u[p[j]].to /\ p[i] < p[j]
        BY <1>1 DEF IsStableOrder
      <4>2. CASE u[p[i]].to < u[p[j]].to
        <5>1. u[p[i]] \in Message /\ u[p[j]] \in Message
          BY <1>5 DEF Typed
        <5>2. u[p[i]].to \in Int /\ u[p[j]].to \in Int
          BY <5>1, MessageFields, NAssumption DEF Contexts
        <5>3. u[p[i]].to # u[p[j]].to
          BY <4>2, <5>2
        <5> QED BY <5>3 DEF Before
      <4>3. CASE p[i] < p[j]
        BY <1>5, <4>3 DEF OrderInv, BatchOrder
      <4> QED BY <4>1, <4>2, <4>3
    <3> QED BY <1>4, <2>2, <3>1, <3>2
  <2> QED BY <2>1, <2>2
<1>9. ChannelOrder' /\ HandledOrder'
  BY <1>3, <1>6, OrderWaits DEF OrderInv
<1> QED BY <1>7, <1>8, <1>9 DEF OrderInv

\* The first message of the batch joins a channel.
LEMMA OrderFlush ==
  ASSUME Typed, QueuesFitPc, OrderInv, NEW c \in Contexts, Flush(c)
  PROVE  OrderInv'
<1> DEFINE o == outbox[c]
           n == Len(o)
           m == Head(o)
           d == Links(c)[LinkSlot(c, m.to)]
<1>1. o # <<>> /\ UNCHANGED <<local_queue, unsent_messages, handled>>
  BY DEF Flush, QueuesFitPc
<1>2. d \in Contexts
  BY LinksType DEF Flush, LinkWorks
<1>3. rx'[d] = Append(rx[d], m) /\ \A e \in Contexts : e # d => rx'[e] = rx[e]
  BY <1>2 DEF Flush, Typed
<1>4. outbox'[c] = Tail(o) /\ \A e \in Contexts : e # c => outbox'[e] = outbox[e]
  BY DEF Flush, Typed
<1>5. /\ n \in Nat \ {0} /\ DOMAIN o = 1 .. n /\ DOMAIN outbox'[c] = 1 .. n - 1
      /\ \A i \in 1 .. n - 1 : outbox'[c][i] = o[i + 1]
      /\ m = o[1]
  BY <1>1, <1>4 DEF Typed
<1>6. /\ \A i \in 1 .. n - 1 : i + 1 \in 1 .. n /\ 1 < i + 1
      /\ \A i, j \in 1 .. n - 1 : i < j => i + 1 < j + 1
      /\ 1 \in 1 .. n
  BY <1>5
<1> HIDE DEF d, m, n
<1>7. \A e \in Contexts : \A w \in Waiting(e)' : w \in Waiting(e)
  <2> TAKE e \in Contexts
  <2> TAKE w \in Waiting(e)'
  <2>1. CASE e = c
    BY <1>1, <1>5, <1>6, <2>1 DEF Waiting
  <2>2. CASE e # c
    BY <1>1, <1>4, <2>2 DEF Waiting
  <2> QED BY <2>1, <2>2
<1>8. m \in Waiting(c)
  BY <1>5, <1>6 DEF Waiting
<1>9. \A w \in Waiting(c)' : Before(m, w)
  <2> TAKE w \in Waiting(c)'
  <2>1. CASE \E i \in DOMAIN outbox'[c] : w = outbox'[c][i]
    <3>1. PICK i \in 1 .. n - 1 : w = o[i + 1]
      BY <1>5, <2>1
    <3> QED BY <1>5, <1>6, <3>1 DEF OrderInv, BatchOrder
  <2>2. CASE \E i \in DOMAIN unsent_messages[c] : w = unsent_messages[c][i]
    BY <1>5, <1>6, <2>2 DEF OrderInv, BatchOrder
  <2> QED BY <1>1, <2>1, <2>2 DEF Waiting
<1>10. \A e \in Contexts : \A w \in Waiting(e)' : Before(m, w)
  <2> TAKE e \in Contexts
  <2> TAKE w \in Waiting(e)'
  <2>1. CASE e # c
    BY <1>7, <1>8, <2>1 DEF OrderInv, FromOwn, Before
  <2> QED BY <1>9, <2>1
<1>11. FromOwn'
  BY <1>1, <1>7 DEF OrderInv, FromOwn
<1>12. BatchOrder'
  <2> SUFFICES ASSUME NEW e \in Contexts
               PROVE  /\ \A i, j \in DOMAIN unsent_messages[e] :
                           i < j => Before(unsent_messages[e][i], unsent_messages[e][j])
                      /\ \A i, j \in DOMAIN outbox'[e] : i < j => Before(outbox'[e][i], outbox'[e][j])
                      /\ \A i \in DOMAIN outbox'[e], j \in DOMAIN unsent_messages[e] :
                           Before(outbox'[e][i], unsent_messages[e][j])
    BY <1>1 DEF BatchOrder
  <2>1. CASE e # c
    BY <1>4, <2>1 DEF OrderInv, BatchOrder
  <2>2. CASE e = c
    <3>1. \A i, j \in DOMAIN outbox'[c] : i < j => Before(outbox'[c][i], outbox'[c][j])
      BY <1>5, <1>6 DEF OrderInv, BatchOrder
    <3>2. \A i \in DOMAIN outbox'[c], j \in DOMAIN unsent_messages[c] :
             Before(outbox'[c][i], unsent_messages[c][j])
      BY <1>5, <1>6 DEF OrderInv, BatchOrder
    <3> QED BY <2>2, <3>1, <3>2 DEF OrderInv, BatchOrder
  <2> QED BY <2>1, <2>2
<1>13. \A i \in DOMAIN rx[d] : rx[d][i].kind = "Msg" => Before(rx[d][i], m)
  BY <1>2, <1>8 DEF OrderInv, ChannelOrder
<1>14. \A e \in handled[d] : e.from # d => Before(e, m)
  BY <1>2, <1>8 DEF OrderInv, HandledOrder
<1>15. ChannelOrder' /\ HandledOrder'
  BY <1>1, <1>2, <1>3, <1>7, <1>10, <1>13, <1>14, OrderChannelGains DEF OrderInv
<1> QED BY <1>11, <1>12, <1>15 DEF OrderInv

\* Every step keeps the order.
LEMMA OrderStep ==
  ASSUME Typed, QueuesFitPc, OneCopy, OrderInv, [Next]_vars
  PROVE  OrderInv'
<1> USE DEF block, access
<1>1. ASSUME UNCHANGED <<queues, handled>> PROVE OrderInv'
  BY <1>1, OrderKept
<1>2. ASSUME NEW a \in Accessors, AccessorDrop(a) PROVE OrderInv'
  <2>1. CASE Gone(target[a])
    BY <1>1, <1>2, <2>1 DEF AccessorDrop, queues
  <2>2. CASE ~ Gone(target[a])
    <3>1. target[a] \in Contexts /\ AccessorDropped \in QueueItem /\ AccessorDropped.kind # "Msg"
      BY DEF Typed, QueueItem, AccessorDropped
    <3>2. /\ rx'[target[a]] = Append(rx[target[a]], AccessorDropped)
          /\ \A e \in Contexts : e # target[a] => rx'[e] = rx[e]
          /\ UNCHANGED <<local_queue, unsent_messages, outbox, handled>>
      BY <1>2, <2>2, <3>1 DEF AccessorDrop, Typed
    <3> QED BY <3>1, <3>2, OrderNoMessage
  <2> QED BY <2>1, <2>2
<1>3. ASSUME NEW c \in Contexts, SendStop(c) PROVE OrderInv'
  <2> DEFINE d == Links(c)[next_link[c]]
  <2>1. CASE Gone(d)
    BY <1>1, <1>3, <2>1 DEF SendStop, queues
  <2>2. CASE ~ Gone(d)
    <3>1. next_link[c] \in DOMAIN Links(c)
      BY <1>3, NAssumption DEF Typed, SendStop, Links
    <3>2. d \in Contexts /\ Stop \in QueueItem /\ Stop.kind # "Msg"
      BY <3>1, LinksType DEF QueueItem, Stop
    <3>3. /\ rx'[d] = Append(rx[d], Stop) /\ \A e \in Contexts : e # d => rx'[e] = rx[e]
          /\ UNCHANGED <<local_queue, unsent_messages, outbox, handled>>
      BY <1>3, <2>2, <3>2 DEF SendStop, Typed
    <3> HIDE DEF d
    <3> QED BY <3>2, <3>3, OrderNoMessage
  <2> QED BY <2>1, <2>2
<1>4. ASSUME NEW a \in Accessors, AccessorCount(a) \/ AccessorPush(a) PROVE OrderInv'
  BY <1>1, <1>4, OrderPush DEF AccessorCount
<1>5. ASSUME NEW c \in Contexts, User(c) PROVE OrderInv'
  <2>1. ASSUME NEW d \in Contexts, InitSendMsg(c, d) \/ SendMsg(c, d) PROVE OrderInv'
    BY <2>1, OrderPost DEF InitSendMsg, SendMsg
  <2>2. CASE HandlerPanic(c) \/ \E d \in Contexts, a \in Accessors : CreateAccessor(c, a, d)
    BY <1>1, <2>2 DEF HandlerPanic, CreateAccessor
  <2> QED BY <1>5, <2>1, <2>2 DEF User
<1>6. ASSUME NEW c \in Contexts,
             FinishInit(c) \/ Return(c) \/ IntoUnowned(c) \/ RecvDisconnected(c) \/ SettleNone(c)
               \/ FlushPanic(c) \/ FinishStop(c)
      PROVE  OrderInv'
  BY <1>1, <1>6 DEF FinishInit, Return, IntoUnowned, RecvDisconnected, SettleNone, FlushPanic, FinishStop
<1>7. CASE UNCHANGED vars
  BY <1>1, <1>7 DEF vars
<1> QED
  BY <1>2, <1>3, <1>4, <1>5, <1>6, <1>7, OrderRecvLocal, OrderTake, OrderSettle, OrderFlush
     DEF Next, Thread, Holder

\* Only taking a message adds to what was handled.
LEMMA HandledBy ==
  ASSUME [Next]_vars
  PROVE  UNCHANGED handled \/ \E c \in Contexts : RecvLocal(c) \/ RecvMsg(c)
<1>1. ASSUME NEW a \in Accessors, Holder(a) PROVE UNCHANGED handled
  BY <1>1 DEF Holder, AccessorCount, AccessorPush, AccessorDrop
<1>2. ASSUME NEW c \in Contexts, User(c) PROVE UNCHANGED handled
  BY <1>2 DEF User, InitSendMsg, SendMsg, Post, CreateAccessor, HandlerPanic
<1>3. ASSUME NEW c \in Contexts, FinishInit(c) \/ Return(c) \/ IntoUnowned(c) \/ RecvAccessorDropped(c)
                                 \/ RecvStop(c) \/ RecvDisconnected(c) \/ SettleNone(c)
      PROVE  UNCHANGED handled
  BY <1>3 DEF FinishInit, Return, IntoUnowned, RecvAccessorDropped, RecvStop, RecvDisconnected, SettleNone
<1>4. ASSUME NEW c \in Contexts, SettleOne(c) \/ SettleMany(c) \/ Flush(c) \/ FlushPanic(c)
                                 \/ SendStop(c) \/ FinishStop(c)
      PROVE  UNCHANGED handled
  BY <1>4 DEF SettleOne, SettleMany, Flush, FlushPanic, SendStop, FinishStop
<1>5. CASE UNCHANGED vars
  BY <1>5 DEF vars
<1> QED BY <1>1, <1>2, <1>3, <1>4, <1>5 DEF Next, Thread

\* Nothing is anywhere.
LEMMA OrderInit == Init => OrderInv
<1> SUFFICES ASSUME Init PROVE OrderInv
  OBVIOUS
<1>1. \A c \in Contexts : /\ DOMAIN local_queue[c] = {} /\ DOMAIN unsent_messages[c] = {}
                          /\ DOMAIN outbox[c] = {} /\ DOMAIN rx[c] = {} /\ handled[c] = {}
  BY DEF Init
<1>2. \A c \in Contexts : Waiting(c) = {}
  BY <1>1 DEF Waiting
<1> QED BY <1>1, <1>2 DEF OrderInv, FromOwn, BatchOrder, ChannelOrder, HandledOrder

\* The inductive invariant of delivery.
DeliveryInv == IInv /\ OneCopy /\ OrderInv

\* The invariant is inductive.
LEMMA DeliveryInvStep == DeliveryInv /\ [Next]_vars => DeliveryInv'
BY InvariantStep, OneCopyStep, OrderStep DEF DeliveryInv, IInv

\* It holds always.
LEMMA DeliveryInvHolds == Spec => []DeliveryInv
<1>1. Init => DeliveryInv
  BY InvariantInit, OneCopyInit, OrderInit DEF DeliveryInv
<1> QED BY <1>1, DeliveryInvStep, PTL DEF Spec

\* What one source sends to one context is handled there in the order it was
\* sent (mod.rs:357, context.rs:436).
THEOREM SourcesAreHandledInOrder == Spec => RemoteOrder
<1>1. DeliveryInv /\ [Next]_vars => [RemoteOrderStep]_vars
  <2> SUFFICES ASSUME DeliveryInv, [Next]_vars,
                      NEW c \in Contexts, NEW m \in handled'[c] \ handled[c], m.from # c,
                      NEW e \in handled[c], e.from = m.from, e.to = m.to
               PROVE  e.seq < m.seq
    BY DEF RemoteOrderStep
  <2>1. Typed /\ OrderInv
    BY DEF DeliveryInv, IInv
  <2>2. PICK d \in Contexts : RecvLocal(d) \/ RecvMsg(d)
    BY HandledBy
  <2>3. CASE RecvLocal(d)
    <3>1. PICK x : x.from = d /\ handled' = [handled EXCEPT ![d] = @ \cup {x}]
      BY <2>1, <2>3, OrderRecvLocal
    <3>2. d = c /\ m = x
      BY <2>1, <3>1 DEF Typed
    <3> QED BY <3>1, <3>2
  <2>4. CASE RecvMsg(d)
    <3>1. /\ rx[d] # <<>> /\ Head(rx[d]).kind = "Msg"
          /\ handled' = [handled EXCEPT ![d] = @ \cup {Head(rx[d])}]
      BY <2>4 DEF RecvMsg, TakeItem
    <3>2. d = c /\ m = Head(rx[c])
      BY <2>1, <3>1 DEF Typed
    <3>3. 1 \in DOMAIN rx[c] /\ Head(rx[c]) = rx[c][1]
      BY <2>1, <3>1, <3>2 DEF Typed
    <3>4. Before(e, m)
      BY <2>1, <3>1, <3>2, <3>3 DEF OrderInv, HandledOrder
    <3> QED BY <3>4 DEF Before
  <2> QED BY <2>2, <2>3, <2>4
<1> QED BY <1>1, DeliveryInvHolds, PTL DEF Spec, RemoteOrder

------------------------------------------------------------------------------
(***************************************************************************)
(* What is lost when run() returns.                                        *)
(***************************************************************************)

\* What a context kept before its first message came is gone once it has
\* settled after one.
EarlyOnly ==
  \A c \in Contexts :
    /\ pc[c] \in {"init", "first", "first_run"} => \A m \in handled[c] : m.from = c
    /\ pc[c] \in {"recv", "flush", "exited", "disconnected"} \cup Stopping =>
         unsent_messages[c] = <<>> \/ \A m \in handled[c] : m.from = c

\* ... and with it what is known of the early sends.
EarlyInv == DeliveryInv /\ EarlyOnly

\* A context settles, and loses nothing, after every message it takes from its channel.
LEMMA EarlyStep ==
  ASSUME Typed, QueuesFitPc, OrderInv, EarlyOnly, [Next]_vars
  PROVE  EarlyOnly'
<1> USE DEF queues, block, access
<1>1. ASSUME UNCHANGED <<pc, unsent_messages, handled>> PROVE EarlyOnly'
  BY <1>1 DEF EarlyOnly
<1>2. ASSUME NEW a \in Accessors, Holder(a) PROVE EarlyOnly'
  BY <1>1, <1>2 DEF Holder, AccessorCount, AccessorPush, AccessorDrop
<1>3. ASSUME NEW c \in Contexts, NEW d \in Contexts, NEW a \in Accessors, CreateAccessor(c, a, d)
      PROVE  EarlyOnly'
  BY <1>1, <1>3 DEF CreateAccessor
<1>4. ASSUME NEW c \in Contexts, NEW d \in Contexts, InitSendMsg(c, d) \/ SendMsg(c, d)
      PROVE  EarlyOnly'
  <2>1. pc[c] \in {"init", "first_run", "run"} /\ UNCHANGED <<pc, handled>>
        /\ \A e \in Contexts : e # c => unsent_messages'[e] = unsent_messages[e]
    BY <1>4 DEF InitSendMsg, SendMsg, Post, Typed
  <2> QED BY <2>1 DEF EarlyOnly, Stopping
<1>5. ASSUME NEW c \in Contexts, NEW l, Goto(c, l), UNCHANGED <<unsent_messages, handled>>,
             \/ pc[c] \in {"init", "first", "first_run"} /\ l \in Pcs
             \/ /\ pc[c] \in {"recv", "flush", "exited", "disconnected"} \cup Stopping
                /\ l \notin {"init", "first", "first_run"}
             \/ l \in {"run", "drain", "panicked"}
             \/ /\ unsent_messages[c] = <<>>
                /\ l \notin {"init", "first", "first_run"}
      PROVE  EarlyOnly'
  <2>1. pc'[c] = l /\ \A e \in Contexts : e # c => pc'[e] = pc[e]
    BY <1>5 DEF Goto, Typed
  <2>2. (unsent_messages' = unsent_messages /\ handled' = handled)
    BY <1>5
  <2> QED BY <1>5, <2>1, <2>2 DEF EarlyOnly, Stopping
<1>6. ASSUME NEW c \in Contexts, FinishInit(c) \/ Return(c) \/ IntoUnowned(c) \/ SettleNone(c)
                                 \/ HandlerPanic(c)
      PROVE  EarlyOnly'
  <2>1. UNCHANGED <<unsent_messages, handled>>
    BY <1>6 DEF FinishInit, Return, IntoUnowned, SettleNone, HandlerPanic
  <2>2. CASE FinishInit(c)
    BY <1>5, <2>1, <2>2 DEF FinishInit, Pcs
  <2>3. CASE Return(c)
    BY <1>5, <2>1, <2>3 DEF Return, Pcs
  <2>4. CASE IntoUnowned(c)
    BY <1>5, <2>1, <2>4 DEF IntoUnowned, Pcs
  <2>5. CASE SettleNone(c)
    <3>1. unsent_messages[c] = <<>> /\ (Goto(c, "stop_after_msg") \/ Goto(c, "recv"))
      BY <2>5 DEF SettleNone
    <3> QED BY <1>5, <2>1, <3>1
  <2>6. CASE HandlerPanic(c)
    BY <1>5, <2>1, <2>6 DEF HandlerPanic
  <2> QED BY <1>6, <2>2, <2>3, <2>4, <2>5, <2>6
<1>7. ASSUME NEW c \in Contexts, RecvAccessorDropped(c) \/ RecvStop(c) \/ RecvDisconnected(c)
                                 \/ Flush(c) \/ FlushPanic(c) \/ SendStop(c) \/ FinishStop(c)
      PROVE  EarlyOnly'
  <2>1. UNCHANGED <<unsent_messages, handled>>
    BY <1>7 DEF RecvAccessorDropped, RecvStop, RecvDisconnected, Flush, FlushPanic, SendStop, FinishStop,
                TakeItem
  <2>2. pc[c] \in {"recv", "flush"} \cup Stopping
    BY <1>7 DEF RecvAccessorDropped, RecvStop, RecvDisconnected, Flush, FlushPanic, SendStop, FinishStop,
                TakeItem
  <2>3. UNCHANGED pc \/ \E l \in {"recv", "exited", "disconnected", "panicked", "stop_after_drop"} : Goto(c, l)
    BY <1>7 DEF RecvAccessorDropped, RecvStop, RecvDisconnected, Flush, FlushPanic, SendStop, FinishStop
  <2>4. CASE UNCHANGED pc
    BY <1>1, <2>1, <2>4
  <2>5. CASE \E l \in {"recv", "exited", "disconnected", "panicked", "stop_after_drop"} : Goto(c, l)
    <3>1. PICK l \in {"recv", "exited", "disconnected", "panicked", "stop_after_drop"} : Goto(c, l)
      BY <2>5
    <3> QED BY <1>5, <2>1, <2>2, <3>1
  <2> QED BY <2>3, <2>4, <2>5
<1>8. ASSUME NEW c \in Contexts, SettleOne(c) \/ SettleMany(c)
      PROVE  EarlyOnly'
  <2>1. unsent_messages' = [unsent_messages EXCEPT ![c] = <<>>] /\ Goto(c, "flush") /\ UNCHANGED handled
    BY <1>8 DEF SettleOne, SettleMany
  <2>2. /\ pc'[c] = "flush" /\ unsent_messages'[c] = <<>>
        /\ \A e \in Contexts : e # c => pc'[e] = pc[e] /\ unsent_messages'[e] = unsent_messages[e]
    BY <2>1 DEF Goto, Typed
  <2>3. handled' = handled
    BY <2>1
  <2> QED BY <2>2, <2>3 DEF EarlyOnly, Stopping
<1>9. ASSUME NEW c \in Contexts, RecvMsg(c)
      PROVE  EarlyOnly'
  <2>1. /\ pc'[c] = "run" /\ UNCHANGED unsent_messages
        /\ \A e \in Contexts : e # c => pc'[e] = pc[e] /\ handled'[e] = handled[e]
    BY <1>9 DEF RecvMsg, TakeItem, Goto, Typed
  <2> QED BY <2>1 DEF EarlyOnly, Stopping
<1>10. ASSUME NEW c \in Contexts, RecvLocal(c)
       PROVE  EarlyOnly'
  <2>1. PICK m : m.from = c /\ handled' = [handled EXCEPT ![c] = @ \cup {m}]
    BY <1>10, OrderRecvLocal
  <2>2. /\ \/ pc[c] = "first" /\ pc'[c] = "first_run"
           \/ pc'[c] = "run"
        /\ UNCHANGED unsent_messages
        /\ \A e \in Contexts : e # c => pc'[e] = pc[e]
    BY <1>10 DEF RecvLocal, Goto, Typed
  <2>3. handled'[c] = handled[c] \cup {m} /\ \A e \in Contexts : e # c => handled'[e] = handled[e]
    BY <2>1 DEF Typed
  <2>4. m.from = c
    BY <2>1
  <2> QED BY <2>2, <2>3, <2>4 DEF EarlyOnly, Stopping
<1>11. CASE UNCHANGED vars
  BY <1>1, <1>11 DEF vars
<1> QED BY <1>2, <1>3, <1>4, <1>6, <1>7, <1>8, <1>9, <1>10, <1>11 DEF Next, Thread, User

\* It holds always.
LEMMA EarlyInvHolds == Spec => []EarlyInv
<1>1. Init => EarlyInv
  <2>1. Init => EarlyOnly
    BY DEF Init, EarlyOnly, Stopping
  <2> QED BY <2>1, InvariantInit, OneCopyInit, OrderInit DEF EarlyInv, DeliveryInv
<1>2. EarlyInv /\ [Next]_vars => EarlyInv'
  BY DeliveryInvStep, EarlyStep DEF EarlyInv, DeliveryInv, IInv
<1> QED BY <1>1, <1>2, PTL DEF Spec

\* When run() returns every message was handled, but for what a context sent
\* before its first message from elsewhere came and never got the chance to
\* flush (mod.rs:283-292).
THEOREM LossIsEarly == Spec => []OnlyEarlySendsAreLost
<1>1. EarlyInv /\ StopOnlyWhenQuiescent => OnlyEarlySendsAreLost
  <2> SUFFICES ASSUME EarlyInv, StopOnlyWhenQuiescent, \A c \in Contexts : pc[c] = "exited",
                      NEW s \in Sources, NEW k \in 1 .. sent[s]
               PROVE  \/ \E c \in Contexts : \E m \in handled[c] : m.from = s /\ m.seq = k
                      \/ /\ s \in Contexts /\ Occurrences(unsent_messages[s], s, k) # {}
                         /\ \A m \in handled[s] : m.from = s
    BY DEF OnlyEarlySendsAreLost
  <2>1. Typed /\ OneCopy /\ FromOwn /\ EarlyOnly
    BY DEF EarlyInv, DeliveryInv, IInv, OrderInv
  <2>2. k \in Nat
    BY <2>1 DEF Typed
  <2>3. PICK x : x \in Copies(s, k)
    BY <2>1, <2>2 DEF OneCopy
  <2>4. \A c \in Contexts : /\ local_queue[c] = <<>> /\ outbox[c] = <<>>
                            /\ \A i \in DOMAIN rx[c] : rx[c][i] = Stop
    BY NAssumption DEF StopOnlyWhenQuiescent, Leaving
  <2>5. /\ x \notin Placed("local", local_queue, s, k)
        /\ x \notin Placed("outbox", outbox, s, k)
        /\ x \notin Placed("rx", rx, s, k)
    BY <2>4, PlacedIs DEF Is, Stop
  <2>6. x \in Handlings(s, k) \/ x \in Placed("unsent", unsent_messages, s, k)
    BY <2>3, <2>5, CopiesByKind
  <2>7. CASE x \in Handlings(s, k)
    BY <2>7 DEF Handlings
  <2>8. CASE x \in Placed("unsent", unsent_messages, s, k)
    <3>1. PICK c \in Contexts : \E i \in DOMAIN unsent_messages[c] : Is(unsent_messages[c][i], s, k)
      BY <2>8, PlacedIs
    <3>2. PICK i \in DOMAIN unsent_messages[c] : Is(unsent_messages[c][i], s, k)
      BY <3>1
    <3>3. c = s
      BY <2>1, <3>2 DEF FromOwn, Waiting, Is
    <3>4. i \in Occurrences(unsent_messages[s], s, k)
      BY <3>2, <3>3 DEF Occurrences, Is
    <3>5. unsent_messages[s] # <<>>
      BY <3>2, <3>3
    <3>6. \A m \in handled[s] : m.from = s
      BY <2>1, <3>3, <3>5 DEF EarlyOnly
    <3> QED BY <3>3, <3>4, <3>6
  <2> QED BY <2>6, <2>7, <2>8
<1> QED BY <1>1, EarlyInvHolds, StopsWhenQuiescent, PTL
=============================================================================
