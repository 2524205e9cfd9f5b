---------------------------- MODULE BorrowProofs -----------------------------
(***************************************************************************)
(* What cycle detection buys, for every set of actors and keys.  A live    *)
(* reference came along a path of the relations; if an actor were on it    *)
(* twice, the actors between would each depend on another of them, which   *)
(* is what the context would have been refused for.  And the paths of two  *)
(* references to one actor, followed back, part at different keys or are   *)
(* the same.                                                               *)
(***************************************************************************)
EXTENDS Borrow, SequenceTheorems, TLAPS

\* A live reference came through keys, each of the actor before.
PathsConnect ==
  \A p \in live : \A i \in 1 .. Len(p) : p[i].from = At(p, i - 1)

\* What a live reference came through is live.
PathsLive == \A p \in live : p # <<>> => Front(p) \in live

\* While no handler runs nothing is lent.
NothingLeft == handling = Nobody => live = {} /\ within = <<>>

IInv ==
  /\ TypeOK
  /\ Admits(keys)
  /\ NothingLeft
  /\ PathsConnect
  /\ PathsLive
  /\ OnlyDiamondsAlias

------------------------------------------------------------------------------
\* On a path of admitted relations no actor comes twice.
LEMMA NoActorTwice ==
  ASSUME TypeOK, Admits(keys), handling # Nobody,
         NEW p \in Seq(keys), \A x \in 1 .. Len(p) : p[x].from = At(p, x - 1),
         NEW i \in 0 .. Len(p), NEW j \in 0 .. Len(p), i < j
  PROVE  At(p, i) # At(p, j)
<1> SUFFICES ASSUME At(p, i) = At(p, j) PROVE FALSE
  OBVIOUS
<1>1. p \in Seq(keys) /\ Len(p) \in Nat /\ handling \in Actors /\ keys \subseteq Key
  BY DEF TypeOK
<1>2. \A k \in 0 .. Len(p) : At(p, k) \in Actors
  <2> SUFFICES ASSUME NEW k \in 0 .. Len(p) PROVE At(p, k) \in Actors
    OBVIOUS
  <2>1. CASE k = 0
    BY <2>1, <1>1 DEF At
  <2>2. CASE k # 0
    <3>1. k \in 1 .. Len(p)
      BY <2>2, <1>1
    <3>2. p[k] \in Key
      BY <3>1, <1>1
    <3> QED
      BY <2>2, <3>2 DEF At, Key
  <2> QED
    BY <2>1, <2>2
<1>3. ASSUME NEW k \in i .. j - 1
      PROVE  <<At(p, k), At(p, k + 1)>> \in Relations(keys)
  <2>1. k + 1 \in 1 .. Len(p) /\ k + 1 - 1 = k /\ k + 1 # 0
    BY <1>1
  <2>2. p[k + 1] \in keys
    BY <2>1, <1>1
  <2>3. p[k + 1].from = At(p, k)
    <3>1. p[k + 1].from = At(p, k + 1 - 1)
      BY <2>1
    <3> QED
      BY <3>1, <2>1
  <2>4. At(p, k + 1) = p[k + 1].to
    BY <2>1 DEF At
  <2> QED
    BY <2>2, <2>3, <2>4 DEF Relations
<1> DEFINE S == {At(p, k) : k \in i .. j - 1}
<1>4. S \subseteq Actors /\ At(p, i) \in S
  <2>1. \A k \in i .. j - 1 : k \in 0 .. Len(p)
    BY <1>1
  <2>2. i \in i .. j - 1
    BY <1>1
  <2> QED
    BY <2>1, <2>2, <1>2
<1>5. \A n \in S : \E m \in S : <<n, m>> \in Relations(keys)
  <2> SUFFICES ASSUME NEW k \in i .. j - 1
               PROVE  \E m \in S : <<At(p, k), m>> \in Relations(keys)
    OBVIOUS
  <2>1. CASE k = j - 1
    <3>1. k + 1 = j
      BY <2>1, <1>1
    <3>2. At(p, k + 1) = At(p, i)
      BY <3>1
    <3> QED
      BY <3>2, <1>3, <1>4
  <2>2. CASE k # j - 1
    <3>1. k + 1 \in i .. j - 1
      BY <2>2, <1>1
    <3> QED
      BY <3>1, <1>3
  <2> QED
    BY <2>1, <2>2
<1> HIDE DEF S
<1> QED
  BY <1>4, <1>5 DEF Admits

\* A longer path agrees with the one it extends.
LEMMA AtPrefix ==
  ASSUME NEW S, NEW p \in Seq(S), NEW q \in Seq(S), IsPrefix(p, q),
         NEW i \in 0 .. Len(p)
  PROVE  At(p, i) = At(q, i) /\ i \in 0 .. Len(q)
<1>1. Len(p) \in Nat /\ Len(q) \in Nat /\ Len(p) <= Len(q)
      /\ SubSeq(p, 1, Len(p)) = SubSeq(q, 1, Len(p))
  BY DEF IsPrefix
<1>2. CASE i = 0
  BY <1>1, <1>2 DEF At
<1>3. CASE i # 0
  <2>1. i \in 1 .. Len(p) /\ i \in 1 .. Len(q)
    BY <1>1, <1>3
  <2>2. SubSeq(p, 1, Len(p))[i] = p[i]
    BY <2>1, <1>1
  <2>3. SubSeq(q, 1, Len(p))[i] = q[i]
    BY <2>1, <1>1
  <2> QED
    BY <1>1, <1>3, <2>1, <2>2, <2>3 DEF At
<1> QED
  BY <1>2, <1>3

\* So the invariant has the first property.
LEMMA NoneTwice ==
  ASSUME IInv
  PROVE  NeverReachesItself
<1> SUFFICES ASSUME NEW p \in live, NEW i \in 0 .. Len(p), NEW j \in 0 .. Len(p),
                    At(p, i) = At(p, j), i # j
             PROVE  FALSE
  BY DEF NeverReachesItself
<1>0. /\ TypeOK /\ Admits(keys) /\ handling # Nobody
      /\ p \in Seq(keys) /\ \A x \in 1 .. Len(p) : p[x].from = At(p, x - 1)
  BY DEF IInv, TypeOK, NothingLeft, PathsConnect
<1>1. CASE i < j
  BY <1>0, <1>1, NoActorTwice
<1>2. CASE j < i
  BY <1>0, <1>2, NoActorTwice
<1> QED
  BY <1>1, <1>2

------------------------------------------------------------------------------
\* A prefix agrees element by element.
LEMMA PrefixElements ==
  ASSUME NEW S, NEW s \in Seq(S), NEW t \in Seq(S)
  PROVE  IsPrefix(s, t) <=> Len(s) <= Len(t) /\ \A i \in 1 .. Len(s) : s[i] = t[i]
<1>1. Len(s) \in Nat /\ Len(t) \in Nat
  OBVIOUS
<1>2. CASE Len(s) <= Len(t)
  <2>1. /\ Len(SubSeq(s, 1, Len(s))) = Len(s) /\ SubSeq(s, 1, Len(s)) \in Seq(S)
        /\ \A i \in 1 .. Len(s) : SubSeq(s, 1, Len(s))[i] = s[i]
    BY <1>1
  <2>2. /\ Len(SubSeq(t, 1, Len(s))) = Len(s) /\ SubSeq(t, 1, Len(s)) \in Seq(S)
        /\ \A i \in 1 .. Len(s) : SubSeq(t, 1, Len(s))[i] = t[i]
    BY <1>1, <1>2
  <2>3. ASSUME \A i \in 1 .. Len(s) : s[i] = t[i]
        PROVE  SubSeq(s, 1, Len(s)) = SubSeq(t, 1, Len(s))
    <3> DEFINE a == SubSeq(s, 1, Len(s))
               b == SubSeq(t, 1, Len(s))
    <3>1. a \in Seq(S) /\ b \in Seq(S) /\ Len(a) = Len(b)
          /\ \A i \in 1 .. Len(a) : a[i] = b[i]
      BY <2>1, <2>2, <2>3
    <3> HIDE DEF a, b
    <3>2. a = b
      BY <3>1
    <3> QED
      BY <3>2 DEF a, b
  <2>4. ASSUME SubSeq(s, 1, Len(s)) = SubSeq(t, 1, Len(s))
        PROVE  \A i \in 1 .. Len(s) : s[i] = t[i]
    BY <2>1, <2>2, <2>4
  <2> QED
    BY <1>2, <2>3, <2>4 DEF IsPrefix
<1>3. CASE ~ (Len(s) <= Len(t))
  BY <1>3 DEF IsPrefix
<1> QED
  BY <1>2, <1>3

\* Extending a path keeps what is a prefix of it.
LEMMA PrefixAppend ==
  ASSUME NEW S, NEW s \in Seq(S), NEW t \in Seq(S), NEW e \in S, IsPrefix(s, t)
  PROVE  IsPrefix(s, Append(t, e)) /\ Len(s) < Len(Append(t, e))
<1>1. Len(s) \in Nat /\ Len(t) \in Nat /\ Append(t, e) \in Seq(S)
      /\ Len(Append(t, e)) = Len(t) + 1
      /\ \A i \in 1 .. Len(t) : Append(t, e)[i] = t[i]
  BY AppendProperties
<1>2. Len(s) <= Len(t) /\ \A i \in 1 .. Len(s) : s[i] = t[i]
  BY PrefixElements
<1>3. \A i \in 1 .. Len(s) : s[i] = Append(t, e)[i]
  BY <1>1, <1>2
<1>4. Len(s) < Len(Append(t, e)) /\ Len(s) <= Len(Append(t, e))
  BY <1>1, <1>2
<1> DEFINE u == Append(t, e)
<1>5. u \in Seq(S) /\ Len(s) <= Len(u) /\ \A i \in 1 .. Len(s) : s[i] = u[i]
  BY <1>1, <1>3, <1>4
<1> HIDE DEF u
<1>6. IsPrefix(s, u)
  BY <1>5, PrefixElements
<1> QED
  BY <1>4, <1>6 DEF u

\* A path that is not empty is what comes before its last key, and that key.
LEMMA FrontAndLast ==
  ASSUME NEW S, NEW s \in Seq(S), s # <<>>
  PROVE  /\ Front(s) \in Seq(S) /\ Len(s) \in Nat \ {0} /\ Len(Front(s)) = Len(s) - 1
         /\ \A i \in 1 .. Len(s) - 1 : Front(s)[i] = s[i]
         /\ s[Len(s)] \in S /\ s = Append(Front(s), s[Len(s)])
<1> DEFINE n == Len(s)
<1>1. n \in Nat \ {0} /\ \A i \in 1 .. n : s[i] \in S
  OBVIOUS
<1>2. \A i \in 1 .. n - 1 : s[i] \in S
  BY <1>1
<1> DEFINE g == SubSeq(s, 1, n - 1)
<1>3. /\ g \in Seq(S)
      /\ Len(g) = IF 1 <= n - 1 THEN n - 1 - 1 + 1 ELSE 0
      /\ \A i \in 1 .. n - 1 - 1 + 1 : g[i] = s[1 + i - 1]
  BY <1>1, <1>2, SubSeqProperties
<1> DEFINE f == Front(s)
<1>3a. f = g
  BY DEF Front
<1> HIDE DEF f, g
<1>4. /\ f \in Seq(S) /\ Len(f) = n - 1 /\ \A i \in 1 .. n - 1 : f[i] = s[i]
  <2> HIDE DEF n
  <2>1. Len(g) = n - 1
    BY <1>1, <1>3
  <2>2. \A i \in 1 .. n - 1 : g[i] = s[i]
    <3> TAKE i \in 1 .. n - 1
    <3>1. i \in 1 .. n - 1 - 1 + 1 /\ 1 + i - 1 = i
      BY <1>1
    <3> QED
      BY <3>1, <1>3
  <2> QED
    BY <1>3, <1>3a, <2>1, <2>2
<1> HIDE DEF f
<1>5. /\ Append(f, s[n]) \in Seq(S) /\ Len(Append(f, s[n])) = n
      /\ \A i \in 1 .. n - 1 : Append(f, s[n])[i] = s[i]
      /\ Append(f, s[n])[n] = s[n]
  BY <1>1, <1>4, AppendProperties
<1> DEFINE a == Append(f, s[n])
<1>6. s \in Seq(S) /\ a \in Seq(S) /\ Len(a) = Len(s) /\ \A i \in 1 .. Len(a) : a[i] = s[i]
  BY <1>1, <1>5
<1> HIDE DEF a
<1>7. s = a
  BY ONLY <1>6, SeqEqual
<1> QED
  BY <1>1, <1>4, <1>7 DEF a, f

------------------------------------------------------------------------------
\* A key lends a reference to an actor the path had not come to.
LEMMA Lend ==
  ASSUME IInv, NEW p \in live, NEW k \in keys, CanLend(p, k),
         live' = live \cup {Append(p, k)}, UNCHANGED <<keys, handling>>
  PROVE  /\ Append(p, k) \in Seq(keys) /\ Append(p, k) # <<>>
         /\ live' \subseteq Seq(keys)
         /\ PathsConnect' /\ PathsLive' /\ OnlyDiamondsAlias'
<1>1. p \in Seq(keys) /\ Len(p) \in Nat /\ live \subseteq Seq(keys)
  BY DEF IInv, TypeOK
<1> DEFINE new == Append(p, k)
<1>2. /\ new \in Seq(keys) /\ new # <<>> /\ Len(new) = Len(p) + 1
      /\ \A i \in 1 .. Len(p) : new[i] = p[i]
      /\ new[Len(p) + 1] = k
  BY <1>1, AppendProperties
<1>3. IsPrefix(p, p)
  BY <1>1, PrefixElements
<1>4. IsPrefix(p, new)
  BY <1>1, <1>3, PrefixAppend
<1>5. \A i \in 0 .. Len(p) : At(p, i) = At(new, i)
  <2> HIDE DEF new
  <2> QED
    BY <1>1, <1>2, <1>4, AtPrefix
<1>6. \A i \in 1 .. Len(new) : new[i].from = At(new, i - 1)
  <2> SUFFICES ASSUME NEW i \in 1 .. Len(new) PROVE new[i].from = At(new, i - 1)
    OBVIOUS
  <2> HIDE DEF new
  <2>1. CASE i = Len(p) + 1
    <3>1. i - 1 = Len(p) /\ Len(p) \in 0 .. Len(p)
      BY <2>1, <1>1
    <3>2. k.from = At(p, Len(p))
      BY DEF CanLend, Actor
    <3> QED
      BY <2>1, <3>1, <3>2, <1>2, <1>5
  <2>2. CASE i # Len(p) + 1
    <3>1. i \in 1 .. Len(p) /\ i - 1 \in 0 .. Len(p)
      BY <2>2, <1>1, <1>2
    <3>2. p[i].from = At(p, i - 1)
      BY <3>1 DEF IInv, PathsConnect
    <3> QED
      BY <3>1, <3>2, <1>2, <1>5
  <2> QED
    BY <2>1, <2>2
<1>7. PathsConnect'
  <2> HIDE DEF new
  <2>1. live' = live \cup {new}
    BY DEF new
  <2>2. \A q, i : At(q, i)' = At(q, i)
    BY DEF At
  <2> QED
    BY <2>1, <2>2, <1>6 DEF IInv, PathsConnect, At
<1> DEFINE Parted(s, t) == \E i \in DOMAIN s, j \in DOMAIN t : s[i] # t[j] /\ s[i].to = t[j].to
<1>8. Front(new) = p /\ Actor(new) = k.to
  <2>1. /\ Front(new) \in Seq(keys) /\ Len(Front(new)) = Len(new) - 1
        /\ \A i \in 1 .. Len(new) - 1 : Front(new)[i] = new[i]
    <3> HIDE DEF new
    <3> QED BY <1>2, FrontAndLast
  <2> DEFINE f == Front(new)
  <2> HIDE DEF f, new
  <2>2. f \in Seq(keys) /\ Len(f) = Len(p) /\ \A i \in 1 .. Len(p) : f[i] = p[i]
    BY <1>1, <1>2, <2>1 DEF f
  <2>3. f = p
    BY <1>1, <2>2
  <2>4. Actor(new) = new[Len(p) + 1].to
    BY <1>1, <1>2 DEF Actor, At
  <2> QED BY <1>2, <2>3, <2>4 DEF f
<1>9. ASSUME NEW q \in live, Actor(q) = k.to PROVE Parted(q, new)
  <2>1. q \in Seq(keys)
    BY <1>1
  <2>2. CASE q = <<>>
    <3>1. Len(q) = 0 /\ At(new, 0) = k.to
      BY <1>9, <2>2 DEF Actor, At
    <3>2. /\ TypeOK /\ Admits(keys) /\ handling # Nobody
      BY DEF IInv, NothingLeft
    <3>3. Len(new) \in 0 .. Len(new) /\ 0 \in 0 .. Len(new) /\ 0 < Len(new)
      BY <1>1, <1>2
    <3>4. At(new, Len(new)) = k.to
      BY <1>8 DEF Actor
    <3> HIDE DEF new
    <3>5. At(new, 0) # At(new, Len(new))
      BY <1>2, <1>6, <3>2, <3>3, NoActorTwice
    <3> QED BY <3>1, <3>4, <3>5
  <2>3. CASE q # <<>>
    <3> DEFINE n == Len(q)
               f == Front(q)
    <3>1. /\ f \in live /\ n \in Nat \ {0} /\ Len(f) = n - 1
          /\ \A i \in 1 .. n - 1 : f[i] = q[i]
          /\ q[n] \in keys /\ q = Append(f, q[n])
      BY <2>1, <2>3, FrontAndLast DEF IInv, PathsLive
    <3>2. q[n].to = k.to
      BY <1>9, <3>1 DEF Actor, At
    <3>3. CASE q[n] # k
      <4>1. n \in DOMAIN q /\ Len(p) + 1 \in DOMAIN new /\ new[Len(p) + 1] = k
        BY <1>1, <1>2, <2>1, <3>1
      <4> HIDE DEF new
      <4> QED BY <3>2, <3>3, <4>1
    <3>4. CASE q[n] = k
      <4>1. q[n].from = At(q, n - 1) /\ k.from = Actor(p)
        BY <3>1 DEF IInv, PathsConnect, CanLend
      <4>2. At(q, n - 1) = Actor(f)
        BY <3>1 DEF Actor, At
      <4>3. f # p
        BY <3>1, <3>4 DEF CanLend
      <4>4. PICK i \in DOMAIN f, j \in DOMAIN p : f[i] # p[j] /\ f[i].to = p[j].to
        BY <3>1, <3>4, <4>1, <4>2, <4>3 DEF IInv, OnlyDiamondsAlias
      <4>5. f \in Seq(keys)
        BY <1>1, <3>1
      <4>6. i \in DOMAIN q /\ q[i] = f[i]
        <5> HIDE DEF f
        <5>1. i \in 1 .. n - 1
          BY <3>1, <4>5
        <5> QED BY <2>1, <3>1, <5>1
      <4>7. j \in DOMAIN new /\ new[j] = p[j]
        <5> HIDE DEF new
        <5> QED BY <1>1, <1>2
      <4> HIDE DEF f, new
      <4> QED BY <4>4, <4>6, <4>7
    <3> QED BY <3>3, <3>4
  <2> QED BY <2>2, <2>3
<1>10. PathsLive'
  <2> HIDE DEF new
  <2>1. live' = live \cup {new}
    BY DEF new
  <2> QED BY <1>8, <2>1 DEF IInv, PathsLive
<1>11. OnlyDiamondsAlias'
  <2> HIDE DEF new
  <2>1. live' = live \cup {new} /\ handling' = handling
    BY DEF new
  <2>2. \A q : Actor(q)' = Actor(q)
    BY <2>1 DEF Actor, At
  <2>3. ASSUME NEW q \in live', NEW r \in live', q # r, Actor(q) = Actor(r) PROVE Parted(q, r)
    <3>1. CASE q \in live /\ r \in live
      BY <2>3, <3>1 DEF IInv, OnlyDiamondsAlias
    <3>2. CASE q \in live /\ r = new
      BY <1>8, <1>9, <2>3, <3>2
    <3>3. CASE q = new /\ r \in live
      <4>1. Parted(r, new)
        BY <1>8, <1>9, <2>3, <3>3
      <4> QED BY <3>3, <4>1
    <3> QED BY <2>1, <2>3, <3>1, <3>2, <3>3
  <2> QED BY <2>2, <2>3 DEF OnlyDiamondsAlias
<1> QED
  BY <1>1, <1>2, <1>7, <1>10, <1>11

\* The invariant holds before the first message.
LEMMA InvInit == Init => IInv
BY DEF Init, IInv, TypeOK, NothingLeft, PathsConnect, PathsLive, OnlyDiamondsAlias

\* Steps that lend nothing and keep a set of references from which none that a
\* kept one came through is missing.
LEMMA Keep ==
  ASSUME IInv, UNCHANGED <<keys, handling>>, live' \subseteq live,
         \A p \in live' : p # <<>> => Front(p) \in live'
  PROVE  PathsConnect' /\ PathsLive' /\ OnlyDiamondsAlias' /\ Admits(keys)'
<1>1. \A p, i : At(p, i)' = At(p, i)
  BY DEF At
<1>2. \A p : Actor(p)' = Actor(p)
  BY <1>1 DEF Actor
<1>3. PathsConnect'
  BY <1>1 DEF IInv, PathsConnect
<1>4. PathsLive'
  BY DEF PathsLive
<1>5. OnlyDiamondsAlias'
  BY <1>2 DEF IInv, OnlyDiamondsAlias
<1> QED
  BY <1>3, <1>4, <1>5 DEF IInv, Admits, Relations

\* Every step preserves it.
LEMMA InvStep == IInv /\ [Next]_vars => IInv'
<1> SUFFICES ASSUME IInv, [Next]_vars PROVE IInv'
  OBVIOUS
<1>0. TypeOK /\ within \in Seq(Seq(keys)) /\ Len(within) \in Nat
  BY DEF IInv, TypeOK
<1>1. ASSUME NEW n \in Actors, Handle(n) PROVE IInv'
  <2>1. live = {} /\ within = <<>>
    BY <1>1 DEF Handle, IInv, NothingLeft
  <2>2. /\ keys' = keys /\ handling' = n /\ live' = {<<>>} /\ within' = <<>>
    BY <1>1, <2>1 DEF Handle
  <2>3. <<>> \in Seq(keys) /\ <<>> \in Seq(Seq(keys)) /\ n # Nobody
    BY NobodyAssumption
  <2>4. TypeOK'
    BY <1>0, <2>2, <2>3 DEF TypeOK
  <2>5. PathsConnect' /\ PathsLive' /\ OnlyDiamondsAlias'
    BY <2>2 DEF PathsConnect, PathsLive, OnlyDiamondsAlias
  <2> QED
    BY <2>2, <2>3, <2>4, <2>5 DEF IInv, NothingLeft, Admits, Relations
<1>2. ASSUME NEW p \in live, NEW k \in keys, BorrowMut(p, k) PROVE IInv'
  <2>1. CanLend(p, k) /\ live' = live \cup {Append(p, k)} /\ UNCHANGED <<keys, handling, within>>
    BY <1>2 DEF BorrowMut
  <2>2. live' \subseteq Seq(keys) /\ PathsConnect' /\ PathsLive' /\ OnlyDiamondsAlias'
    BY <2>1, Lend
  <2>3. TypeOK'
    BY <1>0, <2>1, <2>2 DEF TypeOK
  <2>4. handling # Nobody
    BY DEF IInv, NothingLeft
  <2> QED
    BY <2>1, <2>2, <2>3, <2>4 DEF IInv, NothingLeft, Admits, Relations
<1>3. ASSUME NEW p \in live, NEW k \in keys, Call(p, k) PROVE IInv'
  <2> DEFINE new == Append(p, k)
  <2>1. CanLend(p, k) /\ live' = live \cup {new} /\ within' = Append(within, new)
        /\ UNCHANGED <<keys, handling>>
    BY <1>3 DEF Call
  <2>2. /\ new \in Seq(keys) /\ live' \subseteq Seq(keys)
        /\ PathsConnect' /\ PathsLive' /\ OnlyDiamondsAlias'
    BY <2>1, Lend
  <2> HIDE DEF new
  <2>3. within' \in Seq(Seq(keys))
    BY <1>0, <2>1, <2>2, AppendProperties
  <2>4. TypeOK'
    BY <1>0, <2>1, <2>2, <2>3 DEF TypeOK
  <2>5. handling # Nobody
    BY DEF IInv, NothingLeft
  <2> QED
    BY <2>1, <2>2, <2>4, <2>5 DEF IInv, NothingLeft, Admits, Relations
<1>4. ASSUME NEW p \in live, Release(p) PROVE IInv'
  <2>1. live' = {q \in live : ~ IsPrefix(p, q)} /\ UNCHANGED <<keys, handling, within>>
    BY <1>4 DEF Release
  <2>2. TypeOK'
    BY <1>0, <2>1 DEF TypeOK
  <2>3. ASSUME NEW q \in live', q # <<>> PROVE Front(q) \in live'
    <3>1. q \in live /\ q \in Seq(keys) /\ p \in Seq(keys) /\ ~ IsPrefix(p, q)
      BY <2>1, <2>3, <1>0 DEF TypeOK
    <3> DEFINE f == Front(q)
    <3>2. f \in live /\ f \in Seq(keys) /\ q[Len(q)] \in keys /\ q = Append(f, q[Len(q)])
      BY <2>3, <3>1, FrontAndLast DEF IInv, PathsLive
    <3> HIDE DEF f
    <3>3. ~ IsPrefix(p, f)
      BY <3>1, <3>2, PrefixAppend
    <3> QED BY <2>1, <3>2, <3>3 DEF f
  <2>4. PathsConnect' /\ PathsLive' /\ OnlyDiamondsAlias' /\ Admits(keys)'
    BY <2>1, <2>3, Keep
  <2>5. handling # Nobody
    BY DEF IInv, NothingLeft
  <2> QED
    BY <2>1, <2>2, <2>4, <2>5 DEF IInv, NothingLeft
<1>5. CASE Return
  <2> DEFINE L == Len(within)
  <2>1. within # <<>> /\ within' = Front(within) /\ UNCHANGED <<keys, handling, live>>
    BY <1>5 DEF Return
  <2>2. within' \in Seq(Seq(keys))
    BY <1>0, <2>1, FrontAndLast
  <2>3. TypeOK'
    BY <1>0, <2>1, <2>2 DEF TypeOK
  <2>4. PathsConnect' /\ PathsLive' /\ OnlyDiamondsAlias' /\ Admits(keys)'
    BY <2>1, Keep DEF IInv, PathsLive
  <2>5. handling # Nobody
    BY <2>1 DEF IInv, NothingLeft
  <2> QED
    BY <2>1, <2>3, <2>4, <2>5 DEF IInv, NothingLeft
<1>6. CASE HandlerReturns
  <2>1. /\ handling' = Nobody /\ live' = {} /\ within' = <<>> /\ keys' = keys
    BY <1>6 DEF HandlerReturns
  <2>2. TypeOK'
    BY <1>0, <2>1 DEF TypeOK
  <2> QED
    BY <2>1, <2>2 DEF IInv, NothingLeft, PathsConnect, PathsLive, OnlyDiamondsAlias, Admits, Relations
<1>7. CASE UNCHANGED vars
  <2>1. UNCHANGED <<keys, handling, live, within>>
    BY <1>7 DEF vars
  <2>2. PathsConnect' /\ PathsLive' /\ OnlyDiamondsAlias' /\ Admits(keys)'
    BY <2>1, Keep DEF IInv, PathsLive
  <2> QED
    BY <2>1, <2>2 DEF IInv, TypeOK, NothingLeft
<1> QED
  BY <1>1, <1>2, <1>3, <1>4, <1>5, <1>6, <1>7 DEF Next

------------------------------------------------------------------------------
\* The inductive invariant of lending.
THEOREM Invariance == Spec => []IInv
BY InvInit, InvStep, PTL DEF Spec

\* No actor is reached through a reference to itself.
THEOREM NoReentrance == Spec => []NeverReachesItself
<1>1. IInv => NeverReachesItself
  BY NoneTwice
<1> QED
  BY <1>1, Invariance, PTL

\* References to one actor came by different keys to some actor.
THEOREM AliasesNeedTwoKeys == Spec => []OnlyDiamondsAlias
<1>1. IInv => OnlyDiamondsAlias
  BY DEF IInv
<1> QED
  BY <1>1, Invariance, PTL
==============================================================================
