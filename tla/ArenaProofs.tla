----------------------------- MODULE ArenaProofs -----------------------------
(***************************************************************************)
(* Proofs about Arena: wherever the block begins, the space that           *)
(* compute_space_required asks for holds the objects that get_offsets      *)
(* places, each at an address of its alignment and none over another.      *)
(*                                                                         *)
(* The argument compares the measure, made before the address is known,    *)
(* with every way to place the layouts measured so far (IsPlacement): none *)
(* ends beyond res, and all of them end at curr_offset modulo known_align. *)
(* Layouts of smaller alignment therefore need the padding that is counted *)
(* for them, and one of a larger alignment no more than that.              *)
(*                                                                         *)
(* Some address needs all of the space: whenever the alignment grows, some *)
(* of the addresses that were the worst ones so far need all the padding.  *)
(***************************************************************************)
EXTENDS Arena, FiniteSetTheorems, TLAPS

(***************************************************************************)
(* Remainders.                                                             *)
(***************************************************************************)

\* A number is a multiple of n and its remainder.
LEMMA DivMod ==
  ASSUME NEW x \in Int, NEW n \in Nat \ {0}
  PROVE  /\ x % n \in 0 .. n - 1
         /\ \E q \in Int : x = q * n + (x % n)
<1>1. x = (x \div n) * n + (x % n) /\ x \div n \in Int
  OBVIOUS
<1>2. x % n \in 0 .. n - 1
  OBVIOUS
<1> QED BY <1>1, <1>2

\* Only zero has a multiple nearer to zero than n.
LEMMA Multiples ==
  ASSUME NEW k \in Int, NEW n \in Nat \ {0}
  PROVE  /\ k * n \in Int
         /\ k >= 1 => k * n >= n
         /\ k <= -1 => k * n <= -n
OBVIOUS

LEMMA Distributes ==
  ASSUME NEW a \in Int, NEW b \in Int, NEW n \in Int
  PROVE  (a - b) * n = a * n - b * n /\ (a + b) * n = a * n + b * n
OBVIOUS

LEMMA Associates ==
  ASSUME NEW a \in Int, NEW b \in Int, NEW n \in Int
  PROVE  (a * b) * n = a * (b * n) /\ a * b \in Int
OBVIOUS

\* The remainder is the only one.
LEMMA Remainder ==
  ASSUME NEW n \in Nat \ {0}, NEW x \in Int, NEW q \in Int, NEW r \in 0 .. n - 1, x = q * n + r
  PROVE  x % n = r
<1>1. PICK p \in Int : x = p * n + (x % n)
  BY DivMod
<1>2. x % n \in 0 .. n - 1
  BY DivMod
<1>3. (p - q) * n = p * n - q * n /\ p * n \in Int /\ q * n \in Int
  BY Distributes, Multiples
<1>4. (p - q) * n = r - (x % n)
  BY <1>1, <1>2, <1>3
<1>5. p - q = 0
  BY <1>2, <1>4, Multiples
<1> QED BY <1>2, <1>4, <1>5

LEMMA SmallRemainder ==
  ASSUME NEW n \in Nat \ {0}, NEW r \in 0 .. n - 1
  PROVE  r % n = r
OBVIOUS

\* Remainders are added before or after they are taken.
LEMMA RemainderOfSum ==
  ASSUME NEW n \in Nat \ {0}, NEW x \in Int, NEW y \in Int
  PROVE  ((x % n) + y) % n = (x + y) % n
<1>1. PICK q \in Int : x = q * n + (x % n)
  BY DivMod
<1>2. PICK r : r = x % n
  OBVIOUS
<1>3. PICK z : z = r + y
  OBVIOUS
<1>4. r \in Int /\ z \in Int
  BY <1>2, <1>3, DivMod
<1>5. PICK u : u = z % n
  OBVIOUS
<1>6. u \in 0 .. n - 1 /\ \E t \in Int : z = t * n + u
  BY <1>4, <1>5, DivMod
<1>7. PICK t \in Int : z = t * n + u
  BY <1>6
<1>8. (q + t) * n = q * n + t * n /\ q * n \in Int /\ t * n \in Int
  BY Distributes, Multiples
<1>9. PICK w \in Int : w = x + y
  OBVIOUS
<1>10. PICK p \in Int : p = q + t
  OBVIOUS
<1>11. w = p * n + u
  BY <1>1, <1>2, <1>3, <1>4, <1>6, <1>7, <1>8, <1>9, <1>10
<1>12. w % n = u
  BY <1>6, <1>11, Remainder
<1> QED BY <1>2, <1>3, <1>5, <1>9, <1>12

\* What n divides is a multiple of it.
LEMMA Divides ==
  ASSUME NEW n \in Nat \ {0}, NEW x \in Int, x % n = 0
  PROVE  \E q \in Int : x = q * n
<1>1. PICK q \in Int : x = q * n + (x % n)
  BY DivMod
<1> QED BY <1>1, Multiples

\* The remainder modulo a multiple of n says that modulo n.
LEMMA RemainderOfMultiple ==
  ASSUME NEW n \in Nat \ {0}, NEW k \in Nat \ {0}, k % n = 0, NEW x \in Int
  PROVE  x % n = (x % k) % n
<1>1. PICK q \in Int : x = q * k + (x % k)
  BY DivMod
<1>2. PICK m \in Int : k = m * n
  <2>1. k \in Int
    OBVIOUS
  <2> QED BY <2>1, Divides
<1>3. PICK c : c = x % k
  OBVIOUS
<1>4. c \in Int
  BY <1>3, DivMod
<1>5. PICK r : r = c % n
  OBVIOUS
<1>6. r \in 0 .. n - 1 /\ \E s \in Int : c = s * n + r
  BY <1>4, <1>5, DivMod
<1>7. PICK s \in Int : c = s * n + r
  BY <1>6
<1>8. q * k = (q * m) * n
  BY <1>2, Associates
<1>9. PICK j \in Int : j = q * m
  BY Associates
<1>10. (j + s) * n = j * n + s * n /\ j * n \in Int /\ s * n \in Int
  BY Distributes, Multiples
<1>11. PICK p \in Int : p = j + s
  OBVIOUS
<1>12. x = p * n + r
  BY <1>1, <1>3, <1>4, <1>6, <1>7, <1>8, <1>9, <1>10, <1>11
<1>13. x % n = r
  BY <1>6, <1>12, Remainder
<1> QED BY <1>3, <1>5, <1>13

------------------------------------------------------------------------------
(***************************************************************************)
(* Padding.                                                                *)
(***************************************************************************)

\* The padding up to the next multiple, by the remainder.
LEMMA Complement ==
  ASSUME NEW n \in Nat \ {0}, NEW r \in 0 .. n - 1
  PROVE  (n - r) % n = IF r = 0 THEN 0 ELSE n - r
<1>1. CASE r = 0
  <2>1. n = 1 * n + 0
    OBVIOUS
  <2> QED BY <1>1, <2>1, Remainder
<1>2. CASE r # 0
  <2>1. n - r = 0 * n + (n - r) /\ n - r \in 0 .. n - 1 /\ n - r \in Int
    BY <1>2
  <2> QED BY <1>2, <2>1, Remainder
<1> QED BY <1>1, <1>2

\* align_offset leads to the next address of the alignment.
LEMMA AlignUpIsNext ==
  ASSUME NEW addr \in Nat, NEW align \in Nat \ {0}
  PROVE  /\ AlignUp(addr, align) \in Nat
         /\ addr <= AlignUp(addr, align) /\ AlignUp(addr, align) < addr + align
         /\ AlignUp(addr, align) % align = 0
<1>1. addr \in Int
  OBVIOUS
<1>2. PICK r : r = addr % align
  OBVIOUS
<1>3. r \in 0 .. align - 1 /\ \E q \in Int : addr = q * align + r
  BY <1>1, <1>2, DivMod
<1>4. PICK q \in Int : addr = q * align + r
  BY <1>3
<1>5. AlignUp(addr, align) = addr + (IF r = 0 THEN 0 ELSE align - r)
  BY <1>2, <1>3, Complement DEF AlignUp
<1>6. q * align \in Int /\ (q + 1) * align = q * align + 1 * align /\ 1 * align = align
  BY Multiples, Distributes
<1>7. PICK p \in Int : p = (IF r = 0 THEN q ELSE q + 1)
  OBVIOUS
<1>8. AlignUp(addr, align) = p * align + 0
  BY <1>3, <1>4, <1>5, <1>6, <1>7
<1>9. AlignUp(addr, align) \in Nat
  BY <1>3, <1>5
<1>10. AlignUp(addr, align) % align = 0
  BY <1>8, <1>9, Remainder
<1> QED BY <1>3, <1>5, <1>9, <1>10

\* Before a smaller alignment: the padding counted is the padding there is.
LEMMA PadIsExact ==
  ASSUME NEW addr \in Nat, NEW align \in Nat \ {0}, known_align \in Nat \ {0},
         known_align % align = 0, addr % known_align = curr_offset
  PROVE  AlignUp(addr, align) - addr = Pad(align) /\ Pad(align) \in Nat
<1>1. addr \in Int
  OBVIOUS
<1>2. PICK r : r = addr % align
  OBVIOUS
<1>3. r \in 0 .. align - 1
  BY <1>1, <1>2, DivMod
<1>4. PICK c \in Nat : c = curr_offset
  BY <1>1, DivMod
<1>5. c \in Int /\ c % align = r
  <2>1. addr % align = (addr % known_align) % align
    BY <1>1, RemainderOfMultiple
  <2> QED BY <1>2, <1>4, <2>1
<1>6. PICK s \in Int : c = s * align + r
  BY <1>5, DivMod
<1>7. s * align \in Int /\ (s + 1) * align = s * align + 1 * align /\ 1 * align = align
  BY Multiples, Distributes
<1>8. PICK v \in Int : v = c + align - 1
  OBVIOUS
<1>9. v % align = IF r = 0 THEN align - 1 ELSE r - 1
  <2>1. CASE r = 0
    <3>1. PICK o \in 0 .. align - 1 : o = align - 1
      OBVIOUS
    <3>2. v = s * align + o
      BY <1>6, <1>7, <1>8, <2>1, <3>1
    <3>3. v % align = o
      BY <3>2, Remainder
    <3> QED BY <2>1, <3>1, <3>3
  <2>2. CASE r # 0
    <3>1. PICK p \in Int : p = s + 1
      OBVIOUS
    <3>2. PICK o \in 0 .. align - 1 : o = r - 1
      BY <1>3, <2>2
    <3>3. v = p * align + o
      BY <1>3, <1>6, <1>7, <1>8, <3>1, <3>2
    <3>4. v % align = o
      BY <3>3, Remainder
    <3> QED BY <2>2, <3>2, <3>4
  <2> QED BY <2>1, <2>2
<1>10. AlignUp(addr, align) = addr + (IF r = 0 THEN 0 ELSE align - r)
  BY <1>2, <1>3, Complement DEF AlignUp
<1>11. Pad(align) = align - (v % align) - 1
  BY <1>4, <1>8 DEF Pad
<1> QED BY <1>3, <1>9, <1>10, <1>11

\* Before a larger one: it is the padding of the worst address.
LEMMA WidenIsEnough ==
  ASSUME NEW addr \in Nat, NEW align \in Nat \ {0}, known_align \in Nat \ {0},
         align % known_align = 0, addr % known_align = curr_offset
  PROVE  AlignUp(addr, align) - addr <= Widen(align) /\ Widen(align) \in Int
<1>1. PICK k \in Nat \ {0} : k = known_align
  OBVIOUS
<1>2. PICK c : c = curr_offset
  OBVIOUS
<1>3. PICK x \in Nat : x = AlignUp(addr, align)
  BY AlignUpIsNext
<1>4. addr \in Int /\ align \in Int /\ x \in Int
  OBVIOUS
<1>5. c \in 0 .. k - 1 /\ \E q \in Int : addr = q * k + c
  BY <1>1, <1>2, <1>4, DivMod
<1>6. addr <= x /\ x < addr + align /\ x % align = 0
  BY <1>3, AlignUpIsNext
<1>7. PICK q \in Int : addr = q * k + c
  BY <1>5
<1>8. PICK m \in Int : align = m * k
  BY <1>1, <1>4, Divides
<1>9. x % k = 0
  <2>1. 0 % k = 0
    OBVIOUS
  <2>2. x % k = (x % align) % k
    BY <1>1, <1>4, RemainderOfMultiple
  <2> QED BY <1>6, <2>1, <2>2
<1>10. PICK p \in Int : x = p * k
  BY <1>4, <1>9, Divides
<1>11. PICK d \in Int : d = m - (p - q)
  OBVIOUS
<1>12. d * k = m * k - (p - q) * k /\ (p - q) * k = p * k - q * k
  BY <1>11, Distributes
<1>13. p * k \in Int /\ q * k \in Int /\ m * k \in Int /\ d * k \in Int
  BY Multiples
\* The padding is align - c less a multiple of known_align.
<1>14. x - addr = align - c - (d * k)
  BY <1>4, <1>5, <1>7, <1>8, <1>10, <1>12, <1>13
<1>15. Widen(align) = align - k + (IF c = 0 THEN 0 ELSE k - c)
  BY <1>1, <1>2, <1>5, Complement DEF Widen
<1>16. d >= 1 => d * k >= k
  BY Multiples
<1>17. d <= -1 => d * k <= -k
  BY Multiples
<1>18. d = 0 => d * k = 0
  OBVIOUS
<1>19. c = 0 => d >= 1
  BY <1>4, <1>6, <1>13, <1>14, <1>17, <1>18
<1>20. d >= 0
  BY <1>4, <1>5, <1>6, <1>13, <1>14, <1>17
<1> QED BY <1>3, <1>4, <1>5, <1>13, <1>14, <1>15, <1>16, <1>18, <1>19, <1>20

------------------------------------------------------------------------------
(***************************************************************************)
(* Placing.                                                                *)
(***************************************************************************)

\* p[i] is where the object of the i-th layout ends, and p[0] where the block
\* begins: get_offsets, for the first k layouts and any address.
IsPlacement(p, k) ==
  /\ p \in [0 .. k -> Nat]
  /\ \A i \in 1 .. k : p[i] = AlignUp(p[i - 1], layouts[i].align) + layouts[i].size

\* No way to place the first k layouts ends beyond the space.
SpaceSuffices(k) == \A p : IsPlacement(p, k) => p[k] - p[0] <= res

\* All ways to place the first k end at curr_offset, modulo known_align.
EndIsKnown(k) == \A p : IsPlacement(p, k) => p[k] % known_align = curr_offset

\* known_align is the alignment of some layout, or none was measured yet.
KnownIsAlign == known_align = 1 \/ \E l \in Layouts : known_align = l.align

\* The measure so far, of the first next - 1 layouts or of all.
Measured == IF stage = "measure" THEN next - 1 ELSE Len(layouts)

MeasureIsRight ==
  /\ \A k \in 0 .. Measured : SpaceSuffices(k)
  /\ stage = "measure" => EndIsKnown(next - 1) /\ KnownIsAlign

\* Where the object before the i-th ends.
Before(i) == IF i = 1 THEN start ELSE start + End(i - 1)

OffsetsAreRight ==
  /\ Len(offsets) = CASE stage = "measure" -> 0
                      [] stage = "place"   -> next - 1
                      [] OTHER             -> Len(layouts)
  /\ \A i \in 1 .. Len(offsets) : start + offsets[i] = AlignUp(Before(i), layouts[i].align)
  /\ curr = Before(Len(offsets) + 1)
  /\ \A i \in 1 .. Len(offsets) : start + End(i) <= curr

IInv == TypeOK /\ MeasureIsRight /\ OffsetsAreRight /\ ObjectsDisjoint

\* A layout of the context.
LEMMA LayoutsAre ==
  ASSUME TypeOK, NEW i \in 1 .. Len(layouts)
  PROVE  /\ layouts[i] \in Layouts
         /\ layouts[i].size \in Nat /\ layouts[i].align \in Nat \ {0}
BY LayoutsAssumption DEF TypeOK, Layout

\* Leaving out the last object of a placement leaves one.
LEMMA ShorterPlacement ==
  ASSUME NEW k \in Nat, NEW p, IsPlacement(p, k + 1)
  PROVE  \E q : /\ IsPlacement(q, k) /\ q[0] = p[0] /\ q[k] = p[k]
<1> DEFINE q == [i \in 0 .. k |-> p[i]]
<1>1. q \in [0 .. k -> Nat]
  BY DEF IsPlacement
<1>2. ASSUME NEW i \in 1 .. k
      PROVE  q[i] = AlignUp(q[i - 1], layouts[i].align) + layouts[i].size
  <2>1. q[i] = p[i] /\ q[i - 1] = p[i - 1] /\ i \in 1 .. k + 1
    OBVIOUS
  <2> QED BY <2>1 DEF IsPlacement
<1>3. q[0] = p[0] /\ q[k] = p[k]
  OBVIOUS
<1> HIDE DEF q
<1> QED BY <1>1, <1>2, <1>3 DEF IsPlacement

\* Of two alignments the smaller divides the larger.
LEMMA AlignmentsDivide ==
  ASSUME known_align \in Nat \ {0}, KnownIsAlign, NEW l \in Layouts
  PROVE  /\ l.align \in Nat \ {0}
         /\ l.align > known_align => l.align % known_align = 0
         /\ l.align <= known_align => known_align % l.align = 0
<1>1. l.align \in Nat \ {0}
  BY LayoutsAssumption DEF Layout
<1>2. CASE known_align = 1
  <2>1. l.align % 1 = 0
    BY <1>1
  <2>2. l.align = 1 \/ l.align > 1
    BY <1>1
  <2> QED BY <1>1, <1>2, <2>1, <2>2
<1>3. CASE \E m \in Layouts : known_align = m.align
  <2>1. PICK m \in Layouts : known_align = m.align
    BY <1>3
  <2> QED BY <1>1, <2>1, LayoutsAssumption
<1> QED BY <1>1, <1>2, <1>3 DEF KnownIsAlign

\* A turn for a larger alignment: where the placements of one layout more end.
LEMMA WidenStep ==
  ASSUME TypeOK, KnownIsAlign, EndIsKnown(next - 1), SpaceSuffices(next - 1),
         next \in 1 .. Len(layouts), layouts[next].align > known_align
  PROVE  LET l == layouts[next] IN
         /\ Widen(l.align) \in Nat
         /\ \A p : IsPlacement(p, next) =>
              /\ p[next] - p[0] <= res + Widen(l.align) + l.size
              /\ p[next] % l.align = l.size % l.align
<1> DEFINE l == layouts[next]
<1>1. l \in Layouts /\ l.size \in Nat /\ l.align \in Nat \ {0}
  BY LayoutsAre
<1>2. known_align \in Nat \ {0} /\ curr_offset \in 0 .. known_align - 1 /\ res \in Nat
  BY DEF TypeOK
<1>3. l.align % known_align = 0 /\ l.align > known_align
  BY <1>1, <1>2, AlignmentsDivide
<1>4. Widen(l.align) \in Nat
  <2>1. (known_align - curr_offset) % known_align \in Nat
    BY <1>2, Complement
  <2> QED BY <1>1, <1>2, <1>3, <2>1 DEF Widen
<1>5. ASSUME NEW p, IsPlacement(p, next)
      PROVE  /\ p[next] - p[0] <= res + Widen(l.align) + l.size
             /\ p[next] % l.align = l.size % l.align
  <2>1. PICK q : IsPlacement(q, next - 1) /\ q[0] = p[0] /\ q[next - 1] = p[next - 1]
    <3>1. next - 1 \in Nat /\ (next - 1) + 1 = next
      OBVIOUS
    <3> QED BY <1>5, <3>1, ShorterPlacement
  <2>2. PICK a \in Nat : a = p[next - 1]
    BY <1>5 DEF IsPlacement
  <2>3. PICK x \in Nat : x = AlignUp(a, l.align)
    BY <1>1, AlignUpIsNext
  <2>4. x % l.align = 0
    BY <1>1, <2>3, AlignUpIsNext
  <2>5. a - p[0] <= res /\ a % known_align = curr_offset /\ p[0] \in Nat
    <3>1. q[next - 1] - q[0] <= res
      BY <2>1 DEF SpaceSuffices
    <3>2. q[next - 1] % known_align = curr_offset
      BY <2>1 DEF EndIsKnown
    <3>3. p[0] \in Nat
      BY <1>5 DEF IsPlacement
    <3> QED BY <2>1, <2>2, <3>1, <3>2, <3>3
  <2>6. x - a <= Widen(l.align)
    BY <1>1, <1>2, <1>3, <2>3, <2>5, WidenIsEnough
  <2>7. p[next] = x + l.size
    BY <1>5, <2>2, <2>3 DEF IsPlacement
  <2>8. (x + l.size) % l.align = l.size % l.align
    <3>1. x \in Int /\ l.size \in Int
      BY <1>1
    <3>2. ((x % l.align) + l.size) % l.align = (x + l.size) % l.align
      BY <1>1, <3>1, RemainderOfSum
    <3>3. 0 + l.size = l.size
      BY <1>1
    <3> QED BY <2>4, <3>2, <3>3
  <2>9. PICK w \in Nat : w = Widen(l.align)
    BY <1>4
  <2>10. PICK s \in Nat : s = l.size
    BY <1>1
  <2>11. x - a <= w /\ a - p[0] <= res /\ p[0] \in Nat /\ res \in Nat
    BY <1>2, <2>5, <2>6, <2>9
  <2>12. x + s - p[0] <= res + w + s
    BY <2>11
  <2>13. p[next] = x + s
    BY <2>7, <2>10
  <2>14. p[next] - p[0] <= res + w + s
    BY <2>11, <2>12, <2>13
  <2> HIDE DEF l
  <2> QED BY <2>7, <2>8, <2>9, <2>10, <2>14
<1> QED BY <1>4, <1>5

\* A turn for one that is no larger.
LEMMA PadStep ==
  ASSUME TypeOK, KnownIsAlign, EndIsKnown(next - 1), SpaceSuffices(next - 1),
         next \in 1 .. Len(layouts), layouts[next].align <= known_align
  PROVE  LET l == layouts[next] IN
         /\ Pad(l.align) \in Nat
         /\ \A p : IsPlacement(p, next) =>
              /\ p[next] - p[0] <= res + Pad(l.align) + l.size
              /\ p[next] % known_align
                   = (((curr_offset + Pad(l.align)) % known_align) + l.size) % known_align
<1> DEFINE l == layouts[next]
<1>1. l \in Layouts /\ l.size \in Nat /\ l.align \in Nat \ {0}
  BY LayoutsAre
<1>2. known_align \in Nat \ {0} /\ curr_offset \in 0 .. known_align - 1 /\ res \in Nat
  BY DEF TypeOK
<1>3. known_align % l.align = 0
  BY <1>1, <1>2, AlignmentsDivide
<1>4. Pad(l.align) \in Nat
  <2>1. curr_offset \in Nat
    BY <1>2
  <2>2. curr_offset % known_align = curr_offset
    BY <1>2, SmallRemainder
  <2> QED BY <1>1, <1>2, <1>3, <2>1, <2>2, PadIsExact
<1>5. ASSUME NEW p, IsPlacement(p, next)
      PROVE  /\ p[next] - p[0] <= res + Pad(l.align) + l.size
             /\ p[next] % known_align
                  = (((curr_offset + Pad(l.align)) % known_align) + l.size) % known_align
  <2>1. PICK q : IsPlacement(q, next - 1) /\ q[0] = p[0] /\ q[next - 1] = p[next - 1]
    <3>1. next - 1 \in Nat /\ (next - 1) + 1 = next
      OBVIOUS
    <3> QED BY <1>5, <3>1, ShorterPlacement
  <2>2. PICK a \in Nat : a = p[next - 1]
    BY <1>5 DEF IsPlacement
  <2>3. a - p[0] <= res /\ a % known_align = curr_offset /\ p[0] \in Nat
    <3>1. q[next - 1] - q[0] <= res
      BY <2>1 DEF SpaceSuffices
    <3>2. q[next - 1] % known_align = curr_offset
      BY <2>1 DEF EndIsKnown
    <3>3. p[0] \in Nat
      BY <1>5 DEF IsPlacement
    <3> QED BY <2>1, <2>2, <3>1, <3>2, <3>3
  <2>4. PICK pad \in Nat : pad = Pad(l.align)
    BY <1>4
  <2>5. AlignUp(a, l.align) - a = pad
    BY <1>1, <1>2, <1>3, <2>3, <2>4, PadIsExact
  <2>6. AlignUp(a, l.align) \in Nat
    BY <1>1, AlignUpIsNext
  <2>7. p[next] = AlignUp(a, l.align) + l.size
    BY <1>5, <2>2 DEF IsPlacement
  <2>8. PICK s \in Nat : s = l.size
    BY <1>1
  <2>9. p[next] = a + (pad + s)
    BY <2>5, <2>6, <2>7, <2>8
  <2>10. a \in Int /\ pad \in Int /\ s \in Int /\ pad + s \in Int /\ curr_offset \in Int
         /\ curr_offset + pad \in Int
    BY <1>2
  <2>11. (a + (pad + s)) % known_align = (curr_offset + (pad + s)) % known_align
    BY <1>2, <2>3, <2>10, RemainderOfSum
  <2>12. (((curr_offset + pad) % known_align) + s) % known_align = (curr_offset + pad + s) % known_align
    BY <1>2, <2>10, RemainderOfSum
  <2>13. curr_offset + pad + s = curr_offset + (pad + s)
    BY <2>10
  <2>14. p[next] - p[0] <= res + pad + s
    BY <1>2, <2>3, <2>9
  <2> QED BY <2>4, <2>8, <2>9, <2>11, <2>12, <2>13, <2>14
<1> QED BY <1>4, <1>5

\* A turn keeps the measure right.
LEMMA MeasureStep ==
  ASSUME TypeOK, MeasureIsRight, Measure
  PROVE  TypeOK' /\ MeasureIsRight'
<1> DEFINE l == layouts[next]
<1>1. next \in 1 .. Len(layouts) /\ next \in Nat /\ Len(layouts) \in Nat
  BY DEF Measure, TypeOK
<1>2. l \in Layouts /\ l.size \in Nat /\ l.align \in Nat \ {0}
  BY <1>1, LayoutsAre
<1>3. known_align \in Nat \ {0} /\ curr_offset \in 0 .. known_align - 1 /\ res \in Nat
  BY DEF TypeOK
<1>4. stage = "measure" /\ Measured = next - 1
  BY DEF Measure, Measured
<1>5. EndIsKnown(next - 1) /\ SpaceSuffices(next - 1) /\ KnownIsAlign
  BY <1>1, <1>4 DEF MeasureIsRight
<1>6. /\ res' \in Nat /\ res <= res'
      /\ known_align' \in Nat \ {0} /\ curr_offset' \in 0 .. known_align' - 1
      /\ \E m \in Layouts : known_align' = known_align \/ known_align' = m.align
      /\ \A p : IsPlacement(p, next) => p[next] - p[0] <= res' /\ p[next] % known_align' = curr_offset'
  <2>1. CASE l.align > known_align
    <3>1. /\ Widen(l.align) \in Nat
          /\ \A p : IsPlacement(p, next) =>
               /\ p[next] - p[0] <= res + Widen(l.align) + l.size
               /\ p[next] % l.align = l.size % l.align
      BY <1>1, <1>5, <2>1, WidenStep
    <3>2. /\ res' = res + Widen(l.align) + l.size
          /\ known_align' = l.align
          /\ curr_offset' = l.size % l.align
      BY <1>2, <1>3, <2>1 DEF Measure
    <3>3. l.size % l.align \in 0 .. l.align - 1
      <4>1. l.size \in Int
        BY <1>2
      <4> QED BY <1>2, <4>1, DivMod
    <3> QED BY <1>2, <1>3, <3>1, <3>2, <3>3
  <2>2. CASE l.align <= known_align
    <3> DEFINE e == (((curr_offset + Pad(l.align)) % known_align) + l.size) % known_align
    <3>1. /\ Pad(l.align) \in Nat
          /\ \A p : IsPlacement(p, next) =>
               p[next] - p[0] <= res + Pad(l.align) + l.size /\ p[next] % known_align = e
      BY <1>1, <1>5, <2>2, PadStep
    <3>2. /\ res' = res + Pad(l.align) + l.size
          /\ known_align' = known_align
          /\ curr_offset' = e
      BY <1>2, <1>3, <2>2 DEF Measure
    <3>3. e \in 0 .. known_align - 1
      <4>1. curr_offset + Pad(l.align) \in Int
        BY <1>3, <3>1
      <4>2. (curr_offset + Pad(l.align)) % known_align \in Int
        BY <1>3, <4>1, DivMod
      <4>3. ((curr_offset + Pad(l.align)) % known_align) + l.size \in Int
        BY <1>2, <4>2
      <4> QED BY <1>3, <4>3, DivMod
    <3> HIDE DEF e
    <3> QED BY <1>2, <1>3, <3>1, <3>2, <3>3
  <2> QED BY <1>2, <1>3, <2>1, <2>2
<1>7. stage' = stage /\ next' = next + 1 /\ UNCHANGED <<layouts, start, curr, offsets>>
  BY DEF Measure
<1>8. TypeOK'
  <2>1. next' \in 1 .. Len(layouts') + 1 /\ stage' \in {"measure", "place", "construct", "built", "panicked"}
    BY <1>1, <1>4, <1>7
  <2>2. layouts' \in Seq(Layouts) /\ start' \in Nat /\ curr' \in Nat /\ offsets' \in Seq(Nat)
    BY <1>7 DEF TypeOK
  <2> QED BY <1>6, <2>1, <2>2 DEF TypeOK
<1>9. Measured' = next /\ next' - 1 = next
  BY <1>1, <1>4, <1>7 DEF Measured
<1>10. KnownIsAlign'
  BY <1>5, <1>6 DEF KnownIsAlign
<1>11. EndIsKnown(next - 1)'
  <2> SUFFICES ASSUME NEW p, IsPlacement(p, next - 1)' PROVE p[next] % known_align' = curr_offset'
    BY <1>9 DEF EndIsKnown
  <2>1. IsPlacement(p, next)
    BY <1>7, <1>9 DEF IsPlacement
  <2> QED BY <1>6, <2>1
<1>12. ASSUME NEW k \in 0 .. next
       PROVE  SpaceSuffices(k)'
  <2>1. CASE k = next
    BY <1>6, <1>7, <2>1 DEF SpaceSuffices, IsPlacement
  <2>2. CASE k # next
    <3>1. SpaceSuffices(k)
      BY <1>1, <1>4, <2>2 DEF MeasureIsRight
    <3> SUFFICES ASSUME NEW p, IsPlacement(p, k) PROVE p[k] - p[0] <= res'
      BY <1>7 DEF SpaceSuffices, IsPlacement
    <3>2. p[k] - p[0] <= res
      BY <3>1 DEF SpaceSuffices
    <3>3. p[k] \in Nat /\ p[0] \in Nat
      BY <1>1 DEF IsPlacement
    <3> QED BY <1>3, <1>6, <3>2, <3>3
  <2> QED BY <2>1, <2>2
<1> QED BY <1>8, <1>9, <1>10, <1>11, <1>12 DEF MeasureIsRight

\* A turn of get_offsets places one object more.
LEMMA PlaceStep ==
  ASSUME IInv, Place
  PROVE  TypeOK' /\ OffsetsAreRight' /\ ObjectsDisjoint'
<1> DEFINE l == layouts[next]
<1>0. PICK n : n = Len(offsets)
  OBVIOUS
<1>1. TypeOK /\ OffsetsAreRight /\ ObjectsDisjoint
  BY DEF IInv
<1>2. /\ stage = "place" /\ stage' = "place" /\ next \in 1 .. Len(layouts) /\ next' = next + 1
      /\ UNCHANGED <<layouts, measure, start>>
  BY <1>1 DEF Place, TypeOK
<1>3. l.size \in Nat /\ l.align \in Nat \ {0}
  BY <1>1, <1>2, LayoutsAre
<1>4. PICK x \in Nat : x = AlignUp(curr, l.align)
  BY <1>1, <1>3, AlignUpIsNext DEF TypeOK
<1>5. curr <= x
  BY <1>1, <1>3, <1>4, AlignUpIsNext DEF TypeOK
<1>6. n \in Nat /\ n = next - 1 /\ DOMAIN offsets = 1 .. n /\ \A i \in 1 .. n : offsets[i] \in Nat
  <2>1. n = next - 1
    BY <1>0, <1>1, <1>2 DEF OffsetsAreRight
  <2>2. /\ Len(offsets) \in Nat /\ DOMAIN offsets = 1 .. Len(offsets)
        /\ \A i \in 1 .. Len(offsets) : offsets[i] \in Nat
    BY <1>1 DEF TypeOK
  <2> QED BY <1>0, <2>1, <2>2
<1>7. \A i \in 1 .. n : End(i) \in Nat
  <2>1. \A i \in 1 .. n : i \in 1 .. Len(layouts)
    BY <1>1, <1>2, <1>6 DEF TypeOK
  <2>2. \A i \in 1 .. n : layouts[i].size \in Nat
    BY <1>1, <2>1, LayoutsAre
  <2> QED BY <1>6, <2>2 DEF End
<1>8. curr = Before(n + 1) /\ curr \in Nat /\ start \in Nat
  BY <1>0, <1>1 DEF OffsetsAreRight, TypeOK
<1>9. start <= curr
  BY <1>6, <1>7, <1>8 DEF Before
<1>10. offsets' = Append(offsets, x - start) /\ curr' = x + l.size /\ x - start \in Nat
  BY <1>4, <1>5, <1>8, <1>9 DEF Place
<1>11. /\ Len(offsets') = n + 1 /\ DOMAIN offsets' = 1 .. n + 1 /\ offsets' \in Seq(Nat)
       /\ offsets'[n + 1] = x - start /\ \A i \in 1 .. n : offsets'[i] = offsets[i]
  <2>1. offsets \in Seq(Nat)
    BY <1>1 DEF TypeOK
  <2> QED BY <1>0, <1>6, <1>10, <2>1
<1>12. (\A i \in 1 .. n : End(i)' = End(i)) /\ End(n + 1)' = x - start + l.size
  <2>1. layouts' = layouts
    BY <1>2
  <2>2. \A i \in 1 .. n : End(i)' = End(i)
    BY <1>11, <2>1 DEF End
  <2>3. End(n + 1)' = offsets'[n + 1] + layouts[n + 1].size
    BY <2>1 DEF End
  <2>4. n + 1 = next
    BY <1>2, <1>6
  <2> QED BY <1>11, <2>2, <2>3, <2>4
<1>13. TypeOK'
  <2>1. next' \in 1 .. Len(layouts') + 1 /\ curr' \in Nat
    BY <1>1, <1>2, <1>3, <1>10 DEF TypeOK
  <2> QED BY <1>1, <1>2, <1>11, <2>1 DEF TypeOK, measure
<1>14. \A i \in 1 .. n : start + End(i) <= curr
  BY <1>0, <1>1, <1>6 DEF OffsetsAreRight
<1>15. OffsetsAreRight'
  <2>1. Len(offsets') = next' - 1
    BY <1>2, <1>6, <1>11
  <2>2. \A i \in 1 .. n + 1 : Before(i)' = Before(i)
    BY <1>2, <1>6, <1>12 DEF Before
  <2>3. ASSUME NEW i \in 1 .. n + 1
        PROVE  start' + offsets'[i] = AlignUp(Before(i), layouts[i].align)
    <3>1. CASE i \in 1 .. n
      BY <1>0, <1>1, <1>2, <1>6, <1>11, <3>1 DEF OffsetsAreRight
    <3>2. CASE i = n + 1
      BY <1>2, <1>4, <1>6, <1>8, <1>11, <3>2
    <3> QED BY <1>6, <3>1, <3>2
  <2>4. curr' = Before(n + 2)'
    BY <1>2, <1>3, <1>6, <1>8, <1>10, <1>12 DEF Before
  <2>5. ASSUME NEW i \in 1 .. n + 1
        PROVE  start' + End(i)' <= curr'
    <3>1. CASE i \in 1 .. n
      <4>1. End(i)' = End(i) /\ End(i) \in Nat /\ start + End(i) <= curr
        BY <1>7, <1>12, <1>14, <3>1
      <4> QED BY <1>2, <1>3, <1>4, <1>5, <1>8, <1>10, <4>1
    <3>2. CASE i = n + 1
      <4>1. PICK s \in Nat : s = l.size
        BY <1>3
      <4>2. End(i)' = x - start + s /\ curr' = x + s /\ start' = start
        BY <1>2, <1>10, <1>12, <3>2, <4>1
      <4> QED BY <1>4, <1>8, <4>2
    <3> QED BY <1>6, <3>1, <3>2
  <2> HIDE DEF l
  <2>6. n + 1 + 1 = n + 2
    BY <1>6
  <2> QED BY <1>2, <1>11, <2>1, <2>2, <2>3, <2>4, <2>5, <2>6 DEF OffsetsAreRight
<1>16. ObjectsDisjoint'
  <2> SUFFICES ASSUME NEW i \in 1 .. n + 1, NEW j \in 1 .. n + 1, i < j
               PROVE  End(i)' <= offsets'[j]
    BY <1>11, Zenon DEF ObjectsDisjoint
  <2>1. CASE j \in 1 .. n
    <3>1. i \in 1 .. n
      BY <1>6, <2>1
    <3>2. i \in 1 .. Len(offsets) /\ j \in 1 .. Len(offsets)
      BY <1>6, <2>1, <3>1
    <3>3. End(i) <= offsets[j]
      BY <1>1, <3>2 DEF ObjectsDisjoint
    <3>4. End(i)' = End(i) /\ offsets'[j] = offsets[j]
      BY <1>11, <1>12, <2>1, <3>1
    <3> QED BY <3>3, <3>4
  <2>2. CASE j = n + 1
    <3>1. i \in 1 .. n
      BY <1>6, <2>2
    <3>2. End(i)' = End(i) /\ End(i) \in Nat /\ start + End(i) <= curr
      BY <1>7, <1>12, <1>14, <3>1
    <3> QED BY <1>4, <1>5, <1>8, <1>11, <2>2, <3>2
  <2> QED BY <1>6, <2>1, <2>2
<1> QED BY <1>13, <1>15, <1>16

\* Steps that place nothing and leave the measure alone.
LEMMA OtherStep ==
  ASSUME IInv, Alloc \/ Placed \/ Construct \/ Constructed
  PROVE  TypeOK' /\ OffsetsAreRight' /\ ObjectsDisjoint'
<1>1. TypeOK /\ OffsetsAreRight /\ ObjectsDisjoint
  BY DEF IInv
<1>2. UNCHANGED <<layouts, offsets>>
  BY DEF Alloc, Placed, Construct, Constructed, measure
<1>3. ObjectsDisjoint'
  BY <1>1, <1>2 DEF ObjectsDisjoint, End
<1>4. CASE Alloc
  <2>1. /\ stage' = "place" /\ next' = 1 /\ start' \in Nat /\ curr' = start'
        /\ UNCHANGED <<layouts, res, known_align, curr_offset, offsets>>
    BY <1>4, AddressesAssumption DEF Alloc, measure
  <2>2. Len(offsets) = 0
    BY <1>1, <1>4 DEF Alloc, OffsetsAreRight
  <2>3. Len(layouts) \in Nat
    BY <1>1 DEF TypeOK
  <2>4. TypeOK'
    BY <1>1, <2>1, <2>3 DEF TypeOK
  <2>5. OffsetsAreRight'
    BY <2>1, <2>2 DEF OffsetsAreRight, Before
  <2> QED BY <1>3, <2>4, <2>5
<1>5. CASE Placed \/ Construct \/ Constructed
  <2>1. /\ UNCHANGED <<layouts, res, known_align, curr_offset, start, curr, offsets>>
        /\ stage' \in {"construct", "built", "panicked"}
        /\ next' \in {1, next, next + 1} /\ (next' = next + 1 => next <= Len(layouts))
        /\ \/ stage \in {"construct"}
           \/ stage = "place" /\ next = Len(layouts) + 1
    BY <1>1, <1>5 DEF Placed, Construct, Constructed, measure
  <2>2. Len(layouts) \in Nat
    BY <1>1 DEF TypeOK
  <2>3. TypeOK'
    <3>1. next' \in 1 .. Len(layouts') + 1
      BY <1>1, <2>1, <2>2 DEF TypeOK
    <3> QED BY <1>1, <2>1, <3>1 DEF TypeOK
  <2>4. Len(offsets) = Len(layouts)
    BY <1>1, <2>1, <2>2 DEF OffsetsAreRight
  <2>5. OffsetsAreRight'
    BY <1>1, <2>1, <2>4 DEF OffsetsAreRight, Before, End
  <2> QED BY <1>3, <2>3, <2>5
<1> QED BY <1>4, <1>5

\* The measure stays as it is from then on.
LEMMA MeasureIsKept ==
  ASSUME TypeOK, MeasureIsRight, Alloc \/ Place \/ Placed \/ Construct \/ Constructed
  PROVE  MeasureIsRight'
<1>1. UNCHANGED <<layouts, res>> /\ stage' # "measure"
      /\ (stage = "measure" => next = Len(layouts) + 1)
  BY DEF Alloc, Place, Placed, Construct, Constructed, measure
<1>2. Len(layouts) \in Nat
  BY DEF TypeOK
<1>3. Measured' = Measured
  BY <1>1, <1>2 DEF Measured
<1>4. \A k : SpaceSuffices(k)' = SpaceSuffices(k)
  BY <1>1 DEF SpaceSuffices, IsPlacement
<1> QED BY <1>1, <1>3, <1>4 DEF MeasureIsRight

\* IInv is an inductive invariant.
THEOREM Invariance == Spec => []IInv
<1>1. Init => IInv
  <2> SUFFICES ASSUME Init PROVE IInv
    OBVIOUS
  <2>1. TypeOK
    <3>1. layouts \in Seq(Layouts)
      BY MaxActorsAssumption DEF Init
    <3>2. Len(layouts) \in Nat
      BY <3>1
    <3> QED BY <3>1, <3>2 DEF Init, TypeOK
  <2>2. \A p \in [0 .. 0 -> Nat] : p[0] - p[0] <= 0 /\ p[0] % 1 = 0
    OBVIOUS
  <2>3. MeasureIsRight
    BY <2>2 DEF Init, MeasureIsRight, Measured, SpaceSuffices, EndIsKnown, IsPlacement, KnownIsAlign
  <2>4. OffsetsAreRight /\ ObjectsDisjoint
    BY DEF Init, OffsetsAreRight, ObjectsDisjoint, Before
  <2> QED BY <2>1, <2>3, <2>4 DEF IInv
<1>2. IInv /\ [Next]_vars => IInv'
  <2> SUFFICES ASSUME IInv, [Next]_vars PROVE IInv'
    OBVIOUS
  <2>1. TypeOK /\ MeasureIsRight /\ OffsetsAreRight /\ ObjectsDisjoint
    BY DEF IInv
  <2>2. CASE Measure
    <3>1. stage = "measure" /\ UNCHANGED <<stage, layouts, start, curr, offsets>>
      BY <2>2 DEF Measure
    <3>2. OffsetsAreRight' /\ ObjectsDisjoint'
      BY <2>1, <3>1 DEF OffsetsAreRight, ObjectsDisjoint, Before, End
    <3> QED BY <2>1, <2>2, <3>2, MeasureStep DEF IInv
  <2>3. CASE Place
    BY <2>1, <2>3, PlaceStep, MeasureIsKept DEF IInv
  <2>4. CASE Alloc \/ Placed \/ Construct \/ Constructed
    BY <2>1, <2>4, OtherStep, MeasureIsKept DEF IInv
  <2>5. CASE UNCHANGED vars
    <3>1. TypeOK'
      BY <2>1, <2>5 DEF vars, measure, TypeOK
    <3>2. MeasureIsRight'
      BY <2>1, <2>5 DEF vars, measure, MeasureIsRight, Measured, SpaceSuffices, EndIsKnown, IsPlacement,
                        KnownIsAlign
    <3>3. OffsetsAreRight' /\ ObjectsDisjoint'
      BY <2>1, <2>5 DEF vars, measure, OffsetsAreRight, ObjectsDisjoint, Before, End
    <3> QED BY <3>1, <3>2, <3>3 DEF IInv
  <2> QED BY <2>2, <2>3, <2>4, <2>5 DEF Next
<1> QED BY <1>1, <1>2, PTL DEF Spec

\* Every variable has its type.
THEOREM TypeCorrect == Spec => []TypeOK
<1>1. IInv => TypeOK
  BY DEF IInv
<1> QED BY <1>1, Invariance, PTL

\* No two actors of a context overlap in its arena.
THEOREM NoOverlap == Spec => []ObjectsDisjoint
<1>1. IInv => ObjectsDisjoint
  BY DEF IInv
<1> QED BY <1>1, Invariance, PTL

\* Whatever the layouts and wherever the allocator puts the block, the space
\* measured beforehand holds every actor at an address of its alignment.
THEOREM SpaceIsEnough == Spec => []ObjectsFit
<1>1. ASSUME IInv, NEW i \in DOMAIN offsets
      PROVE  End(i) <= capacity /\ (start + offsets[i]) % layouts[i].align = 0
  <2> DEFINE p == [j \in 0 .. i |-> IF j = 0 THEN start ELSE start + End(j)]
  <2>1. TypeOK /\ MeasureIsRight /\ OffsetsAreRight
    BY <1>1 DEF IInv
  <2>2. Len(layouts) \in Nat /\ start \in Nat /\ Len(offsets) \in Nat /\ i \in 1 .. Len(offsets)
    BY <2>1 DEF TypeOK
  <2>3. stage # "measure" /\ Len(offsets) <= Len(layouts)
    <3>1. /\ stage = "measure" => Len(offsets) = 0
          /\ stage = "place" => Len(offsets) = next - 1
          /\ stage # "measure" /\ stage # "place" => Len(offsets) = Len(layouts)
      BY <2>1 DEF OffsetsAreRight
    <3>2. next \in 1 .. Len(layouts) + 1
      BY <2>1 DEF TypeOK
    <3> QED BY ONLY <2>2, <3>1, <3>2
  <2>4. \A j \in 1 .. i : End(j) \in Nat /\ layouts[j].size \in Nat /\ layouts[j].align \in Nat \ {0}
                          /\ offsets[j] \in Nat
    <3>1. \A j \in 1 .. i : j \in 1 .. Len(layouts) /\ j \in 1 .. Len(offsets)
      BY <2>2, <2>3
    <3>2. \A j \in 1 .. i : layouts[j].size \in Nat /\ layouts[j].align \in Nat \ {0}
      BY <2>1, <3>1, LayoutsAre
    <3>3. \A j \in 1 .. i : offsets[j] \in Nat
      BY <2>1, <3>1 DEF TypeOK
    <3> QED BY <3>2, <3>3 DEF End
  <2>5. p \in [0 .. i -> Nat] /\ p[0] = start /\ p[i] = start + End(i)
    BY <2>2, <2>4
  <2>6. \A j \in 1 .. i : p[j - 1] = Before(j) /\ p[j] = start + End(j)
    BY <2>2, <2>4 DEF Before
  <2> HIDE DEF p
  <2>7. \A j \in 1 .. i : start + offsets[j] = AlignUp(Before(j), layouts[j].align)
    BY <2>1, <2>2 DEF OffsetsAreRight
  <2>8. \A j \in 1 .. i : p[j] = AlignUp(p[j - 1], layouts[j].align) + layouts[j].size
    <3> SUFFICES ASSUME NEW j \in 1 .. i
                 PROVE  p[j] = AlignUp(p[j - 1], layouts[j].align) + layouts[j].size
      OBVIOUS
    <3>1. p[j] = (start + offsets[j]) + layouts[j].size
      <4>1. p[j] = start + End(j)
        BY <2>6
      <4>2. layouts[j].size \in Nat /\ offsets[j] \in Nat
        BY <2>4
      <4>3. End(j) = offsets[j] + layouts[j].size
        BY DEF End
      <4> QED BY <2>2, <4>1, <4>2, <4>3
    <3>2. start + offsets[j] = AlignUp(p[j - 1], layouts[j].align)
      BY <2>6, <2>7
    <3> QED BY <3>1, <3>2
  <2>9. IsPlacement(p, i)
    BY <2>5, <2>8 DEF IsPlacement
  <2>10. SpaceSuffices(i)
    BY <2>1, <2>2, <2>3 DEF MeasureIsRight, Measured
  <2>11. p[i] - p[0] <= res
    BY <2>9, <2>10 DEF SpaceSuffices
  <2>12. End(i) <= capacity
    BY <2>1, <2>2, <2>4, <2>5, <2>11 DEF capacity, TypeOK
  <2>13. p[i - 1] \in Nat /\ layouts[i].align \in Nat \ {0} /\ i \in 1 .. i
    BY <2>2, <2>4, <2>5
  <2>14. start + offsets[i] = AlignUp(p[i - 1], layouts[i].align)
    BY <2>6, <2>7, <2>13
  <2> QED BY <2>12, <2>13, <2>14, AlignUpIsNext
<1>2. IInv => ObjectsFit
  BY <1>1 DEF ObjectsFit
<1> QED BY <1>2, Invariance, PTL

------------------------------------------------------------------------------
(***************************************************************************)
(* The space is no more than the worst address needs.                      *)
(***************************************************************************)

\* The allocator may return an address of every remainder: the block is asked
\* for with alignment 1.
EveryRemainder ==
  \A l \in Layouts : \A r \in 0 .. l.align - 1 : \E a \in Addresses : a % l.align = r

\* From addresses of remainder r the first k layouts need all the space.
TightFrom(r, k) ==
  \A p : IsPlacement(p, k) /\ p[0] % known_align = r => p[k] - p[0] = res

\* There is such a remainder.  While the measure goes on it is one from which
\* the placements end where the measure says.
Tight ==
  \E r \in 0 .. known_align - 1 :
    /\ TightFrom(r, Measured)
    /\ stage = "measure" => (r + res) % known_align = curr_offset

\* A sum has one remainder, so a part of it has.
LEMMA RemainderOfDifference ==
  ASSUME NEW n \in Nat \ {0}, NEW x \in Int, NEW y \in Int
  PROVE  (((x + y) % n) - y) % n = x % n
<1>1. PICK z \in Int : z = x + y
  OBVIOUS
<1>2. PICK m \in Int : m = -y
  OBVIOUS
<1>3. ((z % n) + m) % n = (z + m) % n
  BY RemainderOfSum
<1>4. z + m = x
  BY <1>1, <1>2
<1>5. z % n \in Int
  BY DivMod
<1>6. (z % n) + m = (z % n) - y
  BY <1>2, <1>5
<1> QED
  BY <1>1, <1>3, <1>4, <1>6

\* How far an end of remainder c is behind a multiple of k, zero being far.
Behind(k, c) == IF c = 0 THEN k ELSE c

\* The remainder of an address whose end, s after it, is as far behind a
\* multiple of align as its remainder modulo k allows.
Worst(k, align, c, s) == (Behind(k, c) - s) % align

\* The alignment grows; addresses of remainder r were the worst ones, from
\* which s is needed up to an end of remainder c.
Grows(k, align, c, s, r) ==
  /\ k \in Nat \ {0} /\ align \in Nat \ {0} /\ align > k /\ align % k = 0
  /\ c \in 0 .. k - 1 /\ s \in Nat /\ r \in 0 .. k - 1 /\ (r + s) % k = c

\* The worst address is one of those that were the worst ones before.
LEMMA WorstAddress ==
  ASSUME NEW k, NEW align, NEW c, NEW s, NEW r, Grows(k, align, c, s, r)
  PROVE  /\ Worst(k, align, c, s) \in 0 .. align - 1
         /\ Worst(k, align, c, s) % k = r
         /\ (Worst(k, align, c, s) + s) % align = Behind(k, c)
<1>0. /\ k \in Nat \ {0} /\ align \in Nat \ {0} /\ align > k /\ align % k = 0
      /\ c \in 0 .. k - 1 /\ s \in Nat /\ r \in 0 .. k - 1 /\ (r + s) % k = c
  BY DEF Grows
<1>1. PICK t \in 1 .. k : t = Behind(k, c) /\ t = IF c = 0 THEN k ELSE c
  BY <1>0 DEF Behind
<1>2. t % k = c
  <2>1. CASE c = 0
    <3>1. k = 1 * k + 0 /\ k \in Int /\ 0 \in 0 .. k - 1
      BY <1>0
    <3>2. k % k = 0
      BY <1>0, <3>1, Remainder
    <3> QED
      BY <1>0, <1>1, <2>1, <3>2
  <2>2. CASE c # 0
    BY <1>0, <1>1, <2>2, SmallRemainder
  <2> QED
    BY <1>0, <2>1, <2>2
<1>3. PICK d \in Int : d = t - s
  BY <1>0
<1>4. PICK w : w = d % align
  OBVIOUS
<1>w. w = Worst(k, align, c, s)
  BY <1>0, <1>1, <1>3, <1>4 DEF Worst
<1>5. w \in 0 .. align - 1
  BY <1>0, <1>4, DivMod
<1>6. w % k = d % k
  BY <1>0, <1>4, RemainderOfMultiple
<1>7. d % k = r
  <2>1. PICK e \in Int : e = -s
    BY <1>0
  <2>0. t \in Int /\ s \in Int /\ r \in Int
    BY <1>0
  <2>2. ((t % k) + e) % k = (t + e) % k
    BY <1>0, <2>0, RemainderOfSum
  <2>3. t + e = d /\ (t % k) + e = c - s
    BY <1>0, <1>2, <1>3, <2>1
  <2>4. (((r + s) % k) - s) % k = r % k
    BY <1>0, <2>0, RemainderOfDifference
  <2>5. r % k = r
    BY <1>0, SmallRemainder
  <2> QED
    BY <1>0, <2>2, <2>3, <2>4, <2>5
<1>8. (w + s) % align = t
  <2>0. s \in Int
    BY <1>0
  <2>1. ((d % align) + s) % align = (d + s) % align
    BY <1>0, <2>0, RemainderOfSum
  <2>2. d + s = t
    BY <1>0, <1>3
  <2>3. t \in 0 .. align - 1
    BY <1>0
  <2>4. t % align = t
    BY <1>0, <2>3, SmallRemainder
  <2> QED
    BY <1>0, <1>4, <2>1, <2>2, <2>4
<1> QED
  BY <1>0, <1>1, <1>w, <1>5, <1>6, <1>7, <1>8

\* There the padding is all that was counted.
LEMMA WidenIsNeeded ==
  ASSUME NEW addr \in Nat, NEW align \in Nat \ {0}, known_align \in Nat \ {0},
         align > known_align, curr_offset \in 0 .. known_align - 1,
         addr % align = IF curr_offset = 0 THEN known_align ELSE curr_offset
  PROVE  AlignUp(addr, align) - addr = Widen(align)
<1>1. PICK t \in 1 .. align - 1 : t = addr % align
  OBVIOUS
<1>2. (align - t) % align = align - t
  BY Complement
<1>3. AlignUp(addr, align) = addr + (align - t)
  BY <1>1, <1>2 DEF AlignUp
<1>4. Widen(align) = align - known_align + (IF curr_offset = 0 THEN 0 ELSE known_align - curr_offset)
  BY Complement DEF Widen
<1> QED
  BY <1>1, <1>3, <1>4

\* A turn for a larger alignment.
LEMMA WidenTight ==
  ASSUME TypeOK, KnownIsAlign, next \in 1 .. Len(layouts), layouts[next].align > known_align,
         NEW r \in 0 .. known_align - 1, TightFrom(r, next - 1),
         (r + res) % known_align = curr_offset
  PROVE  LET l == layouts[next]
             all == res + Widen(l.align) + l.size
         IN  \E w \in 0 .. l.align - 1 :
               /\ \A p : IsPlacement(p, next) /\ p[0] % l.align = w => p[next] - p[0] = all
               /\ (w + all) % l.align = l.size % l.align
<1> DEFINE l == layouts[next]
           t == IF curr_offset = 0 THEN known_align ELSE curr_offset
<1>1. l \in Layouts /\ l.size \in Nat /\ l.align \in Nat \ {0}
  BY LayoutsAre
<1>2. known_align \in Nat \ {0} /\ curr_offset \in 0 .. known_align - 1 /\ res \in Nat
  BY DEF TypeOK
<1>3. l.align % known_align = 0 /\ l.align > known_align
  BY <1>1, <1>2, AlignmentsDivide
<1>4. PICK w \in 0 .. l.align - 1 : w % known_align = r /\ (w + res) % l.align = t
  <2>1. Grows(known_align, l.align, curr_offset, res, r)
    BY <1>1, <1>2, <1>3 DEF Grows
  <2> HIDE DEF l
  <2>2. LET w == Worst(known_align, l.align, curr_offset, res)
        IN  w \in 0 .. l.align - 1 /\ w % known_align = r
            /\ (w + res) % l.align = Behind(known_align, curr_offset)
    BY ONLY <2>1, WorstAddress
  <2>3. t = Behind(known_align, curr_offset)
    BY DEF Behind
  <2> HIDE DEF t
  <2>4. PICK v : v = Worst(known_align, l.align, curr_offset, res)
    OBVIOUS
  <2>5. v \in 0 .. l.align - 1
    BY ONLY <2>2, <2>4
  <2>6. v % known_align = r /\ (v + res) % l.align = t
    BY ONLY <2>2, <2>3, <2>4
  <2> QED
    BY ONLY <2>5, <2>6
<1>5. Widen(l.align) = l.align - t /\ Widen(l.align) \in Nat /\ t \in 1 .. l.align - 1
  <2>1. Widen(l.align) = l.align - known_align
                           + (IF curr_offset = 0 THEN 0 ELSE known_align - curr_offset)
    BY <1>2, Complement DEF Widen
  <2>2. t \in 1 .. known_align
    BY <1>2
  <2>3. known_align - t = IF curr_offset = 0 THEN 0 ELSE known_align - curr_offset
    BY <1>2
  <2>4. l.align \in Nat /\ known_align \in Nat /\ l.align > known_align
    BY <1>1, <1>2, <1>3
  <2>5. PICK c : c = IF curr_offset = 0 THEN 0 ELSE known_align - curr_offset
    OBVIOUS
  <2> HIDE DEF t
  <2>6. Widen(l.align) = l.align - known_align + c /\ c = known_align - t
    BY ONLY <2>1, <2>3, <2>5
  <2>7. PICK a : a = l.align
    OBVIOUS
  <2>8. a \in Nat /\ a > known_align /\ Widen(a) = a - known_align + (known_align - t)
    BY ONLY <2>4, <2>6, <2>7
  <2>9. Widen(a) = a - t /\ Widen(a) \in Nat /\ t \in 1 .. a - 1
    BY ONLY <2>2, <2>4, <2>8
  <2> QED
    BY ONLY <2>7, <2>9
<1>6. ASSUME NEW p, IsPlacement(p, next), p[0] % l.align = w
      PROVE  p[next] - p[0] = res + Widen(l.align) + l.size
  <2>1. PICK q : IsPlacement(q, next - 1) /\ q[0] = p[0] /\ q[next - 1] = p[next - 1]
    <3>1. next - 1 \in Nat /\ (next - 1) + 1 = next
      OBVIOUS
    <3> QED BY <1>6, <3>1, ShorterPlacement
  <2>2. PICK a \in Nat : a = p[next - 1]
    BY <1>6 DEF IsPlacement
  <2>3. PICK b \in Nat : b = p[0]
    BY <1>6 DEF IsPlacement
  <2>4. b % known_align = r
    <3>0. b \in Int
      OBVIOUS
    <3>1. b % known_align = (b % l.align) % known_align
      BY <1>1, <1>2, <1>3, <3>0, RemainderOfMultiple
    <3> QED
      BY <1>4, <1>6, <2>3, <3>1
  <2>5. a - b = res
    BY <2>1, <2>2, <2>3, <2>4 DEF TightFrom
  <2>6. a % l.align = t
    <3>0. b \in Int /\ res \in Int
      BY <1>2
    <3>1. ((b % l.align) + res) % l.align = (b + res) % l.align
      BY <1>1, <3>0, RemainderOfSum
    <3>2. b + res = a
      BY <1>2, <2>5
    <3> QED
      BY <1>4, <1>6, <2>3, <3>1, <3>2
  <2>7. AlignUp(a, l.align) - a = Widen(l.align)
    BY <1>1, <1>2, <1>3, <2>6, WidenIsNeeded
  <2>8. PICK x \in Nat : x = AlignUp(a, l.align)
    BY <1>1, AlignUpIsNext
  <2>9. p[next] = x + l.size
    BY <1>6, <2>2, <2>8 DEF IsPlacement
  <2>10. PICK s \in Nat : s = l.size
    BY <1>1
  <2>11. PICK v \in Nat : v = Widen(l.align)
    BY <1>5
  <2>12. x + s - b = res + v + s
    BY <1>2, <2>5, <2>7, <2>8, <2>11
  <2>13. p[next] - p[0] = res + v + s
    <3>1. p[next] = x + s
      BY <2>9, <2>10
    <3> QED
      BY ONLY <2>3, <2>12, <3>1
  <2> HIDE DEF l
  <2> QED
    BY <2>10, <2>11, <2>13
<1>7. (w + (res + Widen(l.align) + l.size)) % l.align = l.size % l.align
  <2>1. PICK s \in Nat : s = l.size
    BY <1>1
  <2>2. PICK A \in Nat \ {0} : A = l.align
    BY <1>1
  <2>3. PICK z \in Nat : z = w + res
    BY <1>1, <1>2
  <2>4. PICK u \in Int : u = A - t + s
    BY <1>5, <2>1, <2>2
  <2>a. z \in Int /\ A \in Int /\ s \in Int
    OBVIOUS
  <2>5. ((z % A) + u) % A = (z + u) % A
    BY <2>a, RemainderOfSum
  <2>6. z % A = t
    BY <1>4, <2>2, <2>3
  <2>b. t \in Int
    BY <1>2
  <2>7. t + u = A + s
    <3> HIDE DEF t
    <3> QED
      BY <2>b, <2>4
  <2>8. ((A % A) + s) % A = (A + s) % A
    BY <2>a, RemainderOfSum
  <2>9. A % A = 0
    <3>1. A = 1 * A + 0 /\ A \in Int /\ 0 \in 0 .. A - 1
      OBVIOUS
    <3> QED
      BY <3>1, Remainder
  <2>10. w + (res + (A - t) + s) = z + u
    BY <1>1, <1>2, <1>5, <2>2, <2>3, <2>4
  <2>11. (w + (res + (A - t) + s)) % A = s % A
    <3>1. (z + u) % A = (A + s) % A
      BY <2>5, <2>6, <2>7
    <3>2. 0 + s = s
      BY <2>a
    <3>3. (A + s) % A = s % A
      BY <2>8, <2>9, <3>2
    <3> QED
      BY <2>10, <3>1, <3>3
  <2> HIDE DEF l, t
  <2> QED
    BY <1>5, <2>1, <2>2, <2>11
<1> QED
  BY <1>6, <1>7

\* A turn for one that is no larger.
LEMMA PadTight ==
  ASSUME TypeOK, KnownIsAlign, EndIsKnown(next - 1),
         next \in 1 .. Len(layouts), layouts[next].align <= known_align,
         NEW r \in 0 .. known_align - 1, TightFrom(r, next - 1),
         (r + res) % known_align = curr_offset
  PROVE  LET l == layouts[next]
             all == res + Pad(l.align) + l.size
         IN  /\ \A p : IsPlacement(p, next) /\ p[0] % known_align = r => p[next] - p[0] = all
             /\ (r + all) % known_align
                  = (((curr_offset + Pad(l.align)) % known_align) + l.size) % known_align
<1> DEFINE l == layouts[next]
<1>1. l \in Layouts /\ l.size \in Nat /\ l.align \in Nat \ {0}
  BY LayoutsAre
<1>2. known_align \in Nat \ {0} /\ curr_offset \in 0 .. known_align - 1 /\ res \in Nat
  BY DEF TypeOK
<1>3. known_align % l.align = 0
  BY <1>1, <1>2, AlignmentsDivide
<1>4. PICK pad \in Nat : pad = Pad(l.align)
  <2>1. curr_offset \in Nat
    BY <1>2
  <2>2. curr_offset % known_align = curr_offset
    BY <1>2, SmallRemainder
  <2>3. Pad(l.align) \in Nat
    BY <1>1, <1>2, <1>3, <2>1, <2>2, PadIsExact
  <2> QED
    BY <2>3
<1>5. PICK s \in Nat : s = l.size
  BY <1>1
<1>6. ASSUME NEW p, IsPlacement(p, next), p[0] % known_align = r
      PROVE  p[next] - p[0] = res + pad + s
  <2>1. PICK q : IsPlacement(q, next - 1) /\ q[0] = p[0] /\ q[next - 1] = p[next - 1]
    <3>1. next - 1 \in Nat /\ (next - 1) + 1 = next
      OBVIOUS
    <3> QED BY <1>6, <3>1, ShorterPlacement
  <2>2. PICK a \in Nat : a = p[next - 1]
    BY <1>6 DEF IsPlacement
  <2>3. PICK b \in Nat : b = p[0]
    BY <1>6 DEF IsPlacement
  <2>4. a - b = res
    BY <1>6, <2>1, <2>2, <2>3 DEF TightFrom
  <2>5. a % known_align = curr_offset
    BY <2>1, <2>2 DEF EndIsKnown
  <2>6. AlignUp(a, l.align) - a = pad
    BY <1>1, <1>2, <1>3, <1>4, <2>5, PadIsExact
  <2>7. PICK x \in Nat : x = AlignUp(a, l.align)
    BY <1>1, AlignUpIsNext
  <2>8. p[next] = x + s
    BY <1>5, <1>6, <2>2, <2>7 DEF IsPlacement
  <2>9. x + s - b = res + pad + s
    BY <1>2, <2>4, <2>6, <2>7
  <2> QED
    BY <2>3, <2>8, <2>9
<1>7. (r + (res + pad + s)) % known_align
        = (((curr_offset + pad) % known_align) + s) % known_align
  <2>1. PICK z \in Int : z = r + res
    BY <1>2
  <2>2. PICK c \in Int : c = curr_offset
    BY <1>2
  <2>3. PICK u \in Int : u = pad + s
    OBVIOUS
  <2>4. ((z % known_align) + u) % known_align = (z + u) % known_align
    BY <1>2, RemainderOfSum
  <2>5. PICK v \in Int : v = c + pad
    OBVIOUS
  <2>a. s \in Int
    OBVIOUS
  <2>6. ((v % known_align) + s) % known_align = (v + s) % known_align
    BY <1>2, <2>a, RemainderOfSum
  <2>7. z % known_align = c
    BY <2>1, <2>2
  <2>8. c + u = v + s /\ r + (res + pad + s) = z + u
    BY <1>2, <2>1, <2>3, <2>5
  <2> QED
    BY <2>2, <2>4, <2>5, <2>6, <2>7, <2>8
<1> QED
  BY <1>4, <1>5, <1>6, <1>7

\* A turn of compute_space_required keeps some address in need of all of it.
LEMMA TightStep ==
  ASSUME TypeOK, MeasureIsRight, Tight, Measure
  PROVE  Tight'
<1> DEFINE l == layouts[next]
<1>1. next \in 1 .. Len(layouts) /\ stage = "measure" /\ stage' = stage /\ next' = next + 1
      /\ layouts' = layouts
  BY DEF Measure, TypeOK
<1>2. Measured = next - 1 /\ Measured' = next /\ next - 1 \in 0 .. Measured
  BY <1>1 DEF Measured, TypeOK
<1>3. EndIsKnown(next - 1) /\ KnownIsAlign
  BY <1>1 DEF MeasureIsRight
<1>4. PICK r \in 0 .. known_align - 1 :
        TightFrom(r, next - 1) /\ (r + res) % known_align = curr_offset
  BY <1>1, <1>2 DEF Tight
<1>5. l.size \in Nat /\ l.align \in Nat \ {0} /\ known_align \in Nat \ {0}
  BY <1>1, LayoutsAre DEF TypeOK
<1>6. \E w \in 0 .. known_align' - 1 :
        /\ \A p : IsPlacement(p, next) /\ p[0] % known_align' = w => p[next] - p[0] = res'
        /\ (w + res') % known_align' = curr_offset'
  <2>1. CASE l.align > known_align
    <3>1. /\ res' = res + Widen(l.align) + l.size
          /\ known_align' = l.align
          /\ curr_offset' = l.size % l.align
      BY <1>5, <2>1 DEF Measure
    <3>2. \E w \in 0 .. l.align - 1 :
            /\ \A p : IsPlacement(p, next) /\ p[0] % l.align = w
                        => p[next] - p[0] = res + Widen(l.align) + l.size
            /\ (w + (res + Widen(l.align) + l.size)) % l.align = l.size % l.align
      BY <1>1, <1>3, <1>4, <2>1, WidenTight
    <3> HIDE DEF l
    <3> QED
      BY <3>1, <3>2
  <2>2. CASE l.align <= known_align
    <3>1. /\ res' = res + Pad(l.align) + l.size
          /\ known_align' = known_align
          /\ curr_offset' = (((curr_offset + Pad(l.align)) % known_align) + l.size) % known_align
      BY <1>5, <2>2 DEF Measure
    <3>2. /\ \A p : IsPlacement(p, next) /\ p[0] % known_align = r
                      => p[next] - p[0] = res + Pad(l.align) + l.size
          /\ (r + (res + Pad(l.align) + l.size)) % known_align
               = (((curr_offset + Pad(l.align)) % known_align) + l.size) % known_align
      BY <1>1, <1>3, <1>4, <2>2, PadTight
    <3> HIDE DEF l
    <3> QED
      BY <3>1, <3>2
  <2> QED
    BY <1>5, <2>1, <2>2
<1>8. PICK w \in 0 .. known_align' - 1 :
        /\ \A p : IsPlacement(p, next) /\ p[0] % known_align' = w => p[next] - p[0] = res'
        /\ (w + res') % known_align' = curr_offset'
  BY <1>6
<1>9. TightFrom(w, Measured)'
  <2>1. \A p : IsPlacement(p, Measured)' => IsPlacement(p, next)
    BY <1>1, <1>2 DEF IsPlacement
  <2> QED
    BY <1>2, <1>8, <2>1 DEF TightFrom
<1> QED
  BY <1>8, <1>9 DEF Tight

\* Later steps leave the measure alone.
LEMMA TightIsKept ==
  ASSUME TypeOK, Tight, [Next]_vars, ~ Measure
  PROVE  Tight'
<1>1. /\ UNCHANGED <<layouts, res, known_align, curr_offset>>
      /\ \/ stage' = stage /\ (stage = "measure" => next' = next)
         \/ stage' # "measure" /\ (stage = "measure" => next = Len(layouts) + 1)
  BY DEF Next, Alloc, Place, Placed, Construct, Constructed, vars, measure
<1>2. Len(layouts) \in Nat
  BY DEF TypeOK
<1>3. Measured' = Measured
  BY <1>1, <1>2 DEF Measured
<1>4. PICK r \in 0 .. known_align - 1 :
        TightFrom(r, Measured) /\ (stage = "measure" => (r + res) % known_align = curr_offset)
  BY DEF Tight
<1>5. TightFrom(r, Measured)'
  BY <1>1, <1>3, <1>4 DEF TightFrom, IsPlacement
<1>6. stage' = "measure" => stage = "measure"
  BY <1>1
<1> QED
  BY <1>1, <1>4, <1>5, <1>6 DEF Tight

\* Induction over the natural numbers, for a set of them: were n not in S, the
\* successor would map the members of S below n one to one into themselves,
\* hence onto, and yet never give 0.
LEMMA AllNaturals ==
  ASSUME NEW S \in SUBSET Nat, 0 \in S, \A n \in S : n + 1 \in S
  PROVE  S = Nat
<1> SUFFICES ASSUME NEW n \in Nat, n \notin S PROVE FALSE
  OBVIOUS
<1> DEFINE A == {m \in 0 .. n : m \in S}
           succ == [m \in A |-> m + 1]
<1>1. IsFiniteSet(A)
  <2>1. IsFiniteSet(0 .. n)
    BY FS_Interval
  <2> QED
    BY <2>1, FS_Subset
<1>2. \A m \in A : m + 1 \in A /\ m + 1 # 0
  OBVIOUS
<1> HIDE DEF A
<1>3. succ \in Injection(A, A)
  BY <1>2, SMT DEF Injection, IsInjective, A
<1>4. succ \in Surjection(A, A)
  BY <1>1, <1>3, FS_Injection
<1>5. 0 \in A
  BY DEF A
<1> QED
  BY <1>2, <1>4, <1>5 DEF Surjection

\* Layouts can be placed from every address.
LEMMA PlacementFrom ==
  ASSUME TypeOK, NEW a \in Nat
  PROVE  \E p : IsPlacement(p, Len(layouts)) /\ p[0] = a
<1> DEFINE S == {n \in Nat : n <= Len(layouts) => \E p : IsPlacement(p, n) /\ p[0] = a}
<1>0. Len(layouts) \in Nat
  BY DEF TypeOK
<1>1. 0 \in S
  <2> DEFINE p == [i \in 0 .. 0 |-> a]
  <2>1. p \in [0 .. 0 -> Nat] /\ p[0] = a
    OBVIOUS
  <2> HIDE DEF p
  <2>2. IsPlacement(p, 0)
    BY <2>1 DEF IsPlacement
  <2> QED
    BY <2>1, <2>2
<1>2. ASSUME NEW n \in S PROVE n + 1 \in S
  <2> SUFFICES ASSUME n + 1 <= Len(layouts)
               PROVE  \E p : IsPlacement(p, n + 1) /\ p[0] = a
    OBVIOUS
  <2>1. PICK q : IsPlacement(q, n) /\ q[0] = a
    BY <1>0
  <2>2. n \in Nat /\ n + 1 \in 1 .. Len(layouts)
    BY <1>0
  <2>3. layouts[n + 1].size \in Nat /\ layouts[n + 1].align \in Nat \ {0}
    BY <2>2, LayoutsAre
  <2>4. q \in [0 .. n -> Nat] /\ q[n] \in Nat
    BY <2>1, <2>2 DEF IsPlacement
  <2>5. PICK b \in Nat : b = AlignUp(q[n], layouts[n + 1].align) + layouts[n + 1].size
    <3>1. AlignUp(q[n], layouts[n + 1].align) \in Nat
      BY <2>3, <2>4, AlignUpIsNext
    <3> QED BY <2>3, <3>1
  <2> DEFINE p == [i \in 0 .. n + 1 |-> IF i = n + 1 THEN b ELSE q[i]]
  <2>6. /\ p \in [0 .. n + 1 -> Nat] /\ p[n + 1] = b
        /\ \A i \in 0 .. n : p[i] = q[i]
    BY <2>2, <2>4
  <2> HIDE DEF p
  <2>7. ASSUME NEW i \in 1 .. n + 1
        PROVE  p[i] = AlignUp(p[i - 1], layouts[i].align) + layouts[i].size
    <3>1. CASE i = n + 1
      <4>1. i - 1 = n /\ p[n] = q[n]
        BY <2>2, <2>6, <3>1
      <4> QED
        BY <2>5, <2>6, <3>1, <4>1
    <3>2. CASE i # n + 1
      <4>1. i \in 1 .. n /\ i \in 0 .. n /\ i - 1 \in 0 .. n
        BY <2>2, <3>2
      <4>2. p[i] = q[i] /\ p[i - 1] = q[i - 1]
        BY <2>6, <4>1
      <4> QED
        BY <2>1, <4>1, <4>2 DEF IsPlacement
    <3> QED
      BY <3>1, <3>2
  <2>8. IsPlacement(p, n + 1)
    BY <2>6, <2>7 DEF IsPlacement
  <2>9. p[0] = a
    BY <2>1, <2>2, <2>6
  <2> QED
    BY <2>8, <2>9
<1>3. S = Nat
  <2> HIDE DEF S
  <2>1. S \in SUBSET Nat
    BY DEF S
  <2> QED
    BY <2>1, <1>1, <1>2, AllNaturals
<1> QED
  BY <1>0, <1>3

\* EndOfAll is where it ends.
LEMMA EndOfAllIs ==
  ASSUME TypeOK, NEW p, IsPlacement(p, Len(layouts))
  PROVE  EndOfAll(layouts, p[0]) = p[Len(layouts)]
<1> DEFINE n == Len(layouts)
           Rest(e) == [i \in 0 .. n |-> IF i = 0 THEN p[0]
                                        ELSE AlignUp(e[i - 1], layouts[i].align) + layouts[i].size]
           end == CHOOSE e : e = Rest(e)
           S == {i \in Nat : i <= n => end[i] = p[i]}
<1>0. n \in Nat
  BY DEF TypeOK
<1>1. EndOfAll(layouts, p[0]) = end[n]
  BY DEF EndOfAll
<1>2. p = Rest(p)
  <2>1. DOMAIN p = 0 .. n /\ p = [i \in 0 .. n |-> p[i]]
    BY DEF IsPlacement
  <2>2. \A i \in 0 .. n : p[i] = Rest(p)[i]
    BY <1>0 DEF IsPlacement
  <2>3. Rest(p) = [i \in 0 .. n |-> Rest(p)[i]]
    OBVIOUS
  <2> HIDE DEF Rest
  <2> QED
    BY <2>1, <2>2, <2>3
<1>3. end = Rest(end)
  <2> HIDE DEF Rest
  <2> QED
    BY <1>2
<1> HIDE DEF end
<1>4. /\ end[0] = p[0]
      /\ \A i \in 1 .. n : end[i] = AlignUp(end[i - 1], layouts[i].align) + layouts[i].size
  <2>1. \A i \in 0 .. n : end[i] = IF i = 0 THEN p[0]
                                   ELSE AlignUp(end[i - 1], layouts[i].align) + layouts[i].size
    BY <1>3
  <2> QED
    BY <1>0, <2>1
<1>5. 0 \in S
  BY <1>4
<1>6. ASSUME NEW i \in S PROVE i + 1 \in S
  <2> SUFFICES ASSUME i + 1 <= n PROVE end[i + 1] = p[i + 1]
    OBVIOUS
  <2>1. i + 1 \in 1 .. n /\ (i + 1) - 1 = i /\ end[i] = p[i]
    BY <1>0
  <2>2. p[i + 1] = AlignUp(p[i], layouts[i + 1].align) + layouts[i + 1].size
    BY <2>1 DEF IsPlacement
  <2> QED
    BY <1>4, <2>1, <2>2
<1>7. S = Nat
  <2> HIDE DEF S
  <2>1. S \in SUBSET Nat
    BY DEF S
  <2> QED
    BY <2>1, <1>5, <1>6, AllNaturals
<1> QED
  BY <1>0, <1>1, <1>7

\* The space is what the worst address needs, and no more: nothing is wasted
\* that some address the allocator may return would not have needed.
THEOREM SpaceIsMinimal ==
  ASSUME EveryRemainder
  PROVE  Spec => []SpaceIsExact
<1>1. Init => Tight
  <2> SUFFICES ASSUME Init PROVE Tight
    OBVIOUS
  <2>1. /\ stage = "measure" /\ next = 1 /\ res = 0 /\ known_align = 1 /\ curr_offset = 0
        /\ Measured = 0
    BY DEF Init, Measured
  <2>2. TightFrom(0, Measured)
    BY <2>1 DEF TightFrom, IsPlacement
  <2>3. (0 + res) % known_align = curr_offset /\ 0 \in 0 .. known_align - 1
    BY <2>1
  <2> QED
    BY <2>2, <2>3 DEF Tight
<1>2. IInv /\ Tight /\ [Next]_vars => Tight'
  BY TightStep, TightIsKept DEF IInv
<1>k. Init => KnownIsAlign
  BY DEF Init, KnownIsAlign
<1>l. IInv /\ KnownIsAlign /\ [Next]_vars => KnownIsAlign'
  <2> SUFFICES ASSUME IInv, KnownIsAlign, [Next]_vars PROVE KnownIsAlign'
    OBVIOUS
  <2>1. CASE Measure
    <3>1. layouts[next] \in Layouts
      BY <2>1, LayoutsAre DEF IInv, Measure, TypeOK
    <3>2. known_align' = layouts[next].align \/ known_align' = known_align
      BY <2>1 DEF Measure
    <3> QED
      BY <3>1, <3>2 DEF KnownIsAlign
  <2>2. CASE ~ Measure
    <3>1. known_align' = known_align
      BY <2>2 DEF Next, Alloc, Place, Placed, Construct, Constructed, vars, measure
    <3> QED
      BY <3>1 DEF KnownIsAlign
  <2> QED
    BY <2>1, <2>2
<1>3. EveryRemainder /\ IInv /\ Tight /\ KnownIsAlign => SpaceIsExact
  <2> SUFFICES ASSUME EveryRemainder, IInv, Tight, KnownIsAlign, stage = "place"
               PROVE  /\ \A a \in Addresses : EndOfAll(layouts, a) - a <= capacity
                      /\ layouts # <<>> => \E a \in Addresses : EndOfAll(layouts, a) - a = capacity
    BY DEF SpaceIsExact
  <2>1. TypeOK /\ Measured = Len(layouts) /\ Len(layouts) \in Nat
    BY DEF IInv, TypeOK, Measured
  <2>2. SpaceSuffices(Len(layouts))
    BY <2>1 DEF IInv, MeasureIsRight
  <2>3. PICK r \in 0 .. known_align - 1 : TightFrom(r, Len(layouts))
    BY <2>1 DEF Tight
  <2>4. ASSUME NEW a \in Addresses
        PROVE  /\ EndOfAll(layouts, a) - a <= capacity
               /\ a % known_align = r => EndOfAll(layouts, a) - a = capacity
    <3>1. a \in Nat
      BY AddressesAssumption
    <3>2. PICK p : IsPlacement(p, Len(layouts)) /\ p[0] = a
      BY <2>1, <3>1, PlacementFrom
    <3>3. EndOfAll(layouts, a) = p[Len(layouts)]
      BY <2>1, <3>2, EndOfAllIs
    <3> QED
      BY <2>2, <2>3, <3>2, <3>3 DEF SpaceSuffices, TightFrom, capacity
  <2>5. ASSUME layouts # <<>>
        PROVE  \E a \in Addresses : a % known_align = r
    <3>1. CASE known_align = 1
      <4>1. 1 \in 1 .. Len(layouts)
        BY <2>1, <2>5 DEF TypeOK
      <4>2. layouts[1] \in Layouts /\ 0 \in 0 .. layouts[1].align - 1
        BY <2>1, <4>1, LayoutsAre
      <4>3. PICK a \in Addresses : a % layouts[1].align = 0
        BY <4>2 DEF EveryRemainder
      <4>4. a \in Int /\ r = 0
        BY <3>1, AddressesAssumption
      <4>5. a % 1 = 0
        BY <4>4
      <4> QED
        BY <3>1, <4>4, <4>5
    <3>2. CASE known_align # 1
      BY <3>2 DEF KnownIsAlign, EveryRemainder
    <3> QED
      BY <3>1, <3>2
  <2> QED
    BY <2>4, <2>5
<1>4. EveryRemainder
  OBVIOUS
<1> QED
  BY <1>1, <1>2, <1>k, <1>l, <1>3, <1>4, Invariance, PTL DEF Spec
==============================================================================
