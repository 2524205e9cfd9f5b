-------------------------------- MODULE Arena --------------------------------
(***************************************************************************)
(* The memory of a context's actors (crates/core/dytor/src/arena.rs, and   *)
(* its use by allocate_actors and create_context in runtime/mod.rs).  The  *)
(* space is computed from the layouts before the address is known, and the *)
(* block is allocated with alignment 1; the offsets are then computed from *)
(* the address; then each actor is constructed at its offset.              *)
(*                                                                         *)
(* Layouts are those of types: the size is a multiple of the alignment,    *)
(* and of two alignments the smaller divides the larger.  Sizes stay far   *)
(* from 2^32, where compute_space_required panics.  alloc(0), undefined in *)
(* Rust, returns some address, as the system allocator does.               *)
(***************************************************************************)
EXTENDS Integers, Sequences, FiniteSets

CONSTANTS
  Layouts,     \* the layouts of the registered actor types
  MaxActors,   \* bound on the actors of the context
  Addresses    \* the addresses the allocator may return

Layout == [size : Nat, align : Nat \ {0}]

ASSUME LayoutsAssumption ==
  /\ Layouts \subseteq Layout
  /\ \A l \in Layouts : l.size % l.align = 0
  /\ \A l, m \in Layouts : l.align <= m.align => m.align % l.align = 0
ASSUME MaxActorsAssumption == MaxActors \in Nat
ASSUME AddressesAssumption == Addresses \subseteq Nat

VARIABLES
  stage,         \* "measure", "place", "construct", "built" or "panicked"
  layouts,       \* the layouts of the context's actors, in order
  next,          \* the layout the loop of the stage has come to
  res,           \* compute_space_required: the space so far
  known_align,   \* compute_space_required: the largest alignment so far
  curr_offset,   \* compute_space_required: the end so far, modulo known_align
  start,         \* the address of the block, once there is one
  curr,          \* get_offsets: the end of the objects so far
  offsets        \* the offsets of the objects

measure == <<res, known_align, curr_offset>>
vars    == <<stage, layouts, next, measure, start, curr, offsets>>

capacity == res

Init ==
  /\ stage = "measure"
  /\ layouts \in UNION {[1 .. n -> Layouts] : n \in 0 .. MaxActors}
  /\ next = 1
  /\ res = 0 /\ known_align = 1 /\ curr_offset = 0
  /\ start = 0 /\ curr = 0
  /\ offsets = <<>>

\* Plausible bug: the block is taken to start at an aligned address.
WidenStartAligned(align) == (known_align - curr_offset) % known_align

\* Plausible bug: the remainder is not taken, so an end that is aligned is padded.
WidenNoModulo(align) == align - known_align + (known_align - curr_offset)

\* The most padding before an object of the largest alignment so far: up to
\* the next multiple of known_align, and from there to one of align.
Widen(align) ==
  align - known_align + ((known_align - curr_offset) % known_align)

\* The padding before an object of a smaller alignment.
Pad(align) == align - ((curr_offset + align - 1) % align) - 1

\* One turn of the loop of compute_space_required.
Measure ==
  LET l == layouts[next] IN
  /\ stage = "measure" /\ next <= Len(layouts)
  /\ next' = next + 1
  /\ \/ /\ l.align > known_align
        /\ res' = res + Widen(l.align) + l.size
        /\ known_align' = l.align
        /\ curr_offset' = l.size % l.align
     \/ /\ l.align <= known_align
        /\ res' = res + Pad(l.align) + l.size
        /\ curr_offset' = (((curr_offset + Pad(l.align)) % known_align) + l.size) % known_align
        /\ UNCHANGED known_align
  /\ UNCHANGED <<stage, layouts, start, curr, offsets>>

\* from_layouts allocates.
Alloc ==
  /\ stage = "measure" /\ next = Len(layouts) + 1
  /\ stage' = "place" /\ next' = 1
  /\ start' \in Addresses /\ curr' = start'
  /\ UNCHANGED <<layouts, measure, offsets>>

\* addr.wrapping_add(addr.align_offset(align))
AlignUp(addr, align) == addr + ((align - (addr % align)) % align)

\* Plausible bug: the padding is not added to the end so far.
PlacePaddingForgotten ==
  LET l == layouts[next] IN
  /\ stage = "place" /\ next <= Len(layouts)
  /\ offsets' = Append(offsets, AlignUp(curr, l.align) - start)
  /\ curr' = curr + l.size
  /\ next' = next + 1
  /\ UNCHANGED <<stage, layouts, measure, start>>

\* One turn of the loop of get_offsets.
Place ==
  LET l == layouts[next]
      addr == AlignUp(curr, l.align)
  IN
  /\ stage = "place" /\ next <= Len(layouts)
  /\ offsets' = Append(offsets, addr - start)
  /\ curr' = addr + l.size
  /\ next' = next + 1
  /\ UNCHANGED <<stage, layouts, measure, start>>

\* allocate_actors returns.
Placed ==
  /\ stage = "place" /\ next = Len(layouts) + 1
  /\ stage' = "construct" /\ next' = 1
  /\ UNCHANGED <<layouts, measure, start, curr, offsets>>

\* The assertions of at_offset.
AtOffset(offset, l) ==
  /\ (start + offset) % l.align = 0
  /\ start + capacity > start + offset + l.size

\* create_context takes the memory of the next actor.
Construct ==
  /\ stage = "construct" /\ next <= Len(layouts)
  /\ IF AtOffset(offsets[next], layouts[next])
     THEN next' = next + 1 /\ UNCHANGED stage
     ELSE stage' = "panicked" /\ UNCHANGED next
  /\ UNCHANGED <<layouts, measure, start, curr, offsets>>

\* Every actor is constructed.
Constructed ==
  /\ stage = "construct" /\ next = Len(layouts) + 1
  /\ stage' = "built"
  /\ UNCHANGED <<layouts, next, measure, start, curr, offsets>>

Next == Measure \/ Alloc \/ Place \/ Placed \/ Construct \/ Constructed

Spec == Init /\ [][Next]_vars

------------------------------------------------------------------------------
(***************************************************************************)
(* Properties.                                                             *)
(***************************************************************************)

\* Every variable has its type.
TypeOK ==
  /\ stage \in {"measure", "place", "construct", "built", "panicked"}
  /\ layouts \in Seq(Layouts)
  /\ next \in 1 .. Len(layouts) + 1
  /\ res \in Nat /\ known_align \in Nat \ {0} /\ curr_offset \in 0 .. known_align - 1
  /\ start \in Nat /\ curr \in Nat
  /\ offsets \in Seq(Nat)

End(i) == offsets[i] + layouts[i].size

\* Wherever the block begins, every object lies in it, at an address of its
\* alignment (arena.rs:14-48).
ObjectsFit ==
  \A i \in DOMAIN offsets :
    /\ End(i) <= capacity
    /\ (start + offsets[i]) % layouts[i].align = 0

\* No two objects overlap.
ObjectsDisjoint ==
  \A i, j \in DOMAIN offsets : i < j => End(i) <= offsets[j]

\* Where objects of layouts ls end that are placed from address a.
EndOfAll(ls, a) ==
  LET end[i \in 0 .. Len(ls)] ==
        IF i = 0 THEN a ELSE AlignUp(end[i - 1], ls[i].align) + ls[i].size
  IN  end[Len(ls)]

\* The space is what the worst address needs, and no more (arena.rs:14-35).
SpaceIsExact ==
  stage = "place" =>
    /\ \A a \in Addresses : EndOfAll(layouts, a) - a <= capacity
    /\ layouts # <<>> => \E a \in Addresses : EndOfAll(layouts, a) - a = capacity

\* "assert!(data + capacity > ptr + layout.size())" (arena.rs:54-57) holds for
\* every actor the space was computed for.
ConstructionSucceeds == stage # "panicked"
==============================================================================
