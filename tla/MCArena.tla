------------------------------- MODULE MCArena -------------------------------
(***************************************************************************)
(* Small instances of Arena for TLC.                                       *)
(***************************************************************************)
EXTENDS Arena

\* Every size up to twice the alignment, so also none.
SmallLayouts ==
  UNION {{[size |-> k * a, align |-> a] : k \in 0 .. 2} : a \in {1, 2, 4, 8}}

\* The same without types of size zero.
SizedLayouts == {l \in SmallLayouts : l.size > 0}

\* Every position relative to the largest alignment.
EveryAddress == 16 .. 23

\* What an allocator that aligns every block returns.
AlignedAddress == {16}
==============================================================================
