------------------------------- MODULE MCGraph -------------------------------
(***************************************************************************)
(* Every relation on a few actors, for TLC.                                *)
(***************************************************************************)
EXTENDS Graph, TLC

\* No actor is special to the search, and no property names one.
ActorSymmetry == Permutations(Actors)
==============================================================================
