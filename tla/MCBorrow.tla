------------------------------- MODULE MCBorrow ------------------------------
(***************************************************************************)
(* Small instances of Borrow for TLC.                                      *)
(***************************************************************************)
EXTENDS Borrow, TLC

\* No actor is special to the keys, and no property names one.
ActorSymmetry == Permutations(Actors)
==============================================================================
