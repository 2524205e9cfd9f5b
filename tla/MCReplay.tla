------------------------------ MODULE MCReplay -------------------------------
(***************************************************************************)
(* A small instance of Replay for TLC: four producers on two contexts,     *)
(* with equal events, events out of order, a stream that fills its        *)
(* channel and one without events.                                         *)
(***************************************************************************)
EXTENDS Replay

MCEvents == <<<<1, 2, 4, 4>>, <<3, 2>>, <<2>>, <<>>>>
MCHome == <<1, 1, 2, 2>>
==============================================================================
