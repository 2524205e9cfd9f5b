------------------------------ MODULE MCRuntime ------------------------------
(***************************************************************************)
(* Small instances of Runtime for TLC: bounds on what each source sends.   *)
(***************************************************************************)
EXTENDS Runtime

OneEach == [s \in Sources |-> 1]

\* Handlers of context 1 can fill a batch for context 2; accessors start and
\* wake them.
BatchFromFirst == [s \in Sources |-> CASE s = 1 -> 2 [] s \in {2, 3} -> 0 [] OTHER -> 1]
==============================================================================
