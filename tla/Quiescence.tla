----------------------------- MODULE Quiescence ------------------------------
(***************************************************************************)
(* What the runtime promises about stopping, without saying how it knows:  *)
(* there is an amount of outstanding work, more of it can only come from   *)
(* what there is, and a context halts only once there is none.             *)
(***************************************************************************)
EXTENDS Integers

CONSTANT Contexts

VARIABLES
  outstanding,   \* how many pieces of work there are
  halted         \* the contexts that are over

vars == <<outstanding, halted>>

Init == outstanding \in Nat /\ halted = {}

\* A piece of work begets more.
Beget ==
  /\ outstanding > 0
  /\ outstanding' \in Nat /\ outstanding' > outstanding
  /\ UNCHANGED halted

\* A piece of work is done.
Complete ==
  /\ outstanding > 0
  /\ outstanding' = outstanding - 1
  /\ UNCHANGED halted

\* A context is over.
Halt(c) ==
  /\ outstanding = 0
  /\ c \notin halted
  /\ halted' = halted \cup {c}
  /\ UNCHANGED outstanding

Next ==
  \/ Beget
  \/ Complete
  \/ \E c \in Contexts : Halt(c)

Spec == Init /\ [][Next]_vars
==============================================================================
