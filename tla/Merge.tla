-------------------------------- MODULE Merge --------------------------------
(***************************************************************************)
(* What the synchronizer of the replay example promises, without tasks,    *)
(* channels and threads: the events of all producers come out one at a     *)
(* time, each time the largest of those that are first in a stream.  A     *)
(* stream may be lost as a whole, but not once the replay has begun.       *)
(***************************************************************************)
EXTENDS Integers, Sequences

CONSTANT Events  \* the events of each producer, in its order

VARIABLES
  left,    \* the events of each stream that are still to come out
  output   \* what came out: the producers and their events

Producers == DOMAIN Events

Init ==
  /\ left = Events
  /\ output = <<>>

\* The first event of p comes out: no stream has a larger one in front.
Emit(p) ==
  /\ left[p] # <<>>
  /\ \A q \in Producers : left[q] # <<>> => Head(left[q]) <= Head(left[p])
  /\ output' = Append(output, [from |-> p, event |-> Head(left[p])])
  /\ left' = [left EXCEPT ![p] = Tail(@)]

\* Nothing came out yet, and some streams never will.
Lose(S) ==
  /\ output = <<>>
  /\ left' = [p \in Producers |-> IF p \in S THEN <<>> ELSE left[p]]
  /\ UNCHANGED output

Next == (\E p \in Producers : Emit(p)) \/ (\E S \in SUBSET Producers : Lose(S))

Spec == Init /\ [][Next]_<<left, output>>
==============================================================================
