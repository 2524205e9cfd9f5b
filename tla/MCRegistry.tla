----------------------------- MODULE MCRegistry ------------------------------
(***************************************************************************)
(* Small instances of Registry for TLC.                                    *)
(***************************************************************************)
EXTENDS Registry, TLC

CONSTANTS n1, n2, n3, n4, t1

Actor(type, name, traits) ==
  [kind |-> "actor", type |-> type, name |-> name, traits |-> traits]
Resource(type) == [kind |-> "resource", type |-> type, name |-> "", traits |-> <<>>]

\* Two libraries have an actor of the same name, a third shares a trait with
\* them and gives it twice, and a fourth has a resource.
Libraries ==
  (n1 :> Actor("Producer", "Producer", <<t1>>)) @@
  (n2 :> Actor("Mock", "Producer", <<t1>>)) @@
  (n3 :> Actor("Consumer", "Consumer", <<t1, t1>>)) @@
  (n4 :> Resource("Runtime"))
==============================================================================
