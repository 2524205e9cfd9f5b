-------------------------------- MODULE Borrow -------------------------------
(***************************************************************************)
(* Local keys (crates/core/dytor/src/lookup.rs).  An actor keeps keys to   *)
(* other actors of its context; while one of its handlers runs, a key      *)
(* lends a mutable reference to its actor without a check, and that        *)
(* actor's keys lend further ones.  Cycle detection has admitted the keys  *)
(* (create_context, runtime/mod.rs).                                       *)
(*                                                                         *)
(* What programs can do is what the lifetimes of the signatures let the    *)
(* compiler accept.  The reference that borrow_mut returns is tied to the  *)
(* key, not to the MainArgs, which are free to be used with another key.   *)
(* Within a call the closure is an Fn, which has its parameters and what   *)
(* it captures; a shared reference to a RefCell with a mutable one inside  *)
(* is enough to use every key that the code around the call could use, so  *)
(* all that is live is in reach.                                           *)
(*                                                                         *)
(* Keys stay with the actor that asked for them, and are not copied: the   *)
(* derived Copy is for keys to types that are Copy themselves.             *)
(***************************************************************************)
EXTENDS Integers, Sequences, FiniteSets, SequencesExt

CONSTANTS
  Actors,    \* the actors of one context
  Copies,    \* bound on the keys one actor keeps to the same other
  MaxKeys,   \* bound on the keys there are
  Nobody     \* no actor

ASSUME NobodyAssumption == Nobody \notin Actors

Key == [from : Actors, to : Actors, copy : 1 .. Copies]

VARIABLES
  keys,      \* the keys that the actors keep
  handling,  \* the actor whose handler runs
  live,      \* the references that are live, each as the keys it came through
  within     \* the references whose calls are in progress, innermost last

vars == <<keys, handling, live, within>>

\* The relations that acyclic_local_key recorded, of different actors.
Relations(ks) == {<<k.from, k.to>> : k \in ks}

\* Plausible bug: only two actors that depend on each other are refused.
AdmitsLongCycles(ks) ==
  \A n, m \in Actors : ~ {<<n, m>>, <<m, n>>} \subseteq Relations(ks)

\* The context was not refused (Graph: VerdictIsRight).
Admits(ks) ==
  ~ \E S \in SUBSET Actors :
      S # {} /\ \A n \in S : \E m \in S : <<n, m>> \in Relations(ks)

Init ==
  /\ keys \in {ks \in SUBSET {k \in Key : k.from # k.to} :
                 Cardinality(ks) <= MaxKeys /\ Admits(ks)}
  /\ handling = Nobody
  /\ live = {} /\ within = <<>>

\* The actor that is reached through the first i keys of p.
At(p, i) == IF i = 0 THEN handling ELSE p[i].to

\* The actor that reference p is to.
Actor(p) == At(p, Len(p))

\* A message for actor n is handled.
Handle(n) ==
  /\ handling = Nobody
  /\ handling' = n
  /\ live' = {<<>>}
  /\ UNCHANGED <<keys, within>>

\* Plausible bug: a key may be used from any actor of the context.
CanLendAnywhere(p, k) == p \in live /\ Append(p, k) \notin live

\* The key is that of an actor in reach and lends nothing at the moment.
CanLend(p, k) == p \in live /\ k.from = Actor(p) /\ Append(p, k) \notin live

\* AcyclicLocalKey::borrow_mut
BorrowMut(p, k) ==
  /\ CanLend(p, k)
  /\ live' = live \cup {Append(p, k)}
  /\ UNCHANGED <<keys, handling, within>>

\* AcyclicLocalKey::call, up to the call of f.
Call(p, k) ==
  /\ CanLend(p, k)
  /\ live' = live \cup {Append(p, k)}
  /\ within' = Append(within, Append(p, k))
  /\ UNCHANGED <<keys, handling>>

\* f returns.  What it returns may carry its references and the MainArgs, so
\* they may live on, and the key stays lent as long.
Return ==
  /\ within # <<>>
  /\ within' = Front(within)
  /\ UNCHANGED <<keys, handling, live>>

\* A reference is used no more, nor what came through it; calls in progress
\* use theirs.
Release(p) ==
  /\ p \in live /\ p # <<>>
  /\ \A i \in DOMAIN within : ~ IsPrefix(p, within[i])
  /\ live' = {q \in live : ~ IsPrefix(p, q)}
  /\ UNCHANGED <<keys, handling, within>>

\* The handler returns.
HandlerReturns ==
  /\ handling # Nobody /\ within = <<>>
  /\ handling' = Nobody /\ live' = {}
  /\ UNCHANGED <<keys, within>>

Next ==
  \/ \E n \in Actors : Handle(n)
  \/ \E p \in live, k \in keys : BorrowMut(p, k) \/ Call(p, k)
  \/ \E p \in live : Release(p)
  \/ Return
  \/ HandlerReturns

Spec == Init /\ [][Next]_vars

------------------------------------------------------------------------------
(***************************************************************************)
(* Properties.                                                             *)
(***************************************************************************)

\* Every variable has its type.
TypeOK ==
  /\ keys \subseteq Key
  /\ handling \in Actors \cup {Nobody}
  /\ live \subseteq Seq(keys)
  /\ within \in Seq(Seq(keys))

\* No actor is reached through a reference to itself, be it the one whose
\* handler runs: this is what cycle detection is for (runtime/mod.rs:260).
NeverReachesItself ==
  \A p \in live : \A i, j \in 0 .. Len(p) : At(p, i) = At(p, j) => i = j

\* Two live references to one actor came to some actor by different keys: where
\* no two keys are for one actor nothing is lent twice, however borrow_mut and
\* call are nested and whatever closures capture.  Diamonds and second keys are
\* all that cycle detection leaves to go wrong (lookup.rs:252-266).
OnlyDiamondsAlias ==
  \A p, q \in live : p # q /\ Actor(p) = Actor(q) =>
    \E i \in DOMAIN p, j \in DOMAIN q : p[i] # q[j] /\ p[i].to = q[j].to

\* lookup.rs:257-258 means to exclude "mutable refs to other AcyclicLocalKeys,
\* which has the potential to break aliasing rules in cases like the diamond
\* pattern": no two live references are to one actor.
NoAliasing ==
  \A p, q \in live : Actor(p) = Actor(q) => p = q
==============================================================================
