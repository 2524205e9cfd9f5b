------------------------------- MODULE MCSetup -------------------------------
(***************************************************************************)
(* Small instances of Setup for TLC: the configurations.                   *)
(***************************************************************************)
EXTENDS Setup

CONSTANTS A, B, I, J, Unknown

Listed == [i \in Interfaces |-> IF i = I THEN {A, B} ELSE {B}]

Actor(t, c) == [type |-> t, context |-> c]

\* Code that makes use of everything, for every query.
AnyCode == [sends |-> Query, broadcasts |-> Query, accesses |-> Query, keeps |-> Query, asks |-> TRUE]

\* Code that goes by interfaces, where it can.
InterfaceCode == [sends |-> {I}, broadcasts |-> {I, J}, accesses |-> {J}, keeps |-> {A}, asks |-> TRUE]

\* Actors of type B are sent to, by who is reached from outside, of type A.
SendingCode == [sends |-> {B}, broadcasts |-> {B}, accesses |-> {A}, keeps |-> {}, asks |-> FALSE]

Config(cs, as) == [contexts |-> cs, actors |-> as, nested |-> FALSE, code |-> AnyCode]

MCConfigs ==
  { [Config(<<1, 2>>, <<Actor(B, 2), Actor(A, 1), Actor(B, 1)>>)
       EXCEPT !.code = InterfaceCode],                             \* groups of two contexts
    Config(<<1>>, <<Actor(A, 1), Actor(B, 1)>>),                   \* keys both ways
    [Config(<<1, 2, 3>>, <<Actor(A, 1), Actor(B, 2), Actor(B, 3)>>)
       EXCEPT !.code = SendingCode],                               \* links that lead astray
    Config(<<1, 2>>, <<Actor(A, 1), Actor(Unknown, 2)>>),
    Config(<<1, 2>>, <<Actor(A, 3)>>),
    Config(<<2, 1>>, <<Actor(A, 1)>>),
    Config(<<>>, <<>>),
    [Config(<<1>>, <<Actor(A, 1)>>) EXCEPT !.nested = TRUE] }
==============================================================================
