------------------------------- MODULE OnceRead ------------------------------
(***************************************************************************)
(* What the registry promises, without its list: things are registered in  *)
(* any order, and what was registered at one moment is read, once, for all *)
(* time.  A reading may be given up; the next one starts afresh.           *)
(***************************************************************************)
EXTENDS Integers

CONSTANTS Things, NoReading

VARIABLES
  registered,   \* what is registered
  reading,      \* what is being read
  result        \* what was read

vars == <<registered, reading, result>>

Init == registered = {} /\ reading = NoReading /\ result = NoReading

Register(t) ==
  /\ t \in Things \ registered
  /\ registered' = registered \cup {t}
  /\ UNCHANGED <<reading, result>>

Begin ==
  /\ result = NoReading /\ reading = NoReading
  /\ reading' = registered
  /\ UNCHANGED <<registered, result>>

GiveUp ==
  /\ reading # NoReading
  /\ reading' = NoReading
  /\ UNCHANGED <<registered, result>>

Publish ==
  /\ reading # NoReading
  /\ result' = reading /\ reading' = NoReading
  /\ UNCHANGED registered

Next == (\E t \in Things : Register(t)) \/ Begin \/ GiveUp \/ Publish

Spec == Init /\ [][Next]_vars
==============================================================================
