------------------------------- MODULE KeyLog -------------------------------
(***************************************************************************)
(* What the keyboard of the menu promises: the RP acts on keys that were   *)
(* typed, in the order they were typed.  A key may be lost, and it may be  *)
(* acted upon more than once, but never after a later one.                 *)
(***************************************************************************)
EXTENDS Integers

VARIABLES
  typed,      \* keys typed so far
  acted       \* the key acted upon last

Init == typed = 0 /\ acted = 0

Type == typed' = typed + 1 /\ UNCHANGED acted

Act(k) == acted' = k /\ UNCHANGED typed

Next == Type \/ \E k \in 1 .. typed : k >= acted /\ Act(k)

Spec == Init /\ [][Next]_<<typed, acted>>
=============================================================================
