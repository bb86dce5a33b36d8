----------------------------- MODULE CaptureLog -----------------------------
(***************************************************************************)
(* What a SELECT button promises, seen from the card: presses request      *)
(* screens, and the files that appear are whole screens, each of one       *)
(* snapshot, taken after a press, at most one file per press and in the    *)
(* order of the presses.  A request may be lost or swallowed by a later    *)
(* one; a file is never rewritten or removed.                              *)
(***************************************************************************)
EXTENDS Integers, Sequences

CONSTANT Frame     \* the parts a screen arrives in

VARIABLES
  requested,       \* presses so far
  saved            \* the screens on the card, in order

WholeScreen(k) == [meta |-> k, data |-> [f \in Frame |-> k]]

Init ==
  /\ requested = 0
  /\ saved = << >>

Request ==
  /\ requested' = requested + 1
  /\ UNCHANGED saved

Save(k) ==
  /\ \A i \in 1 .. Len(saved) : saved[i].meta < k
  /\ saved' = Append(saved, WholeScreen(k))
  /\ UNCHANGED requested

Next == Request \/ \E k \in 1 .. requested : Save(k)

Spec == Init /\ [][Next]_<<requested, saved>>
=============================================================================
