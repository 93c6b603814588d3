------------------------------ MODULE Mailbox ------------------------------
(***************************************************************************)
(* What a cdc_vector promises, with no clocks and no handshake: a mailbox  *)
(* for one word.  A word that was put in is shown, whole, before the next  *)
(* one is taken, and nothing else is ever shown.                           *)
(***************************************************************************)
CONSTANTS Value, Empty

VARIABLES
  pending,      \* the word taken and not yet shown, or Empty
  shown         \* the word at the output

vars == <<pending, shown>>

Init == pending = Empty /\ shown \in Value

Put(v) ==
  /\ pending = Empty
  /\ pending' = v
  /\ UNCHANGED shown

Show ==
  /\ pending # Empty
  /\ shown' = pending
  /\ pending' = Empty

Next == Show \/ \E v \in Value : Put(v)

Spec == Init /\ [][Next]_vars
=============================================================================
