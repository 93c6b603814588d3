------------------------------ MODULE Channel ------------------------------
(***************************************************************************)
(* What a serial link promises: the items that were sent arrive, each      *)
(* once, unchanged and in order.                                           *)
(***************************************************************************)
EXTENDS Naturals, Sequences

CONSTANT Item

VARIABLES
  sent,      \* what was handed to the link
  received   \* what came out of it

Init == sent = <<>> /\ received = <<>>

Send == \E x \in Item : sent' = Append(sent, x)

Deliver ==
  /\ Len(received) < Len(sent)
  /\ received' = Append(received, sent[Len(received) + 1])

Next == \/ Send /\ UNCHANGED received
        \/ Deliver /\ UNCHANGED sent
        \/ Send /\ Deliver

Spec == Init /\ [][Next]_<<sent, received>>
=============================================================================
