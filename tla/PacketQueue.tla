---------------------------- MODULE PacketQueue ----------------------------
(***************************************************************************)
(* What the asynchronous packet FIFO promises, with no clocks, pointers or *)
(* memory: a bounded queue of words that lets a packet out only once its   *)
(* last word came in, forgets a dropped packet whole, and hands the words  *)
(* to the sink one at a time, in order, each exactly once.                 *)
(***************************************************************************)
EXTENDS Integers, Sequences

CONSTANTS Word, Depth, NoWord

VARIABLES
  down,         \* the reset is asserted
  committed,    \* the words of whole packets, oldest first
  open,         \* the words of the packet that is coming in
  out,          \* the word offered to the sink, or NoWord
  taken         \* parity of the words the sink took since the reset

vars == <<down, committed, open, out, taken>>

Init ==
  /\ down = TRUE
  /\ committed = <<>>
  /\ open = <<>>
  /\ out = NoWord
  /\ taken = 0

(* The source's side: new is what becomes visible to the sink's side.      *)
Wait(new) == new = <<>> /\ UNCHANGED open

Drop(new) == new = <<>> /\ open' = <<>>

Push(w, new) ==
  /\ Len(committed) + Len(open) < Depth
  /\ IF w.tlast THEN new = Append(open, w) /\ open' = <<>>
                ELSE new = <<>> /\ open' = Append(open, w)

(* The sink's side: n words leave the queue.                               *)
Hold(n) == n = 0 /\ UNCHANGED <<out, taken>>

Take(n) ==
  /\ out # NoWord
  /\ taken' = 1 - taken
  /\ n = 0 /\ out' = NoWord

Offer(n) ==
  /\ out = NoWord
  /\ UNCHANGED taken
  /\ n = 1 /\ committed # <<>> /\ out' = Head(committed)

TakeAndOffer(n) ==
  /\ out # NoWord
  /\ taken' = 1 - taken
  /\ n = 1 /\ committed # <<>> /\ out' = Head(committed)

\* The two sides are independent and may act in the same step.
Work ==
  /\ ~down /\ UNCHANGED down
  /\ \E n \in {0, 1}, w \in Word : \E new \in {<<>>, Append(open, w)} :
       /\ Wait(new) \/ Drop(new) \/ Push(w, new)
       /\ Hold(n) \/ Take(n) \/ Offer(n) \/ TakeAndOffer(n)
       /\ committed' = SubSeq(committed, n + 1, Len(committed)) \o new

\* A reset loses what was queued.  It does not take back the word that was
\* on offer, and does not even keep it the same word.
Fail ==
  /\ ~down /\ down' = TRUE
  /\ committed' = <<>> /\ open' = <<>>
  /\ taken' = 0
  /\ UNCHANGED out

Garble ==
  /\ down /\ out # NoWord
  /\ out' \in Word
  /\ UNCHANGED <<down, committed, open, taken>>

Restart ==
  /\ down /\ down' = FALSE
  /\ UNCHANGED <<committed, open, out, taken>>

Next == Work \/ Fail \/ Garble \/ Restart

Spec == Init /\ [][Next]_vars
=============================================================================
