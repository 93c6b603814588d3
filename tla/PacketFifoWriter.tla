-------------------------- MODULE PacketFifoWriter --------------------------
(***************************************************************************)
(* The asynchronous packet FIFO as its write side can know it: the words   *)
(* of the packet that is coming in, and how many committed words are not   *)
(* known to have been read.  PacketFifoAsync implements it, and the        *)
(* modules in front of the FIFO are composed with it instead of with the   *)
(* pointers, the crossings and the memory.                                 *)
(***************************************************************************)
EXTENDS Integers, Sequences

CONSTANTS
  Beat,         \* [word, drop], where a word has a tlast
  Depth,        \* words in the FIFO's RAM
  NoBeat        \* nothing is presented

VARIABLES
  open,         \* the words from committed_wrptr_iclk to wrptr_iclk
  used          \* how many words from rdptr_iclk to committed_wrptr_iclk

vars == <<open, used>>

Init == open = <<>> /\ used = 0

\* Mutant: one word too many.
treadyOneMore == used + Len(open) <= Depth

tready == used + Len(open) < Depth

\* Mutant: a drop does not move the write pointer back.
EdgeNoRewind(beat, freed) ==
  LET accepted == tready /\ beat # NoBeat
  IN  /\ freed \in 0 .. used
      /\ \/ /\ ~accepted
            /\ UNCHANGED open /\ used' = used - freed
         \/ /\ accepted /\ beat.drop
            /\ UNCHANGED open /\ used' = used - freed
         \/ /\ accepted /\ ~beat.drop /\ beat.word.tlast
            /\ open' = <<>> /\ used' = used - freed + Len(open) + 1
         \/ /\ accepted /\ ~beat.drop /\ ~beat.word.tlast
            /\ open' = Append(open, beat.word) /\ used' = used - freed

\* An edge of i_clk that presents beat.  A copy of the read pointer may cross
\* over at any edge; it gives room for freed words from the next edge on.
Edge(beat, freed) ==
  LET accepted == tready /\ beat # NoBeat
  IN  /\ freed \in 0 .. used
      /\ \/ /\ ~accepted
            /\ UNCHANGED open /\ used' = used - freed
         \/ /\ accepted /\ beat.drop
            /\ open' = <<>> /\ used' = used - freed
         \/ /\ accepted /\ ~beat.drop /\ beat.word.tlast
            /\ open' = <<>> /\ used' = used - freed + Len(open) + 1
         \/ /\ accepted /\ ~beat.drop /\ ~beat.word.tlast
            /\ open' = Append(open, beat.word) /\ used' = used - freed

Reset == open' = <<>> /\ used' = 0

Next == Reset \/ \E beat \in Beat \cup {NoBeat}, freed \in 0 .. used : Edge(beat, freed)

Spec == Init /\ [][Next]_vars
=============================================================================
