------------------------- MODULE MCPacketFifoAsync -------------------------
(***************************************************************************)
(* The instance of PacketFifoAsync that TLC checks.                        *)
(***************************************************************************)
EXTENDS PacketFifoAsync

CONSTANT d1

\* Bound: where a reset comes, and while it lasts, the words in the RAM are
\* alike.  Pointers and crossings do not look at words; the proofs are for all.
WordsAlike == \A s \in Slot : ram[s] = axis_o

MCNext ==
  \/ NextUnreset /\ (~sresetn => UNCHANGED ram)
  \/ WordsAlike /\ AssertReset

MCSpec == Init /\ [][MCNext]_vars
=============================================================================
