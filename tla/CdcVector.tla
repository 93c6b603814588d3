----------------------------- MODULE CdcVector -----------------------------
(***************************************************************************)
(* synth/other/cdc_vector.sv on its own: two clocks of unrelated rates and *)
(* a producer that offers any word, or none, at every edge of iclk.        *)
(***************************************************************************)
EXTENDS CdcDatapath

CONSTANTS Value, Empty

ASSUME NotAWordAssumption == Empty \notin Value

VARIABLE ch

VectorTypeOK == ch \in VectorType(Value)

VectorInit == \E x, y \in Value : ch = VectorPowerUp(x, y)

\* Mutant: i_tvalid is not looked at.
VectorIClkAlwaysValid ==
  \E valid \in BOOLEAN, v \in Value :
    ch' = InputEdgeAlone(ch, TRUE, IF valid THEN v ELSE Empty)

VectorIClk == \E valid \in BOOLEAN, v \in Value : ch' = InputEdgeAlone(ch, valid, v)

VectorOClk == ch' = OutputEdgeAlone(ch)

VectorBothClks ==
  \E valid \in BOOLEAN, v \in Value :
    ch' \in CoincidingEdges(ch, valid, v, Value)

VectorNext == VectorIClk \/ VectorOClk \/ VectorBothClks

VectorSpec == VectorInit /\ [][VectorNext]_ch

\* A clock runs: its edges keep coming, alone or with an edge of the other.
FairVectorSpec ==
  /\ VectorSpec
  /\ WF_ch(VectorIClk \/ VectorBothClks)
  /\ WF_ch(VectorOClk \/ VectorBothClks)
-----------------------------------------------------------------------------
\* At most one toggle is under way and i_tready waits for its return, so
\* that i_reg changes only when every flip-flop of both domains is at rest.
HandshakeInv == OneToggle(ch)

\* o is refreshed only with a word that is standing still: while en_oclk is
\* up, which is when o loads i_reg, the input domain is not going to accept.
NoTornSample == Opulse(ch.ackogen) => ~ch.i_tready

\* A cdc_vector is a one-word mailbox: every accepted word is shown exactly
\* once, whole, and before the next one is accepted.
Pending == IF ch.en_iclk # ch.ackogen.odata THEN ch.i_reg ELSE Empty

Box == INSTANCE Mailbox WITH pending <- Pending, shown <- ch.o

BoxSpec == Box!Spec

\* A word that was accepted is shown, whatever the rates of the two clocks
\* and however the samples resolve.
EveryWordShown == (Pending # Empty) ~> (Pending = Empty)

\* The handshake never wedges: the producer is let in again and again.
ReadyAgain == []<>ch.i_tready
=============================================================================
