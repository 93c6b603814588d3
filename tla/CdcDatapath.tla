---------------------------- MODULE CdcDatapath ----------------------------
(***************************************************************************)
(* The registers of synth/other/cdc_sync.sv, cdc_pulse.sv and              *)
(* cdc_vector.sv and what one clock edge does to them, as operators on     *)
(* records, so that a module that instantiates several cdc_vectors (the    *)
(* asynchronous packet FIFO has two) keeps one record per instance.        *)
(*                                                                         *)
(* A cdc_vector carries a word from the domain of iclk to that of oclk     *)
(* with a two-phase (toggle) handshake:                                    *)
(*                                                                         *)
(*   en_iclk -> cdc_sync -> odata = ack_oclk -> cdc_sync -> odata          *)
(*   (iclk)     (oclk)      (oclk)              (iclk)      (iclk)         *)
(*                                                                         *)
(* Bits are 0 and 1.  The two clocks are asynchronous: an edge of one, an  *)
(* edge of the other, or edges of both so close that a register which      *)
(* samples a changing signal may get the old or the new value of a bit     *)
(* (metastability resolved either way), and anything for a word.           *)
(***************************************************************************)
EXTENDS Integers

CONSTANT SYNC_STAGES            \* flip-flops of each cdc_sync

ASSUME SyncStagesAssumption == SYNC_STAGES \in Nat \ {0}

Bit == {0, 1}

Stage == 0 .. SYNC_STAGES - 1

-----------------------------------------------------------------------------
(* cdc_pulse: the flip-flops tmp of its cdc_sync, and odata behind them.   *)

PulseType == [tmp : [Stage -> Bit], odata : Bit]

PulsePowerUp == [tmp |-> [s \in Stage |-> 0], odata |-> 0]

Synced(p) == p.tmp[SYNC_STAGES - 1]

Opulse(p) == Synced(p) # p.odata

\* Mutant: the first flip-flop never samples.
SyncShiftStuck(tmp, i) == [s \in Stage |-> IF s = 0 THEN tmp[0] ELSE tmp[s - 1]]

\* tmp after an edge that sampled the input bit i: a shift by one place.
SyncShift(tmp, i) == [s \in Stage |-> IF s = 0 THEN i ELSE tmp[s - 1]]

PulseEdge(p, i) == [tmp |-> SyncShift(p.tmp, i), odata |-> Synced(p)]

-----------------------------------------------------------------------------
(* cdc_vector: ackogen is clocked by oclk, ackigen by iclk.                *)

VectorType(Value) ==
  [ i_tready : BOOLEAN, en_iclk : Bit, i_reg : Value, ackigen : PulseType,
    ackogen : PulseType, o_strb : BOOLEAN, o : Value ]

\* i_reg and o have no initial value in the code: x and y are what the
\* power-up leaves in them.
VectorPowerUp(x, y) ==
  [ i_tready |-> TRUE, en_iclk |-> 0, i_reg |-> x, ackigen |-> PulsePowerUp,
    ackogen |-> PulsePowerUp, o_strb |-> FALSE, o |-> y ]

Accepts(ch, valid) == ch.i_tready /\ valid

\* Mutant: i_tready does not wait for the acknowledgement.
InputEdgeNoAck(ch, valid, v, ack) ==
  [ ch EXCEPT
      !.i_tready = IF @ THEN ~valid ELSE TRUE,
      !.en_iclk  = IF Accepts(ch, valid) THEN 1 - @ ELSE @,
      !.i_reg    = IF Accepts(ch, valid) THEN v ELSE @,
      !.ackigen  = PulseEdge(@, ack) ]

\* Mutant: i_reg follows the input whenever it is valid.
InputEdgeFollows(ch, valid, v, ack) ==
  [ ch EXCEPT
      !.i_tready = IF @ THEN ~valid ELSE Opulse(ch.ackigen),
      !.en_iclk  = IF Accepts(ch, valid) THEN 1 - @ ELSE @,
      !.i_reg    = IF valid THEN v ELSE @,
      !.ackigen  = PulseEdge(@, ack) ]

\* Mutant: the acknowledging pulse is missed while the input is valid.
InputEdgeMissesAck(ch, valid, v, ack) ==
  [ ch EXCEPT
      !.i_tready = ~valid /\ (@ \/ Opulse(ch.ackigen)),
      !.en_iclk  = IF Accepts(ch, valid) THEN 1 - @ ELSE @,
      !.i_reg    = IF Accepts(ch, valid) THEN v ELSE @,
      !.ackigen  = PulseEdge(@, ack) ]

\* The registers of the input domain after an edge of iclk at which the
\* inputs were i_tvalid = valid and i = v and ack_oclk was sampled as ack.
InputEdge(ch, valid, v, ack) ==
  [ ch EXCEPT
      !.i_tready = IF @ THEN ~valid ELSE Opulse(ch.ackigen),
      !.en_iclk  = IF Accepts(ch, valid) THEN 1 - @ ELSE @,
      !.i_reg    = IF Accepts(ch, valid) THEN v ELSE @,
      !.ackigen  = PulseEdge(@, ack) ]

\* The registers of the output domain after an edge of oclk at which
\* en_iclk was sampled as en and the word i_reg as w.
OutputEdge(ch, en, w) ==
  [ ch EXCEPT
      !.o       = IF Opulse(ch.ackogen) THEN w ELSE @,
      !.o_strb  = Opulse(ch.ackogen),
      !.ackogen = PulseEdge(@, en) ]

\* Edges apart from each other sample what the other domain holds.
InputEdgeAlone(ch, valid, v) == InputEdge(ch, valid, v, ch.ackogen.odata)
OutputEdgeAlone(ch)          == OutputEdge(ch, ch.en_iclk, ch.i_reg)

\* Edges that coincide: every outcome of the samples they take of signals
\* that change at that moment.
CoincidingEdges(ch, valid, v, Value) ==
  { OutputEdge(InputEdge(ch, valid, v, ack), en, w) :
      ack \in { ch.ackogen.odata, Synced(ch.ackogen) },
      en  \in { ch.en_iclk, InputEdgeAlone(ch, valid, v).en_iclk },
      w   \in IF InputEdgeAlone(ch, valid, v).i_reg = ch.i_reg
              THEN { ch.i_reg } ELSE Value }
-----------------------------------------------------------------------------
(* The ring of handshake bits, in the order a toggle travels: en_iclk, the *)
(* flip-flops of ackogen, ack_oclk, the flip-flops of ackigen and its      *)
(* odata.                                                                  *)

RingEnd == 2 * SYNC_STAGES + 2

Ring(ch, j) ==
  IF j = 0 THEN ch.en_iclk
  ELSE IF j <= SYNC_STAGES THEN ch.ackogen.tmp[j - 1]
  ELSE IF j = SYNC_STAGES + 1 THEN ch.ackogen.odata
  ELSE IF j < RingEnd THEN ch.ackigen.tmp[j - SYNC_STAGES - 2]
  ELSE ch.ackigen.odata

\* The toggle's front stands at k: the bits before k have the value of
\* en_iclk, those from k on still have the other one.
FrontAt(ch, k) ==
  \A j \in 0 .. RingEnd :
    Ring(ch, j) = IF j < k THEN ch.en_iclk ELSE 1 - ch.en_iclk

\* A state of the handshake with the front at k: i_tready waits for the
\* toggle to have passed the whole ring.
HandshakeAt(ch, k) ==
  /\ k \in 1 .. RingEnd + 1
  /\ FrontAt(ch, k)
  /\ ch.i_tready <=> (k = RingEnd + 1)

\* At most one toggle is under way, and i_tready waits for its return.  This
\* is what makes it safe to sample the word i_reg without synchronising it:
\* i_reg can only change when no flip-flop of either domain is moving.
OneToggle(ch) == \E k \in 1 .. RingEnd + 1 : HandshakeAt(ch, k)
=============================================================================
