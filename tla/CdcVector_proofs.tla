-------------------------- MODULE CdcVector_proofs --------------------------
(***************************************************************************)
(* For every number of synchroniser flip-flops, every set of words and     *)
(* every pair of clocks: the handshake of a cdc_vector is sound, it never  *)
(* samples a changing word, and it implements a one-word mailbox.          *)
(*                                                                         *)
(* First what an edge of either clock, or coinciding edges, do to one      *)
(* record c of CdcDatapath, for whoever instantiates a cdc_vector (the     *)
(* packet FIFO does, twice), then the cdc_vector on its own.               *)
(***************************************************************************)
EXTENDS CdcVector, TLAPS

USE SyncStagesAssumption DEF SyncStagesAssumption

LEMMA PulseEdgeType ==
  ASSUME NEW p \in PulseType, NEW i \in Bit
  PROVE  /\ PulseEdge(p, i) \in PulseType
         /\ Synced(p) \in Bit
         /\ Opulse(p) \in BOOLEAN
<1>1. /\ p.tmp \in [Stage -> Bit]
      /\ p.odata \in Bit
  BY DEF PulseType
<1>2. SYNC_STAGES - 1 \in Stage
  BY DEF Stage
<1>3. SyncShift(p.tmp, i) \in [Stage -> Bit]
  BY <1>1 DEF SyncShift, Stage
<1>4. Synced(p) \in Bit
  BY <1>1, <1>2 DEF Synced
<1>. QED
  BY <1>3, <1>4 DEF PulseEdge, PulseType, Opulse

(* The fields of a channel after an edge, one by one.                      *)
LEMMA InputEdgeFields ==
  ASSUME NEW W, NEW c \in VectorType(W), NEW valid, NEW v, NEW ack,
         NEW n, n = InputEdge(c, valid, v, ack)
  PROVE  /\ n.i_tready <=> IF c.i_tready THEN ~valid ELSE Opulse(c.ackigen)
         /\ n.en_iclk = IF Accepts(c, valid) THEN 1 - c.en_iclk ELSE c.en_iclk
         /\ n.i_reg = IF Accepts(c, valid) THEN v ELSE c.i_reg
         /\ n.ackigen.tmp = SyncShift(c.ackigen.tmp, ack)
         /\ n.ackigen.odata = Synced(c.ackigen)
         /\ n.ackogen = c.ackogen
         /\ n.o = c.o
BY DEF InputEdge, VectorType, PulseEdge

LEMMA OutputEdgeFields ==
  ASSUME NEW W, NEW c \in VectorType(W), NEW en, NEW w,
         NEW n, n = OutputEdge(c, en, w)
  PROVE  /\ n.o = IF Opulse(c.ackogen) THEN w ELSE c.o
         /\ n.ackogen.tmp = SyncShift(c.ackogen.tmp, en)
         /\ n.ackogen.odata = Synced(c.ackogen)
         /\ n.i_tready = c.i_tready
         /\ n.en_iclk = c.en_iclk
         /\ n.i_reg = c.i_reg
         /\ n.ackigen = c.ackigen
BY DEF OutputEdge, VectorType, PulseEdge

LEMMA InputEdgeType ==
  ASSUME NEW W, NEW c \in VectorType(W), NEW valid \in BOOLEAN,
         NEW v \in W, NEW ack \in Bit
  PROVE  InputEdge(c, valid, v, ack) \in VectorType(W)
<1>1. /\ c.i_tready \in BOOLEAN
      /\ c.en_iclk \in Bit
      /\ c.i_reg \in W
      /\ c.ackigen \in PulseType
  BY DEF VectorType
<1>2. /\ (IF c.i_tready THEN ~valid ELSE Opulse(c.ackigen)) \in BOOLEAN
      /\ PulseEdge(c.ackigen, ack) \in PulseType
  BY <1>1, PulseEdgeType
<1>3. (IF Accepts(c, valid) THEN 1 - c.en_iclk ELSE c.en_iclk) \in Bit
  BY <1>1 DEF Bit
<1>. QED
  BY <1>1, <1>2, <1>3 DEF InputEdge, VectorType

LEMMA OutputEdgeType ==
  ASSUME NEW W, NEW c \in VectorType(W), NEW en \in Bit,
         NEW w \in W
  PROVE  OutputEdge(c, en, w) \in VectorType(W)
<1>1. /\ c.o \in W
      /\ c.ackogen \in PulseType
  BY DEF VectorType
<1>2. /\ Opulse(c.ackogen) \in BOOLEAN
      /\ PulseEdge(c.ackogen, en) \in PulseType
  BY <1>1, PulseEdgeType
<1>. QED
  BY <1>1, <1>2 DEF OutputEdge, VectorType

(* What an edge of iclk does to the ring: en_iclk may toggle, the part     *)
(* clocked by oclk stands still and the rest moves by one place.           *)
LEMMA InputEdgeRing ==
  ASSUME NEW W, NEW c \in VectorType(W), NEW valid \in BOOLEAN,
         NEW v \in W, NEW ack \in Bit, NEW j \in 0 .. RingEnd
  PROVE  Ring(InputEdge(c, valid, v, ack), j) =
           IF j = 0 THEN IF Accepts(c, valid) THEN 1 - Ring(c, 0) ELSE Ring(c, 0)
           ELSE IF j <= SYNC_STAGES + 1 THEN Ring(c, j)
           ELSE IF j = SYNC_STAGES + 2 THEN ack
           ELSE Ring(c, j - 1)
<1>. DEFINE n == InputEdge(c, valid, v, ack)
<1>1. /\ n.en_iclk = IF Accepts(c, valid) THEN 1 - c.en_iclk ELSE c.en_iclk
      /\ n.ackigen.tmp = SyncShift(c.ackigen.tmp, ack)
      /\ n.ackigen.odata = Synced(c.ackigen)
      /\ n.ackogen = c.ackogen
  BY InputEdgeFields
<1>2. CASE j <= SYNC_STAGES + 1
  BY <1>1, <1>2 DEF Ring
<1>3. CASE j \in SYNC_STAGES + 2 .. RingEnd - 1
  <2>1. j - SYNC_STAGES - 2 \in Stage
    BY <1>3 DEF Stage, RingEnd
  <2>2. n.ackigen.tmp[j - SYNC_STAGES - 2] =
          IF j - SYNC_STAGES - 2 = 0 THEN ack
          ELSE c.ackigen.tmp[j - SYNC_STAGES - 2 - 1]
    BY <1>1, <2>1 DEF SyncShift
  <2>. QED
    BY <1>3, <2>2 DEF Ring, RingEnd
<1>4. CASE j = RingEnd
  BY <1>1, <1>4 DEF Ring, RingEnd, Synced
<1>. QED
  BY <1>2, <1>3, <1>4 DEF RingEnd

LEMMA OutputEdgeRing ==
  ASSUME NEW W, NEW c \in VectorType(W), NEW en \in Bit,
         NEW w \in W, NEW j \in 0 .. RingEnd
  PROVE  Ring(OutputEdge(c, en, w), j) =
           IF j = 1 THEN en
           ELSE IF 1 < j /\ j <= SYNC_STAGES + 1 THEN Ring(c, j - 1)
           ELSE Ring(c, j)
<1>. DEFINE n == OutputEdge(c, en, w)
<1>1. /\ n.en_iclk = c.en_iclk
      /\ n.ackogen.tmp = SyncShift(c.ackogen.tmp, en)
      /\ n.ackogen.odata = Synced(c.ackogen)
      /\ n.ackigen = c.ackigen
  BY OutputEdgeFields
<1>2. CASE j = 0 \/ j > SYNC_STAGES + 1
  BY <1>1, <1>2 DEF Ring
<1>3. CASE j \in 1 .. SYNC_STAGES
  <2>1. j - 1 \in Stage
    BY <1>3 DEF Stage
  <2>2. n.ackogen.tmp[j - 1] =
          IF j - 1 = 0 THEN en ELSE c.ackogen.tmp[j - 1 - 1]
    BY <1>1, <2>1 DEF SyncShift
  <2>. QED
    BY <1>3, <2>2 DEF Ring
<1>4. CASE j = SYNC_STAGES + 1
  BY <1>1, <1>4 DEF Ring, Synced
<1>. QED
  BY <1>2, <1>3, <1>4 DEF RingEnd

-----------------------------------------------------------------------------
(* What the position of the front says about the signals of the circuit.   *)
LEMMA HandshakeSignals ==
  ASSUME NEW W, NEW c \in VectorType(W), NEW k, HandshakeAt(c, k)
  PROVE  /\ c.ackogen.odata =
              IF k > SYNC_STAGES + 1 THEN c.en_iclk ELSE 1 - c.en_iclk
         /\ Synced(c.ackogen) =
              IF k > SYNC_STAGES THEN c.en_iclk ELSE 1 - c.en_iclk
         /\ Opulse(c.ackogen) <=> (k = SYNC_STAGES + 1)
         /\ Opulse(c.ackigen) <=> (k = RingEnd)
         /\ c.i_tready <=> (k = RingEnd + 1)
<1>1. \A j \in 0 .. RingEnd :
        Ring(c, j) = IF j < k THEN c.en_iclk ELSE 1 - c.en_iclk
  BY DEF HandshakeAt, FrontAt
<1>2. k \in 1 .. RingEnd + 1 /\ c.en_iclk \in Bit
  BY DEF HandshakeAt, VectorType
<1>3. /\ Ring(c, SYNC_STAGES) = Synced(c.ackogen)
      /\ Ring(c, SYNC_STAGES + 1) = c.ackogen.odata
      /\ Ring(c, RingEnd - 1) = Synced(c.ackigen)
      /\ Ring(c, RingEnd) = c.ackigen.odata
  BY DEF Ring, RingEnd, Synced
<1>4. {SYNC_STAGES, SYNC_STAGES + 1, RingEnd - 1, RingEnd} \subseteq 0 .. RingEnd
  BY DEF RingEnd
<1>5. /\ Synced(c.ackogen) = IF SYNC_STAGES < k THEN c.en_iclk ELSE 1 - c.en_iclk
      /\ c.ackogen.odata = IF SYNC_STAGES + 1 < k THEN c.en_iclk ELSE 1 - c.en_iclk
      /\ Synced(c.ackigen) = IF RingEnd - 1 < k THEN c.en_iclk ELSE 1 - c.en_iclk
      /\ c.ackigen.odata = IF RingEnd < k THEN c.en_iclk ELSE 1 - c.en_iclk
  BY <1>1, <1>3, <1>4
<1>6. c.i_tready <=> (k = RingEnd + 1)
  BY DEF HandshakeAt
<1>. QED
  BY <1>2, <1>5, <1>6 DEF Opulse, Bit, RingEnd

(* An edge of iclk alone starts a toggle, or moves the front on through    *)
(* the flip-flops that iclk clocks.                                        *)
LEMMA InputEdgeHandshake ==
  ASSUME NEW W, NEW c \in VectorType(W), NEW k, HandshakeAt(c, k),
         NEW valid \in BOOLEAN, NEW v \in W
  PROVE  HandshakeAt(InputEdgeAlone(c, valid, v),
                     IF Accepts(c, valid) THEN 1
                     ELSE IF k \in SYNC_STAGES + 2 .. RingEnd THEN k + 1 ELSE k)
<1>. DEFINE n == InputEdgeAlone(c, valid, v)
            k2 == IF Accepts(c, valid) THEN 1
                  ELSE IF k \in SYNC_STAGES + 2 .. RingEnd THEN k + 1 ELSE k
<1>1. /\ k \in 1 .. RingEnd + 1
      /\ c.en_iclk \in Bit
      /\ c.ackogen.odata \in Bit
  BY DEF HandshakeAt, VectorType, PulseType
<1>2. /\ n.en_iclk = IF Accepts(c, valid) THEN 1 - c.en_iclk ELSE c.en_iclk
      /\ n.i_tready <=> IF c.i_tready THEN ~valid ELSE Opulse(c.ackigen)
  BY InputEdgeFields DEF InputEdgeAlone
<1>3. k2 \in 1 .. RingEnd + 1
  BY <1>1 DEF RingEnd
<1>4. n.i_tready <=> (k2 = RingEnd + 1)
  <2>1. /\ Opulse(c.ackigen) <=> (k = RingEnd)
        /\ c.i_tready <=> (k = RingEnd + 1)
    BY HandshakeSignals
  <2>2. CASE c.i_tready /\ valid
    <3>1. k2 = 1 /\ ~ n.i_tready
      BY <1>2, <2>2, Zenon DEF Accepts
    <3>. QED
      BY <3>1 DEF RingEnd
  <2>3. CASE c.i_tready /\ ~ valid
    BY <1>1, <1>2, <2>1, <2>3 DEF Accepts, RingEnd
  <2>4. CASE ~ c.i_tready
    BY <1>1, <1>2, <2>1, <2>4 DEF Accepts, RingEnd
  <2>. QED
    BY <2>2, <2>3, <2>4
<1>5. ASSUME NEW j \in 0 .. RingEnd
      PROVE  Ring(n, j) = IF j < k2 THEN n.en_iclk ELSE 1 - n.en_iclk
  <2>1. Ring(n, j) =
          IF j = 0 THEN IF Accepts(c, valid) THEN 1 - Ring(c, 0) ELSE Ring(c, 0)
          ELSE IF j <= SYNC_STAGES + 1 THEN Ring(c, j)
          ELSE IF j = SYNC_STAGES + 2 THEN c.ackogen.odata
          ELSE Ring(c, j - 1)
    BY <1>1, InputEdgeRing DEF InputEdgeAlone
  <2>2. \A i \in 0 .. RingEnd :
          Ring(c, i) = IF i < k THEN c.en_iclk ELSE 1 - c.en_iclk
    BY DEF HandshakeAt, FrontAt
  <2>3. c.ackogen.odata = Ring(c, SYNC_STAGES + 1)
    BY DEF Ring
  <2>4. Accepts(c, valid) => k = RingEnd + 1
    BY HandshakeSignals DEF Accepts
  <2>. QED
    BY <1>1, <1>2, <2>1, <2>2, <2>3, <2>4 DEF RingEnd, Bit
<1>. QED
  BY <1>3, <1>4, <1>5 DEF HandshakeAt, FrontAt

(* An edge of oclk alone moves the front on through the flip-flops that    *)
(* oclk clocks.                                                            *)
LEMMA OutputEdgeHandshake ==
  ASSUME NEW W, NEW c \in VectorType(W), NEW k, HandshakeAt(c, k)
  PROVE  HandshakeAt(OutputEdgeAlone(c),
                     IF k <= SYNC_STAGES + 1 THEN k + 1 ELSE k)
<1>. DEFINE n == OutputEdgeAlone(c)
            k2 == IF k <= SYNC_STAGES + 1 THEN k + 1 ELSE k
<1>1. /\ k \in 1 .. RingEnd + 1
      /\ c.en_iclk \in Bit
      /\ c.i_reg \in W
  BY DEF HandshakeAt, VectorType
<1>2. n.en_iclk = c.en_iclk /\ n.i_tready = c.i_tready
  BY OutputEdgeFields DEF OutputEdgeAlone
<1>3. k2 \in 1 .. RingEnd + 1 /\ (n.i_tready <=> (k2 = RingEnd + 1))
  BY <1>1, <1>2, HandshakeSignals DEF RingEnd
<1>4. ASSUME NEW j \in 0 .. RingEnd
      PROVE  Ring(n, j) = IF j < k2 THEN n.en_iclk ELSE 1 - n.en_iclk
  <2>1. Ring(n, j) =
          IF j = 1 THEN c.en_iclk
          ELSE IF 1 < j /\ j <= SYNC_STAGES + 1 THEN Ring(c, j - 1)
          ELSE Ring(c, j)
    BY <1>1, OutputEdgeRing DEF OutputEdgeAlone
  <2>2. \A i \in 0 .. RingEnd :
          Ring(c, i) = IF i < k THEN c.en_iclk ELSE 1 - c.en_iclk
    BY DEF HandshakeAt, FrontAt
  <2>. QED
    BY <1>1, <1>2, <2>1, <2>2 DEF RingEnd
<1>. QED
  BY <1>3, <1>4 DEF HandshakeAt, FrontAt

(* Coinciding edges: however the samples resolve, there is still one       *)
(* front, which has moved on, and o loads i_reg only while i_reg stands    *)
(* still.                                                                  *)
LEMMA CoincidingEdgesHandshake ==
  ASSUME NEW W, NEW c \in VectorType(W), NEW k, HandshakeAt(c, k),
         NEW valid \in BOOLEAN, NEW v \in W,
         NEW n \in CoincidingEdges(c, valid, v, W)
  PROVE  /\ n \in VectorType(W)
         /\ OneToggle(n)
         /\ \E k2 \in 1 .. RingEnd + 1 :
              /\ HandshakeAt(n, k2)
              /\ IF Accepts(c, valid) THEN k2 \in {1, 2}
                 ELSE IF k = RingEnd + 1 THEN k2 = k
                 ELSE \/ k2 = k + 1
                      \/ k = SYNC_STAGES + 1 /\ k2 = k + 2
         /\ n.en_iclk = IF Accepts(c, valid) THEN 1 - c.en_iclk ELSE c.en_iclk
         /\ n.i_reg = IF Accepts(c, valid) THEN v ELSE c.i_reg
         /\ n.ackogen.odata = Synced(c.ackogen)
         /\ n.o = IF Opulse(c.ackogen) THEN c.i_reg ELSE c.o
<1>1. /\ k \in 1 .. RingEnd + 1
      /\ c.en_iclk \in Bit
      /\ c.ackogen.odata \in Bit
      /\ c.i_reg \in W
  BY DEF HandshakeAt, VectorType, PulseType
<1>2. c.ackogen \in PulseType
  BY DEF VectorType
<1>3. Synced(c.ackogen) \in Bit
  BY <1>1, <1>2, PulseEdgeType
<1>. DEFINE a == InputEdgeAlone(c, valid, v)
<1>4. /\ a.en_iclk = IF Accepts(c, valid) THEN 1 - c.en_iclk ELSE c.en_iclk
      /\ a.i_reg = IF Accepts(c, valid) THEN v ELSE c.i_reg
  BY InputEdgeFields DEF InputEdgeAlone
<1>5. PICK ack \in { c.ackogen.odata, Synced(c.ackogen) },
           en \in { c.en_iclk, a.en_iclk },
           w \in IF a.i_reg = c.i_reg THEN { c.i_reg } ELSE W :
        n = OutputEdge(InputEdge(c, valid, v, ack), en, w)
  BY DEF CoincidingEdges
<1>. DEFINE m == InputEdge(c, valid, v, ack)
<1>6. ack \in Bit /\ en \in Bit /\ w \in W
  BY <1>1, <1>3, <1>4 DEF Bit
<1>7. m \in VectorType(W)
  BY <1>6, InputEdgeType
<1>8. n \in VectorType(W)
  BY <1>5, <1>6, <1>7, OutputEdgeType
<1>9. /\ m.i_tready <=> IF c.i_tready THEN ~valid ELSE Opulse(c.ackigen)
      /\ m.en_iclk = IF Accepts(c, valid) THEN 1 - c.en_iclk ELSE c.en_iclk
      /\ m.i_reg = IF Accepts(c, valid) THEN v ELSE c.i_reg
      /\ m.ackogen = c.ackogen
      /\ m.o = c.o
  BY InputEdgeFields
<1>10. /\ n.i_tready = m.i_tready
       /\ n.en_iclk = m.en_iclk
       /\ n.i_reg = m.i_reg
       /\ n.ackogen.odata = Synced(m.ackogen)
       /\ n.o = IF Opulse(m.ackogen) THEN w ELSE m.o
  BY <1>5, <1>7, OutputEdgeFields
<1>11. Accepts(c, valid) => k = RingEnd + 1
  BY HandshakeSignals DEF Accepts
<1>12. Opulse(c.ackogen) => w = c.i_reg
  <2>. SUFFICES ASSUME Opulse(c.ackogen)
                PROVE  w = c.i_reg
    OBVIOUS
  <2>1. ~ Accepts(c, valid)
    BY <1>11, HandshakeSignals DEF RingEnd
  <2>. QED
    BY <2>1, <1>4
<1>. DEFINE k2 == IF Accepts(c, valid)
                    THEN IF en = c.en_iclk THEN 1 ELSE 2
                  ELSE IF k <= SYNC_STAGES THEN k + 1
                  ELSE IF k = SYNC_STAGES + 1
                    THEN IF ack = c.en_iclk THEN k + 2 ELSE k + 1
                  ELSE IF k <= RingEnd THEN k + 1 ELSE k
<1>13. HandshakeAt(n, k2)
  <2>1. k2 \in 1 .. RingEnd + 1
    BY <1>1 DEF RingEnd
  <2>2. n.i_tready <=> (k2 = RingEnd + 1)
    <3>1. /\ Opulse(c.ackigen) <=> (k = RingEnd)
          /\ c.i_tready <=> (k = RingEnd + 1)
      BY HandshakeSignals
    <3>2. CASE c.i_tready /\ valid
      <4>1. k2 \in {1, 2} /\ ~ n.i_tready
        BY <1>9, <1>10, <3>2, Zenon DEF Accepts
      <4>. QED
        BY <4>1 DEF RingEnd
    <3>3. CASE c.i_tready /\ ~ valid
      BY <1>1, <1>9, <1>10, <3>1, <3>3 DEF Accepts, RingEnd
    <3>4. CASE ~ c.i_tready
      BY <1>1, <1>9, <1>10, <3>1, <3>4 DEF Accepts, RingEnd
    <3>. QED
      BY <3>2, <3>3, <3>4
  <2>3. ASSUME NEW j \in 0 .. RingEnd
        PROVE  Ring(n, j) = IF j < k2 THEN n.en_iclk ELSE 1 - n.en_iclk
    <3>1. \A i \in 0 .. RingEnd :
            Ring(m, i) =
              IF i = 0 THEN IF Accepts(c, valid) THEN 1 - Ring(c, 0) ELSE Ring(c, 0)
              ELSE IF i <= SYNC_STAGES + 1 THEN Ring(c, i)
              ELSE IF i = SYNC_STAGES + 2 THEN ack
              ELSE Ring(c, i - 1)
      BY <1>6, InputEdgeRing
    <3>2. Ring(n, j) =
            IF j = 1 THEN en
            ELSE IF 1 < j /\ j <= SYNC_STAGES + 1 THEN Ring(m, j - 1)
            ELSE Ring(m, j)
      BY <1>5, <1>6, <1>7, OutputEdgeRing
    <3>3. \A i \in 0 .. RingEnd :
            Ring(c, i) = IF i < k THEN c.en_iclk ELSE 1 - c.en_iclk
      BY DEF HandshakeAt, FrontAt
    <3>4. /\ c.ackogen.odata =
               IF k > SYNC_STAGES + 1 THEN c.en_iclk ELSE 1 - c.en_iclk
          /\ Synced(c.ackogen) =
               IF k > SYNC_STAGES THEN c.en_iclk ELSE 1 - c.en_iclk
      BY HandshakeSignals
    <3>5. n.en_iclk = IF Accepts(c, valid) THEN 1 - c.en_iclk ELSE c.en_iclk
      BY <1>9, <1>10
    <3>6. /\ ack \in { c.ackogen.odata, Synced(c.ackogen) }
          /\ en \in { c.en_iclk, n.en_iclk }
      BY <1>4, <1>5, <3>5
    <3>7. CASE Accepts(c, valid)
      BY <1>1, <1>11, <3>1, <3>2, <3>3, <3>4, <3>5, <3>6, <3>7 DEF RingEnd, Bit
    <3>8. CASE ~ Accepts(c, valid)
      BY <1>1, <3>1, <3>2, <3>3, <3>4, <3>5, <3>6, <3>8 DEF RingEnd, Bit
    <3>. QED
      BY <3>7, <3>8
  <2>. QED
    BY <2>1, <2>2, <2>3 DEF HandshakeAt, FrontAt
<1>14. OneToggle(n)
  BY <1>13 DEF OneToggle, HandshakeAt
<1>15. IF Accepts(c, valid) THEN k2 \in {1, 2}
       ELSE IF k = RingEnd + 1 THEN k2 = k
       ELSE k2 = k + 1 \/ (k = SYNC_STAGES + 1 /\ k2 = k + 2)
  BY <1>1 DEF RingEnd
<1>16. k2 \in 1 .. RingEnd + 1
  BY <1>13 DEF HandshakeAt
<1>. HIDE DEF k2
<1>17. \E k3 \in 1 .. RingEnd + 1 :
         /\ HandshakeAt(n, k3)
         /\ IF Accepts(c, valid) THEN k3 \in {1, 2}
            ELSE IF k = RingEnd + 1 THEN k3 = k
            ELSE k3 = k + 1 \/ (k = SYNC_STAGES + 1 /\ k3 = k + 2)
  BY <1>13, <1>15, <1>16
<1>. QED
  BY <1>8, <1>9, <1>10, <1>12, <1>14, <1>17

(* What a user of a channel needs to know of any edge: the handshake goes  *)
(* on, o keeps its word or takes that of i_reg, and i_reg keeps its word   *)
(* or takes the one at the input.                                          *)
LEMMA ChannelStep ==
  ASSUME NEW W, NEW c \in VectorType(W), OneToggle(c),
         NEW valid \in BOOLEAN, NEW v \in W, NEW n,
         \/ n = InputEdgeAlone(c, valid, v)
         \/ n = OutputEdgeAlone(c)
         \/ n \in CoincidingEdges(c, valid, v, W)
  PROVE  /\ n \in VectorType(W)
         /\ OneToggle(n)
         /\ n.o \in {c.o, c.i_reg}
         /\ n.i_reg \in {c.i_reg, v}
<1>1. PICK k \in 1 .. RingEnd + 1 : HandshakeAt(c, k)
  BY DEF OneToggle
<1>2. /\ c.ackogen.odata \in Bit
      /\ c.en_iclk \in Bit
      /\ c.i_reg \in W
  BY DEF VectorType, PulseType
<1>3. CASE n = InputEdgeAlone(c, valid, v)
  <2>1. n \in VectorType(W)
    BY <1>2, <1>3, InputEdgeType DEF InputEdgeAlone
  <2>2. PICK k2 : HandshakeAt(n, k2)
    BY <1>1, <1>3, InputEdgeHandshake
  <2>3. OneToggle(n)
    BY <2>2 DEF OneToggle, HandshakeAt
  <2>4. /\ n.i_reg = IF Accepts(c, valid) THEN v ELSE c.i_reg
        /\ n.o = c.o
    BY <1>3, InputEdgeFields DEF InputEdgeAlone
  <2>. QED
    BY <2>1, <2>3, <2>4
<1>4. CASE n = OutputEdgeAlone(c)
  <2>1. n \in VectorType(W)
    BY <1>2, <1>4, OutputEdgeType DEF OutputEdgeAlone
  <2>2. PICK k2 : HandshakeAt(n, k2)
    BY <1>1, <1>4, OutputEdgeHandshake
  <2>3. OneToggle(n)
    BY <2>2 DEF OneToggle, HandshakeAt
  <2>4. /\ n.o = IF Opulse(c.ackogen) THEN c.i_reg ELSE c.o
        /\ n.i_reg = c.i_reg
    BY <1>4, OutputEdgeFields DEF OutputEdgeAlone
  <2>. QED
    BY <2>1, <2>3, <2>4
<1>5. CASE n \in CoincidingEdges(c, valid, v, W)
  BY <1>1, <1>5, CoincidingEdgesHandshake
<1>. QED
  BY <1>3, <1>4, <1>5

(* The state a channel powers up in.                                       *)
LEMMA PowerUp ==
  ASSUME NEW W, NEW x \in W, NEW y \in W,
         NEW c, c = VectorPowerUp(x, y)
  PROVE  /\ c \in VectorType(W)
         /\ OneToggle(c)
         /\ c.i_reg = x /\ c.o = y
         /\ c.en_iclk = 0 /\ c.ackogen.odata = 0
<1>1. PulsePowerUp \in PulseType
  BY DEF PulsePowerUp, PulseType, Bit
<1>2. c \in VectorType(W)
  BY <1>1 DEF VectorPowerUp, VectorType, Bit
<1>3. \A j \in 0 .. RingEnd : Ring(c, j) = 0
  BY DEF Ring, RingEnd, VectorPowerUp, PulsePowerUp, Stage
<1>4. /\ c.en_iclk = 0 /\ c.i_tready
      /\ c.i_reg = x /\ c.o = y
      /\ c.ackogen.odata = 0
  BY DEF VectorPowerUp, PulsePowerUp
<1>5. HandshakeAt(c, RingEnd + 1)
  BY <1>3, <1>4 DEF HandshakeAt, FrontAt, RingEnd
<1>. QED
  BY <1>2, <1>4, <1>5 DEF OneToggle, HandshakeAt

-----------------------------------------------------------------------------
(* The cdc_vector on its own.                                              *)

VectorIInv == VectorTypeOK /\ HandshakeInv

LEMMA InitVectorIInv == VectorInit => VectorIInv
BY PowerUp DEF VectorInit, VectorIInv, VectorTypeOK, HandshakeInv

(* What each step does to the part of the state the mailbox sees.          *)
Accepting(valid, v) ==
  IF Accepts(ch, valid) THEN ch.en_iclk' = 1 - ch.en_iclk /\ ch.i_reg' = v
  ELSE ch.en_iclk' = ch.en_iclk /\ ch.i_reg' = ch.i_reg

Loading ==
  /\ ch.ackogen.odata' = Synced(ch.ackogen)
  /\ ch.o' = IF Opulse(ch.ackogen) THEN ch.i_reg ELSE ch.o

LEMMA VectorIClkStep ==
  ASSUME VectorIInv, NEW valid \in BOOLEAN, NEW v \in Value,
         ch' = InputEdgeAlone(ch, valid, v)
  PROVE  /\ VectorIInv'
         /\ Accepting(valid, v)
         /\ ch.ackogen.odata' = ch.ackogen.odata
         /\ ch.o' = ch.o
<1>1. PICK k \in 1 .. RingEnd + 1 : HandshakeAt(ch, k)
  BY DEF VectorIInv, HandshakeInv, OneToggle
<1>2. ch \in VectorType(Value) /\ ch.ackogen.odata \in Bit
  BY DEF VectorIInv, VectorTypeOK, VectorType, PulseType
<1>3. VectorTypeOK'
  BY <1>2, InputEdgeType DEF InputEdgeAlone, VectorTypeOK
<1>. DEFINE k2 == IF Accepts(ch, valid) THEN 1
                  ELSE IF k \in SYNC_STAGES + 2 .. RingEnd THEN k + 1 ELSE k
<1>4. HandshakeAt(ch', k2)
  BY <1>1, <1>2, InputEdgeHandshake
<1>5. HandshakeInv'
  <2>. HIDE DEF k2
  <2>. QED
    BY <1>4 DEF HandshakeInv, OneToggle, HandshakeAt
<1>6. /\ ch'.en_iclk = IF Accepts(ch, valid) THEN 1 - ch.en_iclk ELSE ch.en_iclk
      /\ ch'.i_reg = IF Accepts(ch, valid) THEN v ELSE ch.i_reg
      /\ ch'.ackogen = ch.ackogen
      /\ ch'.o = ch.o
  BY <1>2, InputEdgeFields DEF InputEdgeAlone
<1>. QED
  BY <1>3, <1>5, <1>6 DEF VectorIInv, Accepting

LEMMA VectorOClkStep ==
  ASSUME VectorIInv, VectorOClk
  PROVE  /\ VectorIInv'
         /\ Loading
         /\ ch.en_iclk' = ch.en_iclk
         /\ ch.i_reg' = ch.i_reg
<1>1. PICK k \in 1 .. RingEnd + 1 : HandshakeAt(ch, k)
  BY DEF VectorIInv, HandshakeInv, OneToggle
<1>2. /\ ch \in VectorType(Value)
      /\ ch.en_iclk \in Bit
      /\ ch.i_reg \in Value
  BY DEF VectorIInv, VectorTypeOK, VectorType
<1>3. VectorTypeOK'
  BY <1>2, OutputEdgeType DEF VectorOClk, OutputEdgeAlone, VectorTypeOK
<1>4. PICK k2 : HandshakeAt(ch', k2)
  BY <1>1, <1>2, OutputEdgeHandshake DEF VectorOClk
<1>5. HandshakeInv'
  BY <1>4 DEF HandshakeInv, OneToggle, HandshakeAt
<1>6. /\ ch'.o = IF Opulse(ch.ackogen) THEN ch.i_reg ELSE ch.o
      /\ ch'.ackogen.odata = Synced(ch.ackogen)
      /\ ch'.en_iclk = ch.en_iclk
      /\ ch'.i_reg = ch.i_reg
  BY <1>2, OutputEdgeFields DEF VectorOClk, OutputEdgeAlone
<1>. QED
  BY <1>3, <1>5, <1>6 DEF VectorIInv, Loading

LEMMA VectorBothClksStep ==
  ASSUME VectorIInv, NEW valid \in BOOLEAN, NEW v \in Value,
         ch' \in CoincidingEdges(ch, valid, v, Value)
  PROVE  VectorIInv' /\ Accepting(valid, v) /\ Loading
<1>1. PICK k \in 1 .. RingEnd + 1 : HandshakeAt(ch, k)
  BY DEF VectorIInv, HandshakeInv, OneToggle
<1>2. ch \in VectorType(Value)
  BY DEF VectorIInv, VectorTypeOK
<1>. QED
  BY <1>1, <1>2, CoincidingEdgesHandshake
  DEF VectorIInv, VectorTypeOK, HandshakeInv, Accepting, Loading

LEMMA StepVectorIInv == VectorIInv /\ [VectorNext]_ch => VectorIInv'
<1>. SUFFICES ASSUME VectorIInv, [VectorNext]_ch
              PROVE  VectorIInv'
  OBVIOUS
<1>1. CASE VectorIClk
  BY <1>1, VectorIClkStep DEF VectorIClk
<1>2. CASE VectorOClk
  BY <1>2, VectorOClkStep
<1>3. CASE VectorBothClks
  BY <1>3, VectorBothClksStep DEF VectorBothClks
<1>4. CASE UNCHANGED ch
  BY <1>4 DEF VectorIInv, VectorTypeOK, HandshakeInv
<1>. QED
  BY <1>1, <1>2, <1>3, <1>4 DEF VectorNext

(* Registers keep their width and the channel its fields.                  *)
THEOREM VectorTypeCorrect == VectorSpec => []VectorTypeOK
<1>1. VectorIInv => VectorTypeOK
  BY DEF VectorIInv
<1>. QED
  BY <1>1, InitVectorIInv, StepVectorIInv, PTL DEF VectorSpec

(* At most one toggle travels round the ring of en_iclk, the two           *)
(* synchronisers and their odata, and i_tready is up exactly when none is. *)
THEOREM HandshakeCorrect == VectorSpec => []HandshakeInv
<1>1. VectorIInv => HandshakeInv
  BY DEF VectorIInv
<1>. QED
  BY <1>1, InitVectorIInv, StepVectorIInv, PTL DEF VectorSpec

LEMMA ImpliesNoTornSample == VectorIInv => NoTornSample
<1>. SUFFICES ASSUME VectorIInv
              PROVE  NoTornSample
  OBVIOUS
<1>1. PICK k \in 1 .. RingEnd + 1 : HandshakeAt(ch, k)
  BY DEF VectorIInv, HandshakeInv, OneToggle
<1>2. /\ Opulse(ch.ackogen) <=> (k = SYNC_STAGES + 1)
      /\ ch.i_tready <=> (k = RingEnd + 1)
  BY <1>1, HandshakeSignals DEF VectorIInv, VectorTypeOK
<1>. QED
  BY <1>2 DEF NoTornSample, RingEnd

(* The unsynchronised word i_reg is only sampled while it cannot change.   *)
THEOREM NeverTorn == VectorSpec => []NoTornSample
BY ImpliesNoTornSample, InitVectorIInv, StepVectorIInv, PTL DEF VectorSpec
-----------------------------------------------------------------------------
(* The refinement: an edge that accepts is Put, an edge that loads o is    *)
(* Show, any other edge is a stuttering step of the mailbox.               *)
LEMMA RefineInit == VectorInit => Box!Init
<1>. SUFFICES ASSUME NEW x \in Value, NEW y \in Value,
                     ch = VectorPowerUp(x, y)
              PROVE  Box!Init
  BY DEF VectorInit
<1>1. ch.en_iclk = 0 /\ ch.ackogen.odata = 0 /\ ch.o = y
  BY DEF VectorPowerUp, PulsePowerUp
<1>. QED
  BY <1>1 DEF Box!Init, Pending

LEMMA RefineAccept ==
  ASSUME VectorIInv, NEW valid \in BOOLEAN, NEW v \in Value,
         Accepting(valid, v), ch.ackogen.odata' = ch.ackogen.odata,
         ch.o' = ch.o
  PROVE  [Box!Next]_(Box!vars)
<1>1. PICK k \in 1 .. RingEnd + 1 : HandshakeAt(ch, k)
  BY DEF VectorIInv, HandshakeInv, OneToggle
<1>2. ch \in VectorType(Value) /\ ch.en_iclk \in Bit
  BY DEF VectorIInv, VectorTypeOK, VectorType
<1>3. CASE Accepts(ch, valid)
  <2>1. ch.ackogen.odata = ch.en_iclk
    BY <1>1, <1>2, <1>3, HandshakeSignals DEF Accepts, RingEnd
  <2>2. ch.en_iclk' # ch.ackogen.odata'
    BY <1>2, <1>3, <2>1 DEF Accepting, Bit
  <2>3. Pending = Empty /\ Pending' = v
    BY <1>3, <2>1, <2>2 DEF Pending, Accepting
  <2>4. Box!Put(v)
    BY <2>3 DEF Box!Put
  <2>. QED
    BY <2>4 DEF Box!Next
<1>4. CASE ~ Accepts(ch, valid)
  BY <1>4 DEF Accepting, Pending, Box!vars
<1>. QED
  BY <1>3, <1>4

LEMMA RefineLoad ==
  ASSUME VectorIInv, Loading, ch.en_iclk' = ch.en_iclk, ch.i_reg' = ch.i_reg,
         Empty \notin Value
  PROVE  [Box!Next]_(Box!vars)
<1>1. PICK k \in 1 .. RingEnd + 1 : HandshakeAt(ch, k)
  BY DEF VectorIInv, HandshakeInv, OneToggle
<1>2. /\ ch \in VectorType(Value)
      /\ ch.en_iclk \in Bit
      /\ ch.i_reg \in Value
  BY DEF VectorIInv, VectorTypeOK, VectorType
<1>3. /\ ch.ackogen.odata =
           IF k > SYNC_STAGES + 1 THEN ch.en_iclk ELSE 1 - ch.en_iclk
      /\ Synced(ch.ackogen) =
           IF k > SYNC_STAGES THEN ch.en_iclk ELSE 1 - ch.en_iclk
      /\ Opulse(ch.ackogen) <=> (k = SYNC_STAGES + 1)
  BY <1>1, <1>2, HandshakeSignals
<1>4. CASE Opulse(ch.ackogen)
  <2>1. ch.ackogen.odata # ch.en_iclk /\ Synced(ch.ackogen) = ch.en_iclk
    BY <1>2, <1>3, <1>4 DEF Bit
  <2>2. Pending = ch.i_reg /\ Pending' = Empty
    BY <2>1 DEF Pending, Loading
  <2>3. Box!Show
    BY <1>2, <1>4, <2>2 DEF Box!Show, Loading
  <2>. QED
    BY <2>3 DEF Box!Next
<1>5. CASE ~ Opulse(ch.ackogen)
  <2>1. ch.ackogen.odata' = ch.ackogen.odata /\ ch.o' = ch.o
    BY <1>5 DEF Loading, Opulse
  <2>. QED
    BY <2>1 DEF Pending, Box!vars
<1>. QED
  BY <1>4, <1>5

LEMMA RefineBoth ==
  ASSUME VectorIInv, NEW valid \in BOOLEAN, NEW v \in Value,
         Accepting(valid, v), Loading, Empty \notin Value
  PROVE  [Box!Next]_(Box!vars)
<1>1. PICK k \in 1 .. RingEnd + 1 : HandshakeAt(ch, k)
  BY DEF VectorIInv, HandshakeInv, OneToggle
<1>2. ch \in VectorType(Value)
  BY DEF VectorIInv, VectorTypeOK
<1>3. CASE Accepts(ch, valid)
  <2>1. ~ Opulse(ch.ackogen)
    BY <1>1, <1>2, <1>3, HandshakeSignals DEF Accepts, RingEnd
  <2>2. ch.ackogen.odata' = ch.ackogen.odata /\ ch.o' = ch.o
    BY <2>1 DEF Loading, Opulse
  <2>. QED
    BY <2>2, RefineAccept
<1>4. CASE ~ Accepts(ch, valid)
  BY <1>4, RefineLoad DEF Accepting
<1>. QED
  BY <1>3, <1>4

LEMMA RefineStep ==
  VectorIInv /\ [VectorNext]_ch /\ Empty \notin Value => [Box!Next]_(Box!vars)
<1>. SUFFICES ASSUME VectorIInv, [VectorNext]_ch, Empty \notin Value
              PROVE  [Box!Next]_(Box!vars)
  OBVIOUS
<1>1. CASE VectorIClk
  <2>1. PICK valid \in BOOLEAN, v \in Value : ch' = InputEdgeAlone(ch, valid, v)
    BY <1>1 DEF VectorIClk
  <2>. QED
    BY <2>1, VectorIClkStep, RefineAccept
<1>2. CASE VectorOClk
  BY <1>2, VectorOClkStep, RefineLoad
<1>3. CASE VectorBothClks
  <2>1. PICK valid \in BOOLEAN, v \in Value :
          ch' \in CoincidingEdges(ch, valid, v, Value)
    BY <1>3 DEF VectorBothClks
  <2>. QED
    BY <2>1, VectorBothClksStep, RefineBoth
<1>4. CASE UNCHANGED ch
  BY <1>4 DEF Pending, Box!vars
<1>. QED
  BY <1>1, <1>2, <1>3, <1>4 DEF VectorNext

(* A cdc_vector is a mailbox: each accepted word is shown once and whole,  *)
(* before the next is accepted.                                            *)
THEOREM Refinement == VectorSpec => BoxSpec
BY RefineInit, RefineStep, InitVectorIInv, StepVectorIInv, NotAWordAssumption, PTL
DEF VectorSpec, BoxSpec, Box!Spec
=============================================================================
