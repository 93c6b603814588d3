-------------------------- MODULE AxisBench_proofs --------------------------
(***************************************************************************)
(* For every set of benches that AxisBench assumes (any two widths, but a  *)
(* wide word made of narrow ones is a whole number of them) and every      *)
(* clock period:                                                           *)
(* - A peripheral writes a pin only in the evaluation in which the clock   *)
(*   rises, and the model is evaluated again, with the clock high, before  *)
(*   the next rise.  So what is latched for the peripherals is what the    *)
(*   model's registers see.                                                *)
(* - What a packed source sends stays packed.                              *)
(* - Each byte is in one place, in order, from the source to the sink,     *)
(*   also when the converter loses the end of a packet, which takes a sink *)
(*   that stalls; as long as it has lost none, packets arrive whole.       *)
(*   Within an evaluation a peripheral that waits for its turn does not    *)
(*   know yet what the model has handed over; the invariant counts for it. *)
(***************************************************************************)
EXTENDS AxisBench, SequenceTheorems, FiniteSetTheorems, FunctionTheorems, TLAPS

USE TicksAssumption DEF TicksAssumption, Ticks, HalfClock

\* The model's outputs follow from its inputs and registers.
Settled == pins = [axis_i_tready |-> axis_i_tready, axis_o |-> axis_o]

\* Pins and model may disagree only until the tick after the rise.
IInv ==
  /\ time \in Ticks
  /\ clk = getVal(time)
  /\ axis_o_tready \in BOOLEAN
  /\ ~Rising => Settled

LEMMA HalfIsInside == HalfClock \in 1 .. TicksPerClock - 1
OBVIOUS

LEMMA InitIInv == Init => IInv
<1>. SUFFICES ASSUME Init
              PROVE  IInv
  OBVIOUS
<1>1. time \in Ticks
  BY DEF Init
<1>2. clk = getVal(time)
  <2>1. clk = FALSE /\ time = 0
    BY Zenon DEF Init
  <2>2. getVal(time) = FALSE
    BY <2>1, HalfIsInside DEF getVal
  <2>. QED
    BY <2>1, <2>2, Zenon
<1>3. axis_o_tready \in BOOLEAN
  BY DEF Init, SinkInit
<1>4. Settled
  BY DEF Init, Settled
<1>. QED
  BY <1>1, <1>2, <1>3, <1>4 DEF IInv

\* With the same clock and the same inputs the model's outputs are the same.
LEMMA SettledStays ==
  ASSUME IInv, UNCHANGED <<bench, time, clk, uut>>, axis_o_tready' \in BOOLEAN,
         ~Rising => UNCHANGED <<axis_i, axis_o_tready>>
  PROVE  IInv'
<1>1. time' \in Ticks /\ clk' = getVal(time)' /\ Rising' = Rising
  BY DEF IInv, Rising, getVal, getEvent
<1>2. ASSUME ~Rising  PROVE Settled'
  BY <1>2 DEF IInv, Settled, uut, axis_i_tready, axis_o, wide, WideLanes, CTR_HIGH, Widening
<1>. QED
  BY <1>1, <1>2 DEF IInv

LEMMA StepIInv == IInv /\ [Next]_vars => IInv'
<1>. SUFFICES ASSUME IInv, [Next]_vars
              PROVE  IInv'
  OBVIOUS
<1>1. CASE EvalModel
  <2>1. time' \in Ticks
    BY <1>1 DEF EvalModel, NextTick, IInv
  <2>2. clk' = getVal(time)'
    BY <1>1 DEF EvalModel, getVal
  <2>3. Settled'
    BY <1>1 DEF EvalModel, Settled
  <2>4. axis_o_tready' \in BOOLEAN
    BY <1>1 DEF EvalModel, sink, IInv
  <2>. QED
    BY <2>1, <2>2, <2>3, <2>4 DEF IInv
<1>2. CASE EvalReset
  BY <1>2, SettledStays DEF IInv, EvalReset, Turn, harness, source, sink
<1>3. CASE EvalSource
  BY <1>3, SettledStays DEF IInv, EvalSource, Turn, harness, source, sink
<1>4. CASE EvalSink
  <2>1. axis_o_tready' \in BOOLEAN
    BY <1>4 DEF EvalSink, IInv, Rising
  <2>2. ASSUME ~Rising  PROVE axis_o_tready' = axis_o_tready
    BY <1>4, <2>2 DEF EvalSink, IInv
  <2>3. UNCHANGED <<bench, time, clk, uut, axis_i>>
    BY <1>4 DEF EvalSink, Turn, harness, source
  <2>. QED
    BY <2>1, <2>2, <2>3, SettledStays
<1>5. CASE UNCHANGED vars
  BY <1>5, SettledStays DEF IInv, vars, harness, source, sink
<1>. QED
  BY <1>1, <1>2, <1>3, <1>4, <1>5 DEF Next

\* The clock rises in the tick before HalfClock, in which no event is told.
LEMMA SettledFromIInv == IInv => SettledBeforeEdge
<1>. SUFFICES ASSUME IInv, getVal(NextTick(time)), ~clk
              PROVE  Settled
  BY DEF SettledBeforeEdge, Settled
<1>1. ~getVal(time)
  BY Zenon DEF IInv
<1>2. time # HalfClock
  BY <1>1, HalfIsInside DEF IInv, getVal
<1>3. ~Rising
  BY <1>2 DEF Rising, getEvent
<1>. QED
  BY <1>3 DEF IInv

\* However the peripherals were registered, for all widths of BenchesAssumption
\* and every period: at a rising edge the model's pins are those of its last evaluation,
\* so peripherals and model agree on what is handed over
\* (VerilatedModel::eval and the latches of the peripherals).
THEOREM SettledCorrect == Spec => []SettledBeforeEdge
<1>. QED
  BY InitIInv, StepIInv, SettledFromIInv, PTL DEF Spec
-----------------------------------------------------------------------------
(* A packed source and a sink that insists on it                           *)

Tidy == bench.packed /\ bench.in <= bench.out

\* The bytes are in the first lanes, in all of them unless the packet ends.
PackedBeat(beat, n) ==
  \E k \in 0..n : /\ \A l \in 1..n : beat.tdata[l] # NoByte <=> l <= k
                  /\ ~beat.tlast => k = n

\* The register of the converter: the words taken are full.  The lanes of the
\* word that is on the pins hold anything.
Filled ==
  IF Widening
  THEN /\ ctr \in 0..CTR_HIGH
       /\ wide_reg \in [1..WideLanes -> Byte \cup {NoByte}]
       /\ \A l \in 1..WideLanes : /\ l <= ctr * bench.in => wide_reg[l] # NoByte
                                  /\ l > ctr * bench.in + bench.in => wide_reg[l] = NoByte
  ELSE ctr = 0

SourceInv ==
  /\ queue \in Seq(Seq(Byte)) /\ rest \in Seq(Byte)
  /\ axis_i \in Beat(bench.in)
  /\ axis_i.tvalid => sresetn /\ PackedBeat(axis_i, bench.in)

ResetInv ==
  /\ sresetn <=> Released(reset_count)
  /\ saved.sresetn => sresetn

\* The converter is in order from the edge at which the reset is released on.
BeatInv ==
  /\ sresetn \/ Rising => Filled
  /\ pins.axis_o.tvalid => PackedBeat(pins.axis_o, bench.out)
  /\ saved.beat.tvalid => PackedBeat(saved.beat, bench.out)

PackedInv ==
  /\ bench \in Benches
  /\ Tidy => SourceInv /\ ResetInv /\ (lost \/ (BeatInv /\ ~threw))

\* The lanes of the wider stream.
LEMMA Lanes ==
  ASSUME bench \in Benches
  PROVE  /\ bench.in \in Nat \ {0} /\ bench.out \in Nat \ {0}
         /\ Widening => /\ WideLanes = bench.out /\ CTR_HIGH \in Nat
                        /\ CTR_HIGH * bench.in + bench.in = bench.out
                        /\ \A c \in 0..CTR_HIGH : /\ c * bench.in + bench.in <= bench.out
                                                  /\ c * bench.in \in Nat
         /\ Tidy /\ ~Widening => bench.in = bench.out /\ CTR_HIGH = 0 /\ WideLanes = bench.out
<1>. DEFINE i == bench.in
            o == bench.out
<1>1. i \in Nat \ {0} /\ o \in Nat \ {0} /\ (i < o => o % i = 0)
  BY BenchesAssumption DEF BenchesAssumption, BenchType
<1>. HIDE DEF i, o
<1>2. CASE i < o
  <2>. DEFINE q == o \div i
  <2>1. o = q * i
    BY <1>1, <1>2
  <2>2. q \in Nat \ {0}
    BY <1>1, <1>2
  <2>. HIDE DEF q
  <2>3. (q * i - 1) \div i = q - 1
    BY <1>1, <2>2
  <2>4. (q - 1) * i + i = q * i
    BY <1>1, <2>2
  <2>5. ASSUME NEW c \in 0 .. q - 1  PROVE c * i + i <= q * i /\ c * i \in Nat
    <3>1. c * i <= (q - 1) * i /\ c * i \in Nat
      <4>1. ASSUME NEW a \in Nat, NEW b \in Nat, NEW w \in Nat, a <= b
            PROVE  a * w <= b * w /\ a * w \in Nat
        BY <4>1
      <4>2. c \in Nat /\ q - 1 \in Nat /\ c <= q - 1 /\ i \in Nat
        BY <1>1, <2>2
      <4>. QED
        BY ONLY <4>1, <4>2
    <3>. QED
      BY <1>1, <2>2, <2>4, <3>1
  <2>6. Widening /\ CTR_HIGH = q - 1 /\ WideLanes = (q - 1 + 1) * i
    BY <1>2, <2>1, <2>3 DEF Widening, CTR_HIGH, WideLanes, i, o
  <2>7. (q - 1 + 1) * i = o
    BY <2>1, <2>2
  <2>. QED
    BY <1>1, <2>1, <2>2, <2>4, <2>5, <2>6, <2>7 DEF i, o
<1>3. CASE ~(i < o)
  <2>1. Tidy => i = o
    BY <1>1, <1>3 DEF Tidy, i, o
  <2>2. (o - 1) \div o = 0
    BY <1>1
  <2>. QED
    BY <1>1, <1>3, <2>1, <2>2 DEF Widening, CTR_HIGH, WideLanes, i, o
<1>. QED
  BY <1>2, <1>3

\* What the converter offers is packed if its register is in order.
LEMMA OfferIsPacked ==
  ASSUME bench \in Benches, Tidy, Filled, axis_i \in Beat(bench.in), PackedBeat(axis_i, bench.in),
         axis_o.tvalid
  PROVE  PackedBeat(axis_o, bench.out)
<1>. USE Lanes
<1>1. PICK k \in 0..bench.in : /\ \A l \in 1..bench.in : axis_i.tdata[l] # NoByte <=> l <= k
                               /\ ~axis_i.tlast => k = bench.in
  BY DEF PackedBeat
<1>2. CASE Widening
  <2>1. PICK m \in Nat : m = ctr * bench.in
    BY <1>2 DEF Filled
  <2>2. m + bench.in <= bench.out /\ (ctr = CTR_HIGH => m + bench.in = bench.out)
    BY <1>2, <2>1 DEF Filled
  <2>3. ASSUME NEW l \in 1..bench.out  PROVE axis_o.tdata[l] # NoByte <=> l <= m + k
    <3>1. axis_o.tdata[l] = IF l - m \in 1..bench.in THEN axis_i.tdata[l - m] ELSE wide_reg[l]
      BY <1>2, <2>1 DEF axis_o, wide
    <3>2. /\ l <= m => wide_reg[l] # NoByte
          /\ l > m + bench.in => wide_reg[l] = NoByte
      BY <1>2, <2>1 DEF Filled
    <3>3. bench.in \in Nat /\ k \in Int /\ k <= bench.in /\ l \in Nat /\ m \in Nat /\ k >= 0
      BY <1>1, <2>1
    <3>4. CASE l - m \in 1..bench.in
      <4>1. axis_i.tdata[l - m] # NoByte <=> l - m <= k
        BY <1>1, <3>4
      <4>. QED
        BY ONLY <3>1, <3>3, <3>4, <4>1
    <3>5. CASE l - m \notin 1..bench.in
      BY ONLY <3>1, <3>2, <3>3, <3>5
    <3>. QED
      BY <3>4, <3>5
  <2>4. ~axis_o.tlast => m + k = bench.out
    BY <1>1, <1>2, <2>2 DEF axis_o
  <2>5. m + k \in 0..bench.out
    <3>1. bench.in \in Nat /\ bench.out \in Nat /\ k \in 0..bench.in /\ m \in Nat
      BY <1>1, <2>1
    <3>. QED
      BY ONLY <2>2, <3>1
  <2>. QED
    BY <2>3, <2>4, <2>5 DEF PackedBeat
<1>3. CASE ~Widening
  <2>1. axis_o.tlast <=> axis_i.tlast
    BY <1>3 DEF axis_o, Filled
  <2>2. \A l \in 1..bench.out : axis_o.tdata[l] = axis_i.tdata[l]
    BY <1>3 DEF axis_o, wide, Filled
  <2>. QED
    BY <1>1, <1>3, <2>1, <2>2 DEF PackedBeat
<1>. QED
  BY <1>2, <1>3

\* An edge of the clock leaves the register in order, or the packet's end is lost.
LEMMA FilledStep ==
  ASSUME bench \in Benches, bench' = bench, Tidy, sresetn => Filled, axis_i \in Beat(bench.in),
         axis_i.tvalid => sresetn /\ PackedBeat(axis_i, bench.in),
         ConverterEdge, ~lost'
  PROVE  Filled'
<1>. USE Lanes
<1>1. /\ Widening' = Widening /\ CTR_HIGH' = CTR_HIGH /\ WideLanes' = WideLanes
  BY DEF Widening, CTR_HIGH, WideLanes
<1>2. CASE ~Widening
  <2>1. ctr' = 0
    BY <1>2 DEF ConverterEdge, Filled, Takes, Gives, axis_i_tready, axis_o
  <2>. QED
    BY <1>1, <1>2, <2>1 DEF Filled
<1>3. CASE Widening /\ (~sresetn \/ Gives)
  <2>1. ctr' = 0 /\ wide_reg' = [l \in 1..WideLanes |-> NoByte]
    BY <1>3 DEF ConverterEdge
  <2>2. 0 \in 0..CTR_HIGH /\ 0 * bench.in = 0
    BY <1>3
  <2>. QED
    BY <1>1, <1>3, <2>1, <2>2 DEF Filled
<1>4. CASE Widening /\ sresetn /\ ~Gives
  <2>1. wide_reg' = wide /\ Filled
    BY <1>4 DEF ConverterEdge
  <2>2. PICK m \in Nat : m = ctr * bench.in /\ m + bench.in <= bench.out
    BY <1>4, <2>1 DEF Filled
  <2>3. \A l \in 1..WideLanes :
          wide[l] = IF l - m \in 1..bench.in THEN axis_i.tdata[l - m] ELSE wide_reg[l]
    BY <1>4, <2>2 DEF wide
  <2>4. wide \in [1..WideLanes -> Byte \cup {NoByte}]
    <3>1. \A l \in 1..bench.in : axis_i.tdata[l] \in Byte \cup {NoByte}
      BY DEF Beat
    <3>2. \A l \in 1..WideLanes : wide[l] \in Byte \cup {NoByte}
      BY <1>4, <2>1, <2>3, <3>1 DEF Filled
    <3>3. wide = [l \in 1..WideLanes |-> wide[l]]
      BY DEF wide
    <3>. QED
      BY <3>2, <3>3
  <2>5. CASE Takes
    <3>1. ~axis_i.tlast /\ PackedBeat(axis_i, bench.in)
      BY <1>4, <2>5 DEF ConverterEdge, LosesLast, Takes
    <3>2. \A l \in 1..bench.in : axis_i.tdata[l] # NoByte
      BY <3>1 DEF PackedBeat
    <3>3. ctr # CTR_HIGH
      BY <1>4, <2>5 DEF Takes, Gives, axis_i_tready, axis_o
    <3>4. ctr' = ctr + 1 /\ ctr' \in 0..CTR_HIGH /\ ctr' * bench.in = m + bench.in
      <4>1. ctr' = ctr + 1
        BY <1>4, <2>5 DEF ConverterEdge
      <4>2. ctr \in Nat /\ bench.in \in Nat
        BY <1>4, <2>1 DEF Filled
      <4>3. (ctr + 1) * bench.in = ctr * bench.in + bench.in
        <5>1. \A a, w \in Nat : (a + 1) * w = a * w + w
          OBVIOUS
        <5>. QED
          BY ONLY <4>2, <5>1
      <4>4. ctr \in 0..CTR_HIGH /\ CTR_HIGH \in Nat
        BY <1>4, <2>1 DEF Filled
      <4>5. ctr + 1 \in 0..CTR_HIGH
        BY ONLY <3>3, <4>4
      <4>. QED
        BY <2>2, <4>1, <4>3, <4>5
    <3>5. ASSUME NEW l \in 1..WideLanes
          PROVE  /\ l <= m + bench.in => wide[l] # NoByte
                 /\ l > m + bench.in + bench.in => wide[l] = NoByte
      <4>1. /\ wide[l] = IF l - m \in 1..bench.in THEN axis_i.tdata[l - m] ELSE wide_reg[l]
            /\ l <= m => wide_reg[l] # NoByte
            /\ l > m + bench.in => wide_reg[l] = NoByte
        BY <1>4, <2>1, <2>2, <2>3 DEF Filled
      <4>2. bench.in \in Nat /\ m \in Nat /\ l \in Nat
        BY <1>4
      <4>. QED
        BY ONLY <3>2, <4>1, <4>2
    <3>. QED
      BY <1>1, <1>4, <2>1, <2>4, <3>4, <3>5 DEF Filled
  <2>6. CASE ~Takes
    <3>1. ctr' = ctr
      BY <1>4, <2>6 DEF ConverterEdge
    <3>2. ASSUME NEW l \in 1..WideLanes
          PROVE  /\ l <= m => wide[l] # NoByte
                 /\ l > m + bench.in => wide[l] = NoByte
      <4>1. /\ wide[l] = IF l - m \in 1..bench.in THEN axis_i.tdata[l - m] ELSE wide_reg[l]
            /\ l <= m => wide_reg[l] # NoByte
            /\ l > m + bench.in => wide_reg[l] = NoByte
        BY <1>4, <2>1, <2>2, <2>3 DEF Filled
      <4>2. bench.in \in Nat /\ m \in Nat /\ l \in Nat
        BY <1>4
      <4>. QED
        BY ONLY <4>1, <4>2
    <3>. QED
      BY <1>1, <1>4, <2>1, <2>2, <2>4, <3>1, <3>2 DEF Filled
  <2>. QED
    BY <2>5, <2>6
<1>. QED
  BY <1>2, <1>3, <1>4

\* setupNextData with AXISSourceConfig::packed: the next bytes, from the first
\* lane on, as many as there are lanes unless it comes to the end.
LEMMA SourceStep ==
  ASSUME bench \in Benches, bench' = bench, Tidy, SourceInv, sresetn, sresetn', setupNextData
  PROVE  SourceInv'
<1>. DEFINE F == Fetched
<1>1. bench.in \in Nat \ {0}
  BY Lanes
<1>2. queue' \in Seq(Seq(Byte)) /\ F \in Seq(Byte)
  BY HeadTailProperties DEF SourceInv, setupNextData, receive, Fetched
<1>3. CASE F = <<>>
  BY <1>2, <1>3 DEF SourceInv, setupNextData, Beat
<1>4. CASE F # <<>>
  <2>. HIDE DEF F
  <2>1. PICK n \in Nat : n = IF Len(F) < bench.in THEN Len(F) ELSE bench.in
    BY <1>1, <1>2
  <2>2. n \in 1..bench.in /\ n <= Len(F) /\ Len(F) \in Nat /\ (n < Len(F) => n = bench.in)
    BY <1>1, <1>2, <1>4, <2>1
  <2>3. /\ rest' = SubSeq(F, Cardinality(1..n) + 1, Len(F))
        /\ axis_i' = [tvalid |-> TRUE, tlast |-> rest' = <<>>,
                      tdata |-> [l \in 1..bench.in |->
                                   IF l \in 1..n THEN F[NthLane(1..n, l)] ELSE NoByte]]
    BY <1>4, <2>1 DEF setupNextData, LanesUsed, Tidy, F
  <2>4. Cardinality(1..n) = n
    BY <2>2, FS_Interval
  <2>5. ASSUME NEW l \in 1..n  PROVE NthLane(1..n, l) = l
    <3>1. {k \in 1..n : k <= l} = 1..l
      BY <2>2
    <3>2. Cardinality(1..l) = l
      BY <2>2, FS_Interval
    <3>. QED
      BY <3>1, <3>2 DEF NthLane
  <2>6. \A l \in 1..n : F[l] \in Byte
    BY <1>2, <2>2, ElementOfSeq
  <2>. DEFINE d == [l \in 1..bench.in |-> IF l \in 1..n THEN F[l] ELSE NoByte]
  <2>7. axis_i' = [tvalid |-> TRUE, tlast |-> rest' = <<>>, tdata |-> d]
    BY <2>3, <2>5
  <2>8. /\ d \in [1..bench.in -> Byte \cup {NoByte}]
        /\ \A l \in 1..bench.in : d[l] # NoByte <=> l <= n
    BY <2>2, <2>6, BenchesAssumption DEF BenchesAssumption
  <2>9. rest' = SubSeq(F, n + 1, Len(F))
    BY <2>3, <2>4
  <2>10. rest' \in Seq(Byte) /\ (rest' = <<>> <=> n = Len(F))
    <3>1. \A i \in n + 1 .. Len(F) : F[i] \in Byte
      BY <1>2, <2>2, ElementOfSeq
    <3>2. SubSeq(F, n + 1, Len(F)) \in Seq(Byte)
      BY <1>2, <2>2, <3>1, SubSeqProperties
    <3>3. Len(SubSeq(F, n + 1, Len(F))) = IF n + 1 <= Len(F) THEN Len(F) - n ELSE 0
      BY <1>2, <2>2
    <3>4. SubSeq(F, n + 1, Len(F)) = <<>> <=> Len(SubSeq(F, n + 1, Len(F))) = 0
      BY <3>2, EmptySeq
    <3>5. Len(SubSeq(F, n + 1, Len(F))) = 0 <=> n = Len(F)
      BY ONLY <2>2, <3>3
    <3>. QED
      BY <2>9, <3>2, <3>4, <3>5
  <2>. HIDE DEF d
  <2>11. axis_i' \in Beat(bench.in)
    BY <2>7, <2>8 DEF Beat
  <2>12. PackedBeat(axis_i', bench.in)
    <3>1. axis_i'.tdata = d /\ (~axis_i'.tlast => n = bench.in)
      <4>1. axis_i'.tdata = d /\ axis_i'.tlast = (rest' = <<>>)
        BY <2>7
      <4>2. axis_i'.tlast <=> n = Len(F)
        BY ONLY <2>10, <4>1
      <4>. QED
        BY ONLY <2>2, <4>1, <4>2
    <3>. QED
      BY <2>2, <2>8, <3>1 DEF PackedBeat
  <2>. QED
    BY <1>2, <2>10, <2>11, <2>12 DEF SourceInv, PackedBeat
<1>. QED
  BY <1>3, <1>4

\* The sink does not complain of a packed beat.
LEMMA SinkAccepts ==
  ASSUME bench.out \in Nat, NEW beat, PackedBeat(beat, bench.out), Receive(beat)
  PROVE  threw' = threw
<1>1. ~Unpacked(beat)
  BY DEF Unpacked, PackedBeat
<1>. QED
  BY <1>1 DEF Receive

\* Between two evaluations of the model its registers and outputs stand still.
LEMMA PeripheralStep ==
  ASSUME PackedInv, UNCHANGED <<bench, time, uut, saved>>,
         Tidy => SourceInv' /\ ResetInv' /\ (lost \/ ~threw'),
         sresetn' => sresetn \/ Rising
  PROVE  PackedInv'
<1>1. ASSUME Tidy, ~lost  PROVE BeatInv'
  <2>1. BeatInv
    BY <1>1 DEF PackedInv
  <2>2. Filled' <=> Filled
    BY DEF Filled, uut, CTR_HIGH, WideLanes, Widening
  <2>3. Rising' <=> Rising
    BY DEF Rising
  <2>. QED
    BY <2>1, <2>2, <2>3 DEF BeatInv, PackedBeat, uut
<1>2. Tidy' <=> Tidy
  BY DEF Tidy
<1>. QED
  BY <1>1, <1>2 DEF PackedInv, uut

LEMMA InitPacked == Init => PackedInv
<1>. SUFFICES ASSUME Init, Tidy  PROVE SourceInv /\ ResetInv /\ BeatInv /\ ~threw
  BY DEF Init, PackedInv
<1>1. bench \in BenchType
  BY BenchesAssumption DEF Init, BenchesAssumption
<1>2. SourceInv
  BY <1>1 DEF Init, SourceInit, SourceInv, NoBeat, Beat, BenchType
<1>3. ResetInv
  <2>1. ~sresetn /\ reset_count = 0 /\ saved = Latched
    BY DEF Init, ResetInit
  <2>2. ~saved.sresetn
    BY <2>1 DEF Latched
  <2>3. ~Released(reset_count)
    BY <2>1 DEF Released, ResetEdges
  <2>. QED
    BY <2>1, <2>2, <2>3 DEF ResetInv
<1>4. BeatInv
  <2>1. ~axis_o.tvalid
    BY DEF Init, SourceInit, NoBeat, axis_o
  <2>2. ~sresetn /\ ~Rising
    BY HalfIsInside DEF Init, ResetInit, Rising, getEvent
  <2>. QED
    BY <2>1, <2>2 DEF Init, BeatInv, Latched
<1>. QED
  BY <1>2, <1>3, <1>4 DEF Init, SinkInit

LEMMA StepPacked == IInv /\ PackedInv /\ [Next]_vars => PackedInv'
<1>. SUFFICES ASSUME IInv, PackedInv, [Next]_vars
              PROVE  PackedInv'
  OBVIOUS
<1>1. CASE EvalModel
  <2>1. /\ UNCHANGED <<bench, axis_i, axis_o_tready, queue, rest, reset_count, sresetn, threw>>
        /\ saved' = Latched /\ pins' = [axis_i_tready |-> axis_i_tready', axis_o |-> axis_o']
        /\ time' = NextTick(time) /\ clk' = getVal(time')
    BY <1>1 DEF EvalModel, harness, source, sink, reset, latch
  <2>2. SUFFICES ASSUME Tidy  PROVE SourceInv' /\ ResetInv' /\ (lost' \/ (BeatInv' /\ ~threw'))
    BY <2>1 DEF PackedInv, Tidy
  <2>3. SourceInv /\ ResetInv /\ bench \in Benches
    BY <2>2 DEF PackedInv
  <2>4. SourceInv' /\ ResetInv'
    BY <2>1, <2>3 DEF SourceInv, ResetInv, PackedBeat, Latched
  <2>5. ASSUME ~lost'  PROVE BeatInv' /\ ~threw'
    <3>1. ~lost
      BY <1>1, <2>5 DEF EvalModel, ConverterEdge
    <3>2. BeatInv /\ ~threw
      BY <2>2, <3>1 DEF PackedInv
    <3>3. sresetn' \/ Rising' => Filled'
      <4>1. CASE clk' /\ ~clk
        <5>1. ConverterEdge
          BY <1>1, <4>1 DEF EvalModel
        <5>. QED
          BY <2>1, <2>2, <2>3, <2>5, <3>2, <5>1, FilledStep DEF SourceInv, BeatInv
      <4>2. CASE ~(clk' /\ ~clk)
        <5>1. UNCHANGED <<ctr, wide_reg>>
          BY <1>1, <4>2 DEF EvalModel
        <5>2. ~Rising'
          <6>1. time \in Ticks /\ (clk <=> getVal(time))
            BY DEF IInv
          <6>2. clk' <=> getVal(time')
            BY <2>1
          <6>3. time' = HalfClock => time = HalfClock - 1
            BY <2>1, <6>1, HalfIsInside DEF NextTick
          <6>4. time' = HalfClock => clk' /\ ~clk
            BY <6>1, <6>2, <6>3, HalfIsInside DEF getVal
          <6>. QED
            BY <4>2, <6>4, HalfIsInside DEF Rising, getEvent
        <5>3. Filled' <=> Filled
          BY <2>1, <5>1 DEF Filled, CTR_HIGH, WideLanes, Widening
        <5>. QED
          BY <2>1, <3>2, <5>2, <5>3 DEF BeatInv
      <4>. QED
        BY <4>1, <4>2
    <3>4. pins'.axis_o.tvalid => PackedBeat(pins'.axis_o, bench.out)
      <4>. SUFFICES ASSUME axis_o'.tvalid  PROVE PackedBeat(axis_o', bench.out)
        BY <2>1
      <4>1. axis_i'.tvalid
        BY DEF axis_o
      <4>2. Filled' /\ (axis_i \in Beat(bench.in))' /\ PackedBeat(axis_i, bench.in)'
        BY <2>4, <3>3, <4>1 DEF SourceInv
      <4>3. (bench \in Benches)' /\ Tidy'
        BY <2>1, <2>2, <2>3 DEF Tidy
      <4>4. (bench \in Benches /\ Tidy /\ Filled /\ axis_i \in Beat(bench.in) /\ PackedBeat(axis_i, bench.in)
             /\ axis_o.tvalid => PackedBeat(axis_o, bench.out))'
        BY OfferIsPacked, PTL
      <4>5. PackedBeat(axis_o, bench.out)'
        BY <4>2, <4>3, <4>4
      <4>. QED
        BY <2>1, <4>5 DEF PackedBeat
    <3>5. saved'.beat.tvalid => PackedBeat(saved'.beat, bench.out)
      BY <2>1, <3>2 DEF BeatInv, Latched
    <3>. QED
      BY <2>1, <3>2, <3>3, <3>4, <3>5 DEF BeatInv, PackedBeat
  <2>. QED
    BY <2>4, <2>5
<1>2. CASE EvalReset
  <2>1. UNCHANGED <<bench, time, uut, saved, queue, rest, axis_i, threw>>
    BY <1>2 DEF EvalReset, Turn, harness, source, sink
  <2>2. /\ reset_count' = ResetCount(reset_count, getEvent(time))
        /\ sresetn' = Released(reset_count')
    BY <1>2 DEF EvalReset
  <2>3. ResetInv => /\ ResetInv' /\ (sresetn => sresetn')
    <3>. SUFFICES ASSUME ResetInv  PROVE ResetInv' /\ (sresetn => sresetn')
      OBVIOUS
    <3>1. sresetn' <=> Released(reset_count')
      BY <2>2
    <3>2. Released(reset_count) => reset_count' = reset_count
      BY <2>2 DEF ResetCount, Released, ResetEdges
    <3>3. sresetn => sresetn'
      BY <3>1, <3>2 DEF ResetInv
    <3>. QED
      BY <2>1, <3>1, <3>3 DEF ResetInv
  <2>4. ResetInv => (sresetn' => sresetn \/ Rising)
    BY <2>2 DEF ResetInv, ResetCount, Released, Rising
  <2>5. ASSUME Tidy  PROVE SourceInv' /\ ResetInv' /\ (lost \/ ~threw')
    BY <2>1, <2>3, <2>5 DEF PackedInv, SourceInv, PackedBeat
  <2>6. CASE Tidy
    BY <2>1, <2>4, <2>5, <2>6, PeripheralStep DEF PackedInv
  <2>7. CASE ~Tidy
    BY <2>1, <2>7 DEF PackedInv, Tidy
  <2>. QED
    BY <2>6, <2>7
<1>3. CASE EvalSource
  <2>1. UNCHANGED <<bench, time, uut, saved, threw, reset_count, sresetn>>
    BY <1>3 DEF EvalSource, Turn, harness, sink, reset
  <2>2. ASSUME Tidy  PROVE SourceInv'
    <3>1. SourceInv /\ ResetInv /\ bench \in Benches
      BY <2>2 DEF PackedInv
    <3>2. CASE axis_i' = [axis_i EXCEPT !.tvalid = FALSE] /\ UNCHANGED <<queue, rest, begun>>
      BY <2>1, <3>1, <3>2 DEF SourceInv, Beat
    <3>3. CASE saved.sresetn /\ setupNextData
      BY <2>1, <2>2, <3>1, <3>3, SourceStep DEF ResetInv
    <3>4. CASE UNCHANGED source
      BY <2>1, <3>1, <3>4 DEF source, SourceInv, PackedBeat
    <3>. QED
      BY <1>3, <3>2, <3>3, <3>4 DEF EvalSource
  <2>3. ASSUME Tidy  PROVE ResetInv' /\ (lost \/ ~threw')
    BY <2>1, <2>3 DEF PackedInv, ResetInv
  <2>. QED
    BY <2>1, <2>2, <2>3, PeripheralStep
<1>4. CASE EvalSink
  <2>1. UNCHANGED <<bench, time, uut, saved, axis_i, queue, rest, reset_count, sresetn>>
    BY <1>4 DEF EvalSink, Turn, harness, source, reset
  <2>2. ASSUME Tidy  PROVE SourceInv' /\ ResetInv'
    BY <2>1, <2>2 DEF PackedInv, SourceInv, ResetInv, PackedBeat
  <2>3. ASSUME Tidy, ~lost  PROVE ~threw'
    <3>1. BeatInv /\ ~threw /\ bench.out \in Nat
      BY <2>3, Lanes DEF PackedInv
    <3>2. threw' = threw
      BY <1>4, <3>1, SinkAccepts DEF EvalSink, BeatInv
    <3>. QED
      BY <3>1, <3>2
  <2>. QED
    BY <2>1, <2>2, <2>3, PeripheralStep
<1>5. CASE UNCHANGED vars
  <2>1. UNCHANGED <<bench, time, uut, saved, axis_i, queue, rest, reset_count, sresetn, threw>>
    BY <1>5 DEF vars, harness, source, sink, reset
  <2>2. ASSUME Tidy  PROVE SourceInv' /\ ResetInv' /\ (lost \/ ~threw')
    BY <2>1, <2>2 DEF PackedInv, SourceInv, ResetInv, PackedBeat
  <2>. QED
    BY <2>1, <2>2, PeripheralStep
<1>. QED
  BY <1>1, <1>2, <1>3, <1>4, <1>5 DEF Next

\* For all widths of BenchesAssumption, all packets, all stalls and every order of the peripherals: AXISSink::eval throws none of its exceptions
\* about tkeep for what AXISSource::setupNextData packed and the converter
\* passed on.
THEOREM PackedIsAcceptedCorrect == Spec => []PackedIsAccepted
<1>1. PackedInv => PackedIsAccepted
  BY DEF PackedInv, PackedIsAccepted, Tidy
<1>. QED
  BY <1>1, InitIInv, StepIInv, InitPacked, StepPacked, PTL DEF Spec
-----------------------------------------------------------------------------
(* Chosen places of a sequence                                             *)

\* The places below a bound are as many as there are; the rank of a place is
\* one to one onto 1 .. how many places there are.
LEMMA Ranks ==
  ASSUME NEW m \in Nat, NEW places \in SUBSET (1..m)
  PROVE  /\ IsFiniteSet(places) /\ Cardinality(places) \in Nat
         /\ \A l \in places : NthLane(places, l) \in 1..Cardinality(places)
         /\ \A l, k \in places : NthLane(places, l) = NthLane(places, k) => l = k
         /\ \A n \in 1..Cardinality(places) : \E l \in places : NthLane(places, l) = n
<1>. DEFINE c == Cardinality(places)
            below(l) == {k \in places : k <= l}
<1>1. IsFiniteSet(places) /\ c \in Nat
  <2>1. IsFiniteSet(1..m)
    BY FS_Interval
  <2>2. IsFiniteSet(places)
    BY <2>1, FS_Subset
  <2>. QED
    BY <2>2, FS_CardinalityType
<1>2. \A l : IsFiniteSet(below(l)) /\ Cardinality(below(l)) \in Nat /\ Cardinality(below(l)) <= c
  <2>. TAKE l
  <2>1. below(l) \in SUBSET places
    OBVIOUS
  <2>. HIDE DEF below
  <2>. QED
    BY <1>1, <2>1, FS_Subset, FS_CardinalityType
<1>3. \A l \in places : NthLane(places, l) \in 1..c
  <2>. TAKE l \in places
  <2>1. below(l) # {}
    BY DEF below
  <2>2. Cardinality(below(l)) # 0
    BY <1>2, <2>1, FS_EmptySet
  <2>3. NthLane(places, l) = Cardinality(below(l))
    BY DEF NthLane
  <2>. HIDE DEF below, c
  <2>. QED
    BY <1>1, <1>2, <2>2, <2>3
<1>4. \A l, k \in places : NthLane(places, l) = NthLane(places, k) => l = k
  <2>1. ASSUME NEW l \in places, NEW k \in places, l < k, NthLane(places, l) = NthLane(places, k)
        PROVE  FALSE
    <3>1. below(l) \in SUBSET below(k) /\ k \in below(k) /\ k \notin below(l)
      <4>1. l \in Int /\ k \in Int /\ \A j \in places : j \in Int
        OBVIOUS
      <4>2. \A j \in places : j <= l => j <= k
        BY ONLY <2>1, <4>1
      <4>3. k <= k /\ ~(k <= l)
        BY ONLY <2>1, <4>1
      <4>. QED
        BY <2>1, <4>2, <4>3
    <3>2. Cardinality(below(l)) = Cardinality(below(k))
      BY <2>1 DEF NthLane
    <3>3. IsFiniteSet(below(k))
      BY <1>2
    <3>. HIDE DEF below
    <3>4. below(l) = below(k)
      BY <3>1, <3>2, <3>3, FS_Subset
    <3>. QED
      BY <3>1, <3>4
  <2>2. \A l, k \in places : l < k \/ k < l \/ k = l
    OBVIOUS
  <2>. QED
    BY <2>1, <2>2
<1>5. \A n \in 1..c : \E l \in places : NthLane(places, l) = n
  <2>. DEFINE f == [l \in places |-> NthLane(places, l)]
  <2>1. f \in Injection(places, 1..c)
    BY <1>3, <1>4 DEF Injection, IsInjective
  <2>2. IsFiniteSet(1..c) /\ Cardinality(1..c) = c
    BY <1>1, FS_Interval
  <2>. HIDE DEF f
  <2>3. f \in Surjection(places, 1..c)
    BY <1>1, <2>1, <2>2, FS_Injection DEF c
  <2>4. \A n \in 1..c : \E l \in places : f[l] = n
    BY <2>3 DEF Surjection
  <2>. QED
    BY <2>4 DEF f
<1>. QED
  BY <1>1, <1>3, <1>4, <1>5

\* What makes up the chosen part of a sequence.
LEMMA ChosenAt ==
  ASSUME NEW m \in Nat, NEW places \in SUBSET (1..m), NEW s, NEW l \in places
  PROVE  Chosen(s, places)[NthLane(places, l)] = s[l]
<1>1. NthLane(places, l) \in 1..Cardinality(places)
  BY Ranks
<1>2. (CHOOSE k \in places : NthLane(places, k) = NthLane(places, l)) = l
  BY Ranks
<1>. QED
  BY <1>1, <1>2 DEF Chosen

LEMMA ChosenIsFunction ==
  ASSUME NEW s, NEW places
  PROVE  Chosen(s, places) = [n \in 1..Cardinality(places) |-> Chosen(s, places)[n]]
BY DEF Chosen

LEMMA ChosenType ==
  ASSUME NEW m \in Nat, NEW places \in SUBSET (1..m), NEW s, NEW S, \A l \in places : s[l] \in S
  PROVE  Chosen(s, places) \in Seq(S) /\ Len(Chosen(s, places)) = Cardinality(places)
<1>. DEFINE c == Cardinality(places)
            f == Chosen(s, places)
<1>1. c \in Nat
  BY Ranks
<1>2. f = [n \in 1..c |-> f[n]]
  BY ChosenIsFunction
<1>3. ASSUME NEW n \in 1..c  PROVE f[n] \in S
  <2>1. PICK l \in places : NthLane(places, l) = n
    BY Ranks
  <2>. QED
    BY <2>1, ChosenAt
<1>. HIDE DEF f, c
<1>4. f \in [1..c -> S]
  BY <1>2, <1>3
<1>. QED
  BY <1>1, <1>4 DEF f, c

\* A sequence with the right elements in the right places is the chosen part.
Lists(f, s, places) ==
  /\ f = [n \in 1..Cardinality(places) |-> f[n]]
  /\ \A l \in places : f[NthLane(places, l)] = s[l]

LEMMA ChosenUnique ==
  ASSUME NEW m \in Nat, NEW places \in SUBSET (1..m), NEW s, NEW f, Lists(f, s, places)
  PROVE  Chosen(s, places) = f
<1>. DEFINE c == Cardinality(places)
<1>1. \A n \in 1..c : \E l \in places : NthLane(places, l) = n
  BY Ranks, Zenon
<1>2. \A l \in places : Chosen(s, places)[NthLane(places, l)] = s[l]
  BY ChosenAt, Zenon
<1>3. \A n \in 1..c : Chosen(s, places)[n] = f[n]
  BY <1>1, <1>2, Zenon DEF Lists
<1>4. Chosen(s, places) = [n \in 1..c |-> Chosen(s, places)[n]]
  BY ChosenIsFunction, Zenon
<1>5. f = [n \in 1..c |-> f[n]]
  BY Zenon DEF Lists
<1>. HIDE DEF c
<1>. QED
  BY <1>3, <1>4, <1>5

\* The places of a concatenation that are chosen below a bound in its second part.
LEMMA RanksAfter ==
  ASSUME NEW a \in Nat, NEW b \in Nat, NEW first \in SUBSET (1..a), NEW second \in SUBSET (1..b),
         NEW all \in SUBSET (1 .. a + b),
         \A i \in 1..a : i \in all <=> i \in first,
         \A j \in 1..b : a + j \in all <=> j \in second,
         NEW j \in 0..b
  PROVE  NthLane(all, a + j) = Cardinality(first) + NthLane(second, j)
<1>. DEFINE lower == {k \in second : k <= j}
            upper == {k \in all : a < k /\ k <= a + j}
<1>1. {k \in all : k <= a + j} = first \cup upper
  <2>1. \A k \in first : k \in all /\ k <= a + j
    OBVIOUS
  <2>2. \A k \in all : k <= a => k \in first
    OBVIOUS
  <2>3. \A k \in all : k \in Nat
    OBVIOUS
  <2>4. \A k \in first : k \in Nat
    OBVIOUS
  <2>5. ASSUME NEW k  PROVE k \in {i \in all : i <= a + j} <=> k \in first \cup upper
    <3>1. CASE k \in all
      <4>1. k \in Nat /\ a \in Nat /\ j \in Nat
        BY <2>3, <3>1
      <4>2. k <= a + j <=> (k <= a \/ (a < k /\ k <= a + j))
        BY ONLY <4>1
      <4>3. k <= a <=> k \in first
        BY <2>2, <3>1
      <4>. QED
        BY <3>1, <4>2, <4>3
    <3>2. CASE k \notin all
      BY <2>1, <3>2
    <3>. QED
      BY <3>1, <3>2
  <2>. HIDE DEF upper
  <2>. QED
    BY <2>5
<1>2. first \cap upper = {}
  <2>1. \A k \in first : ~(a < k)
    OBVIOUS
  <2>. QED
    BY <2>1
<1>3. IsFiniteSet(first) /\ IsFiniteSet(lower) /\ IsFiniteSet(upper)
  <2>1. lower \in SUBSET (1..b) /\ upper \in SUBSET (1 .. a + b)
    OBVIOUS
  <2>2. IsFiniteSet(1..a) /\ IsFiniteSet(1..b) /\ IsFiniteSet(1 .. a + b)
    BY FS_Interval
  <2>. HIDE DEF lower, upper
  <2>. QED
    BY <2>1, <2>2, FS_Subset
<1>4. Cardinality(upper) = Cardinality(lower)
  <2>. DEFINE f == [k \in lower |-> a + k]
  <2>1. \A k \in lower : a + k \in upper
    OBVIOUS
  <2>2. \A k \in upper : k - a \in lower /\ a + (k - a) = k
    OBVIOUS
  <2>3. \A k, l \in lower : a + k = a + l => k = l
    OBVIOUS
  <2>. HIDE DEF lower, upper
  <2>4. f \in [lower -> upper]
    BY <2>1
  <2>5. f \in Injection(lower, upper)
    BY <2>3, <2>4 DEF Injection, IsInjective
  <2>6. f \in Surjection(lower, upper)
    BY <2>2, <2>4 DEF Surjection
  <2>7. ExistsBijection(lower, upper)
    BY <2>5, <2>6 DEF ExistsBijection, Bijection
  <2>. QED
    BY <1>3, <2>7, FS_Bijection
<1>5. Cardinality(first \cup upper) = Cardinality(first) + Cardinality(upper) - 0
  <2>. HIDE DEF upper
  <2>. QED
    BY <1>2, <1>3, FS_Union, FS_EmptySet
<1>6. Cardinality(first) \in Nat /\ Cardinality(lower) \in Nat
  BY <1>3, FS_CardinalityType
<1>7. NthLane(second, j) = Cardinality(lower) /\ NthLane(all, a + j) = Cardinality(first \cup upper)
  BY <1>1 DEF NthLane
<1>. HIDE DEF lower, upper
<1>. QED
  BY <1>4, <1>5, <1>6, <1>7

\* Places of two sequences, of lengths a and b, and of their concatenation.
Splits(all, first, second, a, b) ==
  /\ first \in SUBSET (1..a) /\ second \in SUBSET (1..b) /\ all \in SUBSET (1 .. a + b)
  /\ \A i \in 1 .. a + b : i \in all <=> IF i <= a THEN i \in first ELSE i - a \in second

\* What is chosen of a concatenation is the concatenation of what is chosen.
LEMMA ChosenConcat ==
  ASSUME NEW S, NEW s \in Seq(S), NEW t \in Seq(S),
         NEW first, NEW second, NEW all, Splits(all, first, second, Len(s), Len(t))
  PROVE  Chosen(s \o t, all) = Chosen(s, first) \o Chosen(t, second)
<1>. DEFINE a == Len(s)
            b == Len(t)
            c == Cardinality(first)
            d == Cardinality(second)
            f == Chosen(s, first)
            g == Chosen(t, second)
<1>1. a \in Nat /\ b \in Nat /\ a + b \in Nat
  OBVIOUS
<1>0. Splits(all, first, second, a, b)
  OBVIOUS
<1>2. (\A l \in first : s[l] \in S) /\ (\A l \in second : t[l] \in S)
  BY ElementOfSeq DEF Splits
<1>3. \A i \in 1 .. a + b : (s \o t)[i] = IF i <= a THEN s[i] ELSE t[i - a]
  BY ConcatProperties
<1>. HIDE DEF a, b
<1>4. first \in SUBSET (1..a) /\ second \in SUBSET (1..b) /\ all \in SUBSET (1 .. a + b)
  BY <1>0 DEF Splits
<1>5. c \in Nat /\ d \in Nat
  BY ONLY <1>1, <1>4, Ranks
<1>6. f \in Seq(S) /\ Len(f) = c /\ g \in Seq(S) /\ Len(g) = d
  BY ONLY <1>1, <1>2, <1>4, ChosenType
<1>7. (\A i \in 1..a : i \in all <=> i \in first) /\ (\A j \in 1..b : a + j \in all <=> j \in second)
  <2>1. \A i \in 1 .. a + b : i \in all <=> IF i <= a THEN i \in first ELSE i - a \in second
    BY <1>0 DEF Splits
  <2>2. \A i \in 1..a : i \in 1 .. a + b /\ i <= a
    BY ONLY <1>1
  <2>3. \A j \in 1..b : a + j \in 1 .. a + b /\ ~(a + j <= a) /\ (a + j) - a = j
    BY ONLY <1>1
  <2>4. ASSUME NEW j \in 1..b  PROVE a + j \in all <=> j \in second
    <3>1. PICK k \in 1 .. a + b : k = a + j /\ ~(k <= a) /\ k - a = j
      BY <2>3
    <3>. QED
      BY <2>1, <3>1
  <2>. QED
    BY <2>1, <2>2, <2>4
<1>8. \A j \in 0..b : NthLane(all, a + j) = c + NthLane(second, j)
  BY ONLY <1>1, <1>4, <1>7, RanksAfter
<1>9. Cardinality(all) = c + d
  <2>1. (\A k \in all : k <= a + b) /\ (\A k \in second : k <= b)
    BY ONLY <1>1, <1>4
  <2>2. {k \in all : k <= a + b} = all /\ {k \in second : k <= b} = second
    BY <2>1
  <2>3. NthLane(all, a + b) = c + NthLane(second, b)
    BY <1>1, <1>8
  <2>. QED
    BY ONLY <2>2, <2>3 DEF NthLane
<1>10. (\A l \in first : f[NthLane(first, l)] = s[l]) /\ (\A l \in second : g[NthLane(second, l)] = t[l])
  <2>1. \A l \in first : Chosen(s, first)[NthLane(first, l)] = s[l]
    BY ONLY <1>1, <1>4, ChosenAt
  <2>2. \A l \in second : Chosen(t, second)[NthLane(second, l)] = t[l]
    BY ONLY <1>1, <1>4, ChosenAt
  <2>. QED
    BY <2>1, <2>2
<1>11. (\A l \in first : NthLane(first, l) \in 1..c) /\ (\A l \in second : NthLane(second, l) \in 1..d)
  BY ONLY <1>1, <1>4, Ranks
<1>. HIDE DEF c, d, f, g
<1>12. f \o g \in Seq(S) /\ Len(f \o g) = c + d /\ \A i \in 1 .. c + d : (f \o g)[i] = IF i <= c THEN f[i] ELSE g[i - c]
  BY ONLY <1>6, ConcatProperties
<1>13. ASSUME NEW l \in all  PROVE (f \o g)[NthLane(all, l)] = (s \o t)[l]
  <2>. l \in 1 .. a + b
    BY ONLY <1>1, <1>4, l \in all
  <2>1. CASE l <= a
    <3>1. l \in 1..a /\ l \in first
      BY ONLY <1>1, <1>7, <2>1, l \in all, l \in 1 .. a + b
    <3>2. {k \in all : k <= l} = {k \in first : k <= l}
      <4>1. \A k \in all : k \in Int /\ (k <= a => k \in first)
        BY ONLY <1>1, <1>4, <1>7
      <4>2. \A k \in first : k \in all
        BY ONLY <1>1, <1>4, <1>7
      <4>3. \A k \in Int : k <= l => k <= a
        BY ONLY <1>1, <3>1
      <4>. QED
        BY ONLY <4>1, <4>2, <4>3
    <3>3. PICK n \in 1..c : n = NthLane(first, l) /\ NthLane(all, l) = n /\ f[n] = s[l]
      BY ONLY <1>10, <1>11, <3>1, <3>2 DEF NthLane
    <3>4. (f \o g)[n] = f[n]
      BY ONLY <1>5, <1>12, n \in 1..c
    <3>5. (s \o t)[l] = s[l]
      BY ONLY <1>3, <2>1, l \in 1 .. a + b
    <3>. QED
      BY <3>3, <3>4, <3>5
  <2>2. CASE ~(l <= a)
    <3>1. PICK j \in 1..b : l = a + j
      <4>1. l - a \in 1..b /\ l = a + (l - a)
        BY ONLY <1>1, <2>2, l \in 1 .. a + b
      <4>. QED
        BY <4>1
    <3>2. j \in second /\ j \in 0..b
      BY ONLY <1>7, <3>1, l \in all, j \in 1..b
    <3>3. PICK n \in 1..d : n = NthLane(second, j) /\ NthLane(all, l) = c + n /\ g[n] = t[j]
      BY ONLY <1>8, <1>10, <1>11, <3>1, <3>2
    <3>4. (f \o g)[c + n] = g[n]
      <4>1. c + n \in 1 .. c + d /\ ~(c + n <= c) /\ (c + n) - c = n
        BY ONLY <1>5, n \in 1..d
      <4>. QED
        BY ONLY <1>12, <4>1
    <3>5. (s \o t)[l] = t[j]
      <4>1. (a + j) - a = j
        BY ONLY <1>1, j \in 1..b
      <4>. QED
        BY ONLY <1>3, <2>2, <3>1, <4>1, l \in 1 .. a + b
    <3>. QED
      BY <3>3, <3>4, <3>5
  <2>. QED
    BY <2>1, <2>2
<1>14. PICK m \in Nat : m = a + b
  BY ONLY <1>1
<1>15. f \o g = [n \in 1..Cardinality(all) |-> (f \o g)[n]]
  <2>1. f \o g \in [1 .. Len(f \o g) -> S]
    BY ONLY <1>12, LenProperties
  <2>2. Len(f \o g) = Cardinality(all)
    BY ONLY <1>9, <1>12
  <2>. QED
    BY ONLY <2>1, <2>2
<1>16. Lists(f \o g, s \o t, all)
  BY ONLY <1>13, <1>15, Zenon DEF Lists
<1>17. Chosen(s \o t, all) = f \o g
  BY ONLY m \in Nat, <1>4, <1>14, <1>16, ChosenUnique
<1>. QED
  BY ONLY <1>17 DEF f, g

\* Where nothing is chosen there is nothing.
LEMMA NothingChosen ==
  ASSUME NEW s  PROVE Chosen(s, {}) = <<>>
<1>1. Cardinality({}) = 0
  BY FS_EmptySet
<1>2. Chosen(s, {}) \in Seq({}) /\ Len(Chosen(s, {})) = 0
  <2>1. {} \in SUBSET (1..0) /\ \A l \in {} : s[l] \in {}
    OBVIOUS
  <2>. QED
    BY ONLY <1>1, <2>1, 0 \in Nat, ChosenType
<1>. QED
  BY <1>2, EmptySeq

Lane == Byte \cup {NoByte}

LEMMA KeptType ==
  ASSUME NEW s \in Seq(Lane)
  PROVE  Kept(s) \in Seq(Byte)
<1>. DEFINE places == {l \in DOMAIN s : s[l] # NoByte}
<1>1. Len(s) \in Nat /\ places \in SUBSET (1..Len(s))
  OBVIOUS
<1>2. \A l \in places : s[l] \in Byte
  BY ElementOfSeq DEF Lane
<1>. HIDE DEF places
<1>3. Chosen(s, places) \in Seq(Byte)
  BY <1>1, <1>2, ChosenType
<1>. QED
  BY <1>3 DEF Kept, places

LEMMA KeptConcat ==
  ASSUME NEW s \in Seq(Lane), NEW t \in Seq(Lane)
  PROVE  Kept(s \o t) = Kept(s) \o Kept(t)
<1>. DEFINE in(x) == {l \in DOMAIN x : x[l] # NoByte}
<1>1. /\ s \o t \in Seq(Lane) /\ Len(s \o t) = Len(s) + Len(t)
      /\ \A i \in 1 .. Len(s) + Len(t) : (s \o t)[i] = IF i <= Len(s) THEN s[i] ELSE t[i - Len(s)]
  BY ConcatProperties
<1>2. in(s) \in SUBSET (1..Len(s)) /\ in(t) \in SUBSET (1..Len(t)) /\ in(s \o t) \in SUBSET (1 .. Len(s) + Len(t))
  BY <1>1
<1>3. \A i \in 1 .. Len(s) + Len(t) :
        i \in in(s \o t) <=> IF i <= Len(s) THEN i \in in(s) ELSE i - Len(s) \in in(t)
  BY <1>1
<1>. HIDE DEF in
<1>4. Splits(in(s \o t), in(s), in(t), Len(s), Len(t))
  BY <1>2, <1>3 DEF Splits
<1>5. Chosen(s \o t, in(s \o t)) = Chosen(s, in(s)) \o Chosen(t, in(t))
  BY <1>4, ChosenConcat
<1>. QED
  BY <1>5 DEF Kept, in

LEMMA NothingKept ==
  ASSUME NEW s \in Seq(Lane), \A l \in 1..Len(s) : s[l] = NoByte
  PROVE  Kept(s) = <<>>
<1>1. {l \in DOMAIN s : s[l] # NoByte} = {}
  OBVIOUS
<1>. QED
  BY <1>1, NothingChosen DEF Kept

LEMMA NonEmptyType ==
  ASSUME NEW s \in Seq(Seq(Byte))
  PROVE  NonEmpty(s) \in Seq(Seq(Byte))
<1>. DEFINE places == {l \in DOMAIN s : s[l] # <<>>}
<1>1. Len(s) \in Nat /\ places \in SUBSET (1..Len(s))
  OBVIOUS
<1>2. \A l \in places : s[l] \in Seq(Byte)
  BY ElementOfSeq
<1>. HIDE DEF places
<1>3. Chosen(s, places) \in Seq(Seq(Byte))
  BY <1>1, <1>2, ChosenType
<1>. QED
  BY <1>3 DEF NonEmpty, places

LEMMA NonEmptyConcat ==
  ASSUME NEW s \in Seq(Seq(Byte)), NEW t \in Seq(Seq(Byte))
  PROVE  NonEmpty(s \o t) = NonEmpty(s) \o NonEmpty(t)
<1>. DEFINE in(x) == {l \in DOMAIN x : x[l] # <<>>}
<1>1. /\ s \o t \in Seq(Seq(Byte)) /\ Len(s \o t) = Len(s) + Len(t)
      /\ \A i \in 1 .. Len(s) + Len(t) : (s \o t)[i] = IF i <= Len(s) THEN s[i] ELSE t[i - Len(s)]
  BY ConcatProperties
<1>2. in(s) \in SUBSET (1..Len(s)) /\ in(t) \in SUBSET (1..Len(t)) /\ in(s \o t) \in SUBSET (1 .. Len(s) + Len(t))
  BY <1>1
<1>3. \A i \in 1 .. Len(s) + Len(t) :
        i \in in(s \o t) <=> IF i <= Len(s) THEN i \in in(s) ELSE i - Len(s) \in in(t)
  BY <1>1
<1>. HIDE DEF in
<1>4. Splits(in(s \o t), in(s), in(t), Len(s), Len(t))
  BY <1>2, <1>3 DEF Splits
<1>5. Chosen(s \o t, in(s \o t)) = Chosen(s, in(s)) \o Chosen(t, in(t))
  BY <1>4, ChosenConcat
<1>. QED
  BY <1>5 DEF NonEmpty, in

LEMMA NonEmptyOne ==
  ASSUME NEW p \in Seq(Byte)
  PROVE  NonEmpty(<<p>>) = IF p = <<>> THEN <<>> ELSE <<p>>
<1>. DEFINE places == {l \in DOMAIN <<p>> : <<p>>[l] # <<>>}
<1>1. CASE p = <<>>
  <2>1. places = {}
    BY <1>1
  <2>. QED
    BY <1>1, <2>1, NothingChosen DEF NonEmpty
<1>2. CASE p # <<>>
  <2>1. places = {1}
    BY <1>2
  <2>. HIDE DEF places
  <2>2. Cardinality(places) = 1 /\ places \in SUBSET (1..1)
    <3>1. Cardinality({1}) = 1
      BY FS_Singleton, Zenon
    <3>. QED
      BY <2>1, <3>1
  <2>3. {k \in places : k <= 1} = {1}
    BY <2>1
  <2>4. NthLane(places, 1) = 1
    BY <2>1, <2>2, <2>3 DEF NthLane
  <2>5. <<p>> = [n \in 1..1 |-> <<p>>[n]] /\ \A l \in places : <<p>>[NthLane(places, l)] = <<p>>[l]
    BY <2>1, <2>4
  <2>6. Lists(<<p>>, <<p>>, places)
    BY <2>2, <2>5, Zenon DEF Lists
  <2>7. Chosen(<<p>>, places) = <<p>>
    BY <2>2, <2>6, 1 \in Nat, ChosenUnique
  <2>. QED
    BY <1>2, <2>7 DEF NonEmpty, places
<1>. QED
  BY <1>1, <1>2
-----------------------------------------------------------------------------
(* Types                                                                   *)

\* The lanes of the wider stream if it is the source's.
LEMMA NarrowLanes ==
  ASSUME bench \in Benches, ~Widening
  PROVE  /\ bench.in \in Nat \ {0} /\ bench.out \in Nat \ {0} /\ CTR_HIGH \in Nat /\ WideLanes \in Nat
         /\ bench.in <= WideLanes /\ CTR_HIGH * bench.out < bench.in
         /\ CTR_HIGH * bench.out + bench.out = WideLanes
         /\ \A c \in 0..CTR_HIGH :
              /\ c * bench.out \in Nat /\ c * bench.out + bench.out <= WideLanes
              /\ c * bench.out <= CTR_HIGH * bench.out
              /\ (c + 1) * bench.out = c * bench.out + bench.out
              /\ c < CTR_HIGH => c * bench.out + bench.out <= CTR_HIGH * bench.out
<1>. DEFINE i == bench.in
            o == bench.out
            h == (i - 1) \div o
<1>1. i \in Nat \ {0} /\ o \in Nat \ {0}
  BY Lanes
<1>. HIDE DEF i, o
<1>2. h \in Nat /\ h * o <= i - 1 /\ i - 1 < h * o + o
  BY ONLY <1>1
<1>3. CTR_HIGH = h /\ WideLanes = (h + 1) * o
  BY DEF CTR_HIGH, WideLanes, i, o
<1>. HIDE DEF h
<1>4. \A a, b, w \in Nat : a <= b => a * w <= b * w
  OBVIOUS
<1>5. \A a, w \in Nat : a * w \in Nat /\ (a + 1) * w = a * w + w
  OBVIOUS
<1>6. h * o \in Nat /\ WideLanes = h * o + o
  BY ONLY <1>1, <1>2, <1>3, <1>5
<1>7. ASSUME NEW c \in 0..h
      PROVE  /\ c * o \in Nat /\ c * o + o <= WideLanes /\ c * o <= h * o
             /\ (c + 1) * o = c * o + o
             /\ c < h => c * o + o <= h * o
  <2>1. c \in Nat /\ c + 1 \in Nat /\ o \in Nat /\ h \in Nat /\ c <= h
    BY ONLY <1>1, <1>2, c \in 0..h
  <2>2. c * o <= h * o /\ c * o \in Nat /\ (c + 1) * o = c * o + o
    BY ONLY <1>4, <1>5, <2>1
  <2>3. c < h => (c + 1) * o <= h * o
    <3>1. c < h => c + 1 <= h
      BY ONLY <2>1
    <3>. QED
      BY ONLY <1>4, <2>1, <3>1
  <2>4. c * o + o <= h * o + o
    BY ONLY <1>6, <2>1, <2>2
  <2>. QED
    BY <1>6, <2>2, <2>3, <2>4
<1>8. i <= WideLanes /\ h * o < i /\ WideLanes \in Nat
  BY ONLY <1>1, <1>2, <1>6
<1>. QED
  BY <1>1, <1>2, <1>3, <1>6, <1>7, <1>8 DEF i, o

CtrType == ctr \in 0..CTR_HIGH /\ wide_reg \in [1..WideLanes -> Lane] /\ axis_i \in Beat(bench.in)

\* All lanes of the wider stream hold a byte or nothing, and the word at the
\* output lies within them.
LEMMA WideType ==
  ASSUME bench \in Benches, CtrType
  PROVE  /\ CTR_HIGH \in Nat /\ WideLanes \in Nat
         /\ wide \in [1..WideLanes -> Lane]
         /\ \A l \in 1..bench.out : (IF Widening THEN l ELSE ctr * bench.out + l) \in 1..WideLanes
<1>1. bench.in \in Nat /\ bench.out \in Nat /\ CTR_HIGH \in Nat /\ WideLanes \in Nat
  BY Lanes, NarrowLanes
<1>2. \A l \in 1..bench.in : axis_i.tdata[l] \in Lane
  BY DEF CtrType, Beat, Lane
<1>3. ASSUME NEW l \in 1..WideLanes  PROVE wide[l] \in Lane
  <2>1. CASE Widening
    BY <1>2, <2>1 DEF wide, CtrType
  <2>2. CASE ~Widening
    BY <1>1, <1>2, <2>2 DEF wide, Lane
  <2>. QED
    BY <2>1, <2>2
<1>4. ASSUME NEW l \in 1..bench.out
      PROVE  (IF Widening THEN l ELSE ctr * bench.out + l) \in 1..WideLanes
  <2>1. CASE Widening
    BY <2>1, Lanes
  <2>2. CASE ~Widening
    <3>1. PICK m \in Nat : m = ctr * bench.out /\ m + bench.out <= WideLanes
      BY <2>2, NarrowLanes DEF CtrType
    <3>2. m + l \in 1..WideLanes
      BY ONLY <1>1, <3>1, l \in 1..bench.out
    <3>. QED
      BY <2>2, <3>1, <3>2
  <2>. QED
    BY <2>1, <2>2
<1>5. wide = [l \in 1..WideLanes |-> wide[l]]
  BY DEF wide
<1>. QED
  BY <1>1, <1>3, <1>4, <1>5

\* What the model drives has the types of its pins.
LEMMA PinsType ==
  ASSUME bench \in Benches, CtrType, axis_o_tready \in BOOLEAN
  PROVE  axis_i_tready \in BOOLEAN /\ axis_o \in Beat(bench.out)
<1>1. axis_i_tready \in BOOLEAN
  BY Zenon DEF axis_i_tready
<1>2. axis_i.tvalid \in BOOLEAN /\ axis_i.tlast \in BOOLEAN
  BY DEF CtrType, Beat
<1>3. axis_o.tvalid \in BOOLEAN /\ axis_o.tlast \in BOOLEAN
  BY <1>2 DEF axis_o
<1>4. axis_o.tdata \in [1..bench.out -> Lane]
  <2>1. \A l \in 1..bench.out : wide[IF Widening THEN l ELSE ctr * bench.out + l] \in Lane
    BY WideType
  <2>2. axis_o.tdata = [l \in 1..bench.out |-> wide[IF Widening THEN l ELSE ctr * bench.out + l]]
    BY DEF axis_o
  <2>. QED
    BY ONLY <2>1, <2>2
<1>5. axis_o = [tvalid |-> axis_o.tvalid, tlast |-> axis_o.tlast, tdata |-> axis_o.tdata]
  BY DEF axis_o
<1>. QED
  BY <1>1, <1>3, <1>4, <1>5 DEF Beat, Lane

\* The counter stays within a word: at the last one it is taken and given, or neither.
LEMMA EdgeType ==
  ASSUME bench \in Benches, CtrType, ConverterEdge, bench' = bench, axis_i' \in Beat(bench.in)
  PROVE  CtrType'
<1>1. CTR_HIGH' = CTR_HIGH /\ WideLanes' = WideLanes
  BY DEF CTR_HIGH, WideLanes, Widening
<1>2. CTR_HIGH \in Nat /\ ctr \in 0..CTR_HIGH
  BY WideType DEF CtrType
<1>3. ctr' \in 0..CTR_HIGH
  <2>1. ctr = CTR_HIGH => (Takes <=> Gives)
    BY DEF Takes, Gives, axis_i_tready, axis_o
  <2>. DEFINE clears == IF Widening THEN Gives ELSE Takes
              counts == IF Widening THEN Takes ELSE Gives
  <2>2. ctr' = IF ~sresetn \/ clears THEN 0 ELSE IF counts THEN ctr + 1 ELSE ctr
    BY DEF ConverterEdge
  <2>3. ~clears /\ counts => ctr # CTR_HIGH
    BY <2>1
  <2>. HIDE DEF clears, counts
  <2>. QED
    BY ONLY <1>2, <2>2, <2>3
<1>4. wide_reg' \in [1..WideLanes -> Lane]
  <2>1. wide_reg' = wide_reg \/ wide_reg' = wide \/ wide_reg' = [l \in 1..WideLanes |-> NoByte]
    BY Zenon DEF ConverterEdge
  <2>2. [l \in 1..WideLanes |-> NoByte] \in [1..WideLanes -> Lane]
    BY DEF Lane
  <2>. QED
    BY <2>1, <2>2, WideType DEF CtrType
<1>. QED
  BY <1>1, <1>3, <1>4 DEF CtrType

LEMMA EmptyBeat ==
  ASSUME NEW n \in Nat  PROVE NoBeat(n) \in Beat(n)
BY DEF NoBeat, Beat

LEMMA InitType == Init => TypeOK
<1>. SUFFICES ASSUME Init  PROVE TypeOK
  OBVIOUS
<1>1. bench \in Benches /\ bench \in BenchType /\ order \in [1..3 -> Peripherals]
  BY BenchesAssumption DEF Init, BenchesAssumption, Registrations
<1>2. bench.in \in Nat /\ bench.out \in Nat /\ bench.packets \in Seq(Seq(Byte))
  BY <1>1 DEF BenchType
<1>3. CtrType
  <2>1. axis_i \in Beat(bench.in)
    BY <1>2, EmptyBeat DEF Init, SourceInit
  <2>2. wide_reg \in [1..WideLanes -> Lane]
    BY DEF Init, Lane
  <2>. QED
    BY <2>1, <2>2 DEF Init, CtrType
<1>4. axis_o_tready \in BOOLEAN /\ threw \in BOOLEAN /\ sresetn \in BOOLEAN /\ lost \in BOOLEAN
  BY DEF Init, SinkInit, ResetInit
<1>5. pins \in [axis_i_tready : BOOLEAN, axis_o : Beat(bench.out)]
  <2>1. axis_i_tready \in BOOLEAN /\ axis_o \in Beat(bench.out)
    BY <1>1, <1>3, <1>4, PinsType
  <2>. QED
    BY <2>1 DEF Init
<1>6. saved \in [sresetn : BOOLEAN, tready : BOOLEAN, beat : Beat(bench.out)]
  BY <1>4, <1>5 DEF Init, Latched
<1>7. time \in Ticks /\ clk = getVal(time)
  BY InitIInv DEF IInv
<1>8. turn \in 0..3 /\ reset_count \in 0..ResetEdges
  BY DEF Init, ResetInit, ResetEdges
<1>9. /\ queue \in Seq(Seq(Byte)) /\ rest \in Seq(Byte) /\ cur_data \in Seq(Byte) /\ stored \in Seq(Seq(Byte))
      /\ begun \in Seq(Byte) /\ arrived \in Seq(Byte)
  BY <1>2 DEF Init, SourceInit, SinkInit
<1>. QED
  BY <1>1, <1>3, <1>4, <1>5, <1>6, <1>7, <1>8, <1>9 DEF TypeOK, CtrType, Lane

LEMMA TurnType ==
  ASSUME turn \in 0..3, order \in [1..3 -> Peripherals], NEW p, Turn(p)
  PROVE  turn' \in 0..3 /\ turn' = (IF turn = 3 THEN 0 ELSE turn + 1) /\ turn \in 1..3
<1>1. Len(order) = 3
  OBVIOUS
<1>2. turn' = (turn + 1) % 4 /\ turn \in 1..3
  BY <1>1 DEF Turn
<1>. QED
  BY ONLY <1>2

\* setupNextData: what is put on the pins, in whichever lanes, and what is left
\* of the packet are the packet.
LEMMA NextBeat ==
  ASSUME bench \in Benches, queue \in Seq(Seq(Byte)), rest \in Seq(Byte), axis_i \in Beat(bench.in),
         begun \in Seq(Byte), setupNextData
  PROVE  /\ queue' \in Seq(Seq(Byte)) /\ rest' \in Seq(Byte) /\ axis_i' \in Beat(bench.in)
         /\ begun' \in Seq(Byte)
         /\ Fetched \in Seq(Byte)
         /\ Fetched = <<>> => ~axis_i'.tvalid /\ rest' = <<>>
         /\ Fetched # <<>> => /\ axis_i'.tvalid /\ (axis_i'.tlast <=> rest' = <<>>)
                              /\ Kept(axis_i'.tdata) \o rest' = Fetched
<1>. DEFINE F == Fetched
<1>1. bench.in \in Nat \ {0}
  BY Lanes
<1>2. queue' \in Seq(Seq(Byte)) /\ F \in Seq(Byte)
  BY HeadTailProperties DEF setupNextData, receive, Fetched
<1>5. begun' \in Seq(Byte)
  <2>1. CASE rest = <<>> /\ queue # <<>>
    <3>1. begun' = begun \o Head(queue)
      BY <2>1 DEF setupNextData, receive
    <3>2. Head(queue) \in Seq(Byte)
      BY <2>1, HeadTailProperties
    <3>. QED
      BY ONLY <3>1, <3>2, begun \in Seq(Byte), ConcatProperties
  <2>2. CASE ~(rest = <<>> /\ queue # <<>>)
    BY <2>2 DEF setupNextData
  <2>. QED
    BY <2>1, <2>2
<1>3. CASE F = <<>>
  BY <1>2, <1>3, <1>5 DEF setupNextData, Beat
<1>4. CASE F # <<>>
  <2>. HIDE DEF F
  <2>1. PICK n \in Nat : n = IF Len(F) < bench.in THEN Len(F) ELSE bench.in
    BY <1>1, <1>2
  <2>2. n \in 1..bench.in /\ n <= Len(F) /\ Len(F) \in Nat
    BY <1>1, <1>2, <1>4, <2>1
  <2>3. PICK used \in LanesUsed(n) :
          /\ rest' = SubSeq(F, Cardinality(used) + 1, Len(F))
          /\ axis_i' = [tvalid |-> TRUE, tlast |-> rest' = <<>>,
                        tdata |-> [l \in 1..bench.in |->
                                     IF l \in used THEN F[NthLane(used, l)] ELSE NoByte]]
    BY <1>4, <2>1 DEF setupNextData, F
  <2>4. used \in SUBSET (1..n) /\ used \in SUBSET (1..bench.in)
    <3>1. used \in SUBSET (1..n)
      BY DEF LanesUsed
    <3>2. \A l \in 1..n : l \in 1..bench.in
      BY <1>1, <2>2
    <3>. QED
      BY <3>1, <3>2
  <2>5. PICK c \in Nat : c = Cardinality(used)
    BY <2>2, <2>4, Ranks
  <2>6. c <= Len(F)
    <3>1. IsFiniteSet(1..n) /\ Cardinality(1..n) = n
      BY FS_Interval
    <3>2. c <= n
      BY <2>4, <2>5, <3>1, FS_Subset
    <3>. QED
      BY <2>2, <3>2
  <2>7. \A l \in used : NthLane(used, l) \in 1..c
    BY <2>2, <2>4, <2>5, Ranks
  <2>8. \A i \in 1..Len(F) : F[i] \in Byte
    BY <1>2, ElementOfSeq
  <2>. DEFINE d == [l \in 1..bench.in |-> IF l \in used THEN F[NthLane(used, l)] ELSE NoByte]
              G == SubSeq(F, 1, c)
  <2>9. \A l \in used : F[NthLane(used, l)] \in Byte
    BY <2>2, <2>6, <2>7, <2>8
  <2>10. d \in [1..bench.in -> Lane] /\ \A l \in used : l \in 1..bench.in /\ d[l] = F[NthLane(used, l)]
    BY <2>4, <2>9 DEF Lane
  <2>11. {l \in DOMAIN d : d[l] # NoByte} = used
    BY <2>4, <2>9, BenchesAssumption DEF BenchesAssumption
  <2>12. G \in [1..c -> Byte] /\ \A i \in 1..c : G[i] = F[i]
    <3>1. \A i \in 1..c : F[i] \in Byte
      BY <2>2, <2>6, <2>8
    <3>2. /\ G \in Seq(Byte) /\ Len(G) = (IF 1 <= c THEN c - 1 + 1 ELSE 0)
          /\ \A i \in 1 .. c - 1 + 1 : G[i] = F[1 + i - 1]
      BY <1>2, <3>1, SubSeqProperties
    <3>3. Len(G) = c /\ c - 1 + 1 = c /\ \A i \in 1..c : 1 + i - 1 = i
      BY <3>2
    <3>. HIDE DEF G
    <3>. QED
      BY <3>2, <3>3
  <2>. HIDE DEF d, G
  <2>13. Chosen(d, used) = G
    <3>1. \A l \in used : G[NthLane(used, l)] = d[l]
      BY <2>7, <2>10, <2>12
    <3>2. Lists(G, d, used)
      <4>1. G = [i \in 1..c |-> G[i]]
        BY <2>12
      <4>. QED
        BY <2>5, <3>1, <4>1 DEF Lists
    <3>. QED
      BY <2>2, <2>4, <3>2, ChosenUnique
  <2>14. Kept(d) = G
    BY <2>11, <2>13 DEF Kept
  <2>15. rest' \in Seq(Byte) /\ G \o rest' = F
    <3>1. rest' = SubSeq(F, c + 1, Len(F))
      BY <2>3, <2>5
    <3>2. \A i \in c + 1 .. Len(F) : F[i] \in Byte
      BY <2>2, <2>8
    <3>3. rest' \in Seq(Byte)
      BY <1>2, <2>2, <3>1, <3>2, SubSeqProperties
    <3>4. SubSeq(F, 1, c) \o SubSeq(F, c + 1, Len(F)) = SubSeq(F, 1, Len(F))
      <4>1. 1 \in 1 .. Len(F) + 1 /\ c \in 1 - 1 .. Len(F) /\ Len(F) \in c .. Len(F)
        BY <2>2, <2>6
      <4>. QED
        BY ONLY <1>2, <4>1, ConcatAdjacentSubSeq
    <3>5. SubSeq(F, 1, Len(F)) = F
      BY <1>2
    <3>. QED
      BY <3>1, <3>3, <3>4, <3>5 DEF G
  <2>16. /\ axis_i'.tvalid /\ axis_i'.tdata = d /\ (axis_i'.tlast <=> rest' = <<>>)
         /\ axis_i' = [tvalid |-> TRUE, tlast |-> rest' = <<>>, tdata |-> d]
    BY <2>3 DEF d
  <2>17. axis_i' \in Beat(bench.in)
    BY <2>10, <2>16 DEF Beat, Lane
  <2>. QED
    BY <1>2, <1>4, <1>5, <2>14, <2>15, <2>16, <2>17 DEF F
<1>. QED
  BY <1>3, <1>4

\* What the sink makes of a beat.
LEMMA ReceiveType ==
  ASSUME bench.out \in Nat, cur_data \in Seq(Byte), stored \in Seq(Seq(Byte)), threw \in BOOLEAN,
         arrived \in Seq(Byte), NEW beat \in Beat(bench.out), Receive(beat)
  PROVE  /\ cur_data' \in Seq(Byte) /\ stored' \in Seq(Seq(Byte)) /\ threw' \in BOOLEAN
         /\ arrived' \in Seq(Byte) /\ Kept(beat.tdata) \in Seq(Byte)
<1>1. beat.tdata \in Seq(Lane)
  <2>1. beat.tdata \in [1..bench.out -> Lane]
    BY DEF Beat, Lane
  <2>. QED
    BY ONLY <2>1, bench.out \in Nat
<1>2. Kept(beat.tdata) \in Seq(Byte)
  BY <1>1, KeptType
<1>3. cur_data \o Kept(beat.tdata) \in Seq(Byte) /\ arrived \o Kept(beat.tdata) \in Seq(Byte)
  BY <1>2, ConcatProperties
<1>4. CASE bench.strict /\ Unpacked(beat)
  BY <1>2, <1>4 DEF Receive
<1>5. CASE ~(bench.strict /\ Unpacked(beat))
  <2>1. /\ cur_data' = IF beat.tlast THEN <<>> ELSE cur_data \o Kept(beat.tdata)
        /\ stored' = IF beat.tlast THEN Append(stored, cur_data \o Kept(beat.tdata)) ELSE stored
        /\ threw' = threw /\ arrived' = arrived \o Kept(beat.tdata)
    BY <1>5 DEF Receive, send
  <2>. QED
    BY <1>2, <1>3, <2>1
<1>. QED
  BY <1>4, <1>5

LEMMA StepType == IInv /\ TypeOK /\ [Next]_vars => TypeOK'
<1>. SUFFICES ASSUME IInv, TypeOK, [Next]_vars
              PROVE  TypeOK'
  OBVIOUS
<1>0. /\ CtrType /\ axis_o_tready \in BOOLEAN /\ bench \in Benches /\ turn \in 0..3
      /\ order \in [1..3 -> Peripherals] /\ bench.out \in Nat /\ clk = getVal(time)
  BY Lanes DEF TypeOK, CtrType, Lane
<1>1. CASE EvalModel
  <2>1. UNCHANGED <<harness, source, sink, reset>> /\ saved' = Latched /\ turn' = 1
    BY <1>1 DEF EvalModel, latch
  <2>2. UNCHANGED <<bench, axis_i, axis_o_tready, sresetn>>
    BY <2>1 DEF harness, source, sink, reset
  <2>3. CtrType'
    <3>1. CASE ConverterEdge
      BY <1>0, <2>2, <3>1, EdgeType DEF CtrType
    <3>2. CASE UNCHANGED <<ctr, wide_reg>>
      BY <1>0, <2>2, <3>2 DEF CtrType, CTR_HIGH, WideLanes, Widening
    <3>. QED
      BY <1>1, <3>1, <3>2 DEF EvalModel
  <2>4. pins' \in [axis_i_tready : BOOLEAN, axis_o : Beat(bench.out')]
    <3>1. (bench \in Benches /\ CtrType /\ axis_o_tready \in BOOLEAN)'
      BY <1>0, <2>2, <2>3
    <3>2. (bench \in Benches /\ CtrType /\ axis_o_tready \in BOOLEAN
           => axis_i_tready \in BOOLEAN /\ axis_o \in Beat(bench.out))'
      BY PinsType, PTL
    <3>3. axis_i_tready' \in BOOLEAN /\ axis_o' \in Beat(bench.out')
      BY <3>1, <3>2 DEF Beat
    <3>4. pins' = [axis_i_tready |-> axis_i_tready', axis_o |-> axis_o']
      BY <1>1 DEF EvalModel
    <3>. QED
      BY ONLY <3>3, <3>4
  <2>5. saved' \in [sresetn : BOOLEAN, tready : BOOLEAN, beat : Beat(bench.out')]
    BY <2>1, <2>2 DEF Latched, TypeOK
  <2>6. time' \in Ticks /\ clk' = getVal(time')
    BY <1>1 DEF EvalModel, NextTick, IInv
  <2>7. lost' \in BOOLEAN
    <3>1. lost' = lost \/ lost' = (lost \/ LosesLast)
      BY <1>1, Zenon DEF EvalModel, ConverterEdge
    <3>2. lost \in BOOLEAN
      BY Zenon DEF TypeOK
    <3>. QED
      BY <3>1, <3>2, Zenon
  <2>8. /\ ctr' \in 0..CTR_HIGH' /\ wide_reg' \in [1..WideLanes' -> Byte \cup {NoByte}]
        /\ axis_i' \in Beat(bench.in')
    BY <2>2, <2>3 DEF CtrType, Lane
  <2>. QED
    BY <2>1, <2>2, <2>4, <2>5, <2>6, <2>7, <2>8 DEF TypeOK, harness, source, sink, reset, Beat, getVal
<1>. DEFINE Stands == UNCHANGED <<harness, time, clk, saved, uut>> /\ turn' \in 0..3
<1>2. ASSUME NEW p, Turn(p)  PROVE Stands
  BY <1>0, <1>2, TurnType DEF Turn
<1>3. CASE EvalReset
  <2>1. /\ Stands /\ UNCHANGED <<source, sink>>
        /\ reset_count' = ResetCount(reset_count, getEvent(time)) /\ sresetn' = Released(reset_count')
    BY <1>2, <1>3 DEF EvalReset
  <2>2. reset_count' \in 0..ResetEdges
    BY <2>1 DEF TypeOK, ResetCount, ResetEdges
  <2>3. sresetn' \in BOOLEAN
    BY <2>1, Zenon DEF Released
  <2>. QED
    BY <2>1, <2>2, <2>3 DEF TypeOK, harness, uut, source, sink, Beat, CTR_HIGH, WideLanes, Widening, getVal
<1>4. CASE EvalSource
  <2>1. Stands /\ UNCHANGED <<sink, reset>>
    BY <1>2, <1>4 DEF EvalSource
  <2>2. /\ queue' \in Seq(Seq(Byte)) /\ rest' \in Seq(Byte) /\ axis_i' \in Beat(bench.in)
        /\ begun' \in Seq(Byte)
    <3>1. /\ queue \in Seq(Seq(Byte)) /\ rest \in Seq(Byte) /\ axis_i \in Beat(bench.in)
          /\ begun \in Seq(Byte)
      BY DEF TypeOK
    <3>2. CASE axis_i' = [axis_i EXCEPT !.tvalid = FALSE] /\ UNCHANGED <<queue, rest, begun>>
      BY <3>1, <3>2 DEF Beat
    <3>3. CASE setupNextData
      BY <1>0, <3>1, <3>3, NextBeat
    <3>4. CASE UNCHANGED source
      BY <3>1, <3>4 DEF source
    <3>. QED
      BY <1>4, <3>2, <3>3, <3>4 DEF EvalSource
  <2>. QED
    BY <2>1, <2>2 DEF TypeOK, harness, uut, sink, reset, Beat, CTR_HIGH, WideLanes, Widening, getVal
<1>5. CASE EvalSink
  <2>1. Stands /\ UNCHANGED <<source, reset>>
    BY <1>2, <1>5 DEF EvalSink
  <2>2. /\ cur_data' \in Seq(Byte) /\ stored' \in Seq(Seq(Byte)) /\ threw' \in BOOLEAN
        /\ arrived' \in Seq(Byte)
    <3>1. /\ cur_data \in Seq(Byte) /\ stored \in Seq(Seq(Byte)) /\ threw \in BOOLEAN
          /\ saved.beat \in Beat(bench.out) /\ arrived \in Seq(Byte)
      BY DEF TypeOK
    <3>2. \/ cur_data' = <<>> /\ UNCHANGED <<stored, threw, arrived>>
          \/ Receive(saved.beat)
          \/ UNCHANGED <<cur_data, stored, threw, arrived>>
      BY <1>5 DEF EvalSink
    <3>3. CASE Receive(saved.beat)
      BY ONLY <1>0, <3>1, <3>3, ReceiveType
    <3>4. CASE cur_data' = <<>> /\ UNCHANGED <<stored, threw, arrived>>
      BY <3>1, <3>4
    <3>5. CASE UNCHANGED <<cur_data, stored, threw, arrived>>
      BY <3>1, <3>5
    <3>. QED
      BY ONLY <3>2, <3>3, <3>4, <3>5
  <2>3. axis_o_tready' \in BOOLEAN
    BY <1>5, StepIInv DEF IInv, Next
  <2>. QED
    BY <2>1, <2>2, <2>3 DEF TypeOK, harness, uut, source, reset, Beat, CTR_HIGH, WideLanes, Widening, getVal
<1>6. CASE UNCHANGED vars
  BY <1>6 DEF vars, TypeOK, harness, uut, source, sink, reset, Beat, CTR_HIGH, WideLanes, Widening, getVal
<1>. QED
  BY <1>1, <1>3, <1>4, <1>5, <1>6 DEF Next
-----------------------------------------------------------------------------
(* What happens to the bytes                                               *)

\* The peripherals that are still to be evaluated.
Waits(p) == turn # 0 /\ \E n \in turn..3 : order[n] = p

\* The model has handed over a beat of which the peripheral does not know yet.
SinkDue == Waits("sink") /\ Rising /\ saved.sresetn /\ axis_o_tready /\ saved.beat.tvalid
SourceDue == Waits("source") /\ Rising /\ saved.sresetn /\ axis_i.tvalid /\ saved.tready

\* What the sink has when it has been told, and what the source still offers.
Received == IF SinkDue THEN cur_data \o Kept(saved.beat.tdata) ELSE cur_data
Current == IF SinkDue /\ saved.beat.tlast THEN <<>> ELSE Received
Stored == IF SinkDue /\ saved.beat.tlast THEN Append(stored, Received) ELSE stored
Offered == IF SourceDue THEN <<>> ELSE OnOffer

\* The bytes that the sink has been given when it has been told.
Arrived == IF SinkDue THEN arrived \o Kept(saved.beat.tdata) ELSE arrived

\* The source has nothing on the pins that was not taken.
Idle == ~axis_i.tvalid \/ SourceDue

\* The packet under way.
UnderWay == Current \o InConverter \o Offered \o rest

ResetOrder ==
  /\ sresetn <=> Released(reset_count)
  /\ saved.sresetn => sresetn
  /\ ~saved.sresetn => ~axis_i.tvalid

LastInv == IF axis_i.tvalid THEN axis_i.tlast <=> rest = <<>> ELSE rest = <<>>

\* The converter has nothing beyond the word it is at, and going from wide to
\* narrow it starts each word at its beginning.
AheadInv ==
  IF Widening THEN \A l \in 1..WideLanes : l > ctr * bench.in + bench.in => wide_reg[l] = NoByte
  ELSE (sresetn \/ Rising) /\ Idle => ctr = 0

\* A packet is under way exactly as long as something of it is left to send.
Conserved ==
  /\ Stored \o NonEmpty(<<UnderWay>> \o queue) = NonEmpty(bench.packets)
  /\ UnderWay = <<>> <=> Idle /\ rest = <<>>

\* The bytes of the packets begun, wherever the packets end.
BytesConserved == ((Arrived \o InConverter) \o Offered) \o rest = begun

\* The end of a packet is lost for want of a sink that is ready, after the reset.
LostInv ==
  /\ axis_o_tready \/ bench.stalls
  /\ lost => Widening /\ bench.stalls /\ saved.sresetn

ConsInv ==
  /\ order \in Registrations
  /\ ResetOrder
  /\ LastInv
  /\ LostInv
  /\ ~threw => AheadInv /\ BytesConserved
  /\ ~threw /\ ~lost => Conserved

\* Each of these is what it is called: bytes, or packets.
LEMMA BytesType ==
  ASSUME TypeOK
  PROVE  /\ Received \in Seq(Byte) /\ Current \in Seq(Byte) /\ Stored \in Seq(Seq(Byte))
         /\ InConverter \in Seq(Byte) /\ OnOffer \in Seq(Byte) /\ Offered \in Seq(Byte)
         /\ rest \in Seq(Byte) /\ queue \in Seq(Seq(Byte)) /\ Arrived \in Seq(Byte)
<1>. USE DEF TypeOK
<1>0. bench \in Benches /\ bench.out \in Nat /\ bench.in \in Nat
  BY Lanes
<1>1. axis_i.tdata \in Seq(Lane) /\ Len(axis_i.tdata) = bench.in
  <2>1. axis_i.tdata \in [1..bench.in -> Lane]
    BY DEF Beat, Lane
  <2>. QED
    BY ONLY <1>0, <2>1
<1>2. wide_reg \in Seq(Lane) /\ Len(wide_reg) = WideLanes /\ WideLanes \in Nat
  <2>1. wide_reg \in [1..WideLanes -> Lane]
    BY DEF Lane
  <2>2. WideLanes \in Nat
    BY <1>0, Lanes, NarrowLanes
  <2>. QED
    BY ONLY <2>1, <2>2
<1>3. saved.beat.tdata \in Seq(Lane)
  <2>1. saved.beat.tdata \in [1..bench.out -> Lane]
    BY DEF Beat, Lane
  <2>. QED
    BY ONLY <1>0, <2>1
<1>4. Received \in Seq(Byte)
  BY <1>3, KeptType, ConcatProperties DEF Received
<1>8. Arrived \in Seq(Byte)
  BY <1>3, KeptType, ConcatProperties DEF Arrived
<1>5. Current \in Seq(Byte) /\ Stored \in Seq(Seq(Byte))
  BY <1>4 DEF Current, Stored
<1>6. InConverter \in Seq(Byte)
  <2>1. CASE Widening
    <3>1. ctr * bench.in \in Nat
      BY <1>0, <2>1, Lanes
    <3>4. ctr * bench.in + bench.in <= WideLanes
      BY <1>0, <2>1, Lanes
    <3>5. ctr * bench.in <= WideLanes
      BY ONLY <1>0, <1>2, <3>1, <3>4
    <3>2. \A i \in 1 .. ctr * bench.in : wide_reg[i] \in Lane
      BY <1>2, <3>1, <3>5, ElementOfSeq
    <3>3. SubSeq(wide_reg, 1, ctr * bench.in) \in Seq(Lane)
      BY ONLY <3>1, <3>2, SubSeqProperties
    <3>. QED
      BY <2>1, <3>3, KeptType DEF InConverter
  <2>2. CASE ~Widening
    BY <2>2 DEF InConverter
  <2>. QED
    BY <2>1, <2>2
<1>7. OnOffer \in Seq(Byte)
  <2>1. CASE Widening \/ ~axis_i.tvalid
    BY <1>1, <2>1, KeptType DEF OnOffer
  <2>2. CASE ~Widening /\ axis_i.tvalid
    <3>1. ctr * bench.out \in Nat
      BY <1>0, <2>2, NarrowLanes
    <3>2. \A i \in ctr * bench.out + 1 .. bench.in : axis_i.tdata[i] \in Lane
      BY <1>1, <3>1, ElementOfSeq
    <3>3. SubSeq(axis_i.tdata, ctr * bench.out + 1, bench.in) \in Seq(Lane)
      BY ONLY <1>0, <3>1, <3>2, SubSeqProperties
    <3>. QED
      BY <2>2, <3>3, KeptType DEF OnOffer
  <2>. QED
    BY <2>1, <2>2
<1>. QED
  BY <1>4, <1>5, <1>6, <1>7, <1>8 DEF Offered

\* A part of a sequence: what follows its first a elements, up to the b-th.
LEMMA Part ==
  ASSUME NEW S, NEW s \in Seq(S), NEW a \in Nat, NEW b \in Nat, a <= b, b <= Len(s)
  PROVE  /\ SubSeq(s, a + 1, b) \in Seq(S) /\ Len(SubSeq(s, a + 1, b)) = b - a
         /\ \A i \in 1 .. b - a : SubSeq(s, a + 1, b)[i] = s[a + i] /\ a + i \in 1..Len(s)
<1>1. \A i \in a + 1 .. b : s[i] \in S
  BY ElementOfSeq
<1>2. a + 1 \in Int /\ b \in Int /\ b - (a + 1) + 1 = b - a /\ Len(s) \in Nat
  OBVIOUS
<1>3. /\ SubSeq(s, a + 1, b) \in Seq(S)
      /\ Len(SubSeq(s, a + 1, b)) = IF a + 1 <= b THEN b - (a + 1) + 1 ELSE 0
      /\ \A i \in 1 .. b - (a + 1) + 1 : SubSeq(s, a + 1, b)[i] = s[a + 1 + i - 1]
  BY ONLY <1>1, <1>2, SubSeqProperties
<1>. DEFINE p == SubSeq(s, a + 1, b)
<1>. HIDE DEF p
<1>4. p \in Seq(S) /\ Len(p) = (IF a + 1 <= b THEN b - (a + 1) + 1 ELSE 0)
      /\ \A i \in 1 .. b - (a + 1) + 1 : p[i] = s[a + 1 + i - 1]
  BY <1>3 DEF p
<1>5. Len(p) = b - a
  BY <1>4
<1>6. \A i \in 1 .. b - a : p[i] = s[a + i] /\ a + i \in 1..Len(s)
  <2>. TAKE i \in 1 .. b - a
  <2>1. a + 1 + i - 1 = a + i /\ i \in 1 .. b - (a + 1) + 1 /\ a + i \in 1..Len(s)
    BY <1>2
  <2>. QED
    BY ONLY <1>4, <2>1
<1>. QED
  BY <1>4, <1>5, <1>6 DEF p

\* From narrow to wide: what was taken, the word on the pins, nothing.
LEMMA WideParts ==
  ASSUME TypeOK, Widening, AheadInv
  PROVE  /\ wide \in Seq(Lane)
         /\ Kept(SubSeq(wide, 1, ctr * bench.in)) = InConverter
         /\ Kept(SubSeq(wide, 1, ctr * bench.in + bench.in)) = InConverter \o Kept(axis_i.tdata)
         /\ Kept(wide) = InConverter \o Kept(axis_i.tdata)
<1>0. bench \in Benches /\ CtrType
  BY DEF TypeOK, CtrType, Lane
<1>1. /\ bench.in \in Nat /\ WideLanes \in Nat /\ ctr * bench.in \in Nat
      /\ ctr * bench.in + bench.in <= WideLanes
  BY <1>0, Lanes DEF CtrType
<1>. DEFINE i == bench.in
            m == ctr * bench.in
            n == m + i
            w == WideLanes
            d == axis_i.tdata
            r == wide_reg
            W == wide
<1>2. d \in [1..i -> Lane] /\ r \in [1..w -> Lane] /\ W \in [1..w -> Lane]
  BY <1>0, WideType DEF CtrType, Beat, Lane
<1>3. \A l \in 1..w : W[l] = IF l - m \in 1..i THEN d[l - m] ELSE r[l]
  BY DEF wide
<1>4. \A l \in 1..w : l > m + i => r[l] = NoByte
  BY DEF AheadInv
<1>5. i \in Nat /\ w \in Nat /\ m \in Nat /\ n \in Nat /\ n <= w /\ n = m + i
  BY <1>1
<1>6. InConverter = Kept(SubSeq(r, 1, m))
  BY DEF InConverter
<1>. HIDE DEF i, m, n, w, d, r, W
<1>7. /\ d \in Seq(Lane) /\ Len(d) = i /\ r \in Seq(Lane) /\ Len(r) = w /\ W \in Seq(Lane) /\ Len(W) = w
  BY ONLY <1>2, <1>5
<1>8. SubSeq(W, 1, m) = SubSeq(r, 1, m)
  <2>1. /\ SubSeq(W, 0 + 1, m) \in Seq(Lane) /\ Len(SubSeq(W, 0 + 1, m)) = m - 0
        /\ \A l \in 1 .. m - 0 : SubSeq(W, 0 + 1, m)[l] = W[0 + l] /\ 0 + l \in 1..Len(W)
    BY ONLY <1>5, <1>7, 0 \in Nat, 0 <= m, m <= Len(W), Part
  <2>2. /\ SubSeq(r, 0 + 1, m) \in Seq(Lane) /\ Len(SubSeq(r, 0 + 1, m)) = m - 0
        /\ \A l \in 1 .. m - 0 : SubSeq(r, 0 + 1, m)[l] = r[0 + l] /\ 0 + l \in 1..Len(r)
    BY ONLY <1>5, <1>7, 0 \in Nat, 0 <= m, m <= Len(r), Part
  <2>3. \A l \in 1..m : W[l] = r[l]
    BY ONLY <1>3, <1>5
  <2>4. 0 + 1 = 1 /\ m - 0 = m /\ \A l \in 1..m : 0 + l = l
    BY ONLY <1>5
  <2>. QED
    BY ONLY <2>1, <2>2, <2>3, <2>4, SeqEqual
<1>9. SubSeq(W, m + 1, n) = d
  <2>1. /\ SubSeq(W, m + 1, n) \in Seq(Lane) /\ Len(SubSeq(W, m + 1, n)) = n - m
        /\ \A l \in 1 .. n - m : SubSeq(W, m + 1, n)[l] = W[m + l] /\ m + l \in 1..Len(W)
    BY ONLY <1>5, <1>7, m <= n, n <= Len(W), Part
  <2>2. \A l \in 1..i : m + l \in 1..w /\ (m + l) - m = l
    BY ONLY <1>5
  <2>3. \A l \in 1..i : W[m + l] = d[l]
    BY ONLY <1>3, <2>2
  <2>4. n - m = i
    BY ONLY <1>5
  <2>. QED
    BY ONLY <1>7, <2>1, <2>3, <2>4, SeqEqual
<1>10. SubSeq(W, 1, n) = SubSeq(W, 1, m) \o SubSeq(W, m + 1, n)
  <2>1. 1 \in 1 .. Len(W) + 1 /\ m \in 1 - 1 .. Len(W) /\ n \in m .. Len(W)
    BY ONLY <1>5, <1>7
  <2>. QED
    BY ONLY <1>7, <2>1, ConcatAdjacentSubSeq
<1>11. W = SubSeq(W, 1, n) \o SubSeq(W, n + 1, w)
  <2>1. 1 \in 1 .. Len(W) + 1 /\ n \in 1 - 1 .. Len(W) /\ w \in n .. Len(W)
    BY ONLY <1>5, <1>7
  <2>2. SubSeq(W, 1, w) = W
    BY ONLY <1>7, SubSeqFull
  <2>. QED
    BY ONLY <1>7, <2>1, <2>2, ConcatAdjacentSubSeq
<1>12. Kept(SubSeq(W, n + 1, w)) = <<>> /\ SubSeq(W, n + 1, w) \in Seq(Lane)
  <2>1. /\ SubSeq(W, n + 1, w) \in Seq(Lane) /\ Len(SubSeq(W, n + 1, w)) = w - n
        /\ \A l \in 1 .. w - n : SubSeq(W, n + 1, w)[l] = W[n + l] /\ n + l \in 1..Len(W)
    BY ONLY <1>5, <1>7, n <= w, w <= Len(W), Part
  <2>2. \A l \in 1 .. w - n : n + l \in 1..w /\ n + l > m + i /\ (n + l) - m \notin 1..i
    BY ONLY <1>5
  <2>3. \A l \in 1 .. w - n : W[n + l] = NoByte
    BY ONLY <1>3, <1>4, <2>2
  <2>. QED
    BY ONLY <2>1, <2>3, NothingKept
<1>13. SubSeq(W, 1, m) \in Seq(Lane) /\ SubSeq(W, 1, n) \in Seq(Lane)
  <2>1. SubSeq(W, 0 + 1, m) \in Seq(Lane)
    BY ONLY <1>5, <1>7, 0 \in Nat, 0 <= m, m <= Len(W), Part
  <2>2. SubSeq(W, 0 + 1, n) \in Seq(Lane)
    BY ONLY <1>5, <1>7, 0 \in Nat, 0 <= n, n <= Len(W), Part
  <2>. QED
    BY ONLY <2>1, <2>2, 0 + 1 = 1
<1>14. Kept(SubSeq(W, 1, n)) = Kept(SubSeq(W, 1, m)) \o Kept(d)
  BY ONLY <1>7, <1>9, <1>10, <1>13, KeptConcat
<1>15. Kept(W) = Kept(SubSeq(W, 1, n)) \o <<>>
  BY ONLY <1>11, <1>12, <1>13, KeptConcat
<1>16. Kept(W) = Kept(SubSeq(W, 1, n))
  BY ONLY <1>13, <1>15, KeptType, ConcatEmptySeq
<1>17. /\ W \in Seq(Lane) /\ Kept(SubSeq(W, 1, m)) = InConverter
       /\ Kept(SubSeq(W, 1, n)) = InConverter \o Kept(d) /\ Kept(W) = InConverter \o Kept(d)
  BY ONLY <1>6, <1>7, <1>8, <1>14, <1>16
<1>. QED
  BY <1>17 DEF W, n, m, d, i

\* From wide to narrow: what is left of the word on the pins is the word at the
\* output and what is left after that one.
LEMMA NarrowParts ==
  ASSUME TypeOK, ~Widening
  PROVE  Kept(SubSeq(axis_i.tdata, ctr * bench.out + 1, bench.in)) =
           Kept(axis_o.tdata) \o
             (IF ctr = CTR_HIGH THEN <<>>
              ELSE Kept(SubSeq(axis_i.tdata, (ctr + 1) * bench.out + 1, bench.in)))
<1>0. bench \in Benches /\ CtrType
  BY DEF TypeOK, CtrType, Lane
<1>. DEFINE i == bench.in
            o == bench.out
            w == WideLanes
            h == CTR_HIGH
            d == axis_i.tdata
            W == wide
            out == axis_o.tdata
            left(c) == Kept(SubSeq(d, c * o + 1, i))
<1>1. /\ i \in Nat /\ o \in Nat /\ w \in Nat /\ h \in Nat /\ i <= w /\ h * o < i /\ h * o + o = w
      /\ \A c \in 0..h : /\ c * o \in Nat /\ c * o + o <= w /\ c * o <= h * o
                         /\ (c + 1) * o = c * o + o
                         /\ c < h => c * o + o <= h * o
  BY <1>0, NarrowLanes
<1>2. ctr \in 0..h
  BY <1>0 DEF CtrType
<1>3. d \in [1..i -> Lane] /\ W \in [1..w -> Lane] /\ out \in [1..o -> Lane]
  <2>1. axis_o_tready \in BOOLEAN
    BY DEF TypeOK
  <2>. QED
    BY <1>0, <2>1, WideType, PinsType DEF CtrType, Beat, Lane
<1>4. \A l \in 1..w : W[l] = IF l <= i THEN d[l] ELSE NoByte
  BY DEF wide
<1>5. \A l \in 1..o : out[l] = W[ctr * o + l]
  BY DEF axis_o
<1>. HIDE DEF i, o, w, h, d, W, out
<1>6. d \in Seq(Lane) /\ Len(d) = i /\ W \in Seq(Lane) /\ Len(W) = w /\ out \in Seq(Lane) /\ Len(out) = o
  BY ONLY <1>1, <1>3
<1>7. SubSeq(W, i + 1, w) \in Seq(Lane) /\ Kept(SubSeq(W, i + 1, w)) = <<>>
  <2>1. /\ SubSeq(W, i + 1, w) \in Seq(Lane) /\ Len(SubSeq(W, i + 1, w)) = w - i
        /\ \A l \in 1 .. w - i : SubSeq(W, i + 1, w)[l] = W[i + l] /\ i + l \in 1..Len(W)
    BY ONLY <1>1, <1>6, i <= w, w <= Len(W), Part
  <2>2. \A l \in 1 .. w - i : i + l \in 1..w /\ ~(i + l <= i)
    BY ONLY <1>1
  <2>3. \A l \in 1 .. w - i : W[i + l] = NoByte
    BY ONLY <1>4, <2>2
  <2>. QED
    BY ONLY <2>1, <2>3, NothingKept
<1>8. ASSUME NEW c \in 0..h  PROVE left(c) = Kept(SubSeq(W, c * o + 1, w))
  <2>1. PICK n \in Nat : n = c * o /\ n <= i /\ n <= w
    <3>1. c * o \in Nat /\ c * o <= h * o /\ h * o < i /\ h * o \in Nat
      BY ONLY <1>1, c \in 0..h, h \in 0..h
    <3>2. c * o <= i /\ c * o <= w
      BY ONLY <1>1, <3>1
    <3>. QED
      BY ONLY <3>1, <3>2
  <2>2. /\ SubSeq(W, n + 1, i) \in Seq(Lane) /\ Len(SubSeq(W, n + 1, i)) = i - n
        /\ \A l \in 1 .. i - n : SubSeq(W, n + 1, i)[l] = W[n + l] /\ n + l \in 1..Len(W)
    <3>1. n \in Nat /\ i \in Nat /\ n <= i /\ i <= Len(W)
      BY ONLY <1>1, <1>6, <2>1, n \in Nat
    <3>. QED
      BY ONLY <1>6, <3>1, Part
  <2>3. /\ SubSeq(d, n + 1, i) \in Seq(Lane) /\ Len(SubSeq(d, n + 1, i)) = i - n
        /\ \A l \in 1 .. i - n : SubSeq(d, n + 1, i)[l] = d[n + l] /\ n + l \in 1..Len(d)
    <3>1. n \in Nat /\ i \in Nat /\ n <= i /\ i <= Len(d)
      BY ONLY <1>1, <1>6, <2>1, n \in Nat
    <3>. QED
      BY ONLY <1>6, <3>1, Part
  <2>4. \A l \in 1 .. i - n : W[n + l] = d[n + l]
    <3>1. \A l \in 1 .. i - n : n + l \in 1..w /\ n + l <= i
      BY ONLY <1>1, n \in Nat
    <3>. QED
      BY ONLY <1>4, <3>1
  <2>5. SubSeq(W, n + 1, i) = SubSeq(d, n + 1, i)
    BY ONLY <2>2, <2>3, <2>4, SeqEqual
  <2>6. SubSeq(W, n + 1, i) \o SubSeq(W, i + 1, w) = SubSeq(W, n + 1, w)
    <3>1. n + 1 \in 1 .. Len(W) + 1 /\ i \in (n + 1) - 1 .. Len(W) /\ w \in i .. Len(W)
      BY ONLY <1>1, <1>6, <2>1, n \in Nat
    <3>. QED
      BY ONLY <1>6, <3>1, ConcatAdjacentSubSeq
  <2>7. Kept(SubSeq(W, n + 1, w)) = Kept(SubSeq(W, n + 1, i)) \o <<>>
    BY ONLY <1>7, <2>2, <2>6, KeptConcat
  <2>8. Kept(SubSeq(W, n + 1, w)) = Kept(SubSeq(W, n + 1, i))
    BY ONLY <2>2, <2>7, KeptType, ConcatEmptySeq
  <2>. QED
    BY ONLY <2>1, <2>5, <2>8
<1>9. PICK m \in Nat : m = ctr * o /\ m + o \in Nat /\ m + o <= w
  BY ONLY <1>1, <1>2
<1>10. SubSeq(W, m + 1, m + o) = out
  <2>1. /\ SubSeq(W, m + 1, m + o) \in Seq(Lane) /\ Len(SubSeq(W, m + 1, m + o)) = (m + o) - m
        /\ \A l \in 1 .. (m + o) - m : SubSeq(W, m + 1, m + o)[l] = W[m + l] /\ m + l \in 1..Len(W)
    <3>1. m \in Nat /\ m + o \in Nat /\ m <= m + o /\ m + o <= Len(W)
      BY ONLY <1>1, <1>6, <1>9, m \in Nat
    <3>. QED
      BY ONLY <1>6, <3>1, Part
  <2>2. (m + o) - m = o
    BY ONLY <1>1, m \in Nat
  <2>3. \A l \in 1..o : out[l] = W[m + l]
    BY ONLY <1>5, <1>9
  <2>. QED
    BY ONLY <1>6, <2>1, <2>2, <2>3, SeqEqual
<1>11. SubSeq(W, m + 1, m + o) \o SubSeq(W, (m + o) + 1, w) = SubSeq(W, m + 1, w)
  <2>1. m + 1 \in 1 .. Len(W) + 1 /\ m + o \in (m + 1) - 1 .. Len(W) /\ w \in m + o .. Len(W)
    BY ONLY <1>1, <1>6, <1>9, m \in Nat
  <2>. QED
    BY ONLY <1>6, <2>1, ConcatAdjacentSubSeq
<1>12. SubSeq(W, (m + o) + 1, w) \in Seq(Lane)
  <2>1. m + o \in Nat /\ w \in Nat /\ m + o <= w /\ w <= Len(W)
    BY ONLY <1>1, <1>6, <1>9
  <2>. QED
    BY ONLY <1>6, <2>1, Part
<1>13. left(ctr) = Kept(out) \o Kept(SubSeq(W, (m + o) + 1, w))
  <2>1. left(ctr) = Kept(SubSeq(W, m + 1, w))
    BY ONLY <1>2, <1>8, <1>9
  <2>. QED
    <3>1. Kept(out \o SubSeq(W, (m + o) + 1, w)) = Kept(out) \o Kept(SubSeq(W, (m + o) + 1, w))
      BY ONLY <1>6, <1>12, KeptConcat
    <3>2. out \o SubSeq(W, (m + o) + 1, w) = SubSeq(W, m + 1, w)
      BY ONLY <1>10, <1>11
    <3>. QED
      BY ONLY <2>1, <3>1, <3>2
<1>14. CASE ctr = h
  <2>1. w < (m + o) + 1 /\ w \in Int /\ (m + o) + 1 \in Int
    BY ONLY <1>1, <1>9, <1>14
  <2>2. SubSeq(W, (m + o) + 1, w) = <<>>
    BY ONLY <2>1, SubSeqEmpty
  <2>3. Kept(<<>>) = <<>>
    BY ONLY <1>12, <2>2, NothingKept, Len(<<>>) = 0, 1..0 = {}
  <2>. QED
    BY <1>13, <1>14, <2>2, <2>3 DEF h, d, i, o, out
<1>15. CASE ctr # h
  <2>1. ctr + 1 \in 0..h /\ (ctr + 1) * o = m + o
    BY ONLY <1>1, <1>2, <1>9, <1>15
  <2>2. left(ctr + 1) = Kept(SubSeq(W, (m + o) + 1, w))
    BY ONLY <1>8, <2>1
  <2>. QED
    BY <1>13, <1>15, <2>2 DEF h, d, i, o, out
<1>. QED
  BY <1>14, <1>15

LEMMA KeptOfNothing == Kept(<<>>) = <<>>
<1>1. <<>> \in Seq(Lane) /\ \A l \in 1..Len(<<>>) : <<>>[l] = NoByte
  BY EmptySeq
<1>. QED
  BY <1>1, NothingKept

\* At the start of a word the converter holds nothing.
LEMMA StartIsEmpty ==
  ASSUME TypeOK, bench' = bench, ctr' = 0
  PROVE  InConverter' = <<>>
<1>1. bench.in \in Nat
  BY Lanes DEF TypeOK
<1>2. 0 * bench.in = 0
  BY ONLY <1>1
<1>3. SubSeq(wide_reg', 1, 0) = <<>>
  BY ONLY SubSeqEmpty, 0 < 1, 0 \in Int, 1 \in Int
<1>. QED
  BY <1>2, <1>3, KeptOfNothing DEF InConverter, Widening

\* An edge of the clock in which the converter is not in reset: the bytes it
\* had and those on offer are what it gives, what it has then and what is still
\* on offer.  The end of a packet is taken when it is given, or lost.
LEMMA HandOver ==
  ASSUME TypeOK, AheadInv, sresetn, ConverterEdge, UNCHANGED <<bench, axis_i>>
  PROVE  /\ InConverter \o OnOffer =
              (IF Gives THEN Kept(axis_o.tdata) ELSE <<>>) \o
                (InConverter' \o (IF Takes THEN <<>> ELSE OnOffer'))
         /\ Takes /\ axis_i.tlast /\ ~lost' => Gives /\ axis_o.tlast
         /\ Gives /\ axis_o.tlast => Takes /\ axis_i.tlast /\ InConverter' = <<>>
         /\ Takes \/ Gives => axis_i.tvalid
         /\ Widening => AheadInv'
         /\ ~Widening => (Takes => ctr' = 0) /\ (~Takes /\ ~Gives => ctr' = ctr)
<1>. USE UNCHANGED <<bench, axis_i>>
<1>0. bench \in Benches /\ ctr \in 0..CTR_HIGH /\ bench.in \in Nat /\ bench.out \in Nat
  BY Lanes DEF TypeOK
<1>1. /\ InConverter \in Seq(Byte) /\ OnOffer \in Seq(Byte)
      /\ axis_o.tdata \in Seq(Lane) /\ Kept(axis_o.tdata) \in Seq(Byte)
  <2>1. CtrType /\ axis_o_tready \in BOOLEAN
    BY DEF TypeOK, CtrType, Lane
  <2>2. axis_o.tdata \in [1..bench.out -> Lane]
    BY <1>0, <2>1, PinsType DEF Beat, Lane
  <2>3. axis_o.tdata \in Seq(Lane)
    BY ONLY <1>0, <2>2
  <2>. QED
    BY <2>3, BytesType, KeptType
<1>2. /\ CTR_HIGH' = CTR_HIGH /\ WideLanes' = WideLanes /\ (Widening' <=> Widening)
  BY DEF CTR_HIGH, WideLanes, Widening
<1>3. Takes \/ Gives => axis_i.tvalid
  BY DEF Takes, Gives, axis_o
<1>4. CASE Widening
  <2>1. Gives => Takes
    BY <1>4 DEF Takes, Gives, axis_i_tready, axis_o
  <2>2. Takes /\ axis_i.tlast /\ ~lost' => Gives
    BY <1>4, Zenon DEF ConverterEdge, LosesLast, Takes
  <2>3. Takes /\ ctr = CTR_HIGH => Gives
    BY <1>4 DEF Takes, Gives, axis_i_tready, axis_o
  <2>4. axis_o.tlast <=> axis_i.tlast
    BY <1>4, Zenon DEF axis_o
  <2>5. axis_i.tvalid => OnOffer = Kept(axis_i.tdata)
    BY <1>4 DEF OnOffer
  <2>6. /\ ctr' = IF Gives THEN 0 ELSE IF Takes THEN ctr + 1 ELSE ctr
        /\ wide_reg' = IF Gives THEN [l \in 1..WideLanes |-> NoByte] ELSE wide
    BY <1>4 DEF ConverterEdge
  <2>7. PICK m \in Nat : m = ctr * bench.in /\ (ctr + 1) * bench.in = m + bench.in
    <3>1. \A a, b \in Nat : a * b \in Nat /\ (a + 1) * b = a * b + b
      OBVIOUS
    <3>2. CTR_HIGH \in Nat
      BY <1>0, <1>4, Lanes
    <3>3. ctr \in Nat
      BY ONLY <1>0, <3>2
    <3>. QED
      BY ONLY <1>0, <3>1, <3>3
  <2>8. /\ Kept(SubSeq(wide, 1, m)) = InConverter
        /\ Kept(SubSeq(wide, 1, m + bench.in)) = InConverter \o Kept(axis_i.tdata)
        /\ Kept(wide) = InConverter \o Kept(axis_i.tdata)
    BY <1>4, <2>7, WideParts
  <2>9. wide \in [1..WideLanes -> Lane] /\ WideLanes = bench.out
    BY <1>0, <1>4, Lanes, WideType DEF TypeOK, CtrType, Lane
  <2>10. CASE Gives
    <3>1. axis_i.tvalid /\ ctr' = 0 /\ wide_reg' = [l \in 1..WideLanes |-> NoByte]
      BY <1>3, <2>6, <2>10
    <3>2. InConverter' = <<>>
      BY <3>1, StartIsEmpty
    <3>3. axis_o.tdata = wide
      <4>1. axis_o.tdata = [l \in 1..bench.out |-> wide[l]]
        BY <1>4 DEF axis_o
      <4>. QED
        BY ONLY <2>9, <4>1
    <3>4. InConverter \o OnOffer = Kept(axis_o.tdata)
      BY <2>5, <2>8, <3>1, <3>3
    <3>5. Kept(axis_o.tdata) \o (<<>> \o <<>>) = Kept(axis_o.tdata)
      BY ONLY <1>1, EmptySeq, ConcatEmptySeq
    <3>6. AheadInv'
      BY <1>2, <1>4, <3>1 DEF AheadInv
    <3>. QED
      BY <1>4, <2>1, <2>4, <2>2, <2>10, <3>1, <3>2, <3>4, <3>5, <3>6
  <2>11. CASE Takes /\ ~Gives
    <3>1. axis_i.tvalid /\ ctr' = ctr + 1 /\ wide_reg' = wide
      BY <1>3, <2>6, <2>11
    <3>2. InConverter' = InConverter \o OnOffer
      <4>1. InConverter' = Kept(SubSeq(wide, 1, m + bench.in))
        BY <1>2, <1>4, <2>7, <3>1 DEF InConverter
      <4>. QED
        BY <2>5, <2>8, <3>1, <4>1
    <3>3. <<>> \o (InConverter' \o <<>>) = InConverter'
      BY ONLY <1>1, <3>2, ConcatProperties, ConcatEmptySeq
    <3>4. AheadInv'
      <4>1. \A l \in 1..WideLanes : l > m + bench.in => wide[l] = NoByte
        <5>1. \A l \in 1..WideLanes : l > m + bench.in => wide_reg[l] = NoByte
          BY <1>4, <2>7 DEF AheadInv
        <5>2. \A l \in 1..WideLanes : wide[l] = IF l - m \in 1..bench.in THEN axis_i.tdata[l - m] ELSE wide_reg[l]
          BY <1>4, <2>7 DEF wide
        <5>3. \A l \in 1..WideLanes : l > m + bench.in => l - m \notin 1..bench.in
          <6>1. WideLanes \in Nat
            BY <1>0, <2>9
          <6>. QED
            BY ONLY <1>0, <6>1, m \in Nat
        <5>. QED
          BY ONLY <5>1, <5>2, <5>3
      <4>2. \A l \in 1..WideLanes : l > (m + bench.in) + bench.in => l > m + bench.in
        <5>1. WideLanes \in Nat
          BY <1>0, <2>9
        <5>. QED
          BY ONLY <1>0, <5>1, m \in Nat
      <4>3. \A l \in 1..WideLanes : l > (ctr + 1) * bench.in + bench.in => wide[l] = NoByte
        BY ONLY <2>7, <4>1, <4>2
      <4>. QED
        BY <1>2, <1>4, <3>1, <4>3 DEF AheadInv
    <3>. QED
      BY <1>4, <2>2, <2>11, <3>1, <3>2, <3>3, <3>4
  <2>12. CASE ~Takes
    <3>1. ctr' = ctr /\ wide_reg' = wide /\ ~Gives
      BY <2>1, <2>6, <2>12
    <3>2. InConverter' = InConverter
      <4>1. InConverter' = Kept(SubSeq(wide, 1, m))
        BY <1>2, <1>4, <2>7, <3>1 DEF InConverter
      <4>. QED
        BY <2>8, <4>1
    <3>3. OnOffer' = OnOffer
      BY <1>2, <1>4 DEF OnOffer
    <3>4. <<>> \o (InConverter \o OnOffer) = InConverter \o OnOffer
      BY ONLY <1>1, ConcatProperties, ConcatEmptySeq
    <3>5. AheadInv'
      <4>1. \A l \in 1..WideLanes : l > m + bench.in => wide[l] = NoByte
        <5>1. \A l \in 1..WideLanes : l > m + bench.in => wide_reg[l] = NoByte
          BY <1>4, <2>7 DEF AheadInv
        <5>2. \A l \in 1..WideLanes : wide[l] = IF l - m \in 1..bench.in THEN axis_i.tdata[l - m] ELSE wide_reg[l]
          BY <1>4, <2>7 DEF wide
        <5>3. \A l \in 1..WideLanes : l > m + bench.in => l - m \notin 1..bench.in
          <6>1. WideLanes \in Nat
            BY <1>0, <2>9
          <6>. QED
            BY ONLY <1>0, <6>1, m \in Nat
        <5>. QED
          BY ONLY <5>1, <5>2, <5>3
      <4>. QED
        BY <1>2, <1>4, <2>7, <3>1, <4>1 DEF AheadInv
    <3>. QED
      BY <1>4, <2>12, <3>1, <3>2, <3>3, <3>4, <3>5
  <2>. QED
    BY <2>10, <2>11, <2>12
<1>5. CASE ~Widening
  <2>1. /\ Takes => Gives /\ ctr = CTR_HIGH
        /\ Gives /\ ctr = CTR_HIGH => Takes
        /\ axis_o.tlast <=> axis_i.tlast /\ ctr = CTR_HIGH
    BY <1>5 DEF Takes, Gives, axis_i_tready, axis_o
  <2>2. ctr' = IF Takes THEN 0 ELSE IF Gives THEN ctr + 1 ELSE ctr
    BY <1>5 DEF ConverterEdge
  <2>3. InConverter = <<>> /\ InConverter' = <<>>
    BY <1>2, <1>5, Zenon DEF InConverter
  <2>4. axis_i.tvalid =>
          /\ OnOffer = Kept(SubSeq(axis_i.tdata, ctr * bench.out + 1, bench.in))
          /\ OnOffer' = Kept(SubSeq(axis_i.tdata, ctr' * bench.out + 1, bench.in))
    BY <1>2, <1>5 DEF OnOffer
  <2>5. <<>> \o OnOffer = OnOffer /\ <<>> \o (<<>> \o OnOffer) = OnOffer
    BY ONLY <1>1, ConcatEmptySeq
  <2>6. CASE Gives
    <3>1. OnOffer = Kept(axis_o.tdata) \o
                      (IF ctr = CTR_HIGH THEN <<>>
                       ELSE Kept(SubSeq(axis_i.tdata, (ctr + 1) * bench.out + 1, bench.in)))
      BY <1>3, <1>5, <2>4, <2>6, NarrowParts
    <3>2. CASE ctr = CTR_HIGH
      <4>1. Takes /\ ctr' = 0 /\ OnOffer = Kept(axis_o.tdata) \o <<>>
        BY <2>1, <2>2, <2>6, <3>1, <3>2
      <4>2. <<>> \o <<>> = <<>>
        BY ONLY EmptySeq, ConcatEmptySeq
      <4>. QED
        BY <1>3, <1>5, <2>1, <2>3, <2>5, <2>6, <4>1, <4>2
    <3>3. CASE ctr # CTR_HIGH
      <4>1. ~Takes /\ ctr' = ctr + 1 /\ axis_i.tvalid
        BY <1>3, <2>1, <2>2, <2>6, <3>3
      <4>2. OnOffer = Kept(axis_o.tdata) \o OnOffer'
        BY <2>4, <3>1, <3>3, <4>1
      <4>3. OnOffer' \in Seq(Byte)
        <5>1. CTR_HIGH \in Nat
          BY <1>0, <1>5, NarrowLanes
        <5>2. PICK n \in Nat : n = (ctr + 1) * bench.out /\ n <= bench.in
          <6>1. \A c \in 0..CTR_HIGH : /\ c * bench.out <= CTR_HIGH * bench.out
                                       /\ c * bench.out \in Nat
            BY <1>0, <1>5, NarrowLanes
          <6>2. CTR_HIGH * bench.out < bench.in
            BY <1>0, <1>5, NarrowLanes
          <6>3. ctr + 1 \in 0..CTR_HIGH
            BY ONLY <1>0, <3>3, <5>1
          <6>4. CTR_HIGH * bench.out \in Nat
            BY ONLY <5>1, <6>1, CTR_HIGH \in 0..CTR_HIGH
          <6>5. (ctr + 1) * bench.out \in Nat /\ (ctr + 1) * bench.out <= CTR_HIGH * bench.out
            BY ONLY <6>1, <6>3
          <6>. QED
            BY ONLY <1>0, <6>2, <6>4, <6>5
        <5>3. axis_i.tdata \in [1..bench.in -> Lane]
          BY DEF TypeOK, Beat, Lane
        <5>4. axis_i.tdata \in Seq(Lane) /\ Len(axis_i.tdata) = bench.in
          BY ONLY <1>0, <5>3
        <5>5. SubSeq(axis_i.tdata, n + 1, bench.in) \in Seq(Lane)
          BY ONLY <1>0, <5>2, <5>4, n \in Nat, bench.in <= Len(axis_i.tdata), Part
        <5>. QED
          BY <2>4, <4>1, <5>2, <5>5, KeptType
      <4>4. <<>> \o OnOffer' = OnOffer'
        BY ONLY <4>3, ConcatEmptySeq
      <4>. QED
        BY <1>3, <1>5, <2>1, <2>3, <2>5, <2>6, <4>1, <4>2, <4>4
    <3>. QED
      BY <3>2, <3>3
  <2>7. CASE ~Gives
    <3>1. ~Takes /\ ctr' = ctr
      BY <2>1, <2>2, <2>7
    <3>2. OnOffer' = OnOffer
      BY <1>2, <3>1 DEF OnOffer
    <3>. QED
      BY <1>5, <2>3, <2>5, <2>7, <3>1, <3>2
  <2>. QED
    BY <2>6, <2>7
<1>. QED
  BY <1>4, <1>5
-----------------------------------------------------------------------------
(* Each step keeps the account                                             *)

LEMMA Everyone ==
  ASSUME order \in Registrations
  PROVE  \A p \in Peripherals : \E n \in 1..3 : order[n] = p
<1>1. /\ order[1] \in Peripherals /\ order[2] \in Peripherals /\ order[3] \in Peripherals
      /\ order[1] # order[2] /\ order[1] # order[3] /\ order[2] # order[3]
  BY DEF Registrations
<1>2. 1 \in 1..3 /\ 2 \in 1..3 /\ 3 \in 1..3
  OBVIOUS
<1>3. \A p \in Peripherals : order[1] = p \/ order[2] = p \/ order[3] = p
  BY ONLY <1>1 DEF Peripherals
<1>. QED
  BY <1>2, <1>3

\* A peripheral's turn comes once in an evaluation.
LEMMA TurnWaits ==
  ASSUME TypeOK, order \in Registrations, NEW p \in Peripherals, Turn(p)
  PROVE  /\ Waits(p) /\ ~Waits(p)'
         /\ \A q \in Peripherals \ {p} : Waits(q)' <=> Waits(q)
<1>1. /\ turn \in 1..3 /\ turn' = (IF turn = 3 THEN 0 ELSE turn + 1) /\ order[turn] = p /\ order' = order
  BY TurnType DEF TypeOK, Turn, harness
<1>2. \A i, j \in 1..3 : order[i] = order[j] => i = j
  BY DEF Registrations
<1>3. Waits(p)
  BY <1>1 DEF Waits
<1>4. \A n \in 1..3 : n \in turn..3 <=> n = turn \/ (turn' # 0 /\ n \in turn'..3)
  BY <1>1
<1>5. ASSUME NEW q  PROVE Waits(q)' <=> \E n \in 1..3 : n # turn /\ n \in turn..3 /\ order[n] = q
  <2>1. Waits(q)' <=> turn' # 0 /\ \E n \in turn'..3 : order[n] = q
    BY <1>1 DEF Waits
  <2>2. turn' # 0 => \A n \in turn'..3 : n \in 1..3 /\ n # turn /\ n \in turn..3
    BY <1>1
  <2>3. \A n \in 1..3 : n # turn /\ n \in turn..3 => turn' # 0 /\ n \in turn'..3
    BY <1>4
  <2>. QED
    BY <2>1, <2>2, <2>3
<1>6. ASSUME NEW q  PROVE Waits(q) <=> \E n \in 1..3 : n \in turn..3 /\ order[n] = q
  <2>1. Waits(q) <=> \E n \in turn..3 : order[n] = q
    BY <1>1 DEF Waits
  <2>2. \A n \in turn..3 : n \in 1..3
    BY <1>1
  <2>. QED
    BY <2>1, <2>2
<1>7. ~Waits(p)'
  BY <1>1, <1>2, <1>5
<1>8. ASSUME NEW q \in Peripherals \ {p}  PROVE Waits(q)' <=> Waits(q)
  BY <1>1, <1>5, <1>6
<1>. QED
  BY <1>3, <1>7, <1>8

\* The evaluation in which the peripherals see the clock rise is the one in
\* which the model does.
LEMMA RisesTogether ==
  ASSUME IInv, EvalModel
  PROVE  Rising' <=> clk' /\ ~clk
<1>1. time \in Ticks /\ (clk <=> getVal(time))
  BY DEF IInv
<1>2. (clk' <=> getVal(time')) /\ time' = NextTick(time)
  BY DEF EvalModel
<1>3. Rising' <=> time' = HalfClock
  BY <1>1, <1>2, HalfIsInside DEF Rising, getEvent, NextTick
<1>4. time' = HalfClock => time = HalfClock - 1
  BY <1>1, <1>2, HalfIsInside DEF NextTick
<1>5. clk' /\ ~clk => time' = HalfClock
  BY <1>1, <1>2, HalfIsInside DEF getVal, NextTick
<1>6. time' = HalfClock => clk' /\ ~clk
  BY <1>1, <1>2, <1>4, HalfIsInside DEF getVal
<1>. QED
  BY <1>3, <1>5, <1>6

\* A packet that is under way counts when it is not empty.
LEMMA FirstPacket ==
  ASSUME NEW p \in Seq(Byte), NEW q \in Seq(Seq(Byte))
  PROVE  /\ NonEmpty(q) \in Seq(Seq(Byte))
         /\ NonEmpty(<<p>> \o q) = IF p = <<>> THEN NonEmpty(q) ELSE <<p>> \o NonEmpty(q)
<1>1. <<p>> \in Seq(Seq(Byte)) /\ NonEmpty(q) \in Seq(Seq(Byte))
  BY NonEmptyType
<1>2. NonEmpty(<<p>> \o q) = NonEmpty(<<p>>) \o NonEmpty(q)
  BY ONLY <1>1, NonEmptyConcat
<1>3. <<>> \o NonEmpty(q) = NonEmpty(q)
  BY ONLY <1>1, ConcatEmptySeq
<1>. QED
  BY <1>1, <1>2, <1>3, NonEmptyOne

\* The bytes are where they were.
LEMMA SameConserved ==
  ASSUME Conserved, Stored' = Stored, UnderWay' = UnderWay, UNCHANGED <<bench, queue, rest>>,
         Idle' /\ rest = <<>> <=> Idle /\ rest = <<>>
  PROVE  Conserved'
BY DEF Conserved

LEMMA SameBytes ==
  ASSUME BytesConserved, Arrived' = Arrived, InConverter' = InConverter, Offered' = Offered,
         UNCHANGED <<rest, begun>>
  PROVE  BytesConserved'
BY DEF BytesConserved

\* When the model is evaluated no peripheral waits: all have been told.
LEMMA NobodyWaits ==
  ASSUME turn = 0
  PROVE  /\ ~SinkDue /\ ~SourceDue /\ Received = cur_data /\ Current = cur_data /\ Stored = stored
         /\ Arrived = arrived /\ Offered = OnOffer /\ (Idle <=> ~axis_i.tvalid)
         /\ UnderWay = ((cur_data \o InConverter) \o OnOffer) \o rest
<1>1. ~SinkDue /\ ~SourceDue
  BY DEF SinkDue, SourceDue, Waits
<1>. QED
  BY <1>1 DEF Arrived, Received, Current, Stored, Offered, Idle, UnderWay

\* After the evaluation of the model they all wait.
LEMMA EverybodyWaits ==
  ASSUME EvalModel, order \in Registrations
  PROVE  /\ SinkDue' <=> Rising' /\ sresetn /\ axis_o_tready /\ pins.axis_o.tvalid
         /\ SourceDue' <=> Rising' /\ sresetn /\ axis_i.tvalid /\ pins.axis_i_tready
         /\ UNCHANGED <<bench, order, axis_i, axis_o_tready, queue, rest, cur_data, stored, threw,
                        begun, arrived, reset_count, sresetn>>
         /\ saved' = Latched /\ turn = 0 /\ ~threw
<1>1. /\ UNCHANGED <<bench, order, axis_i, axis_o_tready, queue, rest, cur_data, stored, threw,
                     begun, arrived, reset_count, sresetn>>
      /\ saved' = Latched /\ turn = 0 /\ turn' = 1 /\ ~threw
  BY DEF EvalModel, harness, source, sink, reset, latch
<1>2. ASSUME NEW p \in Peripherals  PROVE Waits(p)'
  <2>1. Waits(p)' <=> \E n \in 1..3 : order[n] = p
    BY <1>1 DEF Waits
  <2>. QED
    BY <2>1, Everyone
<1>3. Waits("sink")' /\ Waits("source")'
  BY <1>2 DEF Peripherals
<1>. QED
  BY <1>1, <1>3 DEF SinkDue, SourceDue, Latched

\* In reset nothing is under way.
LEMMA ResetIsIdle ==
  ASSUME TypeOK, ResetOrder, LastInv, Conserved, ~saved.sresetn
  PROVE  /\ ~axis_i.tvalid /\ rest = <<>> /\ UnderWay = <<>> /\ Current = cur_data /\ cur_data = <<>>
         /\ Stored = stored /\ InConverter = <<>> /\ Offered = <<>> /\ ~SinkDue /\ ~SourceDue
<1>1. ~axis_i.tvalid /\ rest = <<>> /\ ~SinkDue /\ ~SourceDue
  BY DEF ResetOrder, LastInv, SinkDue, SourceDue
<1>2. UnderWay = <<>> /\ Current = cur_data /\ Stored = stored
  BY <1>1 DEF Conserved, Idle, Current, Received, Stored
<1>3. /\ Current \in Seq(Byte) /\ InConverter \in Seq(Byte) /\ Offered \in Seq(Byte) /\ rest \in Seq(Byte)
  BY BytesType
<1>4. Current \o InConverter \in Seq(Byte) /\ (Current \o InConverter) \o Offered \in Seq(Byte)
  BY ONLY <1>3, ConcatProperties
<1>5. ((Current \o InConverter) \o Offered) \o rest = <<>>
  BY <1>2 DEF UnderWay
<1>6. (Current \o InConverter) \o Offered = <<>>
  BY ONLY <1>3, <1>4, <1>5, ConcatEqualIffEmpty
<1>7. Current \o InConverter = <<>> /\ Offered = <<>>
  BY ONLY <1>3, <1>4, <1>6, ConcatEqualIffEmpty
<1>8. Current = <<>> /\ InConverter = <<>>
  BY ONLY <1>3, <1>7, ConcatEqualIffEmpty
<1>. QED
  BY <1>1, <1>2, <1>7, <1>8

LEMMA AppendAssociative ==
  ASSUME NEW S, NEW s \in Seq(S), NEW u \in S, NEW q \in Seq(S)
  PROVE  Append(s, u) \o q = s \o (<<u>> \o q)
<1>1. Append(s, u) = s \o <<u>> /\ <<u>> \in Seq(S)
  BY AppendIsConcat
<1>2. PICK x \in Seq(S) : x = <<u>>
  BY <1>1
<1>3. (s \o x) \o q = s \o (x \o q)
  BY ONLY s \in Seq(S), x \in Seq(S), q \in Seq(S)
<1>. QED
  BY ONLY <1>1, <1>2, <1>3

\* What there is in two places is one piece and what there is in two others.
Hands(i, o, g, j, p) == i \o o = g \o (j \o p)
Same(c, i, o, r, g, j, p) == ((c \o i) \o o) \o r = (((c \o g) \o j) \o p) \o r

\* The four parts of a packet: what the sink gets comes off the rest.
LEMMA Passed ==
  ASSUME NEW S, NEW c \in Seq(S), NEW i \in Seq(S), NEW o \in Seq(S), NEW r \in Seq(S),
         NEW g \in Seq(S), NEW j \in Seq(S), NEW p \in Seq(S), Hands(i, o, g, j, p)
  PROVE  Same(c, i, o, r, g, j, p)
<1>1. (c \o i) \o o = c \o (i \o o)
  BY ONLY c \in Seq(S), i \in Seq(S), o \in Seq(S)
<1>2. j \o p \in Seq(S) /\ c \o g \in Seq(S)
  BY ONLY c \in Seq(S), g \in Seq(S), j \in Seq(S), p \in Seq(S)
<1>3. c \o (g \o (j \o p)) = (c \o g) \o (j \o p)
  <2>1. PICK x \in Seq(S) : x = j \o p
    BY <1>2
  <2>2. (c \o g) \o x = c \o (g \o x)
    BY ONLY c \in Seq(S), g \in Seq(S), x \in Seq(S)
  <2>. QED
    BY ONLY <2>1, <2>2
<1>4. (c \o g) \o (j \o p) = ((c \o g) \o j) \o p
  <2>1. PICK x \in Seq(S) : x = c \o g
    BY <1>2
  <2>2. (x \o j) \o p = x \o (j \o p)
    BY ONLY x \in Seq(S), j \in Seq(S), p \in Seq(S)
  <2>. QED
    BY ONLY <2>1, <2>2
<1>5. c \o (i \o o) = ((c \o g) \o j) \o p
  BY ONLY <1>3, <1>4, Hands(i, o, g, j, p) DEF Hands
<1>. QED
  BY ONLY <1>1, <1>5 DEF Same

LEMMA ModelConserves ==
  ASSUME IInv, TypeOK, TypeOK', ConsInv, EvalModel
  PROVE  ConsInv'
<1>. DEFINE O == axis_o
            G == IF Gives THEN Kept(O.tdata) ELSE <<>>
<1>1. /\ UNCHANGED <<bench, order, axis_i, axis_o_tready, queue, rest, cur_data, stored, threw,
                     begun, arrived, reset_count, sresetn>>
      /\ saved' = Latched /\ turn = 0 /\ ~threw
  BY EverybodyWaits DEF ConsInv
<1>2. order' \in Registrations
  BY <1>1 DEF ConsInv
<1>3. ResetOrder'
  BY <1>1 DEF ConsInv, ResetOrder, Latched
<1>4. LastInv'
  BY <1>1 DEF ConsInv, LastInv
<1>6. LostInv'
  <2>1. lost' => lost \/ LosesLast
    BY Zenon DEF EvalModel, ConverterEdge
  <2>2. LosesLast => sresetn /\ Widening /\ ~axis_o_tready
    BY DEF LosesLast, Takes, Gives, axis_o
  <2>3. Widening' <=> Widening
    BY <1>1 DEF Widening
  <2>4. saved'.sresetn = sresetn
    BY <1>1 DEF Latched
  <2>5. LostInv /\ ResetOrder
    BY DEF ConsInv
  <2>. QED
    BY <1>1, <2>1, <2>2, <2>3, <2>4, <2>5 DEF LostInv, ResetOrder
<1>5. AheadInv' /\ BytesConserved' /\ (~lost' => Conserved')
  <2>1. ~lost' => ~lost
    BY Zenon DEF EvalModel, ConverterEdge
  <2>2. AheadInv /\ BytesConserved /\ ResetOrder /\ LastInv /\ LostInv /\ (~lost => Conserved)
    BY <1>1 DEF ConsInv
  <2>3. /\ UnderWay = ((cur_data \o InConverter) \o OnOffer) \o rest /\ Stored = stored /\ (Idle <=> ~axis_i.tvalid)
        /\ Arrived = arrived /\ Offered = OnOffer
    BY <1>1, NobodyWaits
  <2>4. CASE ~Rising'
    <3>1. UNCHANGED <<ctr, wide_reg, lost>>
      BY <2>4, RisesTogether DEF EvalModel
    <3>2. ~SinkDue' /\ ~SourceDue'
      BY <2>4 DEF SinkDue, SourceDue
    <3>3. InConverter' = InConverter /\ OnOffer' = OnOffer /\ (Idle' <=> Idle)
      BY <1>1, <2>3, <3>1, <3>2 DEF InConverter, OnOffer, Widening, Idle
    <3>4. Current' = cur_data /\ Stored' = stored /\ Offered' = OnOffer /\ Arrived' = arrived
      BY <1>1, <3>2, <3>3 DEF Current, Received, Stored, Offered, Arrived
    <3>5. UnderWay' = UnderWay
      BY <1>1, <2>3, <3>3, <3>4 DEF UnderWay
    <3>6. AheadInv'
      BY <1>1, <2>2, <2>4, <3>1, <3>3 DEF AheadInv, WideLanes, CTR_HIGH, Widening
    <3>7. BytesConserved'
      BY <1>1, <2>2, <2>3, <3>3, <3>4, SameBytes
    <3>8. ~lost' => Conserved'
      BY <1>1, <2>1, <2>2, <2>3, <3>3, <3>4, <3>5, SameConserved
    <3>. QED
      BY <3>6, <3>7, <3>8
  <2>5. CASE Rising' /\ ~sresetn
    <3>1. ConverterEdge
      BY <2>5, RisesTogether DEF EvalModel
    <3>2. ctr' = 0 /\ (Widening => wide_reg' = [l \in 1..WideLanes |-> NoByte])
      BY <2>5, <3>1 DEF ConverterEdge
    <3>3. ~saved.sresetn /\ ~saved'.sresetn
      BY <1>1, <2>2, <2>5 DEF ResetOrder, Latched
    <3>4. /\ ~axis_i.tvalid /\ rest = <<>> /\ UnderWay = <<>> /\ cur_data = <<>>
          /\ InConverter = <<>> /\ Offered = <<>> /\ ~lost /\ Conserved
      BY <2>2, <3>3, ResetIsIdle DEF LostInv
    <3>5. ~SinkDue' /\ ~SourceDue'
      BY <3>3 DEF SinkDue, SourceDue
    <3>6. InConverter' = <<>>
      BY <1>1, <3>2, StartIsEmpty
    <3>7. Current' = <<>> /\ Stored' = stored /\ Offered' = <<>> /\ Arrived' = arrived
      BY <1>1, <3>4, <3>5 DEF Current, Received, Stored, Offered, OnOffer, Arrived
    <3>8. UnderWay' = UnderWay
      <4>1. <<>> \o <<>> = <<>>
        BY ONLY EmptySeq, ConcatEmptySeq
      <4>. QED
        BY <1>1, <3>4, <3>6, <3>7, <4>1 DEF UnderWay
    <3>9. AheadInv'
      BY <1>1, <3>2 DEF AheadInv, WideLanes, CTR_HIGH, Widening
    <3>10. Idle' /\ Idle
      BY <1>1, <2>3, <3>4 DEF Idle
    <3>11. BytesConserved'
      BY <1>1, <2>2, <2>3, <3>4, <3>6, <3>7, SameBytes
    <3>12. Conserved'
      BY <1>1, <2>3, <3>4, <3>7, <3>8, <3>10, SameConserved
    <3>. QED
      BY <3>9, <3>11, <3>12
  <2>6. CASE Rising' /\ sresetn
    <3>1. ConverterEdge
      BY <2>6, RisesTogether DEF EvalModel
    <3>2. pins = [axis_i_tready |-> axis_i_tready, axis_o |-> O]
      <4>1. clk' = getVal(NextTick(time)) /\ clk' /\ ~clk
        BY <2>6, RisesTogether DEF EvalModel
      <4>. QED
        BY <1>1, <4>1, SettledFromIInv DEF SettledBeforeEdge
    <3>. HIDE DEF O
    <3>3. saved'.beat = O /\ (SinkDue' <=> Gives) /\ (SourceDue' <=> Takes)
      <4>1. saved'.beat = O
        BY <1>1, <3>2 DEF Latched
      <4>2. SinkDue' <=> axis_o_tready /\ O.tvalid
        BY <2>6, <3>2, EverybodyWaits DEF ConsInv
      <4>3. SourceDue' <=> axis_i.tvalid /\ axis_i_tready
        BY <2>6, <3>2, EverybodyWaits DEF ConsInv
      <4>. QED
        BY <4>1, <4>2, <4>3 DEF Gives, Takes, O
    <3>4. /\ InConverter \o OnOffer = G \o (InConverter' \o (IF Takes THEN <<>> ELSE OnOffer'))
          /\ Takes /\ axis_i.tlast /\ ~lost' => Gives /\ O.tlast
          /\ Gives /\ O.tlast => Takes /\ axis_i.tlast /\ InConverter' = <<>>
          /\ Takes \/ Gives => axis_i.tvalid
          /\ Widening => AheadInv'
          /\ ~Widening => (Takes => ctr' = 0) /\ (~Takes /\ ~Gives => ctr' = ctr)
      BY <1>1, <2>2, <2>6, <3>1, HandOver DEF O
    <3>5. Offered' = IF Takes THEN <<>> ELSE OnOffer'
      BY <3>3 DEF Offered
    <3>6. /\ cur_data \in Seq(Byte) /\ InConverter \in Seq(Byte) /\ OnOffer \in Seq(Byte)
          /\ rest \in Seq(Byte) /\ queue \in Seq(Seq(Byte)) /\ stored \in Seq(Seq(Byte))
      BY BytesType DEF TypeOK
    <3>13. arrived \in Seq(Byte)
      BY DEF TypeOK
    <3>7. InConverter' \in Seq(Byte) /\ Offered' \in Seq(Byte) /\ G \in Seq(Byte)
      <4>1. InConverter' \in Seq(Byte) /\ Offered' \in Seq(Byte)
        <5>1. (TypeOK => InConverter \in Seq(Byte) /\ Offered \in Seq(Byte))'
          BY BytesType, PTL
        <5>. QED
          BY <5>1
      <4>2. G \in Seq(Byte)
        <5>1. bench.out \in Nat /\ bench \in Benches /\ axis_o_tready \in BOOLEAN /\ CtrType
          BY Lanes DEF TypeOK, CtrType, Lane
        <5>2. O.tdata \in [1..bench.out -> Lane]
          BY <5>1, PinsType DEF O, Beat, Lane
        <5>3. O.tdata \in Seq(Lane)
          BY ONLY <5>1, <5>2
        <5>. QED
          BY <5>3, KeptType, EmptySeq
      <4>. QED
        BY <4>1, <4>2
    <3>8. Received' = cur_data \o G /\ Arrived' = arrived \o G
      <4>1. cur_data \o <<>> = cur_data /\ arrived \o <<>> = arrived
        BY ONLY <3>6, <3>13, ConcatEmptySeq
      <4>. QED
        BY <1>1, <3>3, <4>1 DEF Received, Arrived
    <3>. HIDE DEF G
    <3>9. UnderWay = (((cur_data \o G) \o InConverter') \o Offered') \o rest /\ BytesConserved'
      <4>1. Hands(InConverter, OnOffer, G, InConverter', Offered')
        BY <3>4, <3>5 DEF Hands
      <4>2. Same(cur_data, InConverter, OnOffer, rest, G, InConverter', Offered')
        BY ONLY <3>6, <3>7, <4>1, Passed, Zenon
      <4>3. Same(arrived, InConverter, OnOffer, rest, G, InConverter', Offered')
        BY ONLY <3>6, <3>13, <3>7, <4>1, Passed, Zenon
      <4>4. ((arrived \o InConverter) \o OnOffer) \o rest = begun
        BY <2>2, <2>3 DEF BytesConserved
      <4>5. BytesConserved'
        BY <1>1, <3>8, <4>3, <4>4, Zenon DEF Same, BytesConserved
      <4>. QED
        BY <2>3, <4>2, <4>5, Zenon DEF Same
    <3>10. AheadInv'
      <4>1. CASE ~Widening
        <5>1. Idle' => ctr' = 0
          BY <1>1, <2>2, <2>3, <2>6, <3>3, <3>4, <4>1 DEF Idle, AheadInv
        <5>. QED
          BY <1>1, <4>1, <5>1 DEF AheadInv, Widening
      <4>. QED
        BY <3>4, <4>1
    <3>11. ASSUME ~lost', Gives /\ O.tlast  PROVE Conserved'
      <4>1. Takes /\ axis_i.tlast /\ InConverter' = <<>> /\ Offered' = <<>> /\ axis_i.tvalid /\ rest = <<>>
        BY <2>2, <3>4, <3>5, <3>11 DEF LastInv
      <4>2. Current' = <<>> /\ Stored' = Append(stored, cur_data \o G)
        BY <1>1, <3>3, <3>8, <3>11 DEF Current, Stored
      <4>3. cur_data \o G \in Seq(Byte)
        BY ONLY <3>6, <3>7, ConcatProperties
      <4>4. UnderWay = cur_data \o G
        BY ONLY <3>9, <4>1, <4>3, ConcatEmptySeq
      <4>5. UnderWay' = <<>>
        <5>1. <<>> \o <<>> = <<>>
          BY ONLY EmptySeq, ConcatEmptySeq
        <5>. QED
          BY <1>1, <4>1, <4>2, <5>1 DEF UnderWay
      <4>6. UnderWay # <<>> /\ UnderWay \in Seq(Byte)
        BY <2>1, <2>2, <2>3, <3>11, <4>1, <4>3, <4>4 DEF Conserved
      <4>7. NonEmpty(<<UnderWay>> \o queue) = <<UnderWay>> \o NonEmpty(queue) /\ NonEmpty(queue) \in Seq(Seq(Byte))
        BY <3>6, <4>6, FirstPacket
      <4>8. Append(stored, UnderWay) \o NonEmpty(queue) = stored \o (<<UnderWay>> \o NonEmpty(queue))
        <5>1. /\ stored \in Seq(Seq(Byte)) /\ UnderWay \in Seq(Byte)
              /\ NonEmpty(queue) \in Seq(Seq(Byte))
          BY ONLY <3>6, <4>6, <4>7
        <5>. DEFINE Packet == Seq(Byte)
                    u == UnderWay
                    q == NonEmpty(queue)
        <5>. HIDE DEF Packet, u, q
        <5>2. stored \in Seq(Packet) /\ u \in Packet /\ q \in Seq(Packet)
          BY <5>1 DEF Packet, u, q
        <5>3. Append(stored, u) \o q = stored \o (<<u>> \o q)
          BY ONLY <5>2, AppendAssociative
        <5>. QED
          BY <5>3 DEF u, q
      <4>9. NonEmpty(<<<<>>>> \o queue) = NonEmpty(queue)
        BY ONLY <3>6, EmptySeq, FirstPacket
      <4>10. stored \o NonEmpty(<<UnderWay>> \o queue) = NonEmpty(bench.packets)
        BY <2>1, <2>2, <2>3, <3>11 DEF Conserved
      <4>11. Stored' \o NonEmpty(<<UnderWay'>> \o queue') = NonEmpty(bench'.packets)
        BY ONLY <1>1, <4>2, <4>4, <4>5, <4>7, <4>8, <4>9, <4>10
      <4>12. Idle' /\ rest' = <<>>
        BY <1>1, <3>3, <4>1 DEF Idle
      <4>. QED
        BY <4>5, <4>11, <4>12 DEF Conserved
    <3>12. ASSUME ~lost', ~(Gives /\ O.tlast)  PROVE Conserved'
      <4>1. Current' = cur_data \o G /\ Stored' = stored
        BY <1>1, <3>3, <3>8, <3>12 DEF Current, Stored
      <4>2. UnderWay' = UnderWay
        BY <1>1, <3>9, <4>1 DEF UnderWay
      <4>3. Idle' /\ rest = <<>> <=> Idle /\ rest = <<>>
        <5>1. Takes => rest # <<>>
          BY <2>2, <3>4, <3>12 DEF LastInv
        <5>2. Idle' <=> ~axis_i.tvalid \/ Takes
          BY <1>1, <3>3 DEF Idle
        <5>. QED
          BY <2>3, <5>1, <5>2
      <4>. QED
        BY <1>1, <2>1, <2>2, <2>3, <3>12, <4>1, <4>2, <4>3, SameConserved
    <3>. QED
      BY <3>9, <3>10, <3>11, <3>12
  <2>. QED
    BY <2>4, <2>5, <2>6
<1>. QED
  BY <1>2, <1>3, <1>4, <1>5, <1>6 DEF ConsInv

LEMMA ResetConserves ==
  ASSUME TypeOK, ConsInv, EvalReset
  PROVE  ConsInv'
<1>1. /\ UNCHANGED <<bench, order, time, saved, axis_i, axis_o_tready, queue, rest, cur_data, stored, threw,
                     pins, ctr, wide_reg, lost, begun, arrived>>
      /\ Turn("reset") /\ reset_count' = ResetCount(reset_count, getEvent(time))
      /\ sresetn' = Released(reset_count')
  BY DEF EvalReset, Turn, harness, source, sink, uut
<1>2. (Waits("sink")' <=> Waits("sink")) /\ (Waits("source")' <=> Waits("source"))
  BY <1>1, TurnWaits DEF ConsInv, Peripherals
<1>3. /\ SinkDue' <=> SinkDue
      /\ SourceDue' <=> SourceDue
      /\ Rising' <=> Rising
  BY <1>1, <1>2 DEF SinkDue, SourceDue, Rising
<1>4. InConverter' = InConverter /\ OnOffer' = OnOffer
  BY <1>1 DEF InConverter, OnOffer, Widening
<1>5. Received' = Received /\ Arrived' = Arrived
  BY <1>1, <1>3 DEF Received, Arrived
<1>6. Current' = Current /\ Stored' = Stored /\ Offered' = Offered /\ (Idle' <=> Idle)
  BY <1>1, <1>3, <1>4, <1>5 DEF Current, Stored, Offered, Idle
<1>7. UnderWay' = UnderWay
  BY <1>1, <1>4, <1>6 DEF UnderWay
<1>8. ResetOrder' /\ (sresetn' => sresetn \/ Rising)
  <2>1. sresetn <=> Released(reset_count)
    BY DEF ConsInv, ResetOrder
  <2>2. Released(reset_count) => reset_count' = reset_count
    BY <1>1 DEF ResetCount, Released, ResetEdges
  <2>3. ~Rising => reset_count' = reset_count
    BY <1>1 DEF ResetCount, Rising
  <2>4. sresetn' <=> Released(reset_count')
    BY <1>1
  <2>. QED
    BY <1>1, <2>1, <2>2, <2>3, <2>4 DEF ConsInv, ResetOrder
<1>9. LastInv'
  BY <1>1 DEF ConsInv, LastInv
<1>10. AheadInv => AheadInv'
  BY <1>1, <1>3, <1>6, <1>8 DEF AheadInv, WideLanes, CTR_HIGH, Widening
<1>11. Conserved => Conserved'
  BY <1>1, <1>6, <1>7, SameConserved
<1>12. BytesConserved => BytesConserved'
  BY <1>1, <1>4, <1>5, <1>6, SameBytes
<1>13. LostInv'
  BY <1>1 DEF ConsInv, LostInv, Widening
<1>. QED
  BY <1>1, <1>8, <1>9, <1>10, <1>11, <1>12, <1>13 DEF ConsInv

LEMMA StutterConserves ==
  ASSUME ConsInv, UNCHANGED vars
  PROVE  ConsInv'
<1>1. UNCHANGED <<bench, order, turn, time, saved, axis_i, axis_o_tready, queue, rest, cur_data, stored, threw,
                  ctr, wide_reg, lost, begun, arrived, reset_count, sresetn>>
  BY DEF vars, harness, source, sink, uut, reset
<1>2. ASSUME NEW p  PROVE Waits(p)' <=> Waits(p)
  BY <1>1 DEF Waits
<1>3. /\ SinkDue' <=> SinkDue
      /\ SourceDue' <=> SourceDue
      /\ Rising' <=> Rising
  BY <1>1, <1>2 DEF SinkDue, SourceDue, Rising
<1>4. InConverter' = InConverter /\ OnOffer' = OnOffer
  BY <1>1 DEF InConverter, OnOffer, Widening
<1>5. Received' = Received /\ Arrived' = Arrived
  BY <1>1, <1>3 DEF Received, Arrived
<1>6. Current' = Current /\ Stored' = Stored /\ Offered' = Offered /\ (Idle' <=> Idle)
  BY <1>1, <1>3, <1>4, <1>5 DEF Current, Stored, Offered, Idle
<1>7. UnderWay' = UnderWay
  BY <1>1, <1>4, <1>6 DEF UnderWay
<1>8. ResetOrder' /\ LastInv'
  BY <1>1 DEF ConsInv, ResetOrder, LastInv
<1>9. AheadInv => AheadInv'
  BY <1>1, <1>3, <1>6 DEF AheadInv, WideLanes, CTR_HIGH, Widening
<1>10. Conserved => Conserved'
  BY <1>1, <1>6, <1>7, SameConserved
<1>11. BytesConserved => BytesConserved'
  BY <1>1, <1>4, <1>5, <1>6, SameBytes
<1>12. LostInv'
  BY <1>1 DEF ConsInv, LostInv, Widening
<1>. QED
  BY <1>1, <1>8, <1>9, <1>10, <1>11, <1>12 DEF ConsInv

\* What the sink makes of a beat is what it had coming.
LEMMA SinkConserves ==
  ASSUME TypeOK, ConsInv, EvalSink
  PROVE  ConsInv'
<1>1. /\ UNCHANGED <<bench, order, time, saved, axis_i, queue, rest, begun, pins, ctr, wide_reg, lost,
                     reset_count, sresetn>>
      /\ Turn("sink") /\ ~threw
  BY DEF EvalSink, Turn, harness, source, reset, uut
<1>2. Waits("sink") /\ ~Waits("sink")' /\ (Waits("source")' <=> Waits("source"))
  BY <1>1, TurnWaits DEF ConsInv, Peripherals
<1>3. /\ SinkDue <=> Rising /\ saved.sresetn /\ axis_o_tready /\ saved.beat.tvalid
      /\ ~SinkDue'
      /\ SourceDue' <=> SourceDue
      /\ Rising' <=> Rising
  BY <1>1, <1>2 DEF SinkDue, SourceDue, Rising
<1>4. InConverter' = InConverter /\ OnOffer' = OnOffer
  BY <1>1 DEF InConverter, OnOffer, Widening
<1>5. /\ Current' = cur_data' /\ Stored' = stored' /\ Offered' = Offered /\ (Idle' <=> Idle)
      /\ Arrived' = arrived'
  BY <1>1, <1>3, <1>4 DEF Arrived, Received, Current, Stored, Offered, Idle
<1>6. ResetOrder' /\ LastInv'
  BY <1>1 DEF ConsInv, ResetOrder, LastInv
<1>7. AheadInv => AheadInv'
  BY <1>1, <1>3, <1>5 DEF AheadInv, WideLanes, CTR_HIGH, Widening
<1>8. ASSUME ~threw'  PROVE cur_data' = Current /\ stored' = Stored /\ arrived' = Arrived
  <2>1. ResetOrder /\ LastInv /\ LostInv /\ (~lost => Conserved)
    BY <1>1 DEF ConsInv
  <2>2. CASE Rising /\ ~saved.sresetn
    <3>1. cur_data' = <<>> /\ stored' = stored /\ arrived' = arrived
      BY <2>2 DEF EvalSink
    <3>2. Current = <<>> /\ Stored = stored /\ ~SinkDue
      BY <2>1, <2>2, ResetIsIdle DEF LostInv
    <3>. QED
      BY <3>1, <3>2 DEF Arrived
  <2>3. CASE SinkDue
    <3>1. Receive(saved.beat)
      BY <1>3, <2>3 DEF EvalSink
    <3>2. ~(bench.strict /\ Unpacked(saved.beat))
      BY <1>8, <3>1 DEF Receive
    <3>3. /\ cur_data' = IF saved.beat.tlast THEN <<>> ELSE cur_data \o Kept(saved.beat.tdata)
          /\ stored' = IF saved.beat.tlast THEN Append(stored, cur_data \o Kept(saved.beat.tdata)) ELSE stored
          /\ arrived' = arrived \o Kept(saved.beat.tdata)
      BY <3>1, <3>2 DEF Receive, send
    <3>. QED
      BY <2>3, <3>3 DEF Current, Stored, Received, Arrived
  <2>4. CASE ~(Rising /\ ~saved.sresetn) /\ ~SinkDue
    <3>1. cur_data' = cur_data /\ stored' = stored /\ arrived' = arrived
      BY <1>3, <2>4 DEF EvalSink
    <3>. QED
      BY <2>4, <3>1 DEF Current, Stored, Received, Arrived
  <2>. QED
    BY <2>2, <2>3, <2>4
<1>9. ASSUME ~threw', Conserved  PROVE Conserved'
  <2>1. Stored' = Stored /\ UnderWay' = UnderWay
    BY <1>1, <1>4, <1>5, <1>8, <1>9 DEF UnderWay
  <2>. QED
    BY <1>1, <1>5, <1>9, <2>1, SameConserved
<1>10. ASSUME ~threw', BytesConserved  PROVE BytesConserved'
  BY <1>1, <1>4, <1>5, <1>8, <1>10, SameBytes
<1>11. LostInv'
  <2>1. axis_o_tready' \/ bench.stalls
    BY <1>1 DEF EvalSink, ConsInv, LostInv
  <2>. QED
    BY <1>1, <2>1 DEF ConsInv, LostInv, Widening
<1>. QED
  BY <1>1, <1>6, <1>7, <1>9, <1>10, <1>11 DEF ConsInv

\* What the source puts on the pins is the next of the packet under way, or the
\* first of the next packet when none is.
LEMMA SourceConserves ==
  ASSUME TypeOK, ConsInv, EvalSource
  PROVE  ConsInv'
<1>1. /\ UNCHANGED <<bench, order, time, saved, axis_o_tready, cur_data, stored, threw, arrived, pins, ctr,
                     wide_reg, lost, reset_count, sresetn>>
      /\ Turn("source") /\ ~threw
  BY DEF EvalSource, Turn, harness, sink, reset, uut
<1>2. Waits("source") /\ ~Waits("source")' /\ (Waits("sink")' <=> Waits("sink"))
  BY <1>1, TurnWaits DEF ConsInv, Peripherals
<1>3. /\ SourceDue <=> Rising /\ saved.sresetn /\ axis_i.tvalid /\ saved.tready
      /\ ~SourceDue'
      /\ SinkDue' <=> SinkDue
      /\ Rising' <=> Rising
  BY <1>1, <1>2 DEF SinkDue, SourceDue, Rising
<1>4. InConverter' = InConverter /\ Received' = Received /\ Arrived' = Arrived
  BY <1>1, <1>3 DEF InConverter, Received, Arrived, Widening
<1>5. Current' = Current /\ Stored' = Stored /\ Offered' = OnOffer' /\ (Idle' <=> ~axis_i'.tvalid)
  BY <1>1, <1>3, <1>4 DEF Current, Stored, Offered, Idle
<1>6. UnderWay' = ((Current \o InConverter) \o OnOffer') \o rest'
  BY <1>4, <1>5 DEF UnderWay
<1>9. LostInv'
  BY <1>1 DEF ConsInv, LostInv, Widening
<1>. DEFINE ready == Rising /\ saved.sresetn /\ (axis_i.tvalid => saved.tready)
<1>7. CASE ~ready
  <2>1. /\ UNCHANGED <<queue, rest, begun>> /\ (axis_i'.tvalid <=> axis_i.tvalid) /\ ~SourceDue
        /\ (axis_i.tvalid => axis_i' = axis_i)
    <3>1. CASE Rising /\ ~saved.sresetn
      <4>1. axis_i' = [axis_i EXCEPT !.tvalid = FALSE] /\ UNCHANGED <<queue, rest, begun>>
        BY <3>1 DEF EvalSource
      <4>2. ~axis_i.tvalid
        BY <3>1 DEF ConsInv, ResetOrder
      <4>3. axis_i'.tvalid = FALSE
        BY <4>1 DEF TypeOK, Beat
      <4>. QED
        BY <3>1, <1>3, <4>1, <4>2, <4>3
    <3>2. CASE ~(Rising /\ ~saved.sresetn)
      <4>1. UNCHANGED <<axis_i, queue, rest, begun>>
        BY <1>7, <3>2 DEF EvalSource, source
      <4>. QED
        BY <1>3, <1>7, <4>1
    <3>. QED
      BY <3>1, <3>2
  <2>2. OnOffer' = OnOffer
    BY <1>1, <2>1 DEF OnOffer, Widening
  <2>3. ResetOrder'
    BY <1>1, <2>1 DEF ConsInv, ResetOrder
  <2>4. LastInv'
    BY <2>1 DEF ConsInv, LastInv
  <2>5. Idle' <=> Idle
    BY <1>5, <2>1 DEF Idle
  <2>6. AheadInv => AheadInv'
    BY <1>1, <1>3, <2>5 DEF AheadInv, WideLanes, CTR_HIGH, Widening
  <2>7. UnderWay' = UnderWay
    BY <1>6, <2>1, <2>2 DEF UnderWay, Offered
  <2>8. Conserved => Conserved'
    BY <1>1, <1>5, <2>1, <2>5, <2>7, SameConserved
  <2>9. BytesConserved => BytesConserved'
    BY <1>4, <1>5, <2>1, <2>2, SameBytes DEF Offered
  <2>. QED
    BY <1>1, <1>9, <2>3, <2>4, <2>6, <2>8, <2>9 DEF ConsInv
<1>8. CASE ready
  <2>1. setupNextData
    BY <1>8 DEF EvalSource
  <2>2. Idle /\ Offered = <<>>
    BY <1>3, <1>8 DEF Idle, Offered, OnOffer
  <2>3. bench \in Benches /\ bench.in \in Nat /\ bench.out \in Nat
    BY Lanes DEF TypeOK
  <2>4. /\ queue' \in Seq(Seq(Byte)) /\ rest' \in Seq(Byte) /\ axis_i' \in Beat(bench.in)
        /\ Fetched \in Seq(Byte)
        /\ Fetched = <<>> => ~axis_i'.tvalid /\ rest' = <<>>
        /\ Fetched # <<>> => /\ axis_i'.tvalid /\ (axis_i'.tlast <=> rest' = <<>>)
                             /\ Kept(axis_i'.tdata) \o rest' = Fetched
    BY <2>1, NextBeat DEF TypeOK
  <2>5. LastInv'
    BY <2>4 DEF LastInv
  <2>6. ResetOrder'
    BY <1>1, <1>8 DEF ConsInv, ResetOrder
  <2>7. AheadInv' /\ BytesConserved' /\ (~lost => Conserved')
    <3>1. AheadInv /\ BytesConserved /\ (~lost => Conserved)
      BY <1>1 DEF ConsInv
    <3>2. ~Widening => ctr = 0
      BY <1>8, <2>2, <3>1 DEF AheadInv
    <3>3. AheadInv'
      BY <1>1, <3>1, <3>2 DEF AheadInv, WideLanes, CTR_HIGH, Widening
    <3>4. axis_i'.tvalid => OnOffer' = Kept(axis_i'.tdata)
      <4>1. CASE Widening
        BY <1>1, <4>1 DEF OnOffer, Widening
      <4>2. CASE ~Widening
        <5>1. ctr' = 0 /\ 0 * bench.out + 1 = 1
          BY <1>1, <2>3, <3>2, <4>2
        <5>2. axis_i'.tdata \in [1..bench.in -> Lane]
          BY <2>4 DEF Beat, Lane
        <5>3. axis_i'.tdata \in Seq(Lane) /\ Len(axis_i'.tdata) = bench.in
          BY ONLY <2>3, <5>2
        <5>4. SubSeq(axis_i'.tdata, 1, bench.in) = axis_i'.tdata
          BY ONLY <5>3, SubSeqFull
        <5>. QED
          BY <1>1, <4>2, <5>1, <5>4 DEF OnOffer, Widening
      <4>. QED
        BY <4>1, <4>2
    <3>. DEFINE base == Current \o InConverter
                sum == Arrived \o InConverter
                offer == OnOffer'
                left == rest'
                F == Fetched
    <3>5. /\ Current \in Seq(Byte) /\ InConverter \in Seq(Byte) /\ rest \in Seq(Byte)
          /\ queue \in Seq(Seq(Byte)) /\ Stored \in Seq(Seq(Byte)) /\ Arrived \in Seq(Byte)
      BY BytesType
    <3>6. base \in Seq(Byte) /\ sum \in Seq(Byte)
      BY ONLY <3>5, ConcatProperties
    <3>7. UnderWay = base \o rest /\ begun = sum \o rest
      <4>1. base \o <<>> = base /\ sum \o <<>> = sum
        BY ONLY <3>6, ConcatEmptySeq
      <4>. QED
        BY <2>2, <3>1, <4>1 DEF UnderWay, BytesConserved
    <3>8. offer \in Seq(Byte) /\ offer \o left = F
      <4>1. CASE Fetched = <<>>
        <5>1. offer = <<>> /\ left = <<>> /\ <<>> \o <<>> = <<>>
          BY <2>4, <4>1, EmptySeq, ConcatEmptySeq DEF OnOffer
        <5>. QED
          BY <4>1, <5>1, EmptySeq
      <4>2. CASE Fetched # <<>>
        <5>1. axis_i'.tdata \in [1..bench.in -> Lane]
          BY <2>4 DEF Beat, Lane
        <5>2. axis_i'.tdata \in Seq(Lane)
          BY ONLY <2>3, <5>1
        <5>3. offer = Kept(axis_i'.tdata)
          BY <2>4, <3>4, <4>2
        <5>. QED
          BY <2>4, <4>2, <5>2, <5>3, KeptType
      <4>. QED
        BY <4>1, <4>2
    <3>9. UnderWay' = (base \o offer) \o left /\ (BytesConserved' <=> (sum \o offer) \o left = begun')
      BY <1>4, <1>5, <1>6 DEF BytesConserved
    <3>10. left \in Seq(Byte) /\ F \in Seq(Byte) /\ (F = <<>> => rest = <<>>)
           /\ (F = <<>> <=> ~axis_i'.tvalid /\ left = <<>>)
      BY <2>4 DEF Fetched
    <3>. HIDE DEF base, sum, offer, left, F
    <3>11. UnderWay' = base \o F /\ (sum \o offer) \o left = sum \o F
      <4>1. base \in Seq(Byte) /\ sum \in Seq(Byte) /\ offer \in Seq(Byte) /\ left \in Seq(Byte)
        BY <3>6, <3>8, <3>10
      <4>2. (base \o offer) \o left = base \o (offer \o left)
        BY ONLY <4>1, ConcatAssociative
      <4>3. (sum \o offer) \o left = sum \o (offer \o left)
        BY ONLY <4>1, ConcatAssociative
      <4>. QED
        BY ONLY <3>8, <3>9, <4>2, <4>3
    <3>16. BytesConserved'
      <4>1. CASE rest # <<>> \/ queue = <<>>
        <5>1. F = rest /\ begun' = begun
          BY <2>1, <4>1 DEF F, Fetched, setupNextData
        <5>. QED
          BY ONLY <3>7, <3>9, <3>11, <5>1
      <4>2. CASE rest = <<>> /\ queue # <<>>
        <5>1. F = Head(queue) /\ begun' = begun \o Head(queue)
          BY <2>1, <4>2 DEF F, Fetched, setupNextData, receive
        <5>2. begun = sum
          BY ONLY <3>6, <3>7, <4>2, ConcatEmptySeq
        <5>. QED
          BY ONLY <3>9, <3>11, <5>1, <5>2
      <4>. QED
        BY <4>1, <4>2
    <3>12. ~lost /\ rest = <<>> => base = <<>>
      <4>1. ~lost /\ rest = <<>> => UnderWay = <<>>
        BY <2>2, <3>1 DEF Conserved
      <4>. QED
        BY ONLY <3>5, <3>6, <3>7, <4>1, ConcatEqualIffEmpty
    <3>13. ~lost => (UnderWay' = <<>> <=> F = <<>>)
      <4>1. base \o F = <<>> <=> base = <<>> /\ F = <<>>
        BY ONLY <3>6, <3>10, ConcatEqualIffEmpty
      <4>. QED
        BY ONLY <3>10, <3>11, <3>12, <4>1
    <3>14. ASSUME ~lost
           PROVE  NonEmpty(<<UnderWay'>> \o queue') = NonEmpty(<<UnderWay>> \o queue)
      <4>1. CASE rest # <<>> \/ queue = <<>>
        <5>1. F = rest /\ queue' = queue
          BY <2>1, <4>1 DEF F, Fetched, setupNextData
        <5>. QED
          BY ONLY <3>7, <3>11, <5>1
      <4>2. CASE rest = <<>> /\ queue # <<>>
        <5>1. F = Head(queue) /\ queue' = Tail(queue)
          BY <2>1, <4>2 DEF F, Fetched, setupNextData, receive
        <5>2. UnderWay = <<>> /\ UnderWay' = F
          <6>1. base = <<>> /\ <<>> \o F = F
            BY <3>10, <3>12, <3>14, <4>2, ConcatEmptySeq
          <6>2. <<>> \o <<>> = <<>>
            BY ONLY EmptySeq, ConcatEmptySeq
          <6>. QED
            BY ONLY <3>7, <3>11, <4>2, <6>1, <6>2
        <5>3. <<F>> \o queue' = queue
          <6>1. queue' = SubSeq(queue, 2, Len(queue)) /\ Len(queue) \in Nat \ {0}
            BY ONLY <3>5, <4>2, <5>1, TailIsSubSeq, EmptySeq
          <6>2. SubSeq(queue, 1, Len(queue)) = <<queue[1]>> \o SubSeq(queue, 1 + 1, Len(queue))
            <7>1. 1 \in 1..Len(queue) /\ Len(queue) \in 1..Len(queue)
              BY ONLY <6>1
            <7>. QED
              BY ONLY <3>5, <7>1, SubSeqRecursiveFirst
          <6>3. Head(queue) = queue[1] /\ 1 + 1 = 2
            BY ONLY <3>5, <4>2
          <6>4. SubSeq(queue, 1, Len(queue)) = queue
            BY ONLY <3>5, SubSeqFull
          <6>. QED
            BY ONLY <5>1, <6>1, <6>2, <6>3, <6>4
        <5>4. NonEmpty(<<<<>>>> \o queue) = NonEmpty(queue)
          BY ONLY <3>5, EmptySeq, FirstPacket
        <5>. QED
          BY ONLY <5>2, <5>3, <5>4
      <4>. QED
        BY <4>1, <4>2
    <3>15. Idle' /\ rest' = <<>> <=> F = <<>>
      BY <1>5, <3>10 DEF left
    <3>. QED
      BY <1>1, <1>5, <3>1, <3>3, <3>13, <3>14, <3>15, <3>16 DEF Conserved
  <2>. QED
    BY <1>1, <1>9, <2>5, <2>6, <2>7 DEF ConsInv
<1>. QED
  BY <1>7, <1>8

LEMMA InitConserves == Init => ConsInv
<1>. SUFFICES ASSUME Init  PROVE ConsInv
  OBVIOUS
<1>0. TypeOK
  BY InitType
<1>1. /\ turn = 0 /\ order \in Registrations /\ ~sresetn /\ reset_count = 0 /\ saved = Latched /\ ~axis_i.tvalid
      /\ rest = <<>> /\ queue = bench.packets /\ cur_data = <<>> /\ stored = <<>>
      /\ begun = <<>> /\ arrived = <<>> /\ axis_o_tready /\ ~lost
      /\ wide_reg = [l \in 1..WideLanes |-> NoByte] /\ ctr \in 0..CTR_HIGH
  BY DEF Init, ResetInit, SourceInit, SinkInit, NoBeat
<1>2. ResetOrder
  BY <1>1 DEF ResetOrder, Latched, Released, ResetEdges
<1>3. LastInv
  BY <1>1 DEF LastInv
<1>4. AheadInv
  <2>1. ~Rising
    BY HalfIsInside DEF Init, Rising, getEvent
  <2>. QED
    BY <1>1, <2>1 DEF AheadInv
<1>5. InConverter = <<>>
  <2>1. CASE Widening
    <3>1. bench.in \in Nat /\ WideLanes \in Nat /\ ctr * bench.in \in Nat /\ ctr * bench.in + bench.in <= WideLanes
      BY <1>0, <1>1, <2>1, Lanes DEF TypeOK
    <3>2. wide_reg \in [1..WideLanes -> Lane]
      BY <1>0 DEF TypeOK, Lane
    <3>3. wide_reg \in Seq(Lane) /\ Len(wide_reg) = WideLanes
      BY ONLY <3>1, <3>2
    <3>4. PICK m \in Nat : m = ctr * bench.in /\ m <= WideLanes
      BY ONLY <3>1
    <3>5. /\ SubSeq(wide_reg, 0 + 1, m) \in Seq(Lane) /\ Len(SubSeq(wide_reg, 0 + 1, m)) = m - 0
          /\ \A i \in 1 .. m - 0 : SubSeq(wide_reg, 0 + 1, m)[i] = wide_reg[0 + i] /\ 0 + i \in 1..Len(wide_reg)
      BY ONLY <3>3, <3>4, m \in Nat, 0 \in Nat, 0 <= m, m <= Len(wide_reg), Part
    <3>6. \A i \in 1..WideLanes : wide_reg[i] = NoByte
      BY <1>1
    <3>7. Kept(SubSeq(wide_reg, 0 + 1, m)) = <<>>
      BY ONLY <3>3, <3>5, <3>6, NothingKept
    <3>. QED
      BY <2>1, <3>4, <3>7 DEF InConverter
  <2>2. CASE ~Widening
    BY <2>2 DEF InConverter
  <2>. QED
    BY <2>1, <2>2
<1>6. Conserved
  <2>1. <<>> \o <<>> = <<>>
    BY ONLY EmptySeq, ConcatEmptySeq
  <2>2. UnderWay = <<>> /\ Stored = <<>> /\ Idle
    BY <1>1, <1>5, <2>1, NobodyWaits DEF OnOffer
  <2>3. queue \in Seq(Seq(Byte))
    BY <1>0 DEF TypeOK
  <2>4. NonEmpty(<<<<>>>> \o queue) = NonEmpty(queue) /\ <<>> \o NonEmpty(queue) = NonEmpty(queue)
    BY ONLY <2>3, EmptySeq, FirstPacket, ConcatEmptySeq
  <2>. QED
    BY <1>1, <2>2, <2>4 DEF Conserved
<1>7. BytesConserved
  <2>1. <<>> \o <<>> = <<>>
    BY ONLY EmptySeq, ConcatEmptySeq
  <2>. QED
    BY <1>1, <1>5, <2>1, NobodyWaits DEF OnOffer, BytesConserved
<1>8. LostInv
  BY <1>1 DEF LostInv
<1>. QED
  BY <1>1, <1>2, <1>3, <1>4, <1>6, <1>7, <1>8 DEF ConsInv

LEMMA StepConserves == IInv /\ TypeOK /\ TypeOK' /\ ConsInv /\ [Next]_vars => ConsInv'
BY ModelConserves, ResetConserves, SourceConserves, SinkConserves, StutterConserves DEF Next

\* For every bench of BenchesAssumption, whatever its period, its packets, the
\* packing, the stalls of the sink and the order of the peripherals: every
\* variable has its type, and the counter of axis_width_converter stays within a
\* word.
THEOREM TypeCorrect == Spec => []TypeOK
<1>. QED
  BY InitIInv, StepIInv, InitType, StepType, PTL DEF Spec

\* For every such bench, between two evaluations, as long as the sink has not
\* thrown (AXISSource::setupNextData, axis_width_converter, AXISSink::eval):
\* whatever the sink's stalls, each byte of the packets that the source has begun
\* is in exactly one place, in order; the end of a packet is lost only from
\* narrow to wide and with a sink that stalls; and as long as none is, the
\* packets arrive whole.
THEOREM ConservationCorrect == Spec => []Conservation
<1>1. ConsInv => Conservation
  BY NobodyWaits DEF ConsInv, Conserved, BytesConserved, LostInv, Conservation
<1>. QED
  BY <1>1, InitIInv, StepIInv, InitType, StepType, InitConserves, StepConserves, PTL DEF Spec
=============================================================================
