------------------------------ MODULE AxisBench ------------------------------
(***************************************************************************)
(* A test bench as the C++ framework builds it, around the width converter *)
(* (sim/verilator/VerilatedModel.hpp, Peripheral.hpp, sim/axis/*.hpp,      *)
(* synth/axis/tb/test_axis_width_converter.cpp, axis_width_converter.sv).  *)
(*                                                                         *)
(* One evaluation of the bench latches the inputs of all peripherals,      *)
(* evaluates the verilated model, then evaluates the peripherals one after *)
(* the other; what a peripheral writes is on the model's pins at once.     *)
(* The latches are there to hide that order, so the order in which the     *)
(* peripherals were registered is any, and each is a step of its own.      *)
(***************************************************************************)
EXTENDS VerilatedModel, Sequences, FiniteSets

CONSTANTS
  Benches,     \* the benches to look at, see BenchType
  Byte,
  NoByte       \* a lane whose bit of tkeep is low

\* A bench: the widths of both streams, AXISSourceConfig::packed,
\* AXISSinkConfig::packed, whether the sink may be unready, what to send.
BenchType == [in : Nat \ {0}, out : Nat \ {0}, packed : BOOLEAN, strict : BOOLEAN,
              stalls : BOOLEAN, packets : Seq(Seq(Byte))]

\* Words that are made wider are a whole number of the narrower ones.  The
\* comment at axis_width_converter.sv:13 allows any two widths, but the narrow
\* words that make up a wide one then have lanes that are not connected to it,
\* and bytes in them are lost.
ASSUME BenchesAssumption ==
  /\ Benches \subseteq BenchType
  /\ NoByte \notin Byte
  /\ \A b \in Benches : b.in < b.out => b.out % b.in = 0

Peripherals == {"reset", "source", "sink"}

\* A peripheral registers itself with the model when it is constructed.
Registrations == {s \in [1..3 -> Peripherals] : \A i, j \in 1..3 : s[i] = s[j] => i = j}

VARIABLES
  bench,          \* never changes
  order,          \* the peripherals as VerilatedModelInterface holds them
  turn,           \* 0: eval() starts; n: the n-th peripheral is next
  time, clk,
  saved,          \* what the InputLatches hold
  reset_count, sresetn,
  axis_i, axis_o_tready,  \* pins that the source and the sink drive
  pins,           \* pins that the model drives: axis_i_tready and axis_o
  ctr, wide_reg,  \* registers of the converter; a lane that is not kept is NoByte
  queue,          \* what SimplePacketSource has left
  rest,           \* from iter to the end of current_packet
  cur_data, stored,
  threw,          \* the sink has thrown an exception
  lost,           \* history: the end of a packet was swallowed, see LosesLast
  begun, arrived  \* history: the bytes of the packets that the source has
                  \* begun, and those that the sink has been given

harness == <<bench, order>>
source  == <<axis_i, queue, rest, begun>>
sink    == <<axis_o_tready, cur_data, stored, threw, arrived>>
uut     == <<pins, ctr, wide_reg, lost>>
reset   == <<reset_count, sresetn>>
vars    == <<harness, turn, time, clk, saved, source, sink, uut, reset>>

\* The how-manieth of the used lanes l is.
NthLane(used, l) == Cardinality({k \in used : k <= l})

\* What s has in some of its places, in order.
Chosen(s, places) ==
  [n \in 1..Cardinality(places) |-> s[CHOOSE l \in places : NthLane(places, l) = n]]

Kept(lanes) == Chosen(lanes, {l \in DOMAIN lanes : lanes[l] # NoByte})
NonEmpty(packets) == Chosen(packets, {n \in DOMAIN packets : packets[n] # <<>>})
Beat(n) == [tvalid : BOOLEAN, tlast : BOOLEAN, tdata : [1..n -> Byte \cup {NoByte}]]
NoBeat(n) == [tvalid |-> FALSE, tlast |-> FALSE, tdata |-> [l \in 1..n |-> NoByte]]
-----------------------------------------------------------------------------
(* axis_width_converter *)

Widening == bench.in < bench.out
CTR_HIGH == IF Widening THEN (bench.out - 1) \div bench.in ELSE (bench.in - 1) \div bench.out
WideLanes == (CTR_HIGH + 1) * (IF Widening THEN bench.in ELSE bench.out)

\* keep_wide and data_wide
wide ==
  [l \in 1..WideLanes |->
     IF Widening
     THEN IF l - ctr * bench.in \in 1..bench.in THEN axis_i.tdata[l - ctr * bench.in] ELSE wide_reg[l]
     ELSE IF l <= bench.in THEN axis_i.tdata[l] ELSE NoByte]

axis_i_tready == IF Widening THEN ctr = CTR_HIGH => axis_o_tready
                             ELSE ctr = CTR_HIGH /\ axis_o_tready

axis_o ==
  [tvalid |-> axis_i.tvalid /\ (Widening => axis_i.tlast \/ ctr = CTR_HIGH),
   tlast  |-> axis_i.tlast /\ (Widening \/ ctr = CTR_HIGH),
   tdata  |-> [l \in 1..bench.out |-> wide[IF Widening THEN l ELSE ctr * bench.out + l]]]

Takes == axis_i_tready /\ axis_i.tvalid
Gives == axis_o_tready /\ axis_o.tvalid

\* A last beat that does not fill the word is taken although the word that it
\* completes is not: axis_i_tready does not look at axis_i_tlast.
LosesLast == sresetn /\ Widening /\ Takes /\ axis_i.tlast /\ ~Gives

\* @(posedge clk)
ConverterEdge ==
  /\ ctr' = IF ~sresetn \/ (IF Widening THEN Gives ELSE Takes) THEN 0
            ELSE IF (IF Widening THEN Takes ELSE Gives) THEN ctr + 1 ELSE ctr
  /\ wide_reg' = IF ~Widening THEN wide_reg
                 ELSE IF ~sresetn \/ Gives THEN [l \in 1..WideLanes |-> NoByte] ELSE wide
  /\ lost' = (lost \/ LosesLast)
-----------------------------------------------------------------------------
(* VerilatedModel::eval, up to the peripherals *)

\* InputLatch: each is a copy of a pin, taken when the peripheral is latched.
Latched == [sresetn |-> sresetn, tready |-> pins.axis_i_tready, beat |-> pins.axis_o]

latch == saved' = Latched

EvalModel ==
  /\ turn = 0
  /\ ~threw
  /\ UNCHANGED <<harness, source, sink, reset>>
  /\ time' = NextTick(time)
  /\ clk' = getVal(time')
  /\ latch
  /\ IF clk' /\ ~clk THEN ConverterEdge ELSE UNCHANGED <<ctr, wide_reg, lost>>
  /\ pins' = [axis_i_tready |-> axis_i_tready', axis_o |-> axis_o']
  /\ turn' = 1

\* The loop over the peripherals.
Turn(p) ==
  /\ turn # 0
  /\ ~threw
  /\ order[turn] = p
  /\ turn' = (turn + 1) % (Len(order) + 1)
  /\ UNCHANGED <<harness, time, clk, saved, uut>>

Rising == getEvent(time) = "RISING"

EvalReset ==
  /\ Turn("reset")
  /\ reset_count' = ResetCount(reset_count, getEvent(time))
  /\ sresetn' = Released(reset_count')
  /\ UNCHANGED <<source, sink>>
-----------------------------------------------------------------------------
(* AXISSource and SimplePacketSource *)

\* SimplePacketSource hands out one packet after the other.
receive == queue' = Tail(queue) /\ begun' = begun \o Head(queue)

\* The packet that setupNextData goes on with.  An empty one is dropped.
Fetched == IF rest = <<>> /\ queue # <<>> THEN Head(queue) ELSE rest

\* Mutant: AXISSourceConfig::packed is not looked at.
LanesUsedAny(n) == SUBSET (1..n)

\* The lanes a beat of at most n bytes may use: all, or what rand() says.
LanesUsed(n) == IF bench.packed THEN {1..n} ELSE SUBSET (1..n)

setupNextData ==
  /\ IF rest = <<>> /\ queue # <<>> THEN receive ELSE UNCHANGED <<queue, begun>>
  /\ IF Fetched = <<>>
     THEN rest' = <<>> /\ axis_i' = [axis_i EXCEPT !.tvalid = FALSE]
     ELSE \E used \in LanesUsed(IF Len(Fetched) < bench.in THEN Len(Fetched) ELSE bench.in) :
            /\ rest' = SubSeq(Fetched, Cardinality(used) + 1, Len(Fetched))
            /\ axis_i' = [tvalid |-> TRUE, tlast |-> rest' = <<>>,
                          tdata |-> [l \in 1..bench.in |->
                                       IF l \in used THEN Fetched[NthLane(used, l)] ELSE NoByte]]

\* Mutant: tready is read from the pin, as it is after the model's evaluation.
EvalSourceUnlatched ==
  /\ Turn("source")
  /\ CASE Rising /\ ~saved.sresetn ->
            axis_i' = [axis_i EXCEPT !.tvalid = FALSE] /\ UNCHANGED <<queue, rest, begun>>
       [] Rising /\ saved.sresetn /\ (axis_i.tvalid => pins.axis_i_tready) -> setupNextData
       [] OTHER -> UNCHANGED source
  /\ UNCHANGED <<sink, reset>>

EvalSource ==
  /\ Turn("source")
  /\ CASE Rising /\ ~saved.sresetn ->
            axis_i' = [axis_i EXCEPT !.tvalid = FALSE] /\ UNCHANGED <<queue, rest, begun>>
       [] Rising /\ saved.sresetn /\ (axis_i.tvalid => saved.tready) -> setupNextData
       [] OTHER -> UNCHANGED source
  /\ UNCHANGED <<sink, reset>>
-----------------------------------------------------------------------------
(* AXISSink and SimplePacketSink *)

send(packet) == stored' = Append(stored, packet)

\* The checks of AXISSinkConfig::packed: no gap, and only a last beat is short.
Unpacked(beat) ==
  \E l \in 1..bench.out : /\ beat.tdata[l] = NoByte
                          /\ ~beat.tlast \/ \E k \in l..bench.out : beat.tdata[k] # NoByte

\* Mutant: tkeep is not looked at when the bytes are stored.
ReceiveAllLanes(beat) ==
  LET packet == cur_data \o beat.tdata IN
  IF bench.strict /\ Unpacked(beat)
  THEN threw' = TRUE /\ UNCHANGED <<cur_data, stored, arrived>>
  ELSE /\ cur_data' = IF beat.tlast THEN <<>> ELSE packet
       /\ IF beat.tlast THEN send(packet) ELSE UNCHANGED stored
       /\ arrived' = arrived \o beat.tdata
       /\ UNCHANGED threw

Receive(beat) ==
  LET packet == cur_data \o Kept(beat.tdata) IN
  IF bench.strict /\ Unpacked(beat)
  THEN threw' = TRUE /\ UNCHANGED <<cur_data, stored, arrived>>
  ELSE /\ cur_data' = IF beat.tlast THEN <<>> ELSE packet
       /\ IF beat.tlast THEN send(packet) ELSE UNCHANGED stored
       /\ arrived' = arrived \o Kept(beat.tdata)
       /\ UNCHANGED threw

\* AXISSink keeps tready high.  Another sink (external) may lower it.
EvalSink ==
  /\ Turn("sink")
  /\ CASE Rising /\ ~saved.sresetn -> cur_data' = <<>> /\ UNCHANGED <<stored, threw, arrived>>
       [] Rising /\ saved.sresetn /\ axis_o_tready /\ saved.beat.tvalid -> Receive(saved.beat)
       [] OTHER -> UNCHANGED <<cur_data, stored, threw, arrived>>
  /\ IF Rising /\ saved.sresetn /\ bench.stalls THEN axis_o_tready' \in BOOLEAN
     ELSE axis_o_tready' = (axis_o_tready \/ Rising)
  /\ UNCHANGED <<source, reset>>
-----------------------------------------------------------------------------
(* The constructors *)

ResetInit == reset_count = 0 /\ sresetn = FALSE

SourceInit ==
  /\ queue = bench.packets
  /\ rest = <<>>
  /\ begun = <<>>
  /\ axis_i = NoBeat(bench.in)

SinkInit ==
  /\ axis_o_tready = TRUE
  /\ cur_data = <<>>
  /\ stored = <<>>
  /\ arrived = <<>>
  /\ threw = FALSE

\* The model is evaluated once; its counter holds anything.
Init ==
  /\ bench \in Benches
  /\ order \in Registrations
  /\ turn = 0
  /\ time = 0
  /\ clk = FALSE
  /\ ResetInit
  /\ SourceInit
  /\ SinkInit
  /\ ctr \in 0..CTR_HIGH
  /\ wide_reg = [l \in 1..WideLanes |-> NoByte]
  /\ pins = [axis_i_tready |-> axis_i_tready, axis_o |-> axis_o]
  /\ saved = Latched
  /\ lost = FALSE

Next == EvalModel \/ EvalReset \/ EvalSource \/ EvalSink

\* The test goes on calling eval(); a sink that stalls is ready again and
\* again; rand() does not leave out every byte for ever.
Fairness ==
  /\ WF_vars(Next)
  /\ SF_vars(EvalSink /\ axis_o_tready')
  /\ SF_vars(EvalSource /\ rest' # rest)

Spec == Init /\ [][Next]_vars /\ Fairness
-----------------------------------------------------------------------------
\* Every variable has its type; in particular the counter stays within a word.
TypeOK ==
  /\ bench \in Benches
  /\ order \in [1..3 -> Peripherals]
  /\ turn \in 0..3
  /\ time \in Ticks
  /\ clk = getVal(time)
  /\ saved \in [sresetn : BOOLEAN, tready : BOOLEAN, beat : Beat(bench.out)]
  /\ reset_count \in 0..ResetEdges
  /\ sresetn \in BOOLEAN
  /\ axis_i \in Beat(bench.in)
  /\ axis_o_tready \in BOOLEAN
  /\ pins \in [axis_i_tready : BOOLEAN, axis_o : Beat(bench.out)]
  /\ ctr \in 0..CTR_HIGH
  /\ wide_reg \in [1..WideLanes -> Byte \cup {NoByte}]
  /\ queue \in Seq(Seq(Byte))
  /\ rest \in Seq(Byte)
  /\ cur_data \in Seq(Byte)
  /\ stored \in Seq(Seq(Byte))
  /\ threw \in BOOLEAN
  /\ lost \in BOOLEAN
  /\ begun \in Seq(Byte)
  /\ arrived \in Seq(Byte)

\* When the clock is about to rise, the pins that will be latched for the
\* peripherals are what the model's registers are about to see: nobody wrote a
\* pin after the last evaluation of the model.  Otherwise a peripheral and the
\* model would disagree on whether a beat was handed over.
SettledBeforeEdge ==
  (turn = 0 /\ getVal(NextTick(time)) /\ ~clk) =>
     pins = [axis_i_tready |-> axis_i_tready, axis_o |-> axis_o]

\* The bytes of the word on offer that the sink has not had yet.
OnOffer ==
  IF ~axis_i.tvalid THEN <<>>
  ELSE Kept(IF Widening THEN axis_i.tdata
            ELSE SubSeq(axis_i.tdata, ctr * bench.out + 1, bench.in))

\* The bytes that the converter has taken but not given.
InConverter == IF Widening THEN Kept(SubSeq(wide_reg, 1, ctr * bench.in)) ELSE <<>>

\* Between two evaluations, whatever the packing, the stalls and the order of
\* the peripherals, as long as the sink has not given up with an exception:
\*  - the bytes that the sink has been given, those in the converter, on the
\*    pins and in the source are the bytes of the packets begun, in order and
\*    once: none is lost, also when the end of a packet is;
\*  - the converter loses the end of a packet only when it makes words wider and
\*    the sink stalls, as AXISSink never does;
\*  - while it has lost none, what the sink has stored, the packet under way and
\*    what the source still has are the packets of the test, each whole.
Conservation ==
  (turn = 0 /\ sresetn /\ ~threw) =>
     /\ arrived \o InConverter \o OnOffer \o rest = begun
     /\ lost => Widening /\ bench.stalls
     /\ ~lost => LET underWay == cur_data \o InConverter \o OnOffer \o rest
                 IN stored \o NonEmpty(<<underWay>> \o queue) = NonEmpty(bench.packets)

\* AXISSink with AXISSinkConfig::packed gets packed beats from a packed source,
\* unless they are made narrower (the last word of a packet may then be empty).
PackedIsAccepted == bench.packed /\ bench.in <= bench.out => (threw => lost)

\* The test ends: every packet that is not empty arrives, or the sink has said
\* what was wrong.
AllDelivered == <>(lost \/ threw \/ stored = NonEmpty(bench.packets))
=============================================================================
