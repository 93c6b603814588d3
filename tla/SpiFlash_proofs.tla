--------------------------- MODULE SpiFlash_proofs ---------------------------
(***************************************************************************)
(* For every clock period, every set of instructions, every depth of the   *)
(* FIFO and any number of bytes: the flash and the bridge stay in step,    *)
(* although the flash sees each edge of sck an evaluation late.            *)
(***************************************************************************)
EXTENDS SpiFlash, TLAPS

\* A byte is on the line until the edge at which its last sck falls.
Sending == bridge.state = "TRANSFER" \/ bridge.tready

\* The bytes that the device has had all of, in this selection.
Done == selection.begun - (IF Sending THEN 1 ELSE 0)

\* The bytes asked for that the bridge has not finished.
Pending == inject_ctr + (IF wb_to_axis_reg.tvalid THEN 1 ELSE 0)

\* The bridge's own registers.
BridgeInv ==
  /\ bridge.tready <=> bridge.state = "WAIT" /\ bridge.sck = 1
  /\ bridge.state = "SETUP" => bridge.sck = 0 /\ bridge.ctr = 0
  /\ bridge.state = "TRANSFER" /\ bridge.sck = 1 => bridge.ctr # CTR_HIGH
  /\ bridge.state = "WAIT" => bridge.ctr = IF bridge.sck = 1 THEN CTR_HIGH ELSE 0
  /\ ~sresetn => bridge.state = "SETUP" /\ ~axis_spi_bridge_active /\ selection.asked = 0

\* What was asked for against what was sent.  A byte that is on the line keeps
\* its request, and with it the configuration stalled.
RequestInv ==
  /\ Sending => axis_spi_bridge_active /\ selection.begun > 0
  /\ axis_spi_bridge_active => config.ss = 0
  /\ wb_to_axis_reg.tvalid => inject_ctr = 0
  /\ inject_ctr # 0 => selection.begun > 0
  /\ selection.asked = Done + Pending
  /\ selection.asked <= BytesPerSelection
  /\ wb_to_axis_reg.tvalid => wb_to_axis_reg.tdata \in Instructions
  /\ Sending /\ Done = 0 => wb_to_axis_reg.tvalid /\ selection.first = wb_to_axis_reg.tdata
  /\ Sending => due = [first |-> selection.first, place |-> Done]

\* The state of the flash after so many bytes of a selection ...
StateAfter(n) ==
  CASE n = 0 -> "INSTRUCTION" [] n = 1 -> "BYTE_2" [] n = 2 -> "BYTE_3"
    [] n = 3 -> "BYTE_4" [] OTHER -> "DUMMY"

\* ... and the byte that it sends during the next one.
Answer(first, n) == IF n = 0 THEN {} ELSE Ret(StateAfter(n - 1), first)

\* The bits of the byte under way that have been sampled at both ends.
Passed(s) == {b \in Bits : b > s.ctr \/ (b = s.ctr /\ bridge.sck = 1)}

\* The slave s and the flash f against the bridge.
InStep(s, f) ==
  /\ s.ctr = CTR_HIGH - bridge.ctr
  /\ f.rx_state = StateAfter(Done)
  /\ Done # 0 => f.instruction = selection.first
  /\ s.tx = Answer(selection.first, Done)
  /\ bridge.sck = 0 => s.miso = Pin(s.tx, s.ctr)
  /\ Sending => \A b \in Passed(s) : /\ b \in s.rx <=> b \in wb_to_axis_reg.tdata
                                     /\ b \in bridge.tdata <=> b \in s.tx

\* The slave as it is, or is about to be, once it has seen the pins.
LineInv ==
  /\ config.ss = 0 => InStep(SlaveAfter, FlashAfter)
  /\ ~aborted /\ ~Aborts
  /\ bridge.state = "WAIT" => bridge.tdata = Answer(due.first, due.place)

\* Only in the evaluation of a rising clock do the pins change.
SeenInv == sresetn /\ time # HalfClock => slave = SlaveAfter /\ flash = FlashAfter

IInv == TypeOK /\ BridgeInv /\ RequestInv /\ LineInv /\ SeenInv
-----------------------------------------------------------------------------
(* Types                                                                   *)

USE SpiAssumption, TicksAssumption DEF SpiAssumption, TicksAssumption, Ticks, HalfClock

LEMMA Bytes ==
  /\ \A n : Hex(n) \in Byte
  /\ Instructions \subseteq Byte
  /\ Instructions \subseteq Known
  /\ \A f, n : Answer(f, n) \in Byte
  /\ {} \in Byte
<1>1. \A n : Hex(n) \in Byte
  BY DEF Hex, Byte
<1>2. Known \subseteq Byte
  BY <1>1 DEF Known
<1>3. \A f, n : Answer(f, n) \in Byte
  BY <1>1 DEF Answer, Ret, Byte
<1>. QED
  BY <1>1, <1>2, <1>3 DEF Byte

\* The kinds of request, with the conditions that the host keeps to.
LEMMA RequestKinds ==
  ASSUME NEW wb \in Requests
  PROVE  \/ wb.addr \in {"none", "read"}
         \/ /\ wb.addr = "config" /\ wb.dat \in [ss : {0, 1}, discard_rx_data : BOOLEAN]
         \/ /\ wb.addr = "axis" /\ wb.dat \in Instructions
            /\ config.ss = 0 /\ inject_ctr = 0 /\ selection.asked < BytesPerSelection
         \/ /\ wb.addr = "inject" /\ wb.dat \in 0..InjectMax
            /\ config.ss = 0 /\ selection.asked > 0 /\ ~axis_spi_bridge_active
            /\ selection.asked + wb.dat <= BytesPerSelection
BY DEF Requests, NoRequest

\* What the rest of the design notices of the bridge's edge.
BridgeGoesOn == ~bridge.tready /\ ~Begins /\ Sending' = Sending
BridgeBegins == ~bridge.tready /\ Begins /\ ~Sending /\ Sending'
BridgeEnds   == bridge.tready /\ ~Begins /\ Sending /\ ~Sending'

BridgeType ==
  [state : {"SETUP", "TRANSFER", "WAIT"}, sck : {0, 1}, ctr : Bits, tready : BOOLEAN,
   discard_result : BOOLEAN, tdata : Byte]

\* The fields of the bridge after an edge, state by state.
LEMMA BridgeFields ==
  ASSUME TypeOK, BridgeInv, sresetn, BridgeEdge
  PROVE  /\ bridge' \in BridgeType
         /\ bridge.state = "SETUP" =>
              /\ bridge'.state = IF axis_spi_bridge_active THEN "TRANSFER" ELSE "SETUP"
              /\ bridge'.sck = 0 /\ bridge'.ctr = 0 /\ ~bridge'.tready /\ ~bridge.tready
              /\ bridge.sck = 0 /\ bridge.ctr = 0
              /\ bridge'.tdata = bridge.tdata
         /\ bridge.state = "TRANSFER" /\ bridge.sck = 1 =>
              /\ bridge'.state = "TRANSFER" /\ bridge'.sck = 0 /\ bridge'.ctr = bridge.ctr + 1
              /\ ~bridge'.tready /\ ~bridge.tready
              /\ bridge'.tdata = bridge.tdata
         /\ bridge.state = "TRANSFER" /\ bridge.sck = 0 =>
              /\ bridge'.state = IF bridge.ctr = CTR_HIGH THEN "WAIT" ELSE "TRANSFER"
              /\ bridge'.sck = 1 /\ bridge'.ctr = bridge.ctr
              /\ bridge'.tready <=> bridge.ctr = CTR_HIGH
              /\ ~bridge.tready
              /\ bridge'.tdata = IF slave.miso = 1 THEN bridge.tdata \cup {CTR_HIGH - bridge.ctr}
                                 ELSE bridge.tdata \ {CTR_HIGH - bridge.ctr}
         /\ bridge.state = "WAIT" =>
              /\ bridge'.state \in {"SETUP", "WAIT"} /\ bridge'.sck = 0 /\ bridge'.ctr = 0
              /\ ~bridge'.tready
              /\ bridge'.tdata = bridge.tdata
<1>. USE DEF BridgeType, CTR_HIGH, Bits
<1>. bridge \in BridgeType
  BY DEF TypeOK
<1>1. CASE bridge.state = "SETUP"
  BY <1>1 DEF BridgeEdge, Setup, TypeOK, BridgeInv
<1>2. CASE bridge.state = "TRANSFER" /\ bridge.sck = 1
  <2>1. bridge' = [bridge EXCEPT !.tready = FALSE, !.sck = 0, !.ctr = (bridge.ctr + 1) % 8]
    BY <1>2 DEF BridgeEdge, Transfer
  <2>2. bridge.ctr \in 0..6 /\ (bridge.ctr + 1) % 8 = bridge.ctr + 1
    BY <1>2 DEF BridgeInv
  <2>3. bridge' \in BridgeType
    <3>1. bridge' = [state |-> "TRANSFER", sck |-> 0, ctr |-> bridge.ctr + 1, tready |-> FALSE,
                     discard_result |-> bridge.discard_result, tdata |-> bridge.tdata]
      BY <1>2, <2>1, <2>2
    <3>. QED
      BY <3>1, <2>2
  <2>5. /\ bridge'.state = "TRANSFER" /\ bridge'.sck = 0
        /\ bridge'.ctr = bridge.ctr + 1 /\ ~bridge'.tready /\ bridge'.tdata = bridge.tdata
    BY <1>2, <2>1, <2>2
  <2>4. ~bridge.tready
    BY <1>2 DEF BridgeInv
  <2>. QED
    BY <1>2, <2>3, <2>4, <2>5
<1>3. CASE bridge.state = "TRANSFER" /\ bridge.sck = 0
  <2>. DEFINE t == IF slave.miso = 1 THEN bridge.tdata \cup {7 - bridge.ctr} ELSE bridge.tdata \ {7 - bridge.ctr}
              z == IF bridge.ctr = 7 THEN "WAIT" ELSE "TRANSFER"
  <2>1. t \in Byte
    BY DEF Byte
  <2>2. bridge' = [bridge EXCEPT !.tready = (bridge.ctr = 7), !.sck = 1, !.state = z, !.tdata = t]
    BY <1>3 DEF BridgeEdge, Transfer
  <2>. HIDE DEF t
  <2>3. bridge' \in BridgeType /\ bridge'.tdata = t
    BY <1>3, <2>1, <2>2
  <2>4. /\ bridge'.state = z /\ bridge'.sck = 1 /\ bridge'.ctr = bridge.ctr
        /\ bridge'.tready <=> bridge.ctr = 7
    BY <2>2
  <2>. QED
    BY <1>3, <2>3, <2>4 DEF t, BridgeInv
<1>4. CASE bridge.state = "WAIT"
  <2>. DEFINE z == IF (axis_o_tready /\ axis_o_tvalid) \/ bridge.discard_result THEN "SETUP" ELSE "WAIT"
  <2>1. bridge' = [bridge EXCEPT !.tready = FALSE, !.sck = 0, !.ctr = 0, !.state = z]
    BY <1>4 DEF BridgeEdge, Wait
  <2>2. z \in {"SETUP", "WAIT"}
    OBVIOUS
  <2>. HIDE DEF z
  <2>3. bridge' \in BridgeType
    <3>1. bridge' = [state |-> z, sck |-> 0, ctr |-> 0, tready |-> FALSE,
                     discard_result |-> bridge.discard_result, tdata |-> bridge.tdata]
      BY <2>1
    <3>. QED
      BY <3>1, <2>2
  <2>4. /\ bridge'.state = z /\ bridge'.sck = 0
        /\ bridge'.ctr = 0 /\ ~bridge'.tready /\ bridge'.tdata = bridge.tdata
    BY <2>1
  <2>. QED
    BY <1>4, <2>2, <2>3, <2>4
<1>. QED
  BY <1>1, <1>2, <1>3, <1>4

LEMMA BridgeStep ==
  ASSUME TypeOK, BridgeInv, RequestInv, sresetn, BridgeEdge
  PROVE  /\ BridgeGoesOn \/ BridgeBegins \/ BridgeEnds
         /\ bridge'.tready <=> bridge'.state = "WAIT" /\ bridge'.sck = 1
         /\ bridge'.state = "SETUP" => bridge'.sck = 0 /\ bridge'.ctr = 0
         /\ bridge'.state = "TRANSFER" /\ bridge'.sck = 1 => bridge'.ctr # CTR_HIGH
         /\ bridge'.state = "WAIT" => bridge'.ctr = IF bridge'.sck = 1 THEN CTR_HIGH ELSE 0
<1>. bridge \in BridgeType /\ bridge' \in BridgeType
  BY BridgeFields DEF TypeOK, BridgeType
<1>. USE BridgeFields DEF BridgeType, BridgeGoesOn, BridgeBegins, BridgeEnds, Sending, Begins, CTR_HIGH, Bits
<1>1. CASE bridge.state = "SETUP"
  BY <1>1
<1>2. CASE bridge.state = "TRANSFER"
  BY <1>2
<1>3. CASE bridge.state = "WAIT"
  BY <1>3 DEF BridgeInv
<1>. QED
  BY <1>1, <1>2, <1>3
-----------------------------------------------------------------------------
(* The host's side of an edge                                              *)

HostType ==
  /\ config \in [ss : {0, 1}, discard_rx_data : BOOLEAN]
  /\ wb_to_axis_reg \in [tvalid : BOOLEAN, tdata : Byte]
  /\ inject_ctr \in 0..InjectMax
  /\ selection \in [first : Byte, asked : 0..BytesPerSelection, begun : 0..BytesPerSelection]
  /\ due \in [first : Byte, place : 0..BytesPerSelection]

\* The registers of the host's side after an edge, request by request.
LEMMA HostFields ==
  ASSUME TypeOK, BridgeInv, RequestInv, sresetn, NEW wb \in Requests,
         ConfigEdge(wb), RegisterEdge(wb), InjectEdge(wb)
  PROVE  LET taken == bridge.tready
             rest == IF taken /\ inject_ctr # 0 THEN inject_ctr - 1 ELSE inject_ctr
         IN \/ /\ wb.addr \in {"none", "read", "axis", "config"} /\ ~(wb.addr = "axis" /\ wb_to_axis_tready)
               /\ \/ config' = config
                  \/ /\ ~axis_spi_bridge_active
                     /\ config' \in [ss : {0, 1}, discard_rx_data : BOOLEAN]
               /\ wb_to_axis_reg' = [tvalid |-> wb_to_axis_reg.tvalid /\ ~taken, tdata |-> wb_to_axis_reg.tdata]
               /\ inject_ctr' = rest
            \/ /\ wb.addr = "axis" /\ wb_to_axis_tready /\ config.ss = 0 /\ inject_ctr = 0
               /\ wb.dat \in Instructions /\ selection.asked < BytesPerSelection
               /\ config' = config /\ inject_ctr' = 0
               /\ wb_to_axis_reg' = [tvalid |-> TRUE, tdata |-> wb.dat]
            \/ /\ wb.addr = "inject" /\ wb.dat \in 0..InjectMax /\ selection.asked > 0
               /\ selection.asked + wb.dat <= BytesPerSelection
               /\ ~axis_spi_bridge_active /\ config.ss = 0
               /\ config' = config /\ inject_ctr' = wb.dat
               /\ wb_to_axis_reg' = [tvalid |-> FALSE, tdata |-> wb_to_axis_reg.tdata]
<1>. USE RequestKinds DEF HostType, TypeOK, axis_spi_bridge_active, wb_config_stall, axis_wb_to_spi_tready,
         wb_to_axis_tready, ConfigEdge, RegisterEdge, InjectEdge
<1>1. CASE wb.addr \in {"none", "read"}
  BY <1>1
<1>2. CASE wb.addr = "config"
  BY <1>2
<1>3. CASE wb.addr = "axis"
  BY <1>3
<1>4. CASE wb.addr = "inject"
  BY <1>4 DEF RequestInv, Sending
<1>. QED
  BY <1>1, <1>2, <1>3, <1>4

LEMMA RegisterType ==
  ASSUME TypeOK, BridgeInv, RequestInv, sresetn, NEW wb \in Requests,
         ConfigEdge(wb), RegisterEdge(wb), InjectEdge(wb)
  PROVE  /\ wb_to_axis_reg' \in [tvalid : BOOLEAN, tdata : Byte]
         /\ inject_ctr' \in 0..InjectMax
<1>1. inject_ctr' \in 0..InjectMax
  BY HostFields DEF TypeOK
<1>2. ASSUME NEW v \in BOOLEAN, NEW d \in Byte  PROVE [tvalid |-> v, tdata |-> d] \in [tvalid : BOOLEAN, tdata : Byte]
  OBVIOUS
<1>3. /\ (wb_to_axis_reg.tvalid /\ ~bridge.tready) \in BOOLEAN
      /\ wb_to_axis_reg.tdata \in Byte
  BY DEF TypeOK
<1>4. \E v \in BOOLEAN, d \in Byte : wb_to_axis_reg' = [tvalid |-> v, tdata |-> d]
  BY HostFields, <1>3, Bytes, Zenon
<1>. QED
  BY <1>1, <1>2, <1>4

LEMMA HostStep ==
  ASSUME TypeOK, BridgeInv, RequestInv, sresetn, NEW wb \in Requests,
         ConfigEdge(wb), RegisterEdge(wb), InjectEdge(wb), History(wb),
         BridgeGoesOn \/ BridgeBegins \/ BridgeEnds
  PROVE  HostType' /\ RequestInv'
<1>. USE HostFields, Bytes DEF TypeOK, HostType, RequestInv, Done, Pending, axis_spi_bridge_active, wb_to_axis_tready,
         History, axis_wb_to_spi_tready
<1>1. CASE BridgeGoesOn /\ config'.ss = config.ss
  <2>1. HostType'
    <3>1. (wb_to_axis_reg \in [tvalid : BOOLEAN, tdata : Byte] /\ inject_ctr \in 0..InjectMax)'
      BY RegisterType
    <3>2. (config \in [ss : {0, 1}, discard_rx_data : BOOLEAN])'
      BY <1>1 DEF BridgeGoesOn
    <3>3. (due \in [first : Byte, place : 0..BytesPerSelection])'
      BY <1>1 DEF BridgeGoesOn
    <3>4. (selection \in [first : Byte, asked : 0..BytesPerSelection, begun : 0..BytesPerSelection])'
      BY <1>1 DEF BridgeGoesOn
    <3>. QED
      BY <3>1, <3>2, <3>3, <3>4
  <2>2. RequestInv'
    BY <1>1 DEF BridgeGoesOn
  <2>. QED
    BY <2>1, <2>2
<1>4. CASE BridgeGoesOn /\ config'.ss # config.ss
  <2>1. HostType'
    BY <1>4 DEF BridgeGoesOn
  <2>2. RequestInv'
    BY <1>4 DEF BridgeGoesOn
  <2>. QED
    BY <2>1, <2>2
<1>2. CASE BridgeBegins
  BY <1>2 DEF BridgeBegins, Begins
<1>3. CASE BridgeEnds
  <2>1. HostType'
    <3>1. (wb_to_axis_reg \in [tvalid : BOOLEAN, tdata : Byte] /\ inject_ctr \in 0..InjectMax)'
      BY RegisterType
    <3>2. (config \in [ss : {0, 1}, discard_rx_data : BOOLEAN])'
      BY <1>3 DEF BridgeEnds
    <3>3. (due \in [first : Byte, place : 0..BytesPerSelection])'
      BY <1>3 DEF BridgeEnds
    <3>4. (selection \in [first : Byte, asked : 0..BytesPerSelection, begun : 0..BytesPerSelection])'
      BY <1>3 DEF BridgeEnds
    <3>. QED
      BY <3>1, <3>2, <3>3, <3>4
  <2>. DEFINE more == IF wb.addr = "axis" /\ wb_to_axis_tready THEN 1 ELSE 0
  <2>2. wb.addr # "inject" /\ config' = config /\ config.ss = 0
    BY <1>3 DEF BridgeEnds
  <2>3. /\ selection'.begun = selection.begun /\ selection'.first = selection.first
        /\ selection'.asked = selection.asked + more
        /\ due' = due
    BY <1>3, <2>2 DEF BridgeEnds
  <2>4. Pending' = Pending - 1 + more
    <3>1. CASE wb_to_axis_reg.tvalid
      <4>1. inject_ctr = 0 /\ inject_ctr' = 0
        BY <1>3, <2>2, <3>1 DEF BridgeEnds
      <4>2. wb_to_axis_reg'.tvalid <=> more = 1
        <5>1. CASE wb.addr = "axis" /\ wb_to_axis_tready
          BY <2>2, <5>1
        <5>2. CASE ~(wb.addr = "axis" /\ wb_to_axis_tready)
          <6>1. wb_to_axis_reg' = [tvalid |-> wb_to_axis_reg.tvalid /\ ~bridge.tready,
                                   tdata |-> wb_to_axis_reg.tdata]
            BY <2>2, <5>2
          <6>2. (wb_to_axis_reg.tvalid /\ ~bridge.tready) = FALSE
            BY <1>3 DEF BridgeEnds
          <6>3. wb_to_axis_reg'.tvalid = FALSE
            BY ONLY <6>1, <6>2
          <6>. QED
            BY <5>2, <6>3
        <5>. QED
          BY <5>1, <5>2
      <4>. QED
        BY <3>1, <4>1, <4>2
    <3>2. CASE ~wb_to_axis_reg.tvalid
      <4>1. inject_ctr # 0 /\ more = 0
        BY <1>3, <2>2, <3>2 DEF BridgeEnds
      <4>2. ~wb_to_axis_reg'.tvalid /\ inject_ctr' = inject_ctr - 1
        BY <1>3, <2>2, <3>2, <4>1 DEF BridgeEnds
      <4>. QED
        BY <3>2, <4>1, <4>2
    <3>. QED
      BY <3>1, <3>2
  <2>5. /\ wb_to_axis_reg'.tvalid => inject_ctr' = 0 /\ wb_to_axis_reg'.tdata \in Instructions
        /\ inject_ctr' # 0 => selection.begun > 0
    BY <1>3, <2>2 DEF BridgeEnds
  <2>6. selection'.asked <= BytesPerSelection
    BY <1>3, <2>2, <2>3
  <2>7. Done' = Done + 1
    BY <1>3, <2>3 DEF BridgeEnds
  <2>8. RequestInv'
    <3>1. selection'.asked = Done' + Pending'
      <4>. HIDE DEF Done, Pending, more
      <4>1. Done \in Int /\ Pending \in Int /\ more \in Int
        BY DEF Done, Pending, more
      <4>. QED
        BY <2>3, <2>4, <2>7, <4>1
    <3>2. axis_spi_bridge_active' => config'.ss = 0
      BY <2>2
    <3>. QED
      BY <1>3, <2>5, <2>6, <3>1, <3>2, <2>3 DEF BridgeEnds
  <2>. QED
    BY <2>1, <2>8
<1>. QED
  BY <1>1, <1>2, <1>3, <1>4
-----------------------------------------------------------------------------
(* What the slave makes of the pins.  The lemmas are about the state after *)
(* a step, in which the pins may have moved and the slave has not yet.     *)

SlaveType ==
  [prev_sck : {0, 1}, prev_ss : {0, 1}, ctr : Bits, tx : Byte, rx : Byte, miso : {0, 1}]

FlashType == [rx_state : DOMAIN RxNext, instruction : Byte]

States == {"INSTRUCTION", "BYTE_2", "BYTE_3", "BYTE_4", "DUMMY"}

LEMMA StatesDomain == DOMAIN RxNext = States
BY DEF RxNext, States

LEMMA TransferType ==
  ASSUME NEW f \in FlashType, NEW rx \in Byte
  PROVE  /\ transfer(f, rx) \in FlashType
         /\ transfer(f, rx).rx_state = RxNext[f.rx_state]
         /\ transfer(f, rx).instruction = IF f.rx_state = "INSTRUCTION" THEN rx ELSE f.instruction
<1>1. RxNext[f.rx_state] \in States
  BY StatesDomain DEF FlashType, RxNext, States
<1>. QED
  BY <1>1, StatesDomain DEF transfer, FlashType

LEMMA SlaveSeesNothing ==
  ASSUME slave' \in SlaveType, slave'.prev_ss = config'.ss, slave'.prev_sck = bridge'.sck
  PROVE  SlaveAfter' = slave' /\ FlashAfter' = flash' /\ ~Aborts'
<1>1. ~ss_rises' /\ ~ss_falls' /\ ~SckRises' /\ ~SckFalls' /\ ~ByteEnds'
  BY DEF ss_rises, ss_falls, SckRises, SckFalls, ByteEnds
<1>2. Selected' = slave' /\ SelectedFlash' = flash'
  BY <1>1 DEF Selected, SelectedFlash
<1>3. SlaveAfter' = [slave' EXCEPT !.prev_sck = bridge'.sck, !.prev_ss = config'.ss]
  BY <1>1, <1>2, Zenon DEF SlaveAfter
<1>4. SlaveAfter' = slave'
  BY <1>3 DEF SlaveType
<1>. QED
  BY <1>1, <1>2, <1>4 DEF FlashAfter, Aborts

LEMMA SlaveSamples ==
  ASSUME slave' \in SlaveType, slave'.prev_ss = config'.ss,
         slave'.prev_sck = 0, bridge'.sck = 1
  PROVE  /\ SlaveAfter'.ctr = slave'.ctr /\ SlaveAfter'.tx = slave'.tx
         /\ \A b \in Bits : b \in SlaveAfter'.rx <=> IF b = slave'.ctr THEN mosi' = 1 ELSE b \in slave'.rx
         /\ FlashAfter' = flash' /\ ~Aborts'
<1>1. ~ss_rises' /\ ~ss_falls' /\ SckRises' /\ ~SckFalls' /\ ~ByteEnds'
  BY DEF ss_rises, ss_falls, SckRises, SckFalls, ByteEnds
<1>2. Selected' = slave' /\ SelectedFlash' = flash'
  BY <1>1 DEF Selected, SelectedFlash
<1>3. SlaveAfter' = [Sampled(slave)' EXCEPT !.prev_sck = bridge'.sck, !.prev_ss = config'.ss]
  BY <1>1, <1>2 DEF SlaveAfter, Sampled
<1>4. /\ SlaveAfter'.ctr = slave'.ctr /\ SlaveAfter'.tx = slave'.tx
      /\ SlaveAfter'.rx = IF mosi' = 1 THEN slave'.rx \cup {slave'.ctr} ELSE slave'.rx \ {slave'.ctr}
  BY <1>3 DEF Sampled, SlaveType
<1>. QED
  BY <1>1, <1>2, <1>4 DEF FlashAfter, Aborts

LEMMA SlaveShifts ==
  ASSUME slave' \in SlaveType, slave'.prev_ss = config'.ss,
         slave'.prev_sck = 1, bridge'.sck = 0, slave'.ctr # 0
  PROVE  /\ SlaveAfter'.ctr = slave'.ctr - 1
         /\ SlaveAfter'.tx = slave'.tx /\ SlaveAfter'.rx = slave'.rx
         /\ SlaveAfter'.miso = Pin(slave'.tx, slave'.ctr - 1)
         /\ FlashAfter' = flash' /\ ~Aborts'
<1>1. ~ss_rises' /\ ~ss_falls' /\ ~SckRises' /\ SckFalls'
  BY DEF ss_rises, ss_falls, SckRises, SckFalls
<1>2. Selected' = slave' /\ SelectedFlash' = flash' /\ ~ByteEnds'
  BY <1>1 DEF Selected, SelectedFlash, ByteEnds
<1>. DEFINE m == Pin(slave'.tx, slave'.ctr - 1)
<1>3. Shifted(slave, flash)' = [slave' EXCEPT !.ctr = slave'.ctr - 1, !.miso = m]
  BY DEF Shifted
<1>4. SlaveAfter' = [Shifted(slave, flash)' EXCEPT !.prev_sck = bridge'.sck, !.prev_ss = config'.ss]
  BY <1>1, <1>2 DEF SlaveAfter, Shifted
<1>5. /\ SlaveAfter'.ctr = slave'.ctr - 1 /\ SlaveAfter'.miso = m
      /\ SlaveAfter'.tx = slave'.tx /\ SlaveAfter'.rx = slave'.rx
  <2>. HIDE DEF m
  <2>. QED
    BY <1>3, <1>4 DEF SlaveType
<1>. QED
  BY <1>1, <1>2, <1>5 DEF FlashAfter, Aborts

LEMMA SlaveEndsByte ==
  ASSUME slave' \in SlaveType, flash' \in FlashType, slave'.prev_ss = config'.ss,
         slave'.prev_sck = 1, bridge'.sck = 0, slave'.ctr = 0
  PROVE  /\ SlaveAfter'.ctr = CTR_HIGH
         /\ SlaveAfter'.tx = Ret(flash'.rx_state, FlashAfter'.instruction)
         /\ SlaveAfter'.miso = Pin(SlaveAfter'.tx, CTR_HIGH)
         /\ FlashAfter'.rx_state = RxNext[flash'.rx_state]
         /\ FlashAfter'.instruction = IF flash'.rx_state = "INSTRUCTION" THEN slave'.rx ELSE flash'.instruction
         /\ Aborts' <=> flash'.rx_state = "INSTRUCTION" /\ slave'.rx \notin Known
<1>1. ~ss_rises' /\ ~ss_falls' /\ ~SckRises' /\ SckFalls'
  BY DEF ss_rises, ss_falls, SckRises, SckFalls
<1>2. Selected' = slave' /\ SelectedFlash' = flash' /\ ByteEnds'
  BY <1>1 DEF Selected, SelectedFlash, ByteEnds
<1>. DEFINE tx == Ret(flash'.rx_state, transfer(flash', slave'.rx).instruction)
            m == Pin(tx, CTR_HIGH)
<1>3. Shifted(slave, flash)' = [slave' EXCEPT !.ctr = CTR_HIGH, !.rx = {}, !.tx = tx, !.miso = m]
  BY DEF Shifted
<1>4. SlaveAfter' = [Shifted(slave, flash)' EXCEPT !.prev_sck = bridge'.sck, !.prev_ss = config'.ss]
  BY <1>1, <1>2 DEF SlaveAfter, Shifted
<1>5. SlaveAfter'.ctr = CTR_HIGH /\ SlaveAfter'.tx = tx /\ SlaveAfter'.miso = m
  <2>. HIDE DEF tx, m
  <2>. QED
    BY <1>3, <1>4 DEF SlaveType
<1>6. FlashAfter' = transfer(flash', slave'.rx)
  BY <1>2 DEF FlashAfter
<1>7. Aborts' <=> flash'.rx_state = "INSTRUCTION" /\ slave'.rx \notin Known
  BY <1>1, <1>2 DEF Aborts
<1>8. slave'.rx \in Byte
  BY DEF SlaveType
<1>. QED
  BY <1>5, <1>6, <1>7, <1>8, TransferType

LEMMA SlaveIsSelected ==
  ASSUME slave' \in SlaveType, flash' \in FlashType, slave'.prev_ss = 1, config'.ss = 0,
         slave'.prev_sck = bridge'.sck
  PROVE  /\ SlaveAfter'.ctr = CTR_HIGH /\ SlaveAfter'.tx = {} /\ SlaveAfter'.miso = 0
         /\ FlashAfter'.rx_state = "INSTRUCTION"
         /\ ~Aborts'
<1>1. ~ss_rises' /\ ss_falls' /\ ~SckRises' /\ ~SckFalls' /\ ~ByteEnds'
  BY DEF ss_rises, ss_falls, SckRises, SckFalls, ByteEnds
<1>2. /\ Selected' = [slave' EXCEPT !.tx = {}, !.ctr = CTR_HIGH, !.miso = 0]
      /\ SelectedFlash'.rx_state = "INSTRUCTION"
  BY <1>1 DEF Selected, SelectedFlash, ss_fall, FlashType
<1>3. SlaveAfter' = [Selected' EXCEPT !.prev_sck = bridge'.sck, !.prev_ss = config'.ss]
  BY <1>1, Zenon DEF SlaveAfter
<1>4. SlaveAfter'.ctr = CTR_HIGH /\ SlaveAfter'.tx = {} /\ SlaveAfter'.miso = 0
  BY <1>2, <1>3 DEF SlaveType
<1>. QED
  BY <1>1, <1>2, <1>4 DEF FlashAfter, Aborts

LEMMA SlaveIsDeselected ==
  ASSUME slave' \in SlaveType, slave'.prev_ss = 0, config'.ss = 1,
         slave'.prev_sck = bridge'.sck
  PROVE  Aborts' <=> slave'.ctr # CTR_HIGH
BY DEF Aborts, SckRises, SckFalls, ByteEnds, Selected, SelectedFlash, ss_rises, ss_falls, SlaveType

LEMMA EvalType ==
  ASSUME TypeOK
  PROVE  SlaveAfter \in SlaveType /\ FlashAfter \in FlashType
<1>1. slave \in SlaveType /\ flash \in FlashType
  BY DEF TypeOK, SlaveType, FlashType
<1>2. Selected \in SlaveType
  <2>1. ASSUME NEW tx \in Byte, NEW ctr \in Bits, NEW miso \in {0, 1},
               Selected = [slave EXCEPT !.tx = tx, !.ctr = ctr, !.miso = miso]
        PROVE  Selected \in SlaveType
    <3>1. Selected = [prev_sck |-> slave.prev_sck, prev_ss |-> slave.prev_ss, ctr |-> ctr, tx |-> tx,
                      rx |-> slave.rx, miso |-> miso]
      BY <1>1, <2>1 DEF SlaveType
    <3>. QED
      BY <1>1, <3>1 DEF SlaveType
  <2>2. CASE ss_rises
    <3>1. Selected = [slave EXCEPT !.ctr = 0]
      BY <2>2 DEF Selected, ss_rises, ss_falls
    <3>2. [slave EXCEPT !.ctr = 0] = [slave EXCEPT !.tx = slave.tx, !.ctr = 0, !.miso = slave.miso]
      BY <1>1 DEF SlaveType
    <3>3. slave.tx \in Byte /\ slave.miso \in {0, 1}
      BY <1>1 DEF SlaveType
    <3>4. 0 \in Bits
      BY DEF Bits, CTR_HIGH
    <3>. QED
      BY <2>1, <3>1, <3>2, <3>3, <3>4
  <2>3. CASE ss_falls
    <3>1. Selected = [slave EXCEPT !.tx = {}, !.ctr = CTR_HIGH, !.miso = 0]
      BY <2>3 DEF Selected, ss_rises, ss_falls
    <3>2. CTR_HIGH \in Bits /\ 0 \in {0, 1}
      BY DEF Bits, CTR_HIGH
    <3>. QED
      BY <2>1, <3>1, <3>2, Bytes, Zenon
  <2>4. CASE ~ss_rises /\ ~ss_falls
    BY <1>1, <2>4 DEF Selected
  <2>. QED
    BY <2>2, <2>3, <2>4
<1>3. SelectedFlash \in FlashType
  BY <1>1, StatesDomain DEF SelectedFlash, ss_fall, FlashType, States
<1>4. \A d, n : Pin(d, n) \in {0, 1}
  BY DEF Pin
<1>5. Sampled(Selected) \in SlaveType
  <2>1. Selected.rx \cup {Selected.ctr} \in Byte /\ Selected.rx \ {Selected.ctr} \in Byte
    BY <1>2 DEF SlaveType, Byte
  <2>. QED
    BY <1>2, <2>1 DEF Sampled, SlaveType
<1>6. Shifted(Selected, SelectedFlash) \in SlaveType
  <2>. DEFINE tx == Ret(SelectedFlash.rx_state, transfer(SelectedFlash, Selected.rx).instruction)
              m == Pin(tx, CTR_HIGH)
              n == Pin(Selected.tx, Selected.ctr - 1)
  <2>1. tx \in Byte /\ m \in {0, 1} /\ n \in {0, 1}
    <3>1. \A r, i : Ret(r, i) \in Byte
      BY Bytes DEF Ret
    <3>. QED
      BY <1>4, <3>1
  <2>2. CASE Selected.ctr = 0
    <3>1. Shifted(Selected, SelectedFlash) =
            [prev_sck |-> Selected.prev_sck, prev_ss |-> Selected.prev_ss, ctr |-> CTR_HIGH, tx |-> tx,
             rx |-> {}, miso |-> m]
      <4>1. Shifted(Selected, SelectedFlash) = [Selected EXCEPT !.ctr = CTR_HIGH, !.rx = {}, !.tx = tx, !.miso = m]
        BY <2>2 DEF Shifted
      <4>. HIDE DEF tx, m
      <4>. QED
        BY <1>2, <4>1 DEF SlaveType
    <3>. HIDE DEF tx, m
    <3>. QED
      BY <1>2, <2>1, <3>1, Bytes DEF SlaveType, Bits, CTR_HIGH
  <2>3. CASE Selected.ctr # 0
    <3>1. Shifted(Selected, SelectedFlash) =
            [prev_sck |-> Selected.prev_sck, prev_ss |-> Selected.prev_ss, ctr |-> Selected.ctr - 1,
             tx |-> Selected.tx, rx |-> Selected.rx, miso |-> n]
      <4>1. Shifted(Selected, SelectedFlash) = [Selected EXCEPT !.ctr = Selected.ctr - 1, !.miso = n]
        BY <2>3 DEF Shifted
      <4>. HIDE DEF n
      <4>. QED
        BY <1>2, <4>1 DEF SlaveType
    <3>. HIDE DEF n
    <3>. QED
      BY <1>2, <2>1, <2>3, <3>1 DEF SlaveType, Bits, CTR_HIGH
  <2>. QED
    BY <2>2, <2>3
<1>7. \E s \in SlaveType : SlaveAfter = [s EXCEPT !.prev_sck = bridge.sck, !.prev_ss = config.ss]
  BY <1>2, <1>5, <1>6 DEF SlaveAfter
<1>8. bridge.sck \in {0, 1} /\ config.ss \in {0, 1}
  BY DEF TypeOK
<1>9. SlaveAfter \in SlaveType
  BY <1>7, <1>8 DEF SlaveType
<1>10. FlashAfter \in FlashType
  BY <1>2, <1>3, TransferType DEF FlashAfter, SlaveType
<1>. QED
  BY <1>9, <1>10

\* Once evaluated, the slave has looked at the pins as they were.
LEMMA EvalLatches ==
  ASSUME TypeOK
  PROVE  SlaveAfter.prev_sck = bridge.sck /\ SlaveAfter.prev_ss = config.ss
<1>1. slave \in SlaveType
  BY DEF TypeOK, SlaveType
<1>. QED
  BY <1>1 DEF SlaveAfter, Selected, Sampled, Shifted, SlaveType

LEMMA Answers ==
  ASSUME NEW n \in Nat
  PROVE  /\ RxNext[StateAfter(n)] = StateAfter(n + 1)
         /\ StateAfter(n) = "INSTRUCTION" <=> n = 0
         /\ \A f : Answer(f, n + 1) = Ret(StateAfter(n), f)
<1>1. RxNext[StateAfter(n)] = StateAfter(n + 1)
  BY DEF StateAfter, RxNext
<1>2. StateAfter(n) = "INSTRUCTION" <=> n = 0
  BY DEF StateAfter
<1>3. n + 1 # 0 /\ (n + 1) - 1 = n
  OBVIOUS
<1>4. \A f : Answer(f, n + 1) = Ret(StateAfter((n + 1) - 1), f)
  BY <1>3 DEF Answer
<1>. QED
  BY <1>1, <1>2, <1>3, <1>4
-----------------------------------------------------------------------------
(* The line after a rising edge                                            *)

\* What is counted and remembered, by what the bridge does.
LEMMA HistoryStep ==
  ASSUME TypeOK, NEW wb \in Requests, History(wb), config'.ss = config.ss
  PROVE  /\ BridgeGoesOn => Done' = Done /\ selection'.first = selection.first
         /\ BridgeBegins => Done' = Done /\ (Done # 0 => selection'.first = selection.first)
         /\ BridgeEnds => Done' = Done + 1 /\ selection'.first = selection.first
         /\ ~Begins => due' = due
<1>1. /\ selection'.begun = selection.begun + (IF Begins THEN 1 ELSE 0)
      /\ selection'.first = IF Begins /\ selection.begun = 0 THEN wb_to_axis_reg.tdata ELSE selection.first
      /\ ~Begins => due' = due
  BY DEF History
<1>2. selection.begun \in Int
  BY DEF TypeOK
<1>. QED
  BY <1>1, <1>2 DEF Done, BridgeGoesOn, BridgeBegins, BridgeEnds

\* A byte on the line stays in the register, and ss stays low.
LEMMA RequestIsKept ==
  ASSUME TypeOK, BridgeInv, RequestInv, sresetn, Sending, NEW wb \in Requests,
         ConfigEdge(wb), RegisterEdge(wb), InjectEdge(wb)
  PROVE  /\ config' = config /\ config.ss = 0
         /\ ~bridge.tready => wb_to_axis_reg'.tdata = wb_to_axis_reg.tdata
BY HostFields DEF RequestInv, axis_spi_bridge_active, wb_to_axis_tready, axis_wb_to_spi_tready

LEMMA DoneType ==
  ASSUME TypeOK, RequestInv
  PROVE  Done \in Nat
BY DEF TypeOK, RequestInv, Done

\* The byte that the bridge has sampled when it has sampled all of it.
LEMMA ByteIsAnswer ==
  ASSUME TypeOK, BridgeInv, RequestInv, LineInv, sresetn, slave = SlaveAfter, flash = FlashAfter,
         NEW wb \in Requests, ConfigEdge(wb), RegisterEdge(wb), InjectEdge(wb), History(wb),
         BridgeEdge
  PROVE  bridge'.state = "WAIT" => bridge'.tdata = Answer(due'.first, due'.place)
<1>1. CASE bridge.state = "WAIT"
  <2>1. ~Begins
    BY <1>1 DEF Begins
  <2>2. due' = due
    BY <2>1 DEF History
  <2>. QED
    BY <1>1, <2>2, BridgeFields DEF LineInv
<1>2. CASE bridge.state = "TRANSFER" /\ bridge.sck = 0 /\ bridge.ctr = CTR_HIGH
  <2>1. Sending /\ config.ss = 0
    BY <1>2 DEF Sending, RequestInv
  <2>2. InStep(slave, flash)
    BY <2>1 DEF LineInv
  <2>3. slave.ctr = 0 /\ slave.tx = Answer(selection.first, Done) /\ slave.miso = Pin(slave.tx, 0)
    BY <1>2, <2>2 DEF InStep, CTR_HIGH
  <2>4. \A b \in Bits \ {0} : b \in bridge.tdata <=> b \in slave.tx
    BY <2>1, <2>2, <2>3 DEF InStep, Passed, Bits, CTR_HIGH
  <2>5. bridge'.tdata = IF slave.miso = 1 THEN bridge.tdata \cup {0} ELSE bridge.tdata \ {0}
    BY <1>2, BridgeFields DEF CTR_HIGH
  <2>6. bridge.tdata \in SUBSET Bits /\ slave.tx \in SUBSET Bits
    BY DEF TypeOK, Byte
  <2>7. bridge'.tdata = slave.tx
    BY <2>3, <2>4, <2>5, <2>6 DEF Pin
  <2>8. due' = due /\ due = [first |-> selection.first, place |-> Done]
    BY <1>2, <2>1 DEF RequestInv, History, Begins
  <2>. QED
    BY <2>3, <2>7, <2>8
<1>3. CASE bridge.state = "SETUP"
  BY <1>3, BridgeFields
<1>4. CASE bridge.state = "TRANSFER" /\ ~(bridge.sck = 0 /\ bridge.ctr = CTR_HIGH)
  BY <1>4, BridgeFields DEF TypeOK
<1>. QED
  BY <1>1, <1>2, <1>3, <1>4 DEF TypeOK

LEMMA LineStep ==
  ASSUME TypeOK, BridgeInv, RequestInv, LineInv, sresetn, slave = SlaveAfter, flash = FlashAfter,
         NEW wb \in Requests, ConfigEdge(wb), RegisterEdge(wb), InjectEdge(wb), History(wb),
         BridgeEdge, EvalSlave, RequestInv'
  PROVE  LineInv'
<1>1. slave' = slave /\ flash' = flash /\ slave \in SlaveType /\ flash \in FlashType
  BY DEF EvalSlave, TypeOK, SlaveType, FlashType
<1>2. slave.prev_sck = bridge.sck /\ slave.prev_ss = config.ss
  BY EvalLatches
<1>3. config.ss = 0 => InStep(slave, flash)
  BY DEF LineInv
<1>4. bridge \in BridgeType /\ bridge' \in BridgeType
  BY BridgeFields DEF TypeOK, BridgeType
<1>5. config.ss \in {0, 1} /\ config'.ss \in {0, 1}
  BY HostFields DEF TypeOK
<1>6. BridgeGoesOn \/ BridgeBegins \/ BridgeEnds
  BY BridgeStep
<1>7. Done \in Nat
  BY DoneType
<1>. SUFFICES ~Aborts' /\ (config'.ss = 0 => InStep(SlaveAfter, FlashAfter)')
  <2>1. ~aborted'
    BY DEF LineInv, EvalSlave
  <2>2. bridge'.state = "WAIT" => bridge'.tdata = Answer(due'.first, due'.place)
    BY ByteIsAnswer
  <2>. QED
    BY <2>1, <2>2 DEF LineInv
<1>8. CASE config'.ss # config.ss
  <2>1. ~Sending /\ ~axis_spi_bridge_active
    BY <1>8, HostFields DEF RequestInv
  <2>2. bridge'.sck = 0 /\ bridge'.ctr = 0 /\ bridge.sck = 0 /\ bridge.ctr = 0 /\ ~Sending'
    BY <1>4, <2>1, BridgeFields DEF Sending, BridgeInv, BridgeType
  <2>3. CASE config'.ss = 1
    <3>1. slave'.ctr = CTR_HIGH
      BY <1>1, <1>3, <1>5, <1>8, <2>2, <2>3 DEF InStep, CTR_HIGH
    <3>. QED
      BY <1>1, <1>2, <1>5, <1>8, <2>2, <2>3, <3>1, SlaveIsDeselected
  <2>4. CASE config'.ss = 0
    <3>1. /\ SlaveAfter'.ctr = CTR_HIGH /\ SlaveAfter'.tx = {} /\ SlaveAfter'.miso = 0
          /\ FlashAfter'.rx_state = "INSTRUCTION"
          /\ ~Aborts'
      BY <1>1, <1>2, <1>5, <1>8, <2>2, <2>4, SlaveIsSelected
    <3>2. Done' = 0
      BY <1>8, <2>2 DEF Done, History
    <3>3. InStep(SlaveAfter, FlashAfter)'
      BY <2>2, <3>1, <3>2 DEF InStep, StateAfter, Answer, Pin, CTR_HIGH
    <3>. QED
      BY <3>1, <3>3
  <2>. QED
    BY <1>5, <2>3, <2>4
<1>9. CASE config'.ss = config.ss /\ config.ss = 1
  <2>1. ~Sending
    BY <1>9 DEF RequestInv
  <2>2. bridge'.sck = 0 /\ bridge.sck = 0
    BY <1>4, <2>1, BridgeFields DEF Sending, BridgeInv, BridgeType
  <2>. QED
    BY <1>1, <1>2, <1>9, <2>2, SlaveSeesNothing
<1>10. CASE config'.ss = config.ss /\ config.ss = 0
  <2>1. InStep(slave, flash)
    BY <1>3, <1>10
  <2>2. CASE bridge'.sck = bridge.sck
    <3>1. SlaveAfter' = slave /\ FlashAfter' = flash /\ ~Aborts'
      BY <1>1, <1>2, <1>10, <2>2, SlaveSeesNothing
    <3>2. /\ bridge.sck = 0 /\ bridge'.sck = 0 /\ bridge'.ctr = bridge.ctr /\ bridge.ctr = 0 /\ ~bridge.tready
          /\ bridge.state # "TRANSFER"
      BY <1>4, <2>2, BridgeFields DEF BridgeInv, BridgeType
    <3>3. Done' = Done /\ (Done # 0 => selection'.first = selection.first)
      BY <1>6, <1>10, <3>2, HistoryStep DEF BridgeEnds
    <3>4. slave.tx = Answer(selection'.first, Done')
      BY <2>1, <3>3 DEF InStep, Answer
    <3>5. Passed(slave)' = {}
      BY <1>1, <2>1, <3>2 DEF Passed, InStep, Bits, CTR_HIGH
    <3>6. InStep(slave, flash)'
      BY <1>1, <2>1, <3>2, <3>3, <3>4, <3>5 DEF InStep
    <3>7. InStep(SlaveAfter, FlashAfter)'
      BY <1>1, <3>1, <3>6 DEF InStep, Passed
    <3>. QED
      BY <3>1, <3>7
  <2>3. CASE bridge.state = "TRANSFER" /\ bridge.sck = 1
    <3>1. /\ bridge'.sck = 0 /\ bridge'.ctr = bridge.ctr + 1 /\ bridge.ctr # CTR_HIGH
          /\ bridge'.tdata = bridge.tdata /\ ~bridge.tready /\ Sending /\ Sending'
      BY <2>3, BridgeFields DEF BridgeInv, Sending
    <3>2. slave.ctr = CTR_HIGH - bridge.ctr /\ slave.ctr # 0 /\ slave.ctr \in Bits
      BY <1>1, <1>4, <2>1, <3>1 DEF InStep, SlaveType, BridgeType, Bits, CTR_HIGH
    <3>3. /\ SlaveAfter'.ctr = slave.ctr - 1
          /\ SlaveAfter'.tx = slave.tx /\ SlaveAfter'.rx = slave.rx
          /\ SlaveAfter'.miso = Pin(slave.tx, slave.ctr - 1)
          /\ FlashAfter' = flash /\ ~Aborts'
      BY <1>1, <1>2, <1>10, <2>3, <3>1, <3>2, SlaveShifts
    <3>4. Done' = Done /\ selection'.first = selection.first
      BY <1>6, <1>10, <3>1, HistoryStep DEF BridgeBegins, BridgeEnds
    <3>5. wb_to_axis_reg'.tdata = wb_to_axis_reg.tdata
      BY <3>1, RequestIsKept
    <3>6. Passed(SlaveAfter)' = Passed(slave)
      BY <2>3, <3>1, <3>2, <3>3 DEF Passed, Bits, CTR_HIGH
    <3>7. \A b \in Passed(SlaveAfter)' : /\ b \in SlaveAfter'.rx <=> b \in wb_to_axis_reg'.tdata
                                         /\ b \in bridge'.tdata <=> b \in SlaveAfter'.tx
      BY <2>1, <3>1, <3>3, <3>5, <3>6 DEF InStep
    <3>8. SlaveAfter'.ctr = CTR_HIGH - bridge'.ctr
      BY <1>4, <3>1, <3>2, <3>3 DEF BridgeType, Bits, CTR_HIGH
    <3>9. InStep(SlaveAfter, FlashAfter)'
      BY <2>1, <3>1, <3>3, <3>4, <3>7, <3>8 DEF InStep
    <3>. QED
      BY <3>3, <3>9
  <2>4. CASE bridge.state = "TRANSFER" /\ bridge.sck = 0
    <3>1. /\ bridge'.sck = 1 /\ bridge'.ctr = bridge.ctr
          /\ bridge'.tdata = IF slave.miso = 1 THEN bridge.tdata \cup {CTR_HIGH - bridge.ctr}
                             ELSE bridge.tdata \ {CTR_HIGH - bridge.ctr}
          /\ ~bridge.tready /\ Sending /\ ~Begins
      BY <2>4, BridgeFields DEF Sending, Begins
    <3>2. slave.ctr = CTR_HIGH - bridge.ctr /\ slave.ctr \in Bits /\ slave.miso = Pin(slave.tx, slave.ctr)
      BY <1>1, <2>1, <2>4 DEF InStep, SlaveType
    <3>3. /\ SlaveAfter'.ctr = slave.ctr /\ SlaveAfter'.tx = slave.tx
          /\ \A b \in Bits : b \in SlaveAfter'.rx <=> IF b = slave.ctr THEN mosi' = 1 ELSE b \in slave.rx
          /\ FlashAfter' = flash /\ ~Aborts'
      BY <1>1, <1>2, <1>10, <2>4, <3>1, SlaveSamples
    <3>4. Done' = Done /\ selection'.first = selection.first /\ Sending'
      BY <1>6, <1>10, <3>1, HistoryStep DEF BridgeGoesOn, BridgeBegins, BridgeEnds
    <3>5. wb_to_axis_reg'.tdata = wb_to_axis_reg.tdata
      BY <3>1, RequestIsKept
    <3>6. mosi' = 1 <=> slave.ctr \in wb_to_axis_reg'.tdata
      BY <3>1, <3>2 DEF mosi
    <3>7. ASSUME NEW b \in Passed(SlaveAfter)'
          PROVE  /\ b \in SlaveAfter'.rx <=> b \in wb_to_axis_reg'.tdata
                 /\ b \in bridge'.tdata <=> b \in SlaveAfter'.tx
      <4>1. b \in Bits /\ (b > slave.ctr \/ b = slave.ctr)
        BY <3>3 DEF Passed
      <4>2. CASE b = slave.ctr
        BY <3>1, <3>2, <3>3, <3>6, <4>1, <4>2 DEF Pin
      <4>3. CASE b > slave.ctr /\ b # slave.ctr
        <5>1. b \in Passed(slave)
          BY <4>1, <4>3 DEF Passed
        <5>. QED
          BY <2>1, <3>1, <3>2, <3>3, <3>5, <4>1, <4>3, <5>1 DEF InStep
      <4>. QED
        BY <4>1, <4>2, <4>3
    <3>8. InStep(SlaveAfter, FlashAfter)'
      BY <2>1, <3>1, <3>2, <3>3, <3>4, <3>7 DEF InStep
    <3>. QED
      BY <3>3, <3>8
  <2>5. CASE bridge.state = "WAIT" /\ bridge.sck = 1
    <3>1. /\ bridge'.sck = 0 /\ bridge'.ctr = 0 /\ bridge.ctr = CTR_HIGH /\ Sending /\ bridge.tready
          /\ ~Begins /\ BridgeEnds
      BY <1>6, <2>5, BridgeFields DEF BridgeInv, Sending, Begins, BridgeGoesOn, BridgeBegins
    <3>2. slave.ctr = 0
      BY <2>1, <3>1 DEF InStep, CTR_HIGH
    <3>3. /\ SlaveAfter'.ctr = CTR_HIGH
          /\ SlaveAfter'.tx = Ret(flash.rx_state, FlashAfter'.instruction)
          /\ SlaveAfter'.miso = Pin(SlaveAfter'.tx, CTR_HIGH)
          /\ FlashAfter'.rx_state = RxNext[flash.rx_state]
          /\ FlashAfter'.instruction = IF flash.rx_state = "INSTRUCTION" THEN slave.rx ELSE flash.instruction
          /\ Aborts' <=> flash.rx_state = "INSTRUCTION" /\ slave.rx \notin Known
      BY <1>1, <1>2, <1>10, <2>5, <3>1, <3>2, SlaveEndsByte
    <3>4. Done' = Done + 1 /\ selection'.first = selection.first /\ ~Sending'
      BY <1>10, <3>1, HistoryStep DEF BridgeEnds
    <3>5. Done = 0 => slave.rx = selection.first /\ selection.first \in Known
      <4>1. \A b \in Bits : b \in slave.rx <=> b \in wb_to_axis_reg.tdata
        BY <2>1, <2>5, <3>1, <3>2 DEF InStep, Passed, Bits, CTR_HIGH
      <4>2. slave.rx \in SUBSET Bits /\ wb_to_axis_reg.tdata \in SUBSET Bits
        BY DEF TypeOK, Byte
      <4>3. slave.rx = wb_to_axis_reg.tdata
        BY <4>1, <4>2
      <4>. QED
        BY <3>1, <4>3, Bytes DEF RequestInv
    <3>6. flash.rx_state = StateAfter(Done) /\ (Done # 0 => flash.instruction = selection.first)
      BY <2>1 DEF InStep
    <3>7. FlashAfter'.instruction = selection.first /\ ~Aborts'
      BY <1>7, <3>3, <3>5, <3>6, Answers
    <3>8. /\ FlashAfter'.rx_state = StateAfter(Done')
          /\ SlaveAfter'.tx = Answer(selection'.first, Done')
      BY <1>7, <3>3, <3>4, <3>6, <3>7, Answers
    <3>9. InStep(SlaveAfter, FlashAfter)'
      BY <3>1, <3>3, <3>4, <3>7, <3>8 DEF InStep, CTR_HIGH
    <3>. QED
      BY <3>7, <3>9
  <2>6. bridge.state = "SETUP" \/ (bridge.state = "WAIT" /\ bridge.sck = 0) => bridge'.sck = bridge.sck
    BY BridgeFields
  <2>. QED
    BY <1>4, <2>2, <2>3, <2>4, <2>5, <2>6 DEF BridgeType
<1>. QED
  BY <1>5, <1>8, <1>9, <1>10
-----------------------------------------------------------------------------
(* The steps                                                               *)

\* The clock cannot rise in two evaluations that follow each other.
LEMMA Time ==
  ASSUME TypeOK
  PROVE  /\ NextTick(time) \in Ticks
         /\ getEvent(NextTick(time)) = "RISING" <=> NextTick(time) = HalfClock
         /\ NextTick(time) = HalfClock => time # HalfClock
<1>1. HalfClock \in 1 .. TicksPerClock - 1
  OBVIOUS
<1>2. NextTick(time) = IF time + 1 = TicksPerClock THEN 0 ELSE time + 1
  BY DEF TypeOK, NextTick
<1>3. getEvent(NextTick(time)) = "RISING" <=> NextTick(time) = HalfClock
  BY <1>1 DEF getEvent
<1>. QED
  BY <1>1, <1>2, <1>3 DEF TypeOK

\* Edges leave the counter of ResetGen in its range and the design released.
LEMMA Reset ==
  ASSUME TypeOK, reset_count' = ResetCount(reset_count, getEvent(time'))
  PROVE  /\ reset_count' \in 0..ResetEdges
         /\ sresetn => sresetn'
         /\ getEvent(time') # "RISING" => (sresetn' <=> sresetn)
BY DEF TypeOK, ResetCount, ResetEdges, sresetn, Released

LEMMA FifoType ==
  ASSUME TypeOK, NEW wb, FifoEdge(wb)
  PROVE  buffered' \in 0..RESULT_DEPTH
BY DEF TypeOK, FifoEdge, axis_o_tready

\* The parts of the type that the three kinds of step have in common.
LEMMA SlaveStep ==
  ASSUME TypeOK, EvalSlave
  PROVE  /\ slave' \in SlaveType /\ flash' \in FlashType /\ aborted' \in BOOLEAN
         /\ slave'.prev_sck = bridge.sck /\ slave'.prev_ss = config.ss
BY EvalType, EvalLatches DEF EvalSlave, Aborts

\* A rising edge of the clock, with the design out of reset ...
LEMMA ClkStep ==
  ASSUME IInv, Eval, getEvent(time') = "RISING", sresetn
  PROVE  IInv'
<1>1. PICK wb \in Requests : /\ ConfigEdge(wb) /\ RegisterEdge(wb) /\ InjectEdge(wb) /\ FifoEdge(wb)
                             /\ BridgeEdge /\ History(wb)
  BY DEF Eval, Clk
<1>2. time' = NextTick(time) /\ reset_count' = ResetCount(reset_count, getEvent(time')) /\ EvalSlave
  BY DEF Eval
<1>3. TypeOK /\ BridgeInv /\ RequestInv /\ LineInv
  BY DEF IInv
<1>4. time' \in Ticks /\ time' = HalfClock /\ time # HalfClock
  BY <1>2, <1>3, Time
<1>5. slave = SlaveAfter /\ flash = FlashAfter
  BY <1>4 DEF IInv, SeenInv
<1>6. HostType' /\ RequestInv'
  BY <1>1, <1>3, BridgeStep, HostStep
<1>7. TypeOK'
  BY <1>1, <1>2, <1>3, <1>4, <1>6, Reset, BridgeFields, FifoType, SlaveStep
     DEF TypeOK, HostType, BridgeType, SlaveType, FlashType
<1>8. BridgeInv'
  BY <1>1, <1>2, <1>3, BridgeStep, Reset DEF BridgeInv
<1>9. LineInv'
  BY <1>1, <1>2, <1>3, <1>5, <1>6, LineStep
<1>10. SeenInv'
  BY <1>4 DEF SeenInv
<1>. QED
  BY <1>6, <1>7, <1>8, <1>9, <1>10 DEF IInv

\* ... and in reset, which deselects the device.
LEMMA ResetStep ==
  ASSUME IInv, Eval, getEvent(time') = "RISING", ~sresetn
  PROVE  IInv'
<1>1. /\ ConfigEdge(NoRequest) /\ RegisterEdge(NoRequest) /\ InjectEdge(NoRequest) /\ FifoEdge(NoRequest)
      /\ BridgeEdge /\ History(NoRequest)
  BY DEF Eval, Clk
<1>2. time' = NextTick(time) /\ reset_count' = ResetCount(reset_count, getEvent(time')) /\ EvalSlave
  BY DEF Eval
<1>3. TypeOK /\ BridgeInv /\ RequestInv /\ LineInv
  BY DEF IInv
<1>4. time' \in Ticks /\ time' = HalfClock
  BY <1>2, <1>3, Time
<1>5. bridge.state = "SETUP" /\ bridge.sck = 0 /\ bridge.ctr = 0 /\ ~bridge.tready /\ selection.asked = 0
      /\ ~axis_spi_bridge_active
  BY <1>3 DEF BridgeInv
<1>6. bridge' = bridge
  <2>1. bridge' = [bridge EXCEPT !.state = "SETUP", !.sck = 0, !.ctr = 0]
    BY <1>1 DEF BridgeEdge
  <2>2. bridge' = [bridge EXCEPT !.state = bridge.state, !.sck = bridge.sck, !.ctr = bridge.ctr]
    BY <1>5, <2>1
  <2>3. bridge \in BridgeType
    BY <1>3 DEF TypeOK, BridgeType
  <2>. QED
    BY ONLY <2>2, <2>3 DEF BridgeType
<1>7. /\ config' = [ss |-> 1, discard_rx_data |-> FALSE]
      /\ wb_to_axis_reg' = wb_to_axis_reg /\ inject_ctr' = 0 /\ inject_ctr = 0 /\ ~wb_to_axis_reg.tvalid
  <2>1. wb_to_axis_reg' = [wb_to_axis_reg EXCEPT !.tvalid = FALSE]
    BY <1>1 DEF RegisterEdge
  <2>2. ~wb_to_axis_reg.tvalid /\ inject_ctr = 0
    BY <1>5 DEF axis_spi_bridge_active
  <2>3. wb_to_axis_reg' = wb_to_axis_reg
    BY <1>3, <2>1, <2>2 DEF TypeOK
  <2>. QED
    BY <1>1, <2>2, <2>3 DEF ConfigEdge, InjectEdge
<1>8. ~Begins /\ ~Sending /\ ~Sending'
  BY <1>5, <1>6 DEF Begins, Sending
<1>9. selection.begun = 0
  BY <1>3, <1>5, <1>7, <1>8 DEF RequestInv, Done, Pending, TypeOK
<1>10. /\ selection' \in [first : Byte, asked : 0..BytesPerSelection, begun : 0..BytesPerSelection]
       /\ selection'.asked = 0 /\ selection'.begun = 0
       /\ due' = due
  <2>1. CASE config'.ss # config.ss
    BY <1>1, <1>8, <2>1, Bytes DEF History
  <2>2. CASE config'.ss = config.ss
    <3>1. selection' = [first |-> selection.first, asked |-> 0, begun |-> 0]
      BY <1>1, <1>5, <1>8, <1>9, <2>2 DEF History, NoRequest
    <3>2. due' = due
      BY <1>1, <1>8 DEF History
    <3>3. selection.first \in Byte /\ 0 \in 0..BytesPerSelection
      BY <1>3 DEF TypeOK
    <3>. QED
      BY <3>1, <3>2, <3>3
  <2>. QED
    BY <2>1, <2>2
<1>11. RequestInv'
  BY <1>7, <1>8, <1>10 DEF RequestInv, Done, Pending, axis_spi_bridge_active
<1>12. slave' \in SlaveType /\ flash' \in FlashType /\ aborted' \in BOOLEAN
       /\ slave'.prev_sck = bridge.sck /\ slave'.prev_ss = config.ss
  BY <1>2, <1>3, SlaveStep
<1>13. TypeOK'
  <2>1. reset_count' \in 0..ResetEdges /\ buffered' \in 0..RESULT_DEPTH
    BY <1>1, <1>2, <1>3, Reset, FifoType
  <2>2. config' \in [ss : {0, 1}, discard_rx_data : BOOLEAN] /\ inject_ctr' \in 0..InjectMax
    BY <1>7
  <2>. QED
    BY <1>3, <1>4, <1>6, <1>7, <1>10, <1>12, <2>1, <2>2 DEF TypeOK, SlaveType, FlashType
<1>14. BridgeInv'
  BY <1>3, <1>5, <1>6, <1>7, <1>10 DEF BridgeInv, axis_spi_bridge_active
<1>15. LineInv'
  <2>1. ~aborted'
    BY <1>2, <1>3 DEF LineInv, EvalSlave
  <2>2. ~Aborts'
    <3>1. CASE config.ss = 1
      BY <1>6, <1>7, <1>12, <3>1, SlaveSeesNothing
    <3>2. CASE config.ss = 0
      <4>1. slave'.ctr = CTR_HIGH
        BY <1>2, <1>3, <1>5, <3>2 DEF LineInv, InStep, EvalSlave, CTR_HIGH
      <4>. QED
        BY <1>6, <1>7, <1>12, <3>2, <4>1, SlaveIsDeselected
    <3>. QED
      BY <1>3, <3>1, <3>2 DEF TypeOK
  <2>. QED
    BY <1>5, <1>6, <1>7, <2>1, <2>2 DEF LineInv
<1>16. SeenInv'
  BY <1>4 DEF SeenInv
<1>. QED
  BY <1>11, <1>13, <1>14, <1>15, <1>16 DEF IInv

\* An evaluation in which no pin moves: the slave catches up.
LEMMA QuietStep ==
  ASSUME IInv, Eval, getEvent(time') # "RISING"
  PROVE  IInv'
<1>1. /\ UNCHANGED <<config, wb_to_axis_reg, inject_ctr, bridge, buffered, selection, due>>
      /\ time' = NextTick(time) /\ reset_count' = ResetCount(reset_count, getEvent(time')) /\ EvalSlave
  BY DEF Eval
<1>2. TypeOK /\ BridgeInv /\ RequestInv /\ LineInv
  BY DEF IInv
<1>3. time' \in Ticks /\ reset_count' \in 0..ResetEdges /\ (sresetn' <=> sresetn)
  BY <1>1, <1>2, Time, Reset
<1>4. /\ slave' \in SlaveType /\ flash' \in FlashType /\ aborted' \in BOOLEAN
      /\ slave'.prev_sck = bridge.sck /\ slave'.prev_ss = config.ss
  BY <1>1, <1>2, SlaveStep
<1>5. TypeOK'
  BY <1>1, <1>2, <1>3, <1>4 DEF TypeOK, SlaveType, FlashType
<1>6. BridgeInv'
  BY <1>1, <1>2, <1>3 DEF BridgeInv, axis_spi_bridge_active
<1>7. RequestInv'
  BY <1>1, <1>2 DEF RequestInv, Sending, Done, Pending, axis_spi_bridge_active
<1>8. SlaveAfter' = slave' /\ FlashAfter' = flash' /\ ~Aborts'
  BY <1>1, <1>4, SlaveSeesNothing
<1>9. SeenInv'
  BY <1>8 DEF SeenInv
<1>10. LineInv'
  <2>1. slave' = SlaveAfter /\ flash' = FlashAfter /\ ~aborted'
    BY <1>1, <1>2 DEF EvalSlave, LineInv
  <2>2. config.ss = 0 => InStep(slave', flash')
    BY <1>2, <2>1 DEF LineInv
  <2>3. config'.ss = 0 => InStep(SlaveAfter, FlashAfter)'
    BY <1>1, <1>8, <2>2 DEF InStep, Passed, Done, Sending
  <2>. QED
    BY <1>1, <1>2, <1>8, <2>1, <2>3 DEF LineInv
<1>. QED
  BY <1>5, <1>6, <1>7, <1>9, <1>10 DEF IInv
-----------------------------------------------------------------------------
(* The theorems                                                            *)

LEMMA Initially == Init => IInv
<1>. SUFFICES ASSUME Init PROVE IInv
  OBVIOUS
<1>. USE DEF Init
<1>1. ~sresetn /\ ~axis_spi_bridge_active /\ ~Sending
  BY DEF sresetn, Released, ResetEdges, axis_spi_bridge_active, Sending
<1>2. TypeOK
  <2>1. config \in [ss : {0, 1}, discard_rx_data : BOOLEAN] /\ wb_to_axis_reg \in [tvalid : BOOLEAN, tdata : Byte]
    BY Bytes
  <2>2. bridge \in BridgeType
    BY Bytes DEF BridgeType, Bits, CTR_HIGH
  <2>3. slave \in SlaveType
    BY Bytes DEF SlaveType, Bits, CTR_HIGH
  <2>4. flash \in FlashType
    BY Bytes, StatesDomain DEF FlashType, States
  <2>5. /\ selection \in [first : Byte, asked : 0..BytesPerSelection, begun : 0..BytesPerSelection]
        /\ due \in [first : Byte, place : 0..BytesPerSelection]
    BY Bytes
  <2>6. time \in Ticks /\ reset_count \in 0..ResetEdges /\ buffered \in 0..RESULT_DEPTH
        /\ inject_ctr \in 0..InjectMax /\ aborted \in BOOLEAN
    <3>1. 0 \in 0 .. TicksPerClock - 1 /\ 0 \in 0..RESULT_DEPTH /\ 0 \in 0..InjectMax
      OBVIOUS
    <3>2. 0 \in 0..ResetEdges
      BY DEF ResetEdges
    <3>3. aborted \in BOOLEAN
      BY Zenon
    <3>. QED
      BY <3>1, <3>2, <3>3, Zenon DEF Ticks
  <2>. QED
    BY <2>1, <2>2, <2>3, <2>4, <2>5, <2>6 DEF TypeOK, BridgeType, SlaveType, FlashType
<1>3. BridgeInv /\ RequestInv
  BY <1>1 DEF BridgeInv, RequestInv, Done, Pending, axis_spi_bridge_active
<1>4. ~ss_rises /\ ss_falls /\ ~SckRises /\ ~SckFalls /\ ~ByteEnds
  BY DEF ss_rises, ss_falls, SckRises, SckFalls, ByteEnds
<1>5. Selected = [slave EXCEPT !.tx = {}, !.ctr = CTR_HIGH, !.miso = 0]
  BY <1>4 DEF Selected
<1>6. SlaveAfter = [Selected EXCEPT !.prev_sck = bridge.sck, !.prev_ss = config.ss]
  BY <1>4, Zenon DEF SlaveAfter
<1>7. InStep(SlaveAfter, FlashAfter)
  <2>1. SlaveAfter.ctr = CTR_HIGH /\ SlaveAfter.tx = {} /\ SlaveAfter.miso = 0
    BY <1>5, <1>6
  <2>2. FlashAfter.rx_state = "INSTRUCTION"
    BY <1>4 DEF FlashAfter, SelectedFlash, ss_fall
  <2>3. Done = 0
    BY <1>1 DEF Done
  <2>. QED
    BY <1>1, <2>1, <2>2, <2>3 DEF InStep, StateAfter, Answer, Pin, CTR_HIGH
<1>8. ~Aborts
  BY <1>4 DEF Aborts
<1>. QED
  BY <1>1, <1>2, <1>3, <1>7, <1>8 DEF IInv, LineInv, SeenInv

LEMMA Inductive == IInv /\ [Eval]_vars => IInv'
<1>1. ASSUME IInv, Eval  PROVE IInv'
  BY <1>1, ClkStep, ResetStep, QuietStep
<1>2. ASSUME IInv, UNCHANGED vars  PROVE IInv'
  BY <1>2 DEF vars, IInv, TypeOK, BridgeInv, RequestInv, LineInv, SeenInv, InStep, Passed, Done, Pending,
     Sending, sresetn, axis_spi_bridge_active, SlaveAfter, FlashAfter, Aborts, Selected, SelectedFlash,
     Sampled, Shifted, SckRises, SckFalls, ByteEnds, ss_rises, ss_falls, mosi, ss_fall
<1>. QED
  BY <1>1, <1>2

\* The bits of zero.
LEMMA HexZero == Hex(0) = {}
<1>1. ASSUME NEW b \in Bits  PROVE (0 \div 2^b) % 2 # 1
  <2>1. 2^b \in Nat \ {0}
    <3>1. CASE b = 0
      BY <3>1
    <3>2. CASE b = 1
      BY <3>2
    <3>3. CASE b = 2
      BY <3>3
    <3>4. CASE b = 3
      BY <3>4
    <3>5. CASE b = 4
      BY <3>5
    <3>6. CASE b = 5
      BY <3>6
    <3>7. CASE b = 6
      BY <3>7
    <3>8. CASE b = 7
      BY <3>8
    <3>. QED
      BY <3>1, <3>2, <3>3, <3>4, <3>5, <3>6, <3>7, <3>8 DEF Bits, CTR_HIGH
  <2>2. \A x \in Nat \ {0} : 0 \div x = 0
    OBVIOUS
  <2>. QED
    BY <2>1, <2>2
<1>. QED
  BY <1>1 DEF Hex

\* What the flash is to answer, as the property has it.
LEMMA AnswerIsExpected ==
  ASSUME NEW first, NEW place \in Nat
  PROVE  Answer(first, place) =
           Hex(CASE first = Hex(\h9F) /\ place \in 1..3 -> <<\hEF, \h40, \h18>>[place]
                 [] first = Hex(\hAB) /\ place = 4 -> \h17
                 [] OTHER -> 0)
<1>. DEFINE expected == CASE first = Hex(\h9F) /\ place \in 1..3 -> <<\hEF, \h40, \h18>>[place]
                          [] first = Hex(\hAB) /\ place = 4 -> \h17
                          [] OTHER -> 0
<1>1. CASE place = 0
  <2>1. expected = 0
    BY <1>1
  <2>. QED
    BY <1>1, <2>1, HexZero DEF Answer
<1>2. CASE place # 0
  <2>. DEFINE r == StateAfter(place - 1)
  <2>1. /\ r = "INSTRUCTION" <=> place = 1
        /\ r = "BYTE_2" <=> place = 2
        /\ r = "BYTE_3" <=> place = 3
        /\ r = "BYTE_4" <=> place = 4
    BY <1>2 DEF StateAfter
  <2>. HIDE DEF r
  <2>2. Ret(r, first) = Hex(expected)
    <3>1. CASE place = 1
      BY <2>1, <3>1 DEF Ret
    <3>2. CASE place = 2
      BY <2>1, <3>2 DEF Ret
    <3>3. CASE place = 3
      BY <2>1, <3>3 DEF Ret
    <3>4. CASE place = 4
      BY <2>1, <3>4 DEF Ret
    <3>5. CASE place > 4
      BY <2>1, <3>5 DEF Ret
    <3>. QED
      BY <1>2, <3>1, <3>2, <3>3, <3>4, <3>5
  <2>. QED
    BY <1>2, <2>2 DEF Answer, r
<1>. QED
  BY <1>1, <1>2

\* The variables keep their types: the bridge's bit counter and the slave's stay
\* among the bits of a byte, the FIFO takes no result beyond its depth, and the
\* counter of dummy bytes does not run below zero.
THEOREM TypeCorrect == Spec => []TypeOK
<1>1. IInv => TypeOK
  BY DEF IInv
<1>. QED
  BY <1>1, Initially, Inductive, PTL DEF Spec

\* SpiSlave::eval's assertion that ss rises between bytes, and the one of
\* FlashSpiDevice::transfer that it knows the instruction, do not fail.
THEOREM NoAbortCorrect == Spec => []NoAbort
<1>1. IInv => NoAbort
  BY DEF IInv, LineInv, NoAbort
<1>. QED
  BY <1>1, Initially, Inductive, PTL DEF Spec

\* Each byte that axis_spi_bridge hands on is the flash's answer to the byte
\* before it, in its place after the instruction.
THEOREM ResultsCorrect == Spec => []Results
<1>1. IInv => Results
  <2>. SUFFICES ASSUME IInv, bridge.state = "WAIT"
                PROVE  bridge.tdata = Answer(due.first, due.place) /\ due.place \in Nat
    BY AnswerIsExpected DEF Results
  <2>. QED
    BY DEF IInv, LineInv, TypeOK
<1>. QED
  BY <1>1, Initially, Inductive, PTL DEF Spec
=============================================================================
