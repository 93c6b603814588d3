------------------------------ MODULE SpiFlash ------------------------------
(***************************************************************************)
(* The SPI master of the Wishbone bus and the flash memory of the test     *)
(* bench on one bus: wb_to_spi_master.sv, wb_axis_bridge.sv (its register),*)
(* axis_spi_bridge.sv on one side, SpiSlave.hpp and FlashSpiDevice.hpp on  *)
(* the other.                                                              *)
(*                                                                         *)
(* A step is one evaluation of the bench: the slave's inputs are latched,  *)
(* the design moves if its clock rises, then the slave is evaluated, so it *)
(* answers an edge of sck one evaluation later.  A byte is the set of its  *)
(* bits that are one.                                                      *)
(***************************************************************************)
EXTENDS VerilatedModel

CONSTANTS
  Instructions,       \* the bytes that the host sends
  InjectMax,          \* bound: the largest number of dummy bytes asked for at once
  RESULT_DEPTH,       \* of the FIFO for the results
  BytesPerSelection   \* bound: bytes between two changes of ss

CTR_HIGH == 7
Bits == 0..CTR_HIGH
Byte == SUBSET Bits
Hex(n) == {b \in Bits : (n \div 2^b) % 2 = 1}

\* The instructions that FlashSpiDevice does not assert on.
Known == {Hex(n) : n \in {\h01, \h11, \h31, \h05, \hAB, \h9F, \h03, \h06, \h50}}

ASSUME SpiAssumption ==
  /\ Instructions \subseteq Known
  /\ InjectMax \in 0..255
  /\ RESULT_DEPTH \in Nat \ {0}
  /\ BytesPerSelection \in Nat

VARIABLES
  time, reset_count,
  config,      \* wb_to_spi_master: the pin ss, discard_rx_data
  wb_to_axis_reg, inject_ctr,
  bridge,      \* axis_spi_bridge and the pin sck
  buffered,    \* how many results fifo_inst holds
  slave,       \* SpiSlave and the pin miso
  flash,       \* FlashSpiDevice
  aborted,     \* an assertion of the two has failed
  selection,   \* history: the host's bytes since ss fell: the first, how many asked, begun
  due          \* history: which of them the bridge is at

vars == <<time, reset_count, config, wb_to_axis_reg, inject_ctr, bridge, buffered, slave,
          flash, aborted, selection, due>>

sresetn == Released(reset_count)
-----------------------------------------------------------------------------
(* The Wishbone side *)

axis_spi_bridge_active == wb_to_axis_reg.tvalid \/ inject_ctr # 0

\* Mutant: only the register counts.
wb_config_stallReg == wb_to_axis_reg.tvalid

wb_config_stall == axis_spi_bridge_active

axis_wb_to_spi_tready == bridge.tready

wb_to_axis_tready == ~wb_to_axis_reg.tvalid \/ axis_wb_to_spi_tready

mosi == IF CTR_HIGH - bridge.ctr \in wb_to_axis_reg.tdata THEN 1 ELSE 0

axis_o_tvalid == bridge.state = "WAIT" /\ ~bridge.discard_result

axis_o_tready == buffered < RESULT_DEPTH

NoRequest == [addr |-> "none", dat |-> {}]

\* What the host may put on the bus (external).  It sends bytes only to the
\* selected device and begins with an instruction; it does not write while
\* dummy bytes are injected or the other way round, as the comment at
\* wb_to_spi_master.sv:116 asks; it changes ss and discard_rx_data when it likes.
Requests ==
  {NoRequest, [addr |-> "read", dat |-> {}]}
  \cup [addr : {"config"}, dat : [ss : {0, 1}, discard_rx_data : BOOLEAN]]
  \cup [addr : {d \in {"axis"} : /\ config.ss = 0 /\ inject_ctr = 0
                                 /\ selection.asked < BytesPerSelection},
        dat : Instructions]
  \cup [addr : {d \in {"inject"} : /\ config.ss = 0 /\ selection.asked > 0
                                   /\ ~axis_spi_bridge_active},
        dat : {n \in 0..InjectMax : selection.asked + n <= BytesPerSelection}]

ConfigEdge(wb) ==
  config' = IF ~sresetn THEN [ss |-> 1, discard_rx_data |-> FALSE]
            ELSE IF wb.addr = "config" /\ ~wb_config_stall THEN wb.dat ELSE config

RegisterEdge(wb) ==
  wb_to_axis_reg' =
    IF ~sresetn THEN [wb_to_axis_reg EXCEPT !.tvalid = FALSE]
    ELSE IF wb.addr = "axis" /\ wb_to_axis_tready THEN [tvalid |-> TRUE, tdata |-> wb.dat]
    ELSE [wb_to_axis_reg EXCEPT !.tvalid = @ /\ ~axis_wb_to_spi_tready]

\* Mutant: the counter goes below zero.
InjectEdgeUnguarded(wb) ==
  inject_ctr' = IF ~sresetn THEN 0
                ELSE IF wb.addr = "inject" THEN wb.dat
                ELSE IF axis_wb_to_spi_tready THEN (inject_ctr - 1) % 256 ELSE inject_ctr

InjectEdge(wb) ==
  inject_ctr' = IF ~sresetn THEN 0
                ELSE IF wb.addr = "inject" THEN wb.dat
                ELSE IF axis_wb_to_spi_tready /\ inject_ctr # 0 THEN inject_ctr - 1 ELSE inject_ctr

\* fifo_inst, without the latency of axis_fifo.
FifoEdge(wb) ==
  buffered' = IF ~sresetn THEN 0
              ELSE buffered + (IF axis_o_tvalid /\ axis_o_tready THEN 1 ELSE 0)
                            - (IF wb.addr = "read" /\ buffered > 0 THEN 1 ELSE 0)
-----------------------------------------------------------------------------
(* axis_spi_bridge *)

Setup ==
  IF axis_spi_bridge_active
  THEN [bridge EXCEPT !.tready = FALSE, !.state = "TRANSFER", !.discard_result = config.discard_rx_data]
  ELSE [bridge EXCEPT !.tready = FALSE]

\* A bit takes two clocks; the last sck falls in WAIT.
Transfer ==
  LET bit == CTR_HIGH - bridge.ctr IN
  IF bridge.sck = 1 THEN [bridge EXCEPT !.tready = FALSE, !.sck = 0, !.ctr = (@ + 1) % (CTR_HIGH + 1)]
  ELSE [bridge EXCEPT !.tready = (bridge.ctr = CTR_HIGH), !.sck = 1,
                      !.state = IF bridge.ctr = CTR_HIGH THEN "WAIT" ELSE "TRANSFER",
                      !.tdata = IF slave.miso = 1 THEN @ \cup {bit} ELSE @ \ {bit}]

Wait ==
  [bridge EXCEPT !.tready = FALSE, !.sck = 0, !.ctr = 0,
                 !.state = IF (axis_o_tready /\ axis_o_tvalid) \/ bridge.discard_result
                           THEN "SETUP" ELSE "WAIT"]

BridgeEdge ==
  bridge' = IF ~sresetn THEN [bridge EXCEPT !.state = "SETUP", !.sck = 0, !.ctr = 0]
            ELSE CASE bridge.state = "SETUP"    -> Setup
                   [] bridge.state = "TRANSFER" -> Transfer
                   [] bridge.state = "WAIT"     -> Wait

Begins == sresetn /\ bridge.state = "SETUP" /\ axis_spi_bridge_active

History(wb) ==
  /\ selection' =
       IF config'.ss # config.ss THEN [first |-> {}, asked |-> 0, begun |-> 0]
       ELSE [first |-> IF Begins /\ selection.begun = 0 THEN wb_to_axis_reg.tdata ELSE selection.first,
             asked |-> selection.asked + CASE wb.addr = "axis" /\ wb_to_axis_tready -> 1
                                           [] wb.addr = "inject" -> wb.dat
                                           [] OTHER -> 0,
             begun |-> selection.begun + (IF Begins THEN 1 ELSE 0)]
  /\ due' = IF Begins THEN [first |-> selection'.first, place |-> selection.begun] ELSE due

Clk ==
  \E wb \in IF sresetn THEN Requests ELSE {NoRequest} :
    /\ ConfigEdge(wb) /\ RegisterEdge(wb) /\ InjectEdge(wb) /\ FifoEdge(wb)
    /\ BridgeEdge
    /\ History(wb)
-----------------------------------------------------------------------------
(* FlashSpiDevice *)

RxNext == [INSTRUCTION |-> "BYTE_2", BYTE_2 |-> "BYTE_3", BYTE_3 |-> "BYTE_4",
           BYTE_4 |-> "DUMMY", DUMMY |-> "DUMMY"]

\* Mutant: the device goes on where the last selection left it.
ss_fallKeeps == flash

ss_fall == [flash EXCEPT !.rx_state = "INSTRUCTION"]

\* transfer(): what is answered in each state ...
Ret(rx_state, instruction) ==
  Hex(CASE rx_state = "INSTRUCTION" /\ instruction = Hex(\h9F) -> \hEF
        [] rx_state = "BYTE_2" /\ instruction = Hex(\h9F) -> \h40
        [] rx_state = "BYTE_3" /\ instruction = Hex(\h9F) -> \h18
        [] rx_state = "BYTE_4" /\ instruction = Hex(\hAB) -> \h17
        [] OTHER -> 0)

\* ... and the state after it.
transfer(f, rx) ==
  [rx_state    |-> RxNext[f.rx_state],
   instruction |-> IF f.rx_state = "INSTRUCTION" THEN rx ELSE f.instruction]
-----------------------------------------------------------------------------
(* SpiSlave::eval, on the latched pins *)

Pin(data, ctr) == IF ctr \in data THEN 1 ELSE 0

ss_rises == slave.prev_ss = 0 /\ config.ss = 1
ss_falls == slave.prev_ss = 1 /\ config.ss = 0

\* Lines 22-34: the slave and the device when ss has been looked at.
Selected ==
  CASE ss_rises -> [slave EXCEPT !.ctr = 0]
    [] ss_falls -> [slave EXCEPT !.tx = {}, !.ctr = CTR_HIGH, !.miso = 0]
    [] OTHER    -> slave

SelectedFlash == IF ss_falls THEN ss_fall ELSE flash

\* Lines 36-51: what follows when sck has risen, or fallen.
Sampled(s) == [s EXCEPT !.rx = IF mosi = 1 THEN @ \cup {s.ctr} ELSE @ \ {s.ctr}]

Shifted(s, f) ==
  IF s.ctr = 0
  THEN LET tx == Ret(f.rx_state, transfer(f, s.rx).instruction) IN
       [s EXCEPT !.ctr = CTR_HIGH, !.rx = {}, !.tx = tx, !.miso = Pin(tx, CTR_HIGH)]
  ELSE [s EXCEPT !.ctr = @ - 1, !.miso = Pin(s.tx, s.ctr - 1)]

\* sck is looked at whatever ss is.
SckRises == bridge.sck = 1 /\ slave.prev_sck = 0
SckFalls == bridge.sck = 0 /\ slave.prev_sck = 1
ByteEnds == SckFalls /\ Selected.ctr = 0

SlaveAfter ==
  LET s == CASE SckRises -> Sampled(Selected)
             [] SckFalls -> Shifted(Selected, SelectedFlash)
             [] OTHER    -> Selected
  IN  [s EXCEPT !.prev_sck = bridge.sck, !.prev_ss = config.ss]

FlashAfter == IF ByteEnds THEN transfer(SelectedFlash, Selected.rx) ELSE SelectedFlash

\* The assertions of SpiSlave::eval and of FlashSpiDevice::transfer.
Aborts ==
  \/ ss_rises /\ slave.ctr # CTR_HIGH
  \/ ByteEnds /\ SelectedFlash.rx_state = "INSTRUCTION" /\ Selected.rx \notin Known

EvalSlave ==
  /\ slave' = SlaveAfter
  /\ flash' = FlashAfter
  /\ aborted' = Aborts
-----------------------------------------------------------------------------
Init ==
  /\ time = 0 /\ reset_count = 0
  /\ config = [ss |-> 0, discard_rx_data |-> FALSE]
  /\ wb_to_axis_reg = [tvalid |-> FALSE, tdata |-> {}]
  /\ inject_ctr = 0
  /\ bridge = [state |-> "SETUP", sck |-> 0, ctr |-> 0, tready |-> FALSE,
               discard_result |-> FALSE, tdata |-> {}]
  /\ buffered = 0
  /\ slave = [prev_sck |-> 0, prev_ss |-> 1, ctr |-> CTR_HIGH, tx |-> {}, rx |-> {}, miso |-> 0]
  /\ flash = [rx_state |-> "INSTRUCTION", instruction |-> {}]
  /\ aborted = FALSE
  /\ selection = [first |-> {}, asked |-> 0, begun |-> 0]
  /\ due = [first |-> {}, place |-> 0]

Eval ==
  /\ ~aborted
  /\ time' = NextTick(time)
  /\ reset_count' = ResetCount(reset_count, getEvent(time'))
  /\ IF getEvent(time') = "RISING" THEN Clk
     ELSE UNCHANGED <<config, wb_to_axis_reg, inject_ctr, bridge, buffered, selection, due>>
  /\ EvalSlave

Spec == Init /\ [][Eval]_vars
-----------------------------------------------------------------------------
\* Every variable has its type; the counters stay within their bounds.
TypeOK ==
  /\ time \in Ticks /\ reset_count \in 0..ResetEdges
  /\ config \in [ss : {0, 1}, discard_rx_data : BOOLEAN]
  /\ wb_to_axis_reg \in [tvalid : BOOLEAN, tdata : Byte]
  /\ inject_ctr \in 0..InjectMax
  /\ bridge \in [state : {"SETUP", "TRANSFER", "WAIT"}, sck : {0, 1}, ctr : Bits, tready : BOOLEAN,
                 discard_result : BOOLEAN, tdata : Byte]
  /\ buffered \in 0..RESULT_DEPTH
  /\ slave \in [prev_sck : {0, 1}, prev_ss : {0, 1}, ctr : Bits, tx : Byte, rx : Byte,
                miso : {0, 1}]
  /\ flash \in [rx_state : DOMAIN RxNext, instruction : Byte]
  /\ aborted \in BOOLEAN
  /\ selection \in [first : Byte, asked : 0..BytesPerSelection, begun : 0..BytesPerSelection]
  /\ due \in [first : Byte, place : 0..BytesPerSelection]

\* The device is never deselected within a byte, whenever the host writes the
\* configuration, and never gets an instruction that was not sent to it: the
\* asserts of SpiSlave::eval and of FlashSpiDevice::transfer hold.
NoAbort == ~aborted

\* The comment at wb_to_spi_master.sv:114 wants dummy bytes "to read from the
\* device": the n-th result after an instruction is the flash's n-th answer to
\* it, whoever asked for the byte, whatever went on in the selections before,
\* and although the slave answers each edge of sck an evaluation late.
Results ==
  bridge.state = "WAIT" =>
    bridge.tdata = Hex(CASE due.first = Hex(\h9F) /\ due.place \in 1..3 -> <<\hEF, \h40, \h18>>[due.place]
                         [] due.first = Hex(\hAB) /\ due.place = 4 -> \h17
                         [] OTHER -> 0)
=============================================================================
