------------------------------ MODULE UartLink ------------------------------
(***************************************************************************)
(* The serial line between the Uart peripheral of the test benches         *)
(* (sim/other/Uart.hpp) and uart_rx.sv, uart_tx.sv.  Down is from the      *)
(* pseudo terminal to the design, up is back.                              *)
(*                                                                         *)
(* The two ends measure a bit with different rulers: the peripheral in     *)
(* evaluations of the bench, the design in edges of its clock.  A step is  *)
(* one evaluation.  A byte is the set of its bits that are one.            *)
(***************************************************************************)
EXTENDS VerilatedModel, CdcDatapath, Sequences

CONSTANTS
  CLKS_PER_BIT,   \* CLK_FREQ / BAUD_RATE
  BitIntervals,   \* the values of Uart's bit_interval to look at
  Byte,           \* the bytes that are sent
  Quotas          \* bounds: how many bytes go down and up, [down, up]

DATA_BITS == 8

\* baud_ctr has $clog2(CLKS_PER_BIT) bits.
BaudRange == CHOOSE n \in {2^k : k \in 0..CLKS_PER_BIT} : CLKS_PER_BIT <= n /\ n < 2 * CLKS_PER_BIT

\* A power of two, 1 and 2 too, does not fit baud_ctr and is cut to zero where
\* the code compares: no bit would ever end.
ASSUME ClksAssumption ==
  /\ CLKS_PER_BIT \in Nat \ {0, 1, 2}
  /\ BaudRange \in Nat
  /\ CLKS_PER_BIT < BaudRange

ASSUME LinkAssumption ==
  /\ BitIntervals \subseteq Nat
  /\ Byte \subseteq SUBSET (0..DATA_BITS - 1)
  /\ Quotas \subseteq [down : Nat, up : Nat]

\* Evaluations that n bits last, by the ruler of either end.
HostBits(n, interval) == n * (interval + 1)
DutBits(n) == n * (CLKS_PER_BIT * TicksPerClock)

\* The rulers may differ as long as either end reads the last bit of a byte
\* before the other has gone on, and not before it is there.
Tolerated(interval) ==
  LET mid == (CLKS_PER_BIT \div 2) * TicksPerClock IN
  /\ HostBits(9, interval) <= DutBits(9) + mid + TicksPerClock
  /\ DutBits(9) + mid + 2 * TicksPerClock <= HostBits(10, interval)
  /\ DutBits(9) <= HostBits(9, interval) + interval \div 2 + 1
  /\ HostBits(9, interval) + interval \div 2 + 1 < DutBits(10)

ASSUME RulersAssumption == \A i \in BitIntervals : Tolerated(i)

\* The reset fills the synchroniser, and a bit is longer than the reset.
ASSUME ResetAssumption ==
  /\ SYNC_STAGES < ResetEdges
  /\ \A i \in BitIntervals : ResetEdges * TicksPerClock <= i + 1

VARIABLES
  bit_interval, quota,        \* never change
  time, reset_count,
  host_rx, host_tx, aborted,  \* Uart; an assertion of it has failed
  sync,                       \* cdc_sync in front of uart_rx
  dut_rx, dut_tx,
  down_sent, down_received,   \* history: bytes read from the terminal, put out by uart_rx
  up_sent, up_received        \* history: bytes taken by uart_tx, written to the terminal

vars == <<bit_interval, quota, time, reset_count, host_rx, host_tx, aborted, sync, dut_rx,
          dut_tx, down_sent, down_received, up_sent, up_received>>

sresetn == Released(reset_count)

\* The bits of a byte on the line: start, data, stop.
LineBit(data, n) == IF n = 0 \/ (n <= DATA_BITS /\ n - 1 \notin data) THEN 0 ELSE 1
-----------------------------------------------------------------------------
(* Uart *)

\* Mutants: the first sample is a whole bit after the line fell; the old bits stay.
HostRxIdleWholeBit(rx) ==
  /\ host_rx' = IF rx = 1 THEN host_rx
                ELSE [state |-> "DATA", bit |-> 0, timer |-> bit_interval, data |-> {}]
  /\ UNCHANGED <<up_received, aborted>>

HostRxIdleKeeps(rx) ==
  /\ host_rx' = IF rx = 1 THEN host_rx
                ELSE [host_rx EXCEPT !.state = "DATA", !.bit = 0, !.timer = bit_interval \div 2]
  /\ UNCHANGED <<up_received, aborted>>

\* rx_eval: the first sample is half a bit after the line fell.
HostRxIdle(rx) ==
  /\ host_rx' = IF rx = 1 THEN host_rx
                ELSE [state |-> "DATA", bit |-> 0, timer |-> bit_interval \div 2, data |-> {}]
  /\ UNCHANGED <<up_received, aborted>>

HostRxSample(rx) ==
  LET stop == host_rx.bit = DATA_BITS + 1 IN
  /\ aborted' = (rx # IF host_rx.bit = 0 THEN 0 ELSE IF stop THEN 1 ELSE rx)
  /\ up_received' = IF stop /\ ~aborted' THEN Append(up_received, host_rx.data) ELSE up_received
  /\ host_rx' = [state |-> IF stop THEN "IDLE" ELSE "DATA",
                 bit   |-> host_rx.bit + 1,
                 timer |-> bit_interval,
                 data  |-> host_rx.data \cup {b \in {host_rx.bit - 1} : rx = 1 /\ b \in 0..DATA_BITS - 1}]

HostRx(rx) ==
  CASE host_rx.state = "IDLE" -> HostRxIdle(rx)
    [] host_rx.state = "DATA" /\ host_rx.timer = 0 -> HostRxSample(rx)
    [] OTHER -> /\ host_rx' = [host_rx EXCEPT !.timer = @ - 1]
                /\ UNCHANGED <<up_received, aborted>>

\* tx_eval: read() finds a byte or nothing (external: whoever has the
\* terminal open writes when it likes).
HostTxIdle ==
  \/ /\ host_tx' = [host_tx EXCEPT !.pin = 1]
     /\ UNCHANGED down_sent
  \/ /\ Len(down_sent) < quota.down
     /\ \E b \in Byte :
          /\ host_tx' = [state |-> "DATA", bit |-> 0, timer |-> bit_interval, data |-> b, pin |-> 1]
          /\ down_sent' = Append(down_sent, b)

\* Mutant: the half bit of the receiver's first sample.
HostTxBitHalf ==
  /\ host_tx' = [host_tx EXCEPT !.pin   = LineBit(host_tx.data, host_tx.bit),
                                !.timer = bit_interval \div 2,
                                !.bit   = IF @ <= DATA_BITS THEN @ + 1 ELSE @,
                                !.state = IF host_tx.bit <= DATA_BITS THEN "DATA" ELSE "IDLE"]
  /\ UNCHANGED down_sent

HostTxBit ==
  /\ host_tx' = [host_tx EXCEPT !.pin   = LineBit(host_tx.data, host_tx.bit),
                                !.timer = bit_interval,
                                !.bit   = IF @ <= DATA_BITS THEN @ + 1 ELSE @,
                                !.state = IF host_tx.bit <= DATA_BITS THEN "DATA" ELSE "IDLE"]
  /\ UNCHANGED down_sent

HostTx ==
  CASE host_tx.state = "IDLE" -> HostTxIdle
    [] host_tx.state = "DATA" /\ host_tx.timer = 0 -> HostTxBit
    [] OTHER -> host_tx' = [host_tx EXCEPT !.timer = @ - 1] /\ UNCHANGED down_sent
-----------------------------------------------------------------------------
(* uart_rx and uart_tx *)

\* Mutant: one clock longer.
BitEndsLate(r) == r.baud_ctr = CLKS_PER_BIT % BaudRange

BitEnds(r) == r.baud_ctr = (CLKS_PER_BIT % BaudRange) - 1

\* The counters of both, while a byte is under way.
Count(r) == [r EXCEPT !.baud_ctr = IF BitEnds(r) THEN 0 ELSE (@ + 1) % BaudRange,
                      !.data_ctr = IF BitEnds(r) THEN (@ + 1) % 16 ELSE @]

Idle(r) == [r EXCEPT !.baud_ctr = 0, !.data_ctr = 0]

\* The middle of a bit.
SampleNow(r) == r.baud_ctr = CLKS_PER_BIT \div 2

DutRx(serial_data_reg) ==
  IF ~sresetn THEN [dut_rx EXCEPT !.state = "RESET"]
  ELSE IF dut_rx.state = "RESET"
  THEN [Idle(dut_rx) EXCEPT !.valid = FALSE,
                            !.state = IF serial_data_reg = 0 THEN "CAPTURE" ELSE "RESET"]
  ELSE IF ~SampleNow(dut_rx) THEN Count(dut_rx)
  ELSE IF dut_rx.data_ctr = DATA_BITS + 1
  THEN [Count(dut_rx) EXCEPT !.state = "RESET", !.valid = TRUE]
  ELSE [Count(dut_rx) EXCEPT
          !.data = {b \in 0..DATA_BITS - 1 : IF b = dut_rx.data_ctr - 1 THEN serial_data_reg = 1 ELSE b \in @}]

\* Whoever is behind uart_rx has to look while parallel_data_valid is high.
Capture == down_received' = IF dut_rx.valid THEN Append(down_received, dut_rx.data) ELSE down_received

s_axis_tready == dut_tx.state = "CAPTURE"

DutTxSend ==
  [Count(dut_tx) EXCEPT !.serial_data_reg = LineBit(dut_tx.data, dut_tx.data_ctr),
     !.state = IF dut_tx.data_ctr = DATA_BITS + 1 /\ BitEnds(dut_tx) THEN "CAPTURE" ELSE "SEND"]

\* serial_ready and s_axis_tvalid are inputs (external).
DutTx ==
  \/ /\ ~sresetn
     /\ dut_tx' = [dut_tx EXCEPT !.state = "CAPTURE", !.serial_data_reg = 1]
     /\ UNCHANGED up_sent
  \/ /\ sresetn
     /\ dut_tx' = IF s_axis_tready THEN Idle(dut_tx) ELSE DutTxSend
     /\ UNCHANGED up_sent
  \/ /\ sresetn /\ s_axis_tready /\ Len(up_sent) < quota.up
     /\ \E b \in Byte : /\ dut_tx' = [Idle(dut_tx) EXCEPT !.state = "SEND", !.data = b]
                        /\ up_sent' = Append(up_sent, b)

\* The output is high in reset, even if the clock does not run.
serial_data == IF ~sresetn THEN 1 ELSE dut_tx.serial_data_reg
-----------------------------------------------------------------------------
\* Before the reset the state machines may be in any state.
Init ==
  /\ bit_interval \in BitIntervals
  /\ quota \in Quotas
  /\ time = 0
  /\ reset_count = 0
  /\ host_rx = [state |-> "IDLE", bit |-> 0, timer |-> 0, data |-> {}]
  /\ host_tx = [state |-> "IDLE", bit |-> 0, timer |-> 0, data |-> {}, pin |-> 0]
  /\ aborted = FALSE
  /\ sync = [s \in Stage |-> 0]
  /\ dut_rx \in [state : {"RESET", "CAPTURE"}, baud_ctr : {0}, data_ctr : {0}, data : {{}}, valid : {FALSE}]
  /\ dut_tx \in [state : {"CAPTURE", "SEND"}, baud_ctr : {0}, data_ctr : {0}, data : {{}}, serial_data_reg : Bit]
  /\ down_sent = <<>> /\ down_received = <<>>
  /\ up_sent = <<>> /\ up_received = <<>>

Clk ==
  /\ sync' = SyncShift(sync, host_tx.pin)
  /\ dut_rx' = DutRx(sync[SYNC_STAGES - 1])
  /\ Capture
  /\ DutTx

\* One evaluation: the line is latched before the design moves.
Eval ==
  /\ ~aborted
  /\ UNCHANGED <<bit_interval, quota>>
  /\ time' = NextTick(time)
  /\ reset_count' = ResetCount(reset_count, getEvent(time'))
  /\ IF getEvent(time') = "RISING" THEN Clk
     ELSE UNCHANGED <<sync, dut_rx, dut_tx, down_received, up_sent>>
  /\ HostRx(serial_data)
  /\ HostTx

Spec == Init /\ [][Eval]_vars /\ WF_vars(Eval)
-----------------------------------------------------------------------------
\* Every variable has its type; the counters stay within their widths.
TypeOK ==
  /\ bit_interval \in BitIntervals
  /\ quota \in Quotas
  /\ time \in Ticks
  /\ reset_count \in 0..ResetEdges
  /\ host_rx \in [state : {"IDLE", "DATA"}, bit : 0..DATA_BITS + 2, timer : 0..bit_interval,
                  data : SUBSET (0..DATA_BITS - 1)]
  /\ host_tx \in [state : {"IDLE", "DATA"}, bit : 0..DATA_BITS + 1, timer : 0..bit_interval,
                  data : SUBSET (0..DATA_BITS - 1), pin : Bit]
  /\ aborted \in BOOLEAN
  /\ sync \in [Stage -> Bit]
  /\ dut_rx \in [state : {"RESET", "CAPTURE"}, baud_ctr : 0..CLKS_PER_BIT - 1,
                 data_ctr : 0..DATA_BITS + 1, data : SUBSET (0..DATA_BITS - 1), valid : BOOLEAN]
  /\ dut_tx \in [state : {"CAPTURE", "SEND"}, baud_ctr : 0..CLKS_PER_BIT - 1,
                 data_ctr : 0..DATA_BITS + 2, data : SUBSET (0..DATA_BITS - 1), serial_data_reg : Bit]
  /\ \A s \in {down_sent, down_received, up_sent, up_received} : s \in Seq(SUBSET (0..DATA_BITS - 1))

\* The asserts of Uart::rx_eval hold: at its samples of a start bit the line is
\* low, of a stop bit high, however its rounding adds up over ten bits.
NoFramingError == ~aborted

\* The line is a channel for bytes, both ways: no byte is changed, lost,
\* doubled or made up, by either ruler.
Down == INSTANCE Channel WITH Item <- Byte, sent <- down_sent, received <- down_received
Up   == INSTANCE Channel WITH Item <- Byte, sent <- up_sent, received <- up_received
LinesAreChannels == Down!Spec /\ Up!Spec

\* Every byte arrives, one that is sent while another is still on the line too.
EveryByteArrives ==
  /\ \A n \in 1..2 : Len(down_sent) = n ~> Len(down_received) >= n
  /\ \A n \in 1..2 : Len(up_sent) = n ~> Len(up_received) >= n
=============================================================================
