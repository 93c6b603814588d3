-------------------------- MODULE UartLink_proofs ---------------------------
(***************************************************************************)
(* For every clock, every length of a bit that the other end tolerates and *)
(* any number of bytes: no assert of the peripheral fails, and the line is *)
(* a channel both ways, although neither end knows the other's ruler.      *)
(*                                                                         *)
(* Each direction is one of a few situations: nothing under way, a byte    *)
(* that the receiver has not seen, one that it is reading, and one that it *)
(* is reading while the next is begun, or has finished before the sender.  *)
(* In each, the two counters are two measures of one time, so how far they *)
(* can be apart when the receiver reads a bit is a matter of arithmetic.   *)
(***************************************************************************)
EXTENDS UartLink, SequenceTheorems, TLAPS

USE TicksAssumption, ClksAssumption, SyncStagesAssumption DEF SyncStagesAssumption

-----------------------------------------------------------------------------
(* The two rulers, in evaluations.  Products stay folded in Evals,         *)
(* HostBits and DutBits: what the proofs need of them is here.             *)

\* A byte is the set of its bits that are one.
Data == SUBSET (0..DATA_BITS - 1)

\* Evaluations that n edges of the clock take.
Evals(n) == n * TicksPerClock

\* From the start of a bit to the edge at which uart_rx reads it.
Mid == Evals(CLKS_PER_BIT \div 2)

\* An edge more or less is a period of the clock more or less.
LEMMA EvalsFacts ==
  ASSUME NEW n \in Int
  PROVE  /\ Evals(n) \in Int
         /\ Evals(n + 1) = Evals(n) + TicksPerClock
         /\ Evals(n - 1) = Evals(n) - TicksPerClock
<1>1. TicksPerClock \in Int
  OBVIOUS
<1>. QED
  BY <1>1 DEF Evals

\* More edges take longer.
LEMMA EvalsMonotone ==
  ASSUME NEW m \in Int, NEW n \in Int, m <= n
  PROVE  Evals(m) <= Evals(n)
<1>1. /\ n - m >= 0 /\ n - m \in Int
      /\ TicksPerClock \in Int /\ TicksPerClock >= 0
  OBVIOUS
<1>2. \A a, b \in Int : a >= 0 /\ b >= 0 => a * b >= 0
  OBVIOUS
<1>3. (n - m) * TicksPerClock >= 0
  BY <1>1, <1>2
<1>4. (n - m) * TicksPerClock = Evals(n) - Evals(m)
  BY <1>1 DEF Evals
<1>5. Evals(n) \in Int /\ Evals(m) \in Int
  BY EvalsFacts
<1>. QED
  BY <1>3, <1>4, <1>5

\* The few products that the solver has to see.
LEMMA EvalsSmall == Evals(0) = 0 /\ Evals(1) = TicksPerClock /\ Evals(5) = 5 * TicksPerClock
BY DEF Evals

\* The lengths of the bits of a byte by the ruler of the peripheral.
LEMMA HostBitsValues ==
  ASSUME NEW i \in Nat
  PROVE  /\ HostBits(0, i) = 0 /\ HostBits(1, i) = i + 1
         /\ HostBits(2, i) = 2 * (i + 1) /\ HostBits(3, i) = 3 * (i + 1)
         /\ HostBits(4, i) = 4 * (i + 1) /\ HostBits(5, i) = 5 * (i + 1)
         /\ HostBits(6, i) = 6 * (i + 1) /\ HostBits(7, i) = 7 * (i + 1)
         /\ HostBits(8, i) = 8 * (i + 1) /\ HostBits(9, i) = 9 * (i + 1)
         /\ HostBits(10, i) = 10 * (i + 1)
BY DEF HostBits

\* A bit of the peripheral takes its timer and the evaluation that reloads it.
LEMMA HostBitsFacts ==
  ASSUME NEW i \in Nat, NEW n \in Int
  PROVE  /\ HostBits(n, i) \in Int
         /\ HostBits(n + 1, i) = HostBits(n, i) + i + 1
<1>1. i + 1 \in Int
  OBVIOUS
<1>. QED
  BY <1>1 DEF HostBits

\* The lengths of the bits of a byte by the ruler of the design.
LEMMA DutBitsValues ==
  /\ DutBits(1) = CLKS_PER_BIT * TicksPerClock
  /\ DutBits(0) = 0
  /\ DutBits(2) = 2 * DutBits(1)
  /\ DutBits(3) = 3 * DutBits(1)
  /\ DutBits(4) = 4 * DutBits(1)
  /\ DutBits(5) = 5 * DutBits(1)
  /\ DutBits(6) = 6 * DutBits(1)
  /\ DutBits(7) = 7 * DutBits(1)
  /\ DutBits(8) = 8 * DutBits(1)
  /\ DutBits(9) = 9 * DutBits(1)
  /\ DutBits(10) = 10 * DutBits(1)
<1>1. CLKS_PER_BIT * TicksPerClock \in Int
  OBVIOUS
<1>. QED
  BY <1>1 DEF DutBits

\* A bit of the design takes CLKS_PER_BIT edges.
LEMMA DutBitsFacts ==
  ASSUME NEW n \in Int
  PROVE  /\ DutBits(n) \in Int
         /\ DutBits(n + 1) = DutBits(n) + DutBits(1)
         /\ DutBits(1) = Evals(CLKS_PER_BIT)
<1>1. CLKS_PER_BIT * TicksPerClock \in Int
  OBVIOUS
<1>. QED
  BY <1>1 DEF DutBits, Evals

\* Half a bit and two edges more are within the bit.
LEMMA MidFacts ==
  /\ Mid \in Nat
  /\ Mid + 2 * TicksPerClock <= DutBits(1)
<1>1. CLKS_PER_BIT \div 2 \in Nat /\ CLKS_PER_BIT \div 2 + 2 <= CLKS_PER_BIT
  OBVIOUS
<1>2. Evals(CLKS_PER_BIT \div 2 + 2) = Mid + 2 * TicksPerClock
  BY <1>1 DEF Evals, Mid
<1>3. Evals(CLKS_PER_BIT \div 2 + 2) <= DutBits(1)
  BY <1>1, DutBitsFacts, EvalsMonotone
<1>4. Evals(0) <= Mid
  BY <1>1, EvalsMonotone DEF Mid
<1>. QED
  BY <1>1, <1>2, <1>3, <1>4, EvalsSmall, EvalsFacts DEF Mid

\* uart_rx reads every bit of the peripheral while it is on the line, and
\* sees the stop bit before the next start bit.
LEMMA DownWindow ==
  ASSUME NEW i \in BitIntervals, NEW n \in 0..9
  PROVE  /\ HostBits(n, i) <= DutBits(n) + Mid + TicksPerClock
         /\ DutBits(n) + Mid + 2 * TicksPerClock <= HostBits(n + 1, i)
<1>1. i \in Nat /\ Tolerated(i)
  BY LinkAssumption, RulersAssumption
<1>2. /\ HostBits(9, i) <= DutBits(9) + Mid + TicksPerClock
      /\ DutBits(9) + Mid + 2 * TicksPerClock <= HostBits(10, i)
  BY <1>1 DEF Tolerated, Mid, Evals
<1>3. /\ DutBits(1) \in Int /\ Mid \in Nat /\ TicksPerClock \in Nat
      /\ Mid + 2 * TicksPerClock <= DutBits(1)
  BY DutBitsFacts, MidFacts
<1>4. n \in {0, 1, 2, 3, 4, 5, 6, 7, 8, 9}
  OBVIOUS
<1>5. /\ HostBits(0, i) = 0 /\ HostBits(1, i) = i + 1
      /\ HostBits(2, i) = 2 * (i + 1) /\ HostBits(3, i) = 3 * (i + 1)
      /\ HostBits(4, i) = 4 * (i + 1) /\ HostBits(5, i) = 5 * (i + 1)
      /\ HostBits(6, i) = 6 * (i + 1) /\ HostBits(7, i) = 7 * (i + 1)
      /\ HostBits(8, i) = 8 * (i + 1) /\ HostBits(9, i) = 9 * (i + 1)
      /\ HostBits(10, i) = 10 * (i + 1)
  BY <1>1, HostBitsValues
<1>. QED
  BY ONLY <1>1, <1>2, <1>3, <1>4, <1>5, DutBitsValues

\* The peripheral reads every bit of uart_tx while it is on the line.
LEMMA UpWindow ==
  ASSUME NEW i \in BitIntervals, NEW n \in 0..9
  PROVE  /\ DutBits(n) <= HostBits(n, i) + i \div 2 + 1
         /\ HostBits(n, i) + i \div 2 + 1 < DutBits(n + 1)
<1>1. i \in Nat /\ Tolerated(i)
  BY LinkAssumption, RulersAssumption
<1>2. /\ DutBits(9) <= HostBits(9, i) + i \div 2 + 1
      /\ HostBits(9, i) + i \div 2 + 1 < DutBits(10)
  BY <1>1 DEF Tolerated
<1>3. DutBits(1) \in Int /\ i \div 2 \in Nat /\ 2 * (i \div 2) <= i
  BY <1>1, DutBitsFacts
<1>4. n \in {0, 1, 2, 3, 4, 5, 6, 7, 8, 9}
  OBVIOUS
<1>5. /\ HostBits(0, i) = 0 /\ HostBits(1, i) = i + 1
      /\ HostBits(2, i) = 2 * (i + 1) /\ HostBits(3, i) = 3 * (i + 1)
      /\ HostBits(4, i) = 4 * (i + 1) /\ HostBits(5, i) = 5 * (i + 1)
      /\ HostBits(6, i) = 6 * (i + 1) /\ HostBits(7, i) = 7 * (i + 1)
      /\ HostBits(8, i) = 8 * (i + 1) /\ HostBits(9, i) = 9 * (i + 1)
      /\ HostBits(10, i) = 10 * (i + 1)
  BY <1>1, HostBitsValues
<1>. QED
  BY ONLY <1>1, <1>2, <1>3, <1>4, <1>5, DutBitsValues

\* The synchroniser and the reset are shorter than a bit.
LEMMA ResetIsShort ==
  ASSUME NEW i \in BitIntervals
  PROVE  /\ SYNC_STAGES \in 1..4
         /\ 5 * TicksPerClock <= HostBits(1, i)
         /\ Evals(SYNC_STAGES) + TicksPerClock <= HostBits(1, i)
<1>1. i \in Nat /\ SYNC_STAGES \in 1..4 /\ 5 * TicksPerClock <= i + 1
  BY LinkAssumption, ResetAssumption DEF ResetEdges
<1>2. Evals(SYNC_STAGES) <= Evals(4)
  BY <1>1, EvalsMonotone
<1>3. Evals(4) = 4 * TicksPerClock /\ Evals(SYNC_STAGES) \in Int
  BY <1>1, EvalsFacts DEF Evals
<1>4. HostBits(1, i) = i + 1
  BY <1>1, HostBitsValues
<1>. QED
  BY <1>1, <1>2, <1>3, <1>4

-----------------------------------------------------------------------------
(* The peripheral sends. *)

\* Evaluations since the last edge.
Phase == IF time >= HalfClock THEN time - HalfClock ELSE time + TicksPerClock - HalfClock

\* An edge is neither the first nor the last evaluation of a period.
LEMMA HalfClockType == HalfClock \in 1 .. TicksPerClock - 1
BY DEF HalfClock

\* Phase counts the evaluations from one edge to the next.
LEMMA TimeStep ==
  ASSUME time \in Ticks, time' = NextTick(time)
  PROVE  /\ time' \in Ticks
         /\ Phase \in 0 .. TicksPerClock - 1
         /\ getEvent(time') = "RISING" => Phase = TicksPerClock - 1 /\ Phase' = 0 /\ time' = HalfClock
         /\ getEvent(time') # "RISING" => Phase < TicksPerClock - 1 /\ Phase' = Phase + 1 /\ time' # HalfClock
<1>1. time' = IF time + 1 = TicksPerClock THEN 0 ELSE time + 1
  BY DEF NextTick, Ticks
<1>2. getEvent(time') = "RISING" <=> time' = HalfClock
  BY HalfClockType DEF getEvent
<1>. QED
  BY <1>1, <1>2, HalfClockType DEF Phase, Ticks

\* v is what is on the line x evaluations after the start bit of a byte was put there.
OnLine(v, data, x, i) ==
  /\ x < 0 => v = 1
  /\ \A n \in 0..DATA_BITS : HostBits(n, i) <= x /\ x < HostBits(n + 1, i) => v = LineBit(data, n)
  /\ HostBits(DATA_BITS + 1, i) <= x => v = 1

\* The place of the peripheral in the byte that it sends.
HostTxAt == HostBits(host_tx.bit, bit_interval) - 1 - host_tx.timer

\* The pin of the peripheral.
PinInv ==
  /\ host_tx.state = "IDLE" => host_tx.pin = 1
  /\ host_tx.state = "DATA" =>
       host_tx.pin = IF host_tx.bit = 0 THEN 1 ELSE LineBit(host_tx.data, host_tx.bit - 1)

\* What an evaluation does to the sender of the peripheral.
HostIdles ==
  /\ host_tx.state = "IDLE" /\ host_tx'.state = "IDLE"
  /\ down_sent' = down_sent

HostLoads ==
  /\ host_tx.state = "IDLE" /\ host_tx'.state = "DATA"
  /\ host_tx'.data \in Byte
  /\ down_sent' = Append(down_sent, host_tx'.data)
  /\ host_tx'.bit = 0
  /\ HostTxAt' = -HostBits(1, bit_interval)

HostRuns ==
  /\ host_tx.state = "DATA" /\ host_tx'.state = "DATA"
  /\ host_tx'.data = host_tx.data
  /\ down_sent' = down_sent
  /\ HostTxAt' = HostTxAt + 1

HostEnds ==
  /\ host_tx.state = "DATA" /\ host_tx'.state = "IDLE"
  /\ down_sent' = down_sent
  /\ HostTxAt = HostBits(DATA_BITS + 1, bit_interval) - 1

\* The sender of the peripheral.
HostTxType == [state : {"IDLE", "DATA"}, bit : 0..DATA_BITS + 1, timer : 0..bit_interval,
               data : Data, pin : Bit]

\* The line is low or high.
LEMMA LineBitType ==
  ASSUME NEW data, NEW n
  PROVE  LineBit(data, n) \in Bit
BY DEF LineBit, Bit

\* Uart::tx_eval: it stays idle, takes a byte, goes on by an evaluation, or ends.
LEMMA HostTxStep ==
  ASSUME bit_interval \in BitIntervals, host_tx \in HostTxType,
         host_tx.state = "DATA" => host_tx.bit <= DATA_BITS + 1,
         HostTx, UNCHANGED bit_interval
  PROVE  /\ host_tx' \in HostTxType
         /\ host_tx'.state = "DATA" => host_tx'.bit <= DATA_BITS + 1
         /\ PinInv \/ host_tx.state = "IDLE" => PinInv'
         /\ HostIdles \/ HostLoads \/ HostRuns \/ HostEnds
         /\ HostTxAt \in Int
<1>1. bit_interval \in Nat
  BY LinkAssumption
<1>2. /\ host_tx.bit \in 0..9 /\ host_tx.timer \in 0..bit_interval /\ host_tx.data \in Data
      /\ host_tx.state \in {"IDLE", "DATA"} /\ host_tx.pin \in Bit
  BY DEF HostTxType, DATA_BITS
<1>3. /\ HostBits(host_tx.bit, bit_interval) \in Int
      /\ HostBits(host_tx.bit + 1, bit_interval) = HostBits(host_tx.bit, bit_interval) + bit_interval + 1
  <2>1. host_tx.bit \in Int
    BY <1>2
  <2>. QED
    BY ONLY <1>1, <2>1, HostBitsFacts
<1>4. CASE host_tx.state = "IDLE"
  <2>1. HostTxIdle
    BY <1>4 DEF HostTx
  <2>2. CASE host_tx' = [host_tx EXCEPT !.pin = 1] /\ UNCHANGED down_sent
    BY <1>1, <1>2, <1>3, <1>4, <2>2 DEF HostTxType, HostIdles, PinInv, Bit, HostTxAt
  <2>3. CASE \E b \in Byte :
               /\ host_tx' = [state |-> "DATA", bit |-> 0, timer |-> bit_interval, data |-> b, pin |-> 1]
               /\ down_sent' = Append(down_sent, b)
    <3>1. PICK b \in Byte :
            /\ host_tx' = [state |-> "DATA", bit |-> 0, timer |-> bit_interval, data |-> b, pin |-> 1]
            /\ down_sent' = Append(down_sent, b)
      BY <2>3
    <3>2. HostBits(0, bit_interval) = 0 /\ HostBits(1, bit_interval) = bit_interval + 1
      BY <1>1, HostBitsValues
    <3>3. HostTxAt' = -HostBits(1, bit_interval)
      BY <1>1, <3>1, <3>2 DEF HostTxAt
    <3>4. b \in Data
      BY LinkAssumption DEF Data
    <3>5. host_tx' \in HostTxType
      BY <1>1, <3>1, <3>4 DEF HostTxType, Bit, DATA_BITS
    <3>6. /\ host_tx'.state = "DATA" /\ host_tx'.bit = 0 /\ host_tx'.pin = 1 /\ host_tx'.data = b
      BY <3>1
    <3>7. HostTxAt \in Int
      BY <1>1, <1>2, <1>3 DEF HostTxAt
    <3>8. PinInv'
      BY <3>6 DEF PinInv
    <3>9. HostLoads
      BY <1>4, <3>1, <3>3, <3>6 DEF HostLoads
    <3>. QED
      BY <3>5, <3>6, <3>7, <3>8, <3>9 DEF DATA_BITS
  <2>. QED
    BY <2>1, <2>2, <2>3 DEF HostTxIdle
<1>5. CASE host_tx.state = "DATA" /\ host_tx.timer = 0
  <2>1. HostTxBit
    BY <1>5 DEF HostTx
  <2>2. LineBit(host_tx.data, host_tx.bit) \in Bit /\ LineBit(host_tx.data, DATA_BITS + 1) = 1
    BY LineBitType DEF LineBit, DATA_BITS
  <2>3. host_tx' \in HostTxType
    <3>1. bit_interval \in 0..bit_interval
      BY <1>1
    <3>2. (IF host_tx.bit <= DATA_BITS THEN host_tx.bit + 1 ELSE host_tx.bit) \in 0..DATA_BITS + 1
      BY <1>2 DEF DATA_BITS
    <3>. QED
      BY <2>1, <2>2, <3>1, <3>2 DEF HostTxBit, HostTxType
  <2>4. CASE host_tx.bit <= DATA_BITS
    <3>1. host_tx' = [host_tx EXCEPT !.pin = LineBit(host_tx.data, host_tx.bit), !.timer = bit_interval,
                                     !.bit = host_tx.bit + 1, !.state = "DATA"]
      BY <2>1, <2>4 DEF HostTxBit
    <3>3. /\ host_tx'.pin = LineBit(host_tx.data, host_tx.bit) /\ host_tx'.timer = bit_interval
          /\ host_tx'.bit = host_tx.bit + 1 /\ host_tx'.state = "DATA" /\ host_tx'.data = host_tx.data
      BY <3>1 DEF HostTxType
    <3>4. HostTxAt' = HostTxAt + 1 /\ HostTxAt \in Int
      BY <1>1, <1>2, <1>3, <1>5, <3>3 DEF HostTxAt
    <3>5. PinInv' /\ HostRuns
      BY <1>2, <1>5, <2>1, <3>3, <3>4 DEF PinInv, HostRuns, HostTxBit
    <3>. QED
      BY <2>3, <2>4, <3>3, <3>4, <3>5, <1>2 DEF DATA_BITS
  <2>5. CASE host_tx.bit = DATA_BITS + 1
    <3>1. host_tx'.pin = 1 /\ host_tx'.state = "IDLE"
      BY <1>2, <2>1, <2>2, <2>5 DEF HostTxBit, HostTxType, DATA_BITS
    <3>2. HostTxAt = HostBits(DATA_BITS + 1, bit_interval) - 1
      BY <1>3, <1>5, <2>5 DEF HostTxAt
    <3>. QED
      BY <1>3, <1>5, <2>1, <2>3, <2>5, <3>1, <3>2 DEF PinInv, HostEnds, HostTxBit
  <2>. QED
    BY <1>2, <2>4, <2>5 DEF DATA_BITS
<1>6. CASE host_tx.state = "DATA" /\ host_tx.timer # 0
  <2>1. host_tx' = [host_tx EXCEPT !.timer = host_tx.timer - 1] /\ UNCHANGED down_sent
    BY <1>6 DEF HostTx
  <2>2. host_tx' \in HostTxType
    BY <1>1, <1>2, <1>6, <2>1 DEF HostTxType
  <2>3. HostTxAt' = HostTxAt + 1 /\ HostTxAt \in Int
    BY <1>1, <1>2, <1>3, <2>1, <1>6 DEF HostTxAt, HostTxType
  <2>4. /\ host_tx'.state = "DATA" /\ host_tx'.bit = host_tx.bit /\ host_tx'.data = host_tx.data
        /\ host_tx'.pin = host_tx.pin
    BY <1>6, <2>1 DEF HostTxType
  <2>. QED
    BY <1>6, <2>1, <2>2, <2>3, <2>4 DEF PinInv, HostRuns
<1>. QED
  BY <1>2, <1>4, <1>5, <1>6

\* Where the peripheral is says what it has put on the line.
LEMMA PinOnLine ==
  ASSUME bit_interval \in BitIntervals, host_tx \in HostTxType,
         host_tx.state = "DATA", host_tx.bit <= DATA_BITS + 1, PinInv
  PROVE  /\ OnLine(host_tx.pin, host_tx.data, HostTxAt, bit_interval)
         /\ HostTxAt >= -HostBits(1, bit_interval)
         /\ HostTxAt < HostBits(DATA_BITS + 1, bit_interval)
<1>1. bit_interval \in Nat
  BY LinkAssumption
<1>2. host_tx.bit \in 0..9 /\ host_tx.timer \in 0..bit_interval
  BY DEF HostTxType, DATA_BITS
<1>. DEFINE b == host_tx.bit
            H(n) == HostBits(n, bit_interval)
<1>3. \A n \in 0..10 : H(n) = n * (bit_interval + 1)
  BY DEF HostBits
<1>4. \A m, n \in 0..10 : m < n => H(m) <= H(n) - (bit_interval + 1)
  <2>1. SUFFICES ASSUME NEW m \in 0..10, NEW n \in 0..10, m < n
                 PROVE  H(m) <= H(n) - (bit_interval + 1)
    OBVIOUS
  <2>2. H(m) = m * (bit_interval + 1) /\ H(n) = n * (bit_interval + 1)
    BY <1>3
  <2>3. (n - m - 1) * (bit_interval + 1) >= 0
    <3>1. \A p, q \in Nat : p * q >= 0
      OBVIOUS
    <3>. QED
      BY <1>1, <2>1, <3>1
  <2>. QED
    BY <1>1, <2>1, <2>2, <2>3
<1>5. \A n \in 0..10 : H(n) \in Int
  BY <1>1, HostBitsFacts
<1>6. H(0) = 0 /\ H(1) = bit_interval + 1
  BY <1>1, HostBitsValues
<1>. HIDE DEF H
<1>7. HostTxAt = H(b) - 1 - host_tx.timer
  BY DEF HostTxAt, H
<1>8. b > 0 => H(b - 1) <= HostTxAt /\ HostTxAt < H(b)
  <2>1. b > 0 => H(b - 1) <= H(b) - (bit_interval + 1)
    BY <1>2, <1>4
  <2>2. b > 0 => H(b - 1) \in Int /\ H(b) \in Int
    BY <1>2, <1>5
  <2>. QED
    BY <1>1, <1>2, <1>7, <2>1, <2>2
<1>9. CASE b = 0
  <2>1. HostTxAt \in -(bit_interval + 1) .. -1
    BY <1>1, <1>2, <1>6, <1>7, <1>9
  <2>2. \A n \in 0..9 : H(n) >= 0
    BY <1>1, <1>4, <1>5, <1>6
  <2>3. host_tx.pin = 1
    BY <1>9 DEF PinInv
  <2>4. H(DATA_BITS + 1) >= 0 /\ \A n \in 0..DATA_BITS : H(n) >= 0
    BY <2>2 DEF DATA_BITS
  <2>. QED
    BY <1>1, <1>5, <1>6, <2>1, <2>3, <2>4 DEF OnLine, H, DATA_BITS
<1>10. CASE b > 0
  <2>1. host_tx.pin = LineBit(host_tx.data, b - 1)
    BY <1>10, <1>2 DEF PinInv
  <2>2. \A n \in 0..8 : H(n) <= HostTxAt /\ HostTxAt < H(n + 1) => n = b - 1
    <3>1. SUFFICES ASSUME NEW n \in 0..8, H(n) <= HostTxAt, HostTxAt < H(n + 1), n # b - 1
                   PROVE  FALSE
      OBVIOUS
    <3>2. H(n) \in Int /\ H(n + 1) \in Int /\ H(b) \in Int /\ H(b - 1) \in Int
      BY <1>2, <1>5, <1>10
    <3>3. HostTxAt \in Int
      BY <1>1, <1>2, <1>7, <3>2
    <3>4. CASE n < b - 1
      <4>1. n + 1 = b - 1 \/ H(n + 1) <= H(b - 1) - (bit_interval + 1)
        BY <1>2, <1>4, <3>4, <1>10
      <4>. QED
        BY <1>1, <1>8, <1>10, <3>1, <3>2, <3>3, <4>1
    <3>5. CASE n > b - 1
      <4>1. n = b \/ H(b) <= H(n) - (bit_interval + 1)
        BY <1>2, <1>4, <3>5
      <4>. QED
        BY <1>1, <1>8, <1>10, <3>1, <3>2, <3>3, <4>1
    <3>. QED
      BY <1>2, <3>1, <3>4, <3>5
  <2>3. HostTxAt >= 0 /\ HostTxAt < H(9) /\ HostTxAt \in Int
    <3>1. b - 1 = 0 \/ H(0) <= H(b - 1) - (bit_interval + 1)
      BY <1>2, <1>4, <1>10
    <3>2. b = 9 \/ H(b) <= H(9) - (bit_interval + 1)
      BY <1>2, <1>4, <1>10
    <3>3. H(b - 1) \in Int /\ H(b) \in Int /\ H(9) \in Int
      BY <1>2, <1>5, <1>10
    <3>. QED
      BY <1>1, <1>2, <1>6, <1>7, <1>8, <1>10, <3>1, <3>2, <3>3
  <2>4. OnLine(host_tx.pin, host_tx.data, HostTxAt, bit_interval)
    BY <1>5, <2>1, <2>2, <2>3 DEF OnLine, H, DATA_BITS
  <2>. QED
    BY <1>1, <1>6, <2>3, <2>4 DEF H, DATA_BITS
<1>. QED
  BY <1>2, <1>9, <1>10

-----------------------------------------------------------------------------
(* uart_rx counts. *)

\* How far into a byte the counters are, in evaluations.
Position(r) == DutBits(r.data_ctr) + Evals(r.baud_ctr)

\* The counters an edge later.
NextBaud(baud) == IF baud = CLKS_PER_BIT - 1 THEN 0 ELSE baud + 1

NextBit(baud, bit) == IF baud = CLKS_PER_BIT - 1 THEN bit + 1 ELSE bit

\* Neither counter of a byte under way wraps: an edge moves it by a clock.
LEMMA CountArithmetic ==
  ASSUME NEW baud \in 0..CLKS_PER_BIT - 1, NEW bit \in 0..9
  PROVE  /\ (CLKS_PER_BIT % BaudRange) - 1 = CLKS_PER_BIT - 1
         /\ (baud + 1) % BaudRange = baud + 1
         /\ (bit + 1) % 16 = bit + 1
         /\ NextBaud(baud) \in 0..CLKS_PER_BIT - 1
         /\ NextBit(baud, bit) \in 0..10
         /\ DutBits(NextBit(baud, bit)) + Evals(NextBaud(baud)) = DutBits(bit) + Evals(baud) + TicksPerClock
         /\ DutBits(bit) \in Int /\ Evals(baud) \in Int
<1>1. \A m \in Nat : m < BaudRange => m % BaudRange = m
  OBVIOUS
<1>2. \A m \in Nat : m < 16 => m % 16 = m
  OBVIOUS
<1>3. baud \in Int /\ bit \in Int
  OBVIOUS
<1>4. /\ DutBits(bit) \in Int /\ DutBits(bit + 1) = DutBits(bit) + DutBits(1)
      /\ DutBits(1) = Evals(CLKS_PER_BIT)
  BY ONLY <1>3, DutBitsFacts
<1>5. Evals(baud) \in Int /\ Evals(baud + 1) = Evals(baud) + TicksPerClock
  BY ONLY <1>3, EvalsFacts
<1>6. Evals(CLKS_PER_BIT) \in Int
  BY EvalsFacts
<1>. QED
  BY <1>1, <1>2, <1>4, <1>5, <1>6, EvalsSmall DEF NextBaud, NextBit

\* The registers of uart_rx.
DutRxType == [state : {"RESET", "CAPTURE"}, baud_ctr : 0..CLKS_PER_BIT - 1,
              data_ctr : 0..DATA_BITS + 1, data : Data, valid : BOOLEAN]

\* The bits of a byte that uart_rx has read are right.
RxBits(r, data) ==
  \A n \in 1..DATA_BITS :
    r.data_ctr > n \/ (r.data_ctr = n /\ r.baud_ctr > CLKS_PER_BIT \div 2)
    => (n - 1 \in r.data <=> n - 1 \in data)

\* What an edge out of reset does to uart_rx when v comes out of its synchroniser.
RxWaits(v) == v # 0 /\ dut_rx.state = "RESET" /\ dut_rx'.state = "RESET" /\ ~dut_rx'.valid

RxStarts(v) ==
  /\ v = 0
  /\ dut_rx.state = "RESET" /\ dut_rx'.state = "CAPTURE" /\ ~dut_rx'.valid
  /\ Position(dut_rx') = 0
  /\ \A b : RxBits(dut_rx', b)

RxCounts(v) ==
  /\ dut_rx.state = "CAPTURE" /\ dut_rx'.state = "CAPTURE" /\ ~dut_rx'.valid
  /\ Position(dut_rx') = Position(dut_rx) + TicksPerClock
  /\ \A b : RxBits(dut_rx, b) /\ (\A n \in 1..DATA_BITS : Position(dut_rx) = DutBits(n) + Mid => v = LineBit(b, n))
            => RxBits(dut_rx', b)

RxStops ==
  /\ dut_rx.state = "CAPTURE" /\ dut_rx'.state = "RESET" /\ dut_rx'.valid
  /\ dut_rx'.data = dut_rx.data
  /\ Position(dut_rx) = DutBits(DATA_BITS + 1) + Mid
  /\ \A b \in Data : RxBits(dut_rx, b) => dut_rx.data = b

\* While uart_rx receives, it has nothing to put out, and it stops in the stop bit.
RxCounters(r) ==
  r.state = "CAPTURE" =>
    /\ ~r.valid
    /\ r.data_ctr = DATA_BITS + 1 => r.baud_ctr <= CLKS_PER_BIT \div 2

\* uart_rx is done before it gets past the middle of the stop bit.
LEMMA PositionType ==
  ASSUME dut_rx \in DutRxType, RxCounters(dut_rx)
  PROVE  /\ Position(dut_rx) \in Nat
         /\ dut_rx.state = "CAPTURE" => Position(dut_rx) <= DutBits(9) + Mid
<1>1. dut_rx.data_ctr \in 0..9 /\ dut_rx.baud_ctr \in 0..CLKS_PER_BIT - 1
  BY DEF DutRxType, DATA_BITS
<1>2. /\ Evals(dut_rx.baud_ctr) \in Int /\ Evals(0) <= Evals(dut_rx.baud_ctr)
      /\ Evals(dut_rx.baud_ctr) <= DutBits(1)
  <2>1. /\ dut_rx.baud_ctr \in Int /\ 0 \in Int /\ CLKS_PER_BIT \in Int
        /\ 0 <= dut_rx.baud_ctr /\ dut_rx.baud_ctr <= CLKS_PER_BIT
    BY <1>1
  <2>2. DutBits(1) = Evals(CLKS_PER_BIT)
    BY DutBitsFacts
  <2>. QED
    BY ONLY <2>1, <2>2, EvalsMonotone, EvalsFacts
<1>3. dut_rx.data_ctr \in {0, 1, 2, 3, 4, 5, 6, 7, 8, 9} /\ DutBits(1) \in Nat
  BY <1>1, <1>2, EvalsSmall, DutBitsFacts
<1>4. Position(dut_rx) \in Nat
  BY <1>2, <1>3, EvalsSmall, DutBitsValues DEF Position
<1>5. CASE dut_rx.data_ctr = 9 /\ dut_rx.state = "CAPTURE"
  <2>1. Evals(dut_rx.baud_ctr) <= Mid
    BY <1>1, <1>5, EvalsMonotone DEF RxCounters, DATA_BITS, Mid
  <2>. QED
    BY <1>2, <1>3, <1>4, <1>5, <2>1, MidFacts, DutBitsValues DEF Position
<1>6. CASE dut_rx.data_ctr # 9
  BY <1>2, <1>3, <1>4, <1>6, MidFacts, DutBitsValues DEF Position
<1>. QED
  BY <1>4, <1>5, <1>6

\* uart_rx: it waits, starts at a low line, counts and reads, or stops.
LEMMA DutRxStep ==
  ASSUME dut_rx \in DutRxType, RxCounters(dut_rx), sresetn, NEW v \in Bit, dut_rx' = DutRx(v)
  PROVE  /\ dut_rx' \in DutRxType
         /\ RxCounters(dut_rx')
         /\ RxWaits(v) \/ RxStarts(v) \/ RxCounts(v) \/ RxStops
<1>. DEFINE baud == dut_rx.baud_ctr
            bit  == dut_rx.data_ctr
            half == CLKS_PER_BIT \div 2
<1>1. /\ bit \in 0..9 /\ baud \in 0..CLKS_PER_BIT - 1 /\ dut_rx.data \in Data
      /\ dut_rx.state \in {"RESET", "CAPTURE"} /\ dut_rx.valid \in BOOLEAN
  BY DEF DutRxType, DATA_BITS
<1>2. half \in 0..CLKS_PER_BIT - 2 /\ CLKS_PER_BIT - 1 \in Nat
  OBVIOUS
<1>3. CASE dut_rx.state = "RESET"
  <2>1. dut_rx' = [dut_rx EXCEPT !.baud_ctr = 0, !.data_ctr = 0, !.valid = FALSE,
                                 !.state = IF v = 0 THEN "CAPTURE" ELSE "RESET"]
    BY <1>3 DEF DutRx, Idle, DutRxType
  <2>2. /\ dut_rx'.baud_ctr = 0 /\ dut_rx'.data_ctr = 0 /\ ~dut_rx'.valid
        /\ dut_rx'.state = IF v = 0 THEN "CAPTURE" ELSE "RESET"
    BY <2>1 DEF DutRxType
  <2>3. dut_rx' \in DutRxType
    <3>1. 0 \in 0..CLKS_PER_BIT - 1 /\ 0 \in 0..DATA_BITS + 1
      BY DEF DATA_BITS
    <3>. QED
      BY ONLY <2>1, <3>1, dut_rx \in DutRxType DEF DutRxType
  <2>4. Position(dut_rx') = 0
    BY <2>2, EvalsSmall, DutBitsValues DEF Position
  <2>5. \A b : RxBits(dut_rx', b)
    BY <2>2 DEF RxBits
  <2>6. RxCounters(dut_rx')
    BY <2>2 DEF RxCounters, DATA_BITS
  <2>. QED
    BY <1>3, <2>2, <2>3, <2>4, <2>5, <2>6 DEF RxWaits, RxStarts
<1>4. CASE dut_rx.state = "CAPTURE"
  <2>1. Count(dut_rx) = [dut_rx EXCEPT !.baud_ctr = NextBaud(baud), !.data_ctr = NextBit(baud, bit)]
    <3>1. /\ BitEnds(dut_rx) <=> baud = CLKS_PER_BIT - 1
          /\ (baud + 1) % BaudRange = baud + 1 /\ (bit + 1) % 16 = bit + 1
      BY <1>1, CountArithmetic DEF BitEnds
    <3>. QED
      BY <3>1 DEF Count, NextBaud, NextBit
  <2>2. /\ NextBaud(baud) \in 0..CLKS_PER_BIT - 1
        /\ NextBit(baud, bit) \in 0..10
        /\ DutBits(NextBit(baud, bit)) + Evals(NextBaud(baud)) = Position(dut_rx) + TicksPerClock
    BY <1>1, CountArithmetic DEF Position
  <2>3. SampleNow(dut_rx) <=> baud = half
    BY DEF SampleNow
  <2>4. baud = half => Position(dut_rx) = DutBits(bit) + Mid
    BY DEF Position, Mid
  <2>5. CASE baud = half /\ bit = 9
    <3>1. dut_rx' = [Count(dut_rx) EXCEPT !.state = "RESET", !.valid = TRUE]
      BY <1>4, <2>3, <2>5 DEF DutRx, DATA_BITS
    <3>2. NextBaud(baud) = half + 1 /\ NextBit(baud, bit) = 9
      BY <1>2, <2>5 DEF NextBaud, NextBit
    <3>3. dut_rx' = [dut_rx EXCEPT !.baud_ctr = half + 1, !.data_ctr = 9, !.state = "RESET", !.valid = TRUE]
      BY <2>1, <3>1, <3>2 DEF DutRxType
    <3>4. dut_rx' \in DutRxType /\ RxCounters(dut_rx')
      <4>1. half + 1 \in 0..CLKS_PER_BIT - 1 /\ 9 \in 0..DATA_BITS + 1
        BY <1>2 DEF DATA_BITS
      <4>2. dut_rx' \in DutRxType
        BY ONLY <3>3, <4>1, dut_rx \in DutRxType DEF DutRxType
      <4>3. dut_rx'.state = "RESET"
        BY <3>3 DEF DutRxType
      <4>. QED
        BY <4>2, <4>3 DEF RxCounters
    <3>5. ASSUME NEW b \in Data, RxBits(dut_rx, b)
          PROVE  dut_rx.data = b
      <4>1. \A n \in 1..8 : n - 1 \in dut_rx.data <=> n - 1 \in b
        BY <1>1, <2>5, <3>5 DEF RxBits, DATA_BITS
      <4>2. \A m \in 0..7 : m \in dut_rx.data <=> m \in b
        <5>1. SUFFICES ASSUME NEW m \in 0..7 PROVE m \in dut_rx.data <=> m \in b
          OBVIOUS
        <5>2. m + 1 \in 1..8 /\ (m + 1) - 1 = m
          OBVIOUS
        <5>. QED
          BY <4>1, <5>2
      <4>3. dut_rx.data \subseteq 0..7 /\ b \subseteq 0..7
        BY <1>1 DEF Data, DATA_BITS
      <4>. QED
        BY <4>2, <4>3
    <3>6. RxStops
      BY <1>4, <2>4, <2>5, <3>3, <3>5 DEF RxStops, DutRxType, DATA_BITS
    <3>. QED
      BY <3>4, <3>6
  <2>6. CASE ~(baud = half /\ bit = 9)
    <3>. DEFINE seen == IF baud = half
                        THEN {b \in 0..DATA_BITS - 1 : IF b = bit - 1 THEN v = 1 ELSE b \in dut_rx.data}
                        ELSE dut_rx.data
    <3>1. dut_rx' = [dut_rx EXCEPT !.baud_ctr = NextBaud(baud), !.data_ctr = NextBit(baud, bit), !.data = seen]
      <4>1. CASE baud = half
        <5>1. dut_rx' = [Count(dut_rx) EXCEPT !.data =
                 {b \in 0..DATA_BITS - 1 : IF b = bit - 1 THEN v = 1 ELSE b \in @}]
          BY <1>4, <2>3, <2>6, <4>1 DEF DutRx, DATA_BITS
        <5>2. Count(dut_rx).data = dut_rx.data
          BY <2>1 DEF DutRxType
        <5>. QED
          BY <2>1, <4>1, <5>1, <5>2 DEF DutRxType
      <4>2. CASE baud # half
        <5>1. dut_rx' = Count(dut_rx)
          BY <1>4, <2>3, <4>2 DEF DutRx
        <5>2. dut_rx = [dut_rx EXCEPT !.data = dut_rx.data]
          BY DEF DutRxType
        <5>. QED
          BY <2>1, <4>2, <5>1, <5>2 DEF DutRxType
      <4>. QED
        BY <4>1, <4>2
    <3>2. seen \in Data
      BY <1>1 DEF Data
    <3>3. NextBit(baud, bit) \in 0..9 /\ (NextBit(baud, bit) = 9 => NextBaud(baud) <= half)
      <4>1. bit = 9 => baud < half
        BY <1>1, <1>2, <1>4, <2>6 DEF RxCounters, DATA_BITS
      <4>. QED
        BY <1>1, <1>2, <4>1 DEF NextBit, NextBaud
    <3>4. /\ dut_rx'.baud_ctr = NextBaud(baud) /\ dut_rx'.data_ctr = NextBit(baud, bit)
          /\ dut_rx'.data = seen /\ dut_rx'.state = "CAPTURE" /\ dut_rx'.valid = dut_rx.valid
      BY <1>4, <3>1 DEF DutRxType
    <3>5. dut_rx' \in DutRxType
      <4>1. NextBit(baud, bit) \in 0..DATA_BITS + 1
        BY <3>3 DEF DATA_BITS
      <4>. HIDE DEF seen
      <4>. QED
        BY ONLY <2>2, <3>1, <3>2, <4>1, dut_rx \in DutRxType DEF DutRxType
    <3>6. ~dut_rx'.valid /\ RxCounters(dut_rx')
      BY <1>4, <3>3, <3>4 DEF RxCounters, DATA_BITS
    <3>7. Position(dut_rx') = Position(dut_rx) + TicksPerClock
      BY <2>2, <3>4 DEF Position
    <3>8. ASSUME NEW b, RxBits(dut_rx, b),
                 \A n \in 1..DATA_BITS : Position(dut_rx) = DutBits(n) + Mid => v = LineBit(b, n)
          PROVE  RxBits(dut_rx', b)
      <4>1. SUFFICES ASSUME NEW n \in 1..8,
                            NextBit(baud, bit) > n \/ (NextBit(baud, bit) = n /\ NextBaud(baud) > half)
                     PROVE  n - 1 \in seen <=> n - 1 \in b
        BY <3>4 DEF RxBits, DATA_BITS
      <4>2. CASE baud = half /\ bit = n
        <5>1. v = LineBit(b, n)
          BY <2>4, <3>8, <4>2 DEF DATA_BITS
        <5>2. v = 1 <=> n - 1 \in b
          BY <5>1 DEF LineBit, DATA_BITS
        <5>3. n - 1 \in 0..DATA_BITS - 1
          BY DEF DATA_BITS
        <5>. QED
          BY <4>2, <5>2, <5>3
      <4>3. CASE ~(baud = half /\ bit = n)
        <5>1. bit > n \/ (bit = n /\ baud > half)
          BY <1>1, <1>2, <4>1, <4>3 DEF NextBit, NextBaud
        <5>2. n - 1 \in dut_rx.data <=> n - 1 \in b
          BY <3>8, <5>1 DEF RxBits, DATA_BITS
        <5>3. baud = half => n - 1 # bit - 1
          BY <1>1, <4>3
        <5>4. n - 1 \in 0..DATA_BITS - 1
          BY DEF DATA_BITS
        <5>. QED
          BY <5>2, <5>3, <5>4
      <4>. QED
        BY <4>2, <4>3
    <3>. QED
      BY <1>4, <3>4, <3>5, <3>6, <3>7, <3>8 DEF RxCounts
  <2>. QED
    BY <2>5, <2>6
<1>. QED
  BY <1>1, <1>3, <1>4

-----------------------------------------------------------------------------
(* The line down: the situations, and what is on the line where. *)

\* The place in the byte at which the latest edge has sampled the line.
Sampled == HostTxAt - Phase - 1

\* What uart_rx has put out, the byte that it is putting out too.
Got == IF dut_rx.valid THEN Append(down_received, dut_rx.data) ELSE down_received

\* Nothing is under way.
DownQuiet ==
  /\ down_sent = Got
  /\ host_tx.state = "IDLE" /\ dut_rx.state = "RESET"
  /\ \A s \in Stage : sync[s] = 1

\* The start bit of a byte has not come out of the synchroniser yet.
DownPending ==
  /\ down_sent = Append(Got, host_tx.data)
  /\ host_tx.state = "DATA" /\ dut_rx.state = "RESET"
  /\ Sampled < Evals(SYNC_STAGES)
  /\ \A s \in Stage : OnLine(sync[s], host_tx.data, Sampled - Evals(s), bit_interval)

\* uart_rx is receiving b, and the latest edge has sampled its place a.
Window == Evals(SYNC_STAGES) + Position(dut_rx) .. Evals(SYNC_STAGES) + Position(dut_rx) + TicksPerClock - 1

Receives(b, a) == dut_rx.state = "CAPTURE" /\ a \in Window /\ RxBits(dut_rx, b)

\* uart_rx is receiving the latest byte, of which the rest is on its way.
DownReceiving ==
  \E b \in Data : \E a \in Window :
    /\ Receives(b, a)
    /\ down_sent = Append(Got, b)
    /\ \A s \in Stage : OnLine(sync[s], b, a - Evals(s), bit_interval)
    /\ \/ host_tx.state = "DATA" /\ host_tx.data = b /\ Sampled = a
       \/ host_tx.state = "IDLE" /\ HostBits(9, bit_interval) <= a + Phase + 1

\* The same, and the next byte has been taken from the terminal.
DownOverlap ==
  \E b \in Data : \E a \in Window :
    /\ Receives(b, a)
    /\ down_sent = Append(Append(Got, b), host_tx.data)
    /\ host_tx.state = "DATA"
    /\ Sampled < a - HostBits(10, bit_interval)
    /\ \A s \in Stage : IF Sampled - Evals(s) >= 0 THEN sync[s] = 0
                        ELSE OnLine(sync[s], b, a - Evals(s), bit_interval)

DownLine == DownQuiet \/ DownPending \/ DownReceiving \/ DownOverlap

\* What the steps below need of the types.
DownTypes ==
  /\ bit_interval \in BitIntervals
  /\ time \in Ticks
  /\ host_tx \in HostTxType
  /\ host_tx.state = "DATA" => host_tx.bit <= DATA_BITS + 1
  /\ PinInv
  /\ dut_rx \in DutRxType /\ RxCounters(dut_rx)
  /\ sync \in [Stage -> Bit]

HostSteps == HostTxAt \in Int /\ (HostIdles \/ HostLoads \/ HostRuns \/ HostEnds)

RxSteps(v) == RxWaits(v) \/ RxStarts(v) \/ RxCounts(v) \/ RxStops

\* An edge out of reset, and an evaluation without one.
DownEdge ==
  /\ bit_interval' = bit_interval
  /\ Phase = TicksPerClock - 1 /\ Phase' = 0
  /\ HostSteps
  /\ sync' = SyncShift(sync, host_tx.pin)
  /\ down_received' = Got
  /\ RxSteps(sync[SYNC_STAGES - 1])

DownBetween ==
  /\ bit_interval' = bit_interval
  /\ Phase \in 0 .. TicksPerClock - 2 /\ Phase' = Phase + 1
  /\ HostSteps
  /\ sync' = sync /\ down_received' = down_received /\ dut_rx' = dut_rx

\* The lengths that the line down compares, for a length of the bit.
LEMMA DownNumbers ==
  ASSUME NEW i \in BitIntervals
  PROVE  /\ i \in Nat /\ HostBits(1, i) \in Int
         /\ HostBits(0, i) = 0 /\ HostBits(1, i) > 0
         /\ HostBits(9, i) = 9 * HostBits(1, i) /\ HostBits(10, i) = 10 * HostBits(1, i)
         /\ TicksPerClock \in Nat /\ TicksPerClock >= 2
         /\ SYNC_STAGES - 1 \in Stage
         /\ Evals(SYNC_STAGES) \in Int /\ Evals(SYNC_STAGES) >= TicksPerClock
         /\ Evals(SYNC_STAGES - 1) = Evals(SYNC_STAGES) - TicksPerClock
         /\ Evals(SYNC_STAGES) + TicksPerClock <= HostBits(1, i)
         /\ \A s \in Stage : /\ Evals(s) \in Int /\ Evals(s) >= 0
                             /\ Evals(s) <= Evals(SYNC_STAGES) - TicksPerClock
         /\ HostBits(9, i) <= DutBits(9) + Mid + TicksPerClock
         /\ DutBits(9) + Mid + 2 * TicksPerClock <= HostBits(10, i)
         /\ DutBits(9) \in Int /\ Mid \in Int
<1>1. i \in Nat
  BY LinkAssumption
<1>2. /\ HostBits(0, i) = 0 /\ HostBits(1, i) = i + 1
      /\ HostBits(9, i) = 9 * (i + 1) /\ HostBits(10, i) = 10 * (i + 1)
  BY ONLY <1>1, HostBitsValues
<1>3. SYNC_STAGES \in 1..4 /\ Evals(SYNC_STAGES) + TicksPerClock <= HostBits(1, i)
  BY ResetIsShort
<1>4. SYNC_STAGES - 1 \in Stage /\ SYNC_STAGES \in Int
  BY <1>3 DEF Stage
<1>5. Evals(SYNC_STAGES) \in Int /\ Evals(SYNC_STAGES - 1) = Evals(SYNC_STAGES) - TicksPerClock
  BY ONLY <1>4, EvalsFacts
<1>6. \A s \in Stage : /\ Evals(s) \in Int /\ Evals(s) >= 0
                       /\ Evals(s) <= Evals(SYNC_STAGES) - TicksPerClock
  <2>1. SUFFICES ASSUME NEW s \in Stage
                 PROVE  /\ Evals(s) \in Int /\ Evals(0) <= Evals(s)
                        /\ Evals(s) <= Evals(SYNC_STAGES - 1)
    BY <1>5, EvalsSmall
  <2>2. s \in Int /\ 0 \in Int /\ SYNC_STAGES - 1 \in Int /\ 0 <= s /\ s <= SYNC_STAGES - 1
    BY <1>4 DEF Stage
  <2>. QED
    BY ONLY <2>2, EvalsFacts, EvalsMonotone
<1>7. /\ HostBits(9, i) <= DutBits(9) + Mid + TicksPerClock
      /\ DutBits(9) + Mid + 2 * TicksPerClock <= HostBits(10, i)
  BY DownWindow
<1>8. Evals(SYNC_STAGES) >= TicksPerClock
  BY <1>4, <1>5, <1>6
<1>9. DutBits(9) \in Int /\ Mid \in Int
  BY DutBitsFacts, MidFacts
<1>10. TicksPerClock \in Nat /\ TicksPerClock >= 2
  OBVIOUS
<1>. QED
  BY ONLY <1>1, <1>2, <1>3, <1>4, <1>5, <1>6, <1>7, <1>8, <1>9, <1>10

\* More bits take longer, by the ruler of the peripheral.
LEMMA HostBitsRange ==
  ASSUME NEW i \in BitIntervals, NEW n \in 0..9
  PROVE  /\ HostBits(n, i) \in Nat
         /\ HostBits(n, i) <= HostBits(9, i)
         /\ n > 0 => HostBits(1, i) <= HostBits(n, i)
<1>1. i \in Nat
  BY LinkAssumption
<1>2. /\ HostBits(0, i) = 0 /\ HostBits(1, i) = i + 1
      /\ HostBits(2, i) = 2 * (i + 1) /\ HostBits(3, i) = 3 * (i + 1)
      /\ HostBits(4, i) = 4 * (i + 1) /\ HostBits(5, i) = 5 * (i + 1)
      /\ HostBits(6, i) = 6 * (i + 1) /\ HostBits(7, i) = 7 * (i + 1)
      /\ HostBits(8, i) = 8 * (i + 1) /\ HostBits(9, i) = 9 * (i + 1)
      /\ HostBits(10, i) = 10 * (i + 1)
  BY <1>1, HostBitsValues
<1>3. n \in {0, 1, 2, 3, 4, 5, 6, 7, 8, 9}
  OBVIOUS
<1>. QED
  BY ONLY <1>1, <1>2, <1>3

\* What is on the line where.
LEMMA LineEarly ==
  ASSUME NEW i \in BitIntervals, NEW b, NEW v, NEW x \in Int, x < 0
  PROVE  OnLine(v, b, x, i) <=> v = 1
<1>1. \A n \in 0..9 : HostBits(n, i) \in Int /\ HostBits(n, i) >= 0
  BY HostBitsRange
<1>. QED
  BY <1>1 DEF OnLine, DATA_BITS

\* Within a bit the line is that bit; it is low in the start bit ...
LEMMA LineWithin ==
  ASSUME NEW i \in BitIntervals, NEW b, NEW v, NEW x \in Int, NEW n \in 0..8,
         HostBits(n, i) <= x, x < HostBits(n + 1, i), OnLine(v, b, x, i)
  PROVE  v = LineBit(b, n)
BY DEF OnLine, DATA_BITS

\* ... and only what is low is in the start bit.
LEMMA LineStart ==
  ASSUME NEW i \in BitIntervals, NEW b, NEW v, NEW x \in Int, 0 <= x, x < HostBits(1, i)
  PROVE  OnLine(v, b, x, i) <=> v = 0
<1>1. \A n \in 1..9 : HostBits(n, i) \in Int /\ x < HostBits(n, i)
  <2>1. SUFFICES ASSUME NEW n \in 1..9 PROVE HostBits(n, i) \in Int /\ x < HostBits(n, i)
    OBVIOUS
  <2>2. n \in 0..9 /\ n > 0 /\ 1 \in 0..9
    OBVIOUS
  <2>3. HostBits(n, i) \in Nat /\ HostBits(1, i) \in Nat /\ HostBits(1, i) <= HostBits(n, i)
    BY <2>2, HostBitsRange
  <2>. QED
    BY <2>3
<1>2. HostBits(0, i) = 0 /\ LineBit(b, 0) = 0
  BY LinkAssumption, HostBitsValues DEF LineBit
<1>3. \A n \in 0..8 : HostBits(n, i) <= x => n = 0
  BY <1>1
<1>. QED
  BY <1>1, <1>2, <1>3 DEF OnLine, DATA_BITS

\* The line is high once the data bits are over.
LEMMA LineLate ==
  ASSUME NEW i \in BitIntervals, NEW b, NEW v, NEW x \in Int, HostBits(9, i) <= x
  PROVE  OnLine(v, b, x, i) <=> v = 1
<1>1. \A n \in 0..9 : HostBits(n, i) \in Int /\ HostBits(n, i) <= x /\ 0 <= x
  <2>1. SUFFICES ASSUME NEW n \in 0..9 PROVE HostBits(n, i) \in Int /\ HostBits(n, i) <= x /\ 0 <= x
    OBVIOUS
  <2>2. HostBits(n, i) \in Nat /\ HostBits(9, i) \in Nat /\ HostBits(n, i) <= HostBits(9, i)
    BY HostBitsRange
  <2>. QED
    BY <2>2
<1>2. \A n \in 0..8 : ~(x < HostBits(n + 1, i))
  <2>1. \A n \in 0..8 : n + 1 \in 0..9
    OBVIOUS
  <2>. QED
    BY <1>1, <2>1
<1>. QED
  BY <1>1, <1>2 DEF OnLine, DATA_BITS

\* The synchroniser after an edge.
LEMMA Shifted ==
  ASSUME sync' = SyncShift(sync, host_tx.pin)
  PROVE  \A s \in Stage : IF s = 0 THEN sync'[s] = host_tx.pin
                          ELSE /\ sync'[s] = sync[s - 1]
                               /\ s - 1 \in Stage
                               /\ Evals(s - 1) = Evals(s) - TicksPerClock
<1>1. SUFFICES ASSUME NEW s \in Stage
               PROVE  IF s = 0 THEN sync'[s] = host_tx.pin
                      ELSE sync'[s] = sync[s - 1] /\ s - 1 \in Stage /\ Evals(s - 1) = Evals(s) - TicksPerClock
  OBVIOUS
<1>2. s \in Int
  BY DEF Stage
<1>3. Evals(s - 1) = Evals(s) - TicksPerClock
  BY ONLY <1>2, EvalsFacts
<1>. QED
  BY <1>3 DEF SyncShift, Stage

\* A line that went on by an edge went on in every stage of the synchroniser.
LEMMA LineShifted ==
  ASSUME sync' = SyncShift(sync, host_tx.pin), NEW i \in BitIntervals, NEW b, NEW x \in Int, NEW y, y = x + TicksPerClock,
         \A s \in Stage : OnLine(sync[s], b, x - Evals(s), i),
         OnLine(host_tx.pin, b, y, i)
  PROVE  \A s \in Stage : OnLine(sync'[s], b, y - Evals(s), i)
<1>1. SUFFICES ASSUME NEW s \in Stage
               PROVE  OnLine(sync'[s], b, y - Evals(s), i)
  OBVIOUS
<1>2. Evals(s) \in Int /\ Evals(0) = 0 /\ TicksPerClock \in Int
  BY DownNumbers, EvalsSmall
<1>3. CASE s = 0
  <2>1. y - Evals(s) = y /\ sync'[s] = host_tx.pin
    BY <1>2, <1>3, Shifted
  <2>. QED
    BY <2>1
<1>4. CASE s # 0
  <2>1. /\ y - Evals(s) = x - Evals(s - 1)
        /\ sync'[s] = sync[s - 1] /\ s - 1 \in Stage
    BY <1>2, <1>4, Shifted
  <2>. QED
    BY <2>1
<1>. QED
  BY <1>3, <1>4

\* What uart_rx puts out in a step.
LEMMA GotStep ==
  ASSUME down_received' = Got, RxCounters(dut_rx)
  PROVE  /\ ~dut_rx'.valid => Got' = Got
         /\ RxStops => Got' = Append(Got, dut_rx.data)
BY DEF Got, RxStops, RxCounters

-----------------------------------------------------------------------------
(* The line down: an edge while nothing or a start bit is on its way. *)

\* What has been sampled is an edge behind where the peripheral is going.
LEMMA SampledFacts ==
  ASSUME DownTypes, HostTxAt \in Int
  PROVE  /\ Phase \in 0 .. TicksPerClock - 1
         /\ Sampled \in Int /\ HostTxAt = Sampled + Phase + 1
<1>1. Phase \in 0 .. TicksPerClock - 1
  BY HalfClockType DEF DownTypes, Phase, Ticks
<1>. QED
  BY <1>1 DEF Sampled

\* What the next edge samples, of a byte that begins or goes on.
LEMMA SampledNext ==
  ASSUME bit_interval' = bit_interval, bit_interval \in BitIntervals, Phase' \in Int
  PROVE  /\ HostLoads => Sampled' = -HostBits(1, bit_interval) - Phase' - 1
         /\ HostRuns /\ HostTxAt \in Int => Sampled' = HostTxAt - Phase'
<1>1. HostBits(1, bit_interval) \in Int
  BY DownNumbers
<1>2. Sampled' = HostTxAt' - Phase' - 1
  BY DEF Sampled
<1>. QED
  BY <1>1, <1>2 DEF HostLoads, HostRuns

\* A byte that was taken just now is pending: its start bit is to come.
LEMMA Taken ==
  ASSUME DownTypes, bit_interval' = bit_interval, HostLoads, Phase' \in Nat,
         down_sent = Got', dut_rx'.state = "RESET", \A s \in Stage : sync'[s] = 1
  PROVE  DownPending'
<1>. DEFINE i == bit_interval
<1>1. i \in BitIntervals
  BY DEF DownTypes
<1>2. Sampled' = -HostBits(1, i) - Phase' - 1
  BY <1>1, SampledNext
<1>3. HostBits(1, i) \in Int /\ HostBits(1, i) > 0 /\ Evals(SYNC_STAGES) >= TicksPerClock
      /\ Evals(SYNC_STAGES) \in Int /\ TicksPerClock \in Nat
  BY <1>1, DownNumbers
<1>4. Sampled' \in Int /\ Sampled' < 0 /\ Sampled' < Evals(SYNC_STAGES)
  BY <1>2, <1>3
<1>5. ASSUME NEW s \in Stage
      PROVE  OnLine(sync'[s], host_tx'.data, Sampled' - Evals(s), i)
  <2>1. Evals(s) \in Int /\ Evals(s) >= 0
    BY <1>1, DownNumbers
  <2>2. Sampled' - Evals(s) \in Int /\ Sampled' - Evals(s) < 0
    BY <1>4, <2>1
  <2>. QED
    BY <1>1, <2>2, LineEarly
<1>. QED
  BY <1>4, <1>5 DEF DownPending, HostLoads

\* An edge while nothing is under way.
LEMMA EdgeQuiet ==
  ASSUME DownTypes, DownEdge, DownQuiet
  PROVE  DownLine'
<1>1. SYNC_STAGES - 1 \in Stage
  BY DownNumbers DEF DownTypes
<1>2. dut_rx'.state = "RESET" /\ ~dut_rx'.valid
  BY <1>1 DEF DownEdge, DownQuiet, RxSteps, RxWaits, RxStarts, RxCounts, RxStops
<1>3. Got' = Got
  BY <1>2, GotStep DEF DownEdge, DownTypes
<1>4. \A s \in Stage : sync'[s] = 1
  <2>1. host_tx.pin = 1
    BY DEF DownTypes, PinInv, DownQuiet
  <2>. QED
    BY <2>1, Shifted DEF DownEdge, DownQuiet
<1>5. CASE HostIdles
  BY <1>2, <1>3, <1>4, <1>5 DEF HostIdles, DownQuiet, DownLine
<1>6. CASE HostLoads
  <2>1. DownPending'
    BY <1>2, <1>3, <1>4, <1>6, Taken DEF DownQuiet, DownEdge
  <2>. QED
    BY <2>1 DEF DownLine
<1>. QED
  BY <1>5, <1>6 DEF DownEdge, HostSteps, HostRuns, HostEnds, DownQuiet

\* An edge at which the start bit may come out of the synchroniser.
LEMMA EdgePending ==
  ASSUME DownTypes, DownEdge, DownPending
  PROVE  DownLine'
<1>. DEFINE i == bit_interval
            b == host_tx.data
            v == sync[SYNC_STAGES - 1]
<1>1. i \in BitIntervals /\ HostTxAt \in Int
  BY DEF DownTypes, DownEdge, HostSteps
<1>2. /\ Sampled \in Int /\ HostTxAt = Sampled + TicksPerClock /\ Sampled < Evals(SYNC_STAGES)
  BY <1>1, SampledFacts DEF DownEdge, DownPending
<1>3. OnLine(host_tx.pin, b, HostTxAt, i)
  BY PinOnLine DEF DownTypes, DownPending
<1>4. HostRuns
  <2>1. HostTxAt # HostBits(9, i) - 1
    BY <1>1, <1>2, DownNumbers
  <2>. QED
    BY <2>1 DEF DownEdge, HostSteps, HostIdles, HostLoads, HostEnds, DownPending, DATA_BITS
<1>5. Sampled' = Sampled + TicksPerClock
  BY <1>1, <1>2, <1>4, SampledNext DEF DownEdge
<1>6. \A s \in Stage : OnLine(sync'[s], b, Sampled' - Evals(s), i)
  <2>1. sync' = SyncShift(sync, host_tx.pin) /\ \A s \in Stage : OnLine(sync[s], b, Sampled - Evals(s), i)
    BY DEF DownEdge, DownPending
  <2>2. OnLine(host_tx.pin, b, Sampled', i)
    BY <1>2, <1>3, <1>5
  <2>. QED
    BY ONLY <1>1, <1>2, <1>5, <2>1, <2>2, LineShifted
<1>7. host_tx'.data = b /\ host_tx'.state = "DATA" /\ down_sent' = down_sent
  BY <1>4 DEF HostRuns
<1>. DEFINE x == Sampled - Evals(SYNC_STAGES - 1)
<1>8. /\ x = Sampled - Evals(SYNC_STAGES) + TicksPerClock /\ x \in Int /\ x < TicksPerClock
      /\ x < HostBits(1, i) /\ OnLine(v, b, x, i)
  <2>1. SYNC_STAGES - 1 \in Stage
    BY <1>1, DownNumbers
  <2>2. OnLine(v, b, x, i)
    BY <2>1 DEF DownPending
  <2>3. x = Sampled - Evals(SYNC_STAGES) + TicksPerClock /\ x \in Int /\ x < TicksPerClock
    BY <1>1, <1>2, DownNumbers
  <2>4. TicksPerClock <= HostBits(1, i) /\ TicksPerClock \in Int /\ HostBits(1, i) \in Int
    BY <1>1, DownNumbers
  <2>. QED
    BY ONLY <2>2, <2>3, <2>4
<1>9. CASE x < 0
  <2>1. v = 1
    BY <1>1, <1>8, <1>9, LineEarly
  <2>2. RxWaits(v)
    BY <2>1 DEF DownEdge, RxSteps, RxStarts, RxCounts, RxStops, DownPending
  <2>3. dut_rx'.state = "RESET" /\ Got' = Got
    BY <2>2, GotStep DEF RxWaits, DownEdge, DownTypes
  <2>4. Sampled' < Evals(SYNC_STAGES)
    BY <1>1, <1>2, <1>5, <1>8, <1>9, DownNumbers
  <2>5. DownPending'
    BY <1>6, <1>7, <2>3, <2>4 DEF DownPending, DownEdge
  <2>. QED
    BY <2>5 DEF DownLine
<1>10. CASE x >= 0
  <2>1. v = 0
    BY <1>1, <1>8, <1>10, LineStart
  <2>2. RxStarts(v)
    BY <2>1 DEF DownEdge, RxSteps, RxWaits, RxCounts, RxStops, DownPending
  <2>3. /\ dut_rx'.state = "CAPTURE" /\ Got' = Got /\ Position(dut_rx') = 0
        /\ RxBits(dut_rx', b)
    BY <2>2, GotStep DEF RxStarts, DownEdge, DownTypes
  <2>4. Sampled' \in Evals(SYNC_STAGES) + 0 .. Evals(SYNC_STAGES) + 0 + TicksPerClock - 1
    BY <1>1, <1>2, <1>5, <1>8, <1>10, DownNumbers
  <2>5. Sampled' \in Window'
    BY <2>3, <2>4 DEF Window
  <2>6. b \in Data
    BY DEF DownTypes, HostTxType
  <2>7. Receives(b, Sampled)'
    BY <1>7, <2>3, <2>5 DEF Receives
  <2>8. DownReceiving'
    <3>1. down_sent' = Append(Got', b)
      BY <1>7, <2>3 DEF DownPending
    <3>. QED
      BY <1>6, <1>7, <2>3, <2>5, <2>6, <3>1 DEF DownReceiving, DownEdge, Receives
  <2>. QED
    BY <2>8 DEF DownLine
<1>. QED
  BY <1>8, <1>9, <1>10

-----------------------------------------------------------------------------
(* The line down: an edge while uart_rx reads. *)

\* What uart_rx reads at an edge is the place x of the byte that it receives.
LEMMA Reading ==
  ASSUME DownTypes, DownEdge, NEW b \in Data, NEW a, Receives(b, a), NEW x, NEW y,
         x = a - Evals(SYNC_STAGES - 1), y = a + TicksPerClock,
         OnLine(sync[SYNC_STAGES - 1], b, x, bit_interval)
  PROVE  /\ a \in Int /\ x \in Int /\ x <= a /\ y \in Int
         /\ a < Evals(SYNC_STAGES) + DutBits(9) + Mid + TicksPerClock
         /\ \/ /\ dut_rx'.state = "CAPTURE" /\ Got' = Got
               /\ Receives(b, y)'
            \/ /\ dut_rx'.state = "RESET" /\ Got' = Append(Got, b)
               /\ x >= HostBits(9, bit_interval)
<1>. DEFINE i == bit_interval
            v == sync[SYNC_STAGES - 1]
            p == Position(dut_rx)
<1>1. i \in BitIntervals
  BY DEF DownTypes
<1>2. p \in Nat /\ p <= DutBits(9) + Mid
  BY PositionType DEF DownTypes, Receives
<1>3. /\ Evals(SYNC_STAGES) \in Int /\ Evals(SYNC_STAGES) >= TicksPerClock
      /\ Evals(SYNC_STAGES - 1) = Evals(SYNC_STAGES) - TicksPerClock
      /\ TicksPerClock \in Nat /\ TicksPerClock >= 2
      /\ DutBits(9) \in Int /\ Mid \in Int
  BY <1>1, DownNumbers
<1>4. a \in Evals(SYNC_STAGES) + p .. Evals(SYNC_STAGES) + p + TicksPerClock - 1
  BY DEF Receives, Window
<1>. HIDE DEF p
<1>5. /\ a \in Int /\ x \in Int /\ x <= a /\ y \in Int
      /\ a < Evals(SYNC_STAGES) + DutBits(9) + Mid + TicksPerClock
      /\ x >= p + TicksPerClock /\ x < p + 2 * TicksPerClock
  BY <1>2, <1>3, <1>4
<1>6. \A n \in 0..9 : p = DutBits(n) + Mid => HostBits(n, i) <= x /\ x < HostBits(n + 1, i)
  <2>1. SUFFICES ASSUME NEW n \in 0..9, p = DutBits(n) + Mid
                 PROVE  HostBits(n, i) <= x /\ x < HostBits(n + 1, i)
    OBVIOUS
  <2>2. /\ HostBits(n, i) <= p + TicksPerClock
        /\ p + 2 * TicksPerClock <= HostBits(n + 1, i)
    BY <1>1, <2>1, DownWindow
  <2>3. HostBits(n, i) \in Int /\ HostBits(n + 1, i) \in Int
    <3>1. n \in Int /\ n + 1 \in Int /\ i \in Nat
      BY <1>1, LinkAssumption
    <3>. QED
      BY ONLY <3>1, HostBitsFacts
  <2>. QED
    BY <1>2, <1>3, <1>5, <2>2, <2>3
<1>7. dut_rx.state = "CAPTURE" /\ RxBits(dut_rx, b)
  BY DEF Receives
<1>8. CASE RxCounts(v)
  <2>1. \A n \in 1..DATA_BITS : p = DutBits(n) + Mid => v = LineBit(b, n)
    <3>1. SUFFICES ASSUME NEW n \in 1..8, p = DutBits(n) + Mid
                   PROVE  v = LineBit(b, n)
      BY DEF DATA_BITS
    <3>2. n \in 0..9 /\ n \in 0..8
      OBVIOUS
    <3>. QED
      BY <1>1, <1>5, <1>6, <3>1, <3>2, LineWithin
  <2>2. RxBits(dut_rx', b) /\ Position(dut_rx') = p + TicksPerClock /\ dut_rx'.state = "CAPTURE"
    BY <1>7, <1>8, <2>1 DEF RxCounts, p
  <2>3. Got' = Got
    BY <1>8, GotStep DEF RxCounts, DownEdge, DownTypes
  <2>4. y \in Window'
    BY <1>2, <1>3, <1>4, <2>2 DEF Window
  <2>. QED
    BY <1>5, <2>2, <2>3, <2>4 DEF Receives
<1>9. CASE RxStops
  <2>1. Got' = Append(Got, b) /\ dut_rx'.state = "RESET"
    BY <1>7, <1>9, GotStep DEF RxStops, DownEdge, DownTypes
  <2>2. p = DutBits(9) + Mid
    BY <1>9 DEF RxStops, p, DATA_BITS
  <2>3. x >= HostBits(9, i)
    BY <1>1, <1>5, <1>6, <2>2, DownNumbers
  <2>. QED
    BY <1>5, <2>1, <2>3
<1>. QED
  BY <1>7, <1>8, <1>9 DEF DownEdge, RxSteps, RxWaits, RxStarts

\* What is left to show when uart_rx goes on receiving ...
LEMMA ReceivingNext ==
  ASSUME NEW b \in Data, NEW y, Receives(b, y)', bit_interval' = bit_interval,
         down_sent' = Append(Got', b),
         \A s \in Stage : OnLine(sync'[s], b, y - Evals(s), bit_interval),
         \/ host_tx'.state = "DATA" /\ host_tx'.data = b /\ Sampled' = y
         \/ host_tx'.state = "IDLE" /\ HostBits(9, bit_interval) <= y + Phase' + 1
  PROVE  DownLine'
<1>1. y \in Window'
  BY DEF Receives
<1>2. DownReceiving'
  BY <1>1 DEF DownReceiving
<1>. QED
  BY <1>2 DEF DownLine

\* ... and when the next byte has been begun meanwhile.
LEMMA OverlapNext ==
  ASSUME NEW b \in Data, NEW y, Receives(b, y)', bit_interval' = bit_interval,
         down_sent' = Append(Append(Got', b), host_tx'.data),
         host_tx'.state = "DATA",
         Sampled' < y - HostBits(10, bit_interval),
         \A s \in Stage : IF Sampled' - Evals(s) >= 0 THEN sync'[s] = 0
                          ELSE OnLine(sync'[s], b, y - Evals(s), bit_interval)
  PROVE  DownLine'
<1>1. y \in Window'
  BY DEF Receives
<1>2. DownOverlap'
  BY <1>1 DEF DownOverlap
<1>. QED
  BY <1>2 DEF DownLine

\* An edge at which uart_rx may read a bit, and the peripheral may end or begin again.
LEMMA EdgeReceiving ==
  ASSUME DownTypes, DownEdge, DownReceiving
  PROVE  DownLine'
<1>. DEFINE i == bit_interval
            T == TicksPerClock
<1>1. PICK b \in Data, a \in Window :
        /\ Receives(b, a)
        /\ down_sent = Append(Got, b)
        /\ \A s \in Stage : OnLine(sync[s], b, a - Evals(s), i)
        /\ \/ host_tx.state = "DATA" /\ host_tx.data = b /\ Sampled = a
           \/ host_tx.state = "IDLE" /\ HostBits(9, i) <= a + Phase + 1
  BY DEF DownReceiving
<1>. DEFINE x == a - Evals(SYNC_STAGES - 1)
            y == a + T
<1>2. i \in BitIntervals /\ HostTxAt \in Int /\ Phase = T - 1 /\ Phase' = 0 /\ i' = i
      /\ sync' = SyncShift(sync, host_tx.pin)
  BY DEF DownTypes, DownEdge, HostSteps
<1>3. SYNC_STAGES - 1 \in Stage /\ T \in Nat /\ T >= 2
  BY <1>2, DownNumbers
<1>4. /\ a \in Int /\ x \in Int /\ x <= a /\ y \in Int
      /\ \/ /\ dut_rx'.state = "CAPTURE" /\ Got' = Got
            /\ Receives(b, y)'
         \/ /\ dut_rx'.state = "RESET" /\ Got' = Append(Got, b)
            /\ x >= HostBits(9, i)
  <2>1. OnLine(sync[SYNC_STAGES - 1], b, x, i)
    BY <1>1, <1>3
  <2>. QED
    BY <1>1, <2>1, Reading
<1>5. /\ HostBits(1, i) \in Int /\ HostBits(1, i) > 0
      /\ HostBits(9, i) = 9 * HostBits(1, i) /\ HostBits(10, i) = 10 * HostBits(1, i)
  BY <1>2, DownNumbers
<1>6. y = a + T
  OBVIOUS
<1>. HIDE DEF y
<1>7. ASSUME OnLine(host_tx.pin, b, y, i)
      PROVE  \A s \in Stage : OnLine(sync'[s], b, y - Evals(s), i)
  <2>1. \A s \in Stage : OnLine(sync[s], b, a - Evals(s), i)
    BY <1>1
  <2>. QED
    BY ONLY <1>2, <1>4, <1>6, <1>7, <2>1, LineShifted
<1>8. CASE host_tx.state = "DATA" /\ host_tx.data = b /\ Sampled = a
  <2>1. HostTxAt = y
    BY <1>2, <1>4, <1>6, <1>8, SampledFacts
  <2>2. OnLine(host_tx.pin, b, y, i) /\ y < HostBits(9, i)
    BY <1>8, <2>1, PinOnLine DEF DownTypes, DATA_BITS
  <2>3. \A s \in Stage : OnLine(sync'[s], b, y - Evals(s), i)
    BY <1>7, <2>2
  <2>4. dut_rx'.state = "CAPTURE" /\ Got' = Got /\ Receives(b, y)'
    <3>1. ~(x >= HostBits(9, i))
      BY <1>3, <1>4, <1>5, <1>6, <2>2
    <3>. QED
      BY <1>4, <3>1
  <2>5. CASE HostRuns
    <3>1. Sampled' = y
      BY <1>2, <1>4, <2>1, <2>5, SampledNext
    <3>2. host_tx'.state = "DATA" /\ host_tx'.data = b /\ down_sent' = Append(Got', b)
      BY <1>1, <1>8, <2>4, <2>5 DEF HostRuns
    <3>. QED
      BY ONLY <1>1, <1>2, <2>3, <2>4, <3>1, <3>2, ReceivingNext
  <2>6. CASE HostEnds
    <3>1. HostBits(9, i) <= y + Phase' + 1
      BY <1>2, <1>4, <1>5, <2>1, <2>6 DEF HostEnds, DATA_BITS
    <3>2. host_tx'.state = "IDLE" /\ down_sent' = Append(Got', b)
      BY <1>1, <2>4, <2>6 DEF HostEnds
    <3>. QED
      BY ONLY <1>1, <1>2, <2>3, <2>4, <3>1, <3>2, ReceivingNext
  <2>. QED
    BY <1>8, <2>5, <2>6 DEF DownEdge, HostSteps, HostIdles, HostLoads
<1>9. CASE host_tx.state = "IDLE" /\ HostBits(9, i) <= a + Phase + 1
  <2>1. HostBits(9, i) <= y /\ HostBits(9, i) \in Int
    BY <1>2, <1>3, <1>4, <1>5, <1>6, <1>9
  <2>2. host_tx.pin = 1
    BY <1>9 DEF DownTypes, PinInv
  <2>3. OnLine(host_tx.pin, b, y, i)
    BY ONLY <1>2, <1>4, <2>1, <2>2, LineLate
  <2>4. \A s \in Stage : OnLine(sync'[s], b, y - Evals(s), i)
    BY <1>7, <2>3
  <2>5. CASE dut_rx'.state = "CAPTURE" /\ Got' = Got /\ Receives(b, y)'
    <3>1. CASE HostIdles
      <4>1. HostBits(9, i) <= y + Phase' + 1
        BY <1>2, <1>4, <1>5, <2>1
      <4>2. host_tx'.state = "IDLE" /\ down_sent' = Append(Got', b)
        BY <1>1, <2>5, <3>1 DEF HostIdles
      <4>. QED
        BY ONLY <1>1, <1>2, <2>4, <2>5, <4>1, <4>2, ReceivingNext
    <3>2. CASE HostLoads
      <4>1. Sampled' = -HostBits(1, i) - 1
        BY <1>2, <1>5, <3>2, SampledNext
      <4>2. Sampled' < y - HostBits(10, i)
        BY ONLY <1>4, <1>5, <2>1, <4>1
      <4>3. down_sent' = Append(Append(Got', b), host_tx'.data) /\ host_tx'.state = "DATA"
        BY <1>1, <2>5, <3>2 DEF HostLoads
      <4>4. \A s \in Stage : ~(Sampled' - Evals(s) >= 0)
        <5>1. SUFFICES ASSUME NEW s \in Stage PROVE ~(Sampled' - Evals(s) >= 0)
          OBVIOUS
        <5>2. Evals(s) \in Int /\ Evals(s) >= 0
          BY <1>2, DownNumbers
        <5>. QED
          BY ONLY <1>5, <4>1, <5>2
      <4>5. \A s \in Stage : IF Sampled' - Evals(s) >= 0 THEN sync'[s] = 0
                             ELSE OnLine(sync'[s], b, y - Evals(s), i)
        BY ONLY <2>4, <4>4
      <4>. QED
        BY ONLY <1>1, <1>2, <2>5, <4>2, <4>3, <4>5, OverlapNext
    <3>. QED
      BY <1>9, <3>1, <3>2 DEF DownEdge, HostSteps, HostRuns, HostEnds
  <2>6. CASE dut_rx'.state = "RESET" /\ Got' = Append(Got, b) /\ x >= HostBits(9, i)
    <3>1. \A s \in Stage : sync'[s] = 1
      <4>1. SUFFICES ASSUME NEW s \in Stage PROVE sync'[s] = 1
        OBVIOUS
      <4>2. Evals(s) \in Int /\ Evals(SYNC_STAGES - 1) \in Int /\ Evals(s) <= Evals(SYNC_STAGES - 1)
        BY <1>2, DownNumbers
      <4>3. HostBits(9, i) <= y - Evals(s) /\ y - Evals(s) \in Int
        BY <1>3, <1>4, <1>5, <1>6, <2>6, <4>2
      <4>4. OnLine(sync'[s], b, y - Evals(s), i)
        BY <2>4
      <4>. QED
        BY ONLY <1>2, <4>3, <4>4, LineLate
    <3>2. CASE HostIdles
      BY <1>1, <2>6, <3>1, <3>2 DEF HostIdles, DownQuiet, DownLine
    <3>3. CASE HostLoads
      <4>1. DownPending'
        <5>1. down_sent = Got' /\ down_sent = Append(Got, b)
          BY <1>1, <2>6
        <5>2. Phase' \in Nat
          BY <1>2
        <5>3. down_sent' = Append(down_sent, host_tx'.data)
          BY <3>3 DEF HostLoads
        <5>. QED
          BY <1>2, <2>6, <3>1, <3>3, <5>1, <5>2, Taken
      <4>. QED
        BY <4>1 DEF DownLine
    <3>. QED
      BY <1>9, <3>2, <3>3 DEF DownEdge, HostSteps, HostRuns, HostEnds
  <2>. QED
    BY <1>4, <2>5, <2>6
<1>. QED
  BY <1>1, <1>8, <1>9

-----------------------------------------------------------------------------
(* The line down: an edge while the next byte is begun, and evaluations between edges. *)

\* An edge with two bytes on their way: uart_rx is done before the second start bit is out.
LEMMA EdgeOverlap ==
  ASSUME DownTypes, DownEdge, DownOverlap
  PROVE  DownLine'
<1>. DEFINE i == bit_interval
            T == TicksPerClock
<1>1. PICK b \in Data, a \in Window :
        /\ Receives(b, a)
        /\ down_sent = Append(Append(Got, b), host_tx.data)
        /\ host_tx.state = "DATA"
        /\ Sampled < a - HostBits(10, i)
        /\ \A s \in Stage : IF Sampled - Evals(s) >= 0 THEN sync[s] = 0
                            ELSE OnLine(sync[s], b, a - Evals(s), i)
  BY DEF DownOverlap
<1>. DEFINE x == a - Evals(SYNC_STAGES - 1)
            y == a + T
<1>2. i \in BitIntervals /\ HostTxAt \in Int /\ Phase = T - 1 /\ Phase' = 0 /\ i' = i
      /\ sync' = SyncShift(sync, host_tx.pin)
  BY DEF DownTypes, DownEdge, HostSteps
<1>3. /\ SYNC_STAGES - 1 \in Stage /\ T \in Nat /\ T >= 2
      /\ HostBits(1, i) \in Int /\ HostBits(1, i) > 0
      /\ HostBits(9, i) = 9 * HostBits(1, i) /\ HostBits(10, i) = 10 * HostBits(1, i)
      /\ Evals(SYNC_STAGES) \in Int /\ Evals(SYNC_STAGES - 1) = Evals(SYNC_STAGES) - T
      /\ Evals(SYNC_STAGES) + T <= HostBits(1, i)
      /\ DutBits(9) + Mid + 2 * T <= HostBits(10, i)
      /\ DutBits(9) \in Int /\ Mid \in Int
  BY <1>2, DownNumbers
<1>4. Sampled \in Int /\ HostTxAt = Sampled + T
  BY <1>2, SampledFacts
<1>5. y = a + T /\ x = a - Evals(SYNC_STAGES - 1)
  OBVIOUS
<1>6. a \in Int /\ a < Evals(SYNC_STAGES) + DutBits(9) + Mid + T
  <2>1. Position(dut_rx) \in Nat /\ Position(dut_rx) <= DutBits(9) + Mid
    BY <1>1, PositionType DEF DownTypes, Receives
  <2>2. a \in Evals(SYNC_STAGES) + Position(dut_rx) .. Evals(SYNC_STAGES) + Position(dut_rx) + T - 1
    BY <1>1 DEF Window
  <2>. QED
    BY ONLY <1>3, <2>1, <2>2
<1>17. Sampled < a - HostBits(10, i) /\ HostBits(10, i) \in Int /\ HostBits(9, i) \in Int
  BY <1>1, <1>3
<1>7. Sampled - Evals(SYNC_STAGES - 1) < 0 /\ Sampled + T < Evals(SYNC_STAGES)
  BY ONLY <1>3, <1>4, <1>6, <1>17
<1>. HIDE DEF y, x
<1>8. /\ x \in Int /\ x <= a /\ y \in Int
      /\ \/ /\ dut_rx'.state = "CAPTURE" /\ Got' = Got
            /\ Receives(b, y)'
         \/ /\ dut_rx'.state = "RESET" /\ Got' = Append(Got, b)
            /\ x >= HostBits(9, i)
  <2>1. OnLine(sync[SYNC_STAGES - 1], b, x, i)
    <3>1. ~(Sampled - Evals(SYNC_STAGES - 1) >= 0)
      BY ONLY <1>3, <1>4, <1>7
    <3>. QED
      BY ONLY <1>1, <1>3, <1>5, <3>1
  <2>. QED
    BY <1>1, <1>5, <2>1, Reading
<1>9. /\ OnLine(host_tx.pin, host_tx.data, HostTxAt, i)
      /\ HostTxAt >= -HostBits(1, i)
  BY <1>1, PinOnLine DEF DownTypes
<1>10. HostRuns
  <2>1. HostTxAt # HostBits(9, i) - 1
    BY ONLY <1>3, <1>4, <1>7
  <2>. QED
    BY <1>1, <2>1 DEF DownEdge, HostSteps, HostIdles, HostLoads, HostEnds, DATA_BITS
<1>11. Sampled' = HostTxAt /\ Sampled' \in Int /\ Sampled' < y - HostBits(10, i)
       /\ Sampled' < Evals(SYNC_STAGES) /\ Sampled' < HostBits(1, i)
  <2>1. Sampled' = HostTxAt - 0
    BY <1>2, <1>10, SampledNext
  <2>. QED
    BY ONLY <1>2, <1>3, <1>4, <1>5, <1>6, <1>7, <1>17, <2>1
<1>12. y >= HostBits(9, i)
  <2>1. HostTxAt >= -HostBits(1, i)
    BY <1>9
  <2>2. Sampled' = HostTxAt /\ Sampled' \in Int /\ Sampled' < y - HostBits(10, i) /\ y \in Int
    BY <1>8, <1>11
  <2>. QED
    BY ONLY <1>3, <1>17, <2>1, <2>2
<1>13. \A s \in Stage : IF Sampled' - Evals(s) >= 0 THEN sync'[s] = 0
                        ELSE OnLine(sync'[s], b, y - Evals(s), i)
  <2>1. SUFFICES ASSUME NEW s \in Stage
                 PROVE  IF Sampled' - Evals(s) >= 0 THEN sync'[s] = 0
                        ELSE OnLine(sync'[s], b, y - Evals(s), i)
    OBVIOUS
  <2>2. Evals(s) \in Int /\ Evals(s) >= 0
    BY <1>2, DownNumbers
  <2>3. CASE s = 0
    <3>1. sync'[s] = host_tx.pin /\ Evals(s) = 0
      BY <1>2, <2>3, Shifted, EvalsSmall
    <3>2. CASE Sampled' >= 0
      <4>1. host_tx.pin = 0
        BY ONLY <1>2, <1>9, <1>11, <3>2, LineStart
      <4>. QED
        BY ONLY <1>11, <3>1, <3>2, <4>1
    <3>3. CASE Sampled' < 0
      <4>1. host_tx.pin = 1
        BY ONLY <1>2, <1>9, <1>11, <3>3, LineEarly
      <4>2. OnLine(sync'[s], b, y, i)
        BY ONLY <1>2, <1>8, <1>12, <3>1, <4>1, LineLate
      <4>3. y - Evals(s) = y /\ ~(Sampled' - Evals(s) >= 0)
        BY ONLY <1>8, <1>11, <3>1, <3>3
      <4>. QED
        BY <4>2, <4>3
    <3>. QED
      BY ONLY <1>11, <3>2, <3>3
  <2>4. CASE s # 0
    <3>1. sync'[s] = sync[s - 1] /\ s - 1 \in Stage /\ Evals(s - 1) = Evals(s) - T
      BY <1>2, <2>4, Shifted
    <3>2. Sampled' - Evals(s) = Sampled - Evals(s - 1) /\ y - Evals(s) = a - Evals(s - 1)
      BY ONLY <1>3, <1>4, <1>5, <1>6, <1>11, <2>2, <3>1
    <3>3. IF Sampled - Evals(s - 1) >= 0 THEN sync[s - 1] = 0
          ELSE OnLine(sync[s - 1], b, a - Evals(s - 1), i)
      BY <1>1, <3>1
    <3>. QED
      BY ONLY <3>1, <3>2, <3>3
  <2>. QED
    BY <2>3, <2>4
<1>14. /\ host_tx'.state = "DATA" /\ host_tx'.data = host_tx.data
       /\ down_sent' = Append(Append(Got, b), host_tx'.data)
  BY <1>1, <1>10 DEF HostRuns
<1>15. CASE dut_rx'.state = "CAPTURE" /\ Got' = Got /\ Receives(b, y)'
  BY ONLY <1>1, <1>2, <1>11, <1>13, <1>14, <1>15, OverlapNext
<1>16. CASE dut_rx'.state = "RESET" /\ Got' = Append(Got, b) /\ x >= HostBits(9, i)
  <2>1. ASSUME NEW s \in Stage
        PROVE  OnLine(sync'[s], host_tx.data, Sampled' - Evals(s), i)
    <3>1. Evals(s) \in Int /\ Evals(s) >= 0 /\ Evals(s) <= Evals(SYNC_STAGES) - T
      BY <1>2, DownNumbers
    <3>2. Sampled' - Evals(s) \in Int /\ Sampled' - Evals(s) < HostBits(1, i)
          /\ y - Evals(s) >= HostBits(9, i) /\ y - Evals(s) \in Int
      <4>1. x >= HostBits(9, i) /\ x \in Int /\ y \in Int
        BY <1>8, <1>16
      <4>. QED
        BY ONLY <1>3, <1>5, <1>6, <1>11, <1>17, <3>1, <4>1
    <3>3. CASE Sampled' - Evals(s) >= 0
      <4>1. sync'[s] = 0
        BY <1>13, <3>3
      <4>. QED
        BY ONLY <1>2, <3>2, <3>3, <4>1, LineStart
    <3>4. CASE Sampled' - Evals(s) < 0
      <4>1. OnLine(sync'[s], b, y - Evals(s), i)
        BY <1>13, <3>2, <3>4
      <4>2. sync'[s] = 1
        BY ONLY <1>2, <3>2, <4>1, LineLate
      <4>. QED
        BY ONLY <1>2, <3>2, <3>4, <4>2, LineEarly
    <3>. QED
      BY ONLY <3>2, <3>3, <3>4
  <2>2. DownPending'
    BY <1>2, <1>11, <1>14, <1>16, <2>1 DEF DownPending
  <2>. QED
    BY <2>2 DEF DownLine
<1>. QED
  BY <1>8, <1>15, <1>16

\* An edge of the clock.
LEMMA EdgeLine ==
  ASSUME DownTypes, DownEdge, DownLine
  PROVE  DownLine'
BY EdgeQuiet, EdgePending, EdgeReceiving, EdgeOverlap DEF DownLine

\* Between two edges only the peripheral moves.
LEMMA BetweenQuiet ==
  ASSUME DownTypes, DownBetween, DownQuiet
  PROVE  DownLine'
<1>1. Got' = Got
  BY DEF DownBetween, Got
<1>2. CASE HostIdles
  BY <1>1, <1>2 DEF HostIdles, DownQuiet, DownLine, DownBetween
<1>3. CASE HostLoads
  <2>1. DownPending'
    BY <1>1, <1>3, Taken DEF DownQuiet, DownBetween
  <2>. QED
    BY <2>1 DEF DownLine
<1>. QED
  BY <1>2, <1>3 DEF DownBetween, HostSteps, HostRuns, HostEnds, DownQuiet

\* The line moves, and the synchroniser has not seen it.
LEMMA BetweenPending ==
  ASSUME DownTypes, DownBetween, DownPending
  PROVE  DownLine'
<1>. DEFINE i == bit_interval
<1>1. i \in BitIntervals /\ HostTxAt \in Int /\ Phase \in 0 .. TicksPerClock - 2 /\ Phase' = Phase + 1
      /\ sync' = sync
  BY DEF DownTypes, DownBetween, HostSteps
<1>2. Sampled \in Int /\ HostTxAt = Sampled + Phase + 1 /\ Sampled < Evals(SYNC_STAGES)
  BY <1>1, SampledFacts DEF DownPending
<1>3. HostRuns
  <2>1. HostTxAt # HostBits(9, i) - 1
    <3>1. /\ HostBits(1, i) \in Int /\ HostBits(1, i) > 0 /\ HostBits(9, i) = 9 * HostBits(1, i)
          /\ Evals(SYNC_STAGES) \in Int /\ Evals(SYNC_STAGES) + TicksPerClock <= HostBits(1, i)
          /\ TicksPerClock \in Nat
      BY <1>1, DownNumbers
    <3>. QED
      BY ONLY <1>1, <1>2, <3>1
  <2>. QED
    BY <2>1 DEF DownBetween, HostSteps, HostIdles, HostLoads, HostEnds, DownPending, DATA_BITS
<1>4. Sampled' = Sampled
  <2>1. Phase' \in Int /\ i' = i
    BY <1>1 DEF DownBetween
  <2>2. Sampled' = HostTxAt - Phase'
    BY <1>1, <1>3, <2>1, SampledNext
  <2>. QED
    BY ONLY <1>1, <1>2, <2>2
<1>5. Got' = Got
  BY DEF DownBetween, Got
<1>6. DownPending'
  BY <1>3, <1>4, <1>5 DEF DownPending, DownBetween, HostRuns
<1>. QED
  BY <1>6 DEF DownLine

\* The peripheral goes on, ends, or takes the next byte.
LEMMA BetweenReceiving ==
  ASSUME DownTypes, DownBetween, DownReceiving
  PROVE  DownLine'
<1>. DEFINE i == bit_interval
<1>1. PICK b \in Data, a \in Window :
        /\ Receives(b, a)
        /\ down_sent = Append(Got, b)
        /\ \A s \in Stage : OnLine(sync[s], b, a - Evals(s), i)
        /\ \/ host_tx.state = "DATA" /\ host_tx.data = b /\ Sampled = a
           \/ host_tx.state = "IDLE" /\ HostBits(9, i) <= a + Phase + 1
  BY DEF DownReceiving
<1>2. /\ i \in BitIntervals /\ HostTxAt \in Int /\ Phase \in 0 .. TicksPerClock - 2 /\ Phase' = Phase + 1
      /\ sync' = sync /\ i' = i /\ TicksPerClock \in Nat
      /\ HostBits(1, i) \in Int /\ HostBits(1, i) > 0
      /\ HostBits(9, i) = 9 * HostBits(1, i) /\ HostBits(10, i) = 10 * HostBits(1, i)
  BY DownNumbers DEF DownTypes, DownBetween, HostSteps
<1>3. Sampled \in Int /\ HostTxAt = Sampled + Phase + 1
  BY <1>2, SampledFacts
<1>4. Got' = Got /\ Receives(b, a)' /\ \A s \in Stage : OnLine(sync'[s], b, a - Evals(s), i)
  BY <1>1 DEF DownBetween, Got, Receives, Window
<1>5. a \in Int
  <2>1. Position(dut_rx) \in Nat /\ Evals(SYNC_STAGES) \in Int /\ TicksPerClock \in Int
    BY <1>2, PositionType, DownNumbers DEF DownTypes
  <2>2. a \in Evals(SYNC_STAGES) + Position(dut_rx) .. Evals(SYNC_STAGES) + Position(dut_rx) + TicksPerClock - 1
    BY <1>1 DEF Window
  <2>. QED
    BY ONLY <2>1, <2>2
<1>6. CASE HostIdles
  <2>1. HostBits(9, i) <= a + Phase' + 1
    BY ONLY <1>1, <1>2, <1>5, <1>6 DEF HostIdles
  <2>2. host_tx'.state = "IDLE" /\ down_sent' = Append(Got', b)
    BY <1>1, <1>4, <1>6 DEF HostIdles
  <2>. QED
    BY ONLY <1>1, <1>2, <1>4, <2>1, <2>2, ReceivingNext
<1>7. CASE HostRuns
  <2>1. Sampled' = a /\ host_tx'.data = b
    <3>1. Phase' \in Int
      BY <1>2
    <3>2. Sampled' = HostTxAt - Phase'
      BY <1>2, <1>7, <3>1, SampledNext
    <3>3. host_tx.data = b /\ Sampled = a
      BY <1>1, <1>7 DEF HostRuns
    <3>. QED
      BY <1>2, <1>3, <1>7, <3>2, <3>3 DEF HostRuns
  <2>2. host_tx'.state = "DATA" /\ down_sent' = Append(Got', b)
    BY <1>1, <1>4, <1>7 DEF HostRuns
  <2>. QED
    BY ONLY <1>1, <1>2, <1>4, <2>1, <2>2, ReceivingNext
<1>8. CASE HostEnds
  <2>1. Sampled = a /\ HostTxAt = HostBits(9, i) - 1
    BY <1>1, <1>8 DEF HostEnds, DATA_BITS
  <2>2. HostBits(9, i) <= a + Phase' + 1
    BY ONLY <1>2, <1>3, <1>5, <2>1
  <2>3. host_tx'.state = "IDLE" /\ down_sent' = Append(Got', b)
    BY <1>1, <1>4, <1>8 DEF HostEnds
  <2>. QED
    BY ONLY <1>1, <1>2, <1>4, <2>2, <2>3, ReceivingNext
<1>9. CASE HostLoads
  <2>1. HostBits(9, i) <= a + Phase + 1
    BY <1>1, <1>9 DEF HostLoads
  <2>2. Sampled' = -HostBits(1, i) - Phase' - 1
    <3>1. Phase' \in Int
      BY <1>2
    <3>. QED
      BY <1>2, <1>9, <3>1, SampledNext
  <2>3. Sampled' < a - HostBits(10, i)
    BY ONLY <1>2, <1>5, <2>1, <2>2
  <2>4. \A s \in Stage : ~(Sampled' - Evals(s) >= 0)
    <3>1. SUFFICES ASSUME NEW s \in Stage PROVE ~(Sampled' - Evals(s) >= 0)
      OBVIOUS
    <3>2. Evals(s) \in Int /\ Evals(s) >= 0
      BY <1>2, DownNumbers
    <3>. QED
      BY ONLY <1>2, <2>2, <3>2
  <2>5. \A s \in Stage : IF Sampled' - Evals(s) >= 0 THEN sync'[s] = 0
                         ELSE OnLine(sync'[s], b, a - Evals(s), i)
    BY ONLY <1>4, <2>4
  <2>6. host_tx'.state = "DATA" /\ down_sent' = Append(Append(Got', b), host_tx'.data)
    BY <1>1, <1>4, <1>9 DEF HostLoads
  <2>. QED
    BY ONLY <1>1, <1>2, <1>4, <2>3, <2>5, <2>6, OverlapNext
<1>. QED
  BY <1>6, <1>7, <1>8, <1>9 DEF DownBetween, HostSteps

\* The next byte goes on.
LEMMA BetweenOverlap ==
  ASSUME DownTypes, DownBetween, DownOverlap
  PROVE  DownLine'
<1>. DEFINE i == bit_interval
            T == TicksPerClock
<1>1. PICK b \in Data, a \in Window :
        /\ Receives(b, a)
        /\ down_sent = Append(Append(Got, b), host_tx.data)
        /\ host_tx.state = "DATA"
        /\ Sampled < a - HostBits(10, i)
        /\ \A s \in Stage : IF Sampled - Evals(s) >= 0 THEN sync[s] = 0
                            ELSE OnLine(sync[s], b, a - Evals(s), i)
  BY DEF DownOverlap
<1>2. /\ i \in BitIntervals /\ HostTxAt \in Int /\ Phase \in 0 .. T - 2 /\ Phase' = Phase + 1
      /\ sync' = sync /\ i' = i
  BY DEF DownTypes, DownBetween, HostSteps
<1>3. /\ T \in Nat /\ HostBits(1, i) \in Int /\ HostBits(1, i) > 0
      /\ HostBits(9, i) = 9 * HostBits(1, i) /\ HostBits(10, i) = 10 * HostBits(1, i)
      /\ Evals(SYNC_STAGES) \in Int /\ Evals(SYNC_STAGES) + T <= HostBits(1, i)
      /\ DutBits(9) + Mid + 2 * T <= HostBits(10, i)
      /\ DutBits(9) \in Int /\ Mid \in Int
  BY <1>2, DownNumbers
<1>4. Sampled \in Int /\ HostTxAt = Sampled + Phase + 1
  BY <1>2, SampledFacts
<1>5. Sampled < Evals(SYNC_STAGES)
  <2>1. Position(dut_rx) \in Nat /\ Position(dut_rx) <= DutBits(9) + Mid
    BY <1>1, PositionType DEF DownTypes, Receives
  <2>2. a \in Evals(SYNC_STAGES) + Position(dut_rx) .. Evals(SYNC_STAGES) + Position(dut_rx) + T - 1
    BY <1>1 DEF Window
  <2>3. Sampled < a - HostBits(10, i) /\ HostBits(10, i) \in Int
    BY <1>1, <1>3
  <2>. QED
    BY ONLY <1>3, <1>4, <2>1, <2>2, <2>3
<1>6. HostRuns
  <2>1. HostTxAt # HostBits(9, i) - 1
    BY ONLY <1>2, <1>3, <1>4, <1>5
  <2>. QED
    BY <1>1, <2>1 DEF DownBetween, HostSteps, HostIdles, HostLoads, HostEnds, DATA_BITS
<1>7. Sampled' = Sampled
  <2>1. Phase' \in Int
    BY <1>2
  <2>2. Sampled' = HostTxAt - Phase'
    BY <1>2, <1>6, <2>1, SampledNext
  <2>. QED
    BY ONLY <1>2, <1>4, <2>2
<1>8. Got' = Got /\ Receives(b, a)'
  BY <1>1 DEF DownBetween, Got, Receives, Window
<1>9. host_tx'.state = "DATA" /\ down_sent' = Append(Append(Got', b), host_tx'.data)
  BY <1>1, <1>6, <1>8 DEF HostRuns
<1>10. Sampled' < a - HostBits(10, i)
  BY <1>1, <1>7
<1>11. \A s \in Stage : IF Sampled' - Evals(s) >= 0 THEN sync'[s] = 0
                        ELSE OnLine(sync'[s], b, a - Evals(s), i)
  BY ONLY <1>1, <1>2, <1>7
<1>. QED
  BY ONLY <1>1, <1>2, <1>8, <1>9, <1>10, <1>11, OverlapNext

\* An evaluation between two edges.
LEMMA BetweenLine ==
  ASSUME DownTypes, DownBetween, DownLine
  PROVE  DownLine'
BY BetweenQuiet, BetweenPending, BetweenReceiving, BetweenOverlap DEF DownLine

-----------------------------------------------------------------------------
(* The line down: the reset. *)

\* Evaluations so far.
Elapsed == IF reset_count = 0 THEN time ELSE HalfClock + Evals(reset_count - 1) + Phase

\* The peripheral may have begun to send, but has not reached the start bit:
\* the synchroniser fills with ones.
DownPowerUp ==
  /\ down_received = <<>> /\ ~dut_rx.valid
  /\ reset_count = 0 => time < HalfClock
  /\ Elapsed = 0 => host_tx.state = "IDLE"
  /\ Elapsed >= 1 => PinInv
  /\ \/ host_tx.state = "IDLE" /\ down_sent = <<>>
     \/ host_tx.state = "DATA" /\ down_sent = <<host_tx.data>>
        /\ HostTxAt < Elapsed - HostBits(1, bit_interval)
  /\ \A s \in Stage : s + 2 <= reset_count => sync[s] = 1

\* The invariant of the line down.
DownInv == IF sresetn THEN PinInv /\ DownLine ELSE DownPowerUp

\* Elapsed counts evaluations, and the reset is over within five clocks.
LEMMA ElapsedStep ==
  ASSUME time \in Ticks, reset_count \in 0..4, reset_count = 0 => time < HalfClock,
         time' = NextTick(time), reset_count' = ResetCount(reset_count, getEvent(time'))
  PROVE  /\ Elapsed \in Nat /\ Elapsed' = Elapsed + 1 /\ Elapsed' <= 5 * TicksPerClock
         /\ reset_count' = 0 => time' < HalfClock
         /\ reset_count' = IF getEvent(time') = "RISING" THEN reset_count + 1 ELSE reset_count
         /\ reset_count > 0 => Elapsed > 0
<1>1. HalfClock \in 1 .. TicksPerClock - 1 /\ TicksPerClock \in Nat
  BY HalfClockType
<1>2. reset_count' = IF getEvent(time') = "RISING" THEN reset_count + 1 ELSE reset_count
  BY DEF ResetCount, ResetEdges
<1>3. /\ time' \in Ticks /\ Phase \in 0 .. TicksPerClock - 1
      /\ getEvent(time') = "RISING" => Phase = TicksPerClock - 1 /\ Phase' = 0 /\ time' = HalfClock
      /\ getEvent(time') # "RISING" => Phase < TicksPerClock - 1 /\ Phase' = Phase + 1 /\ time' # HalfClock
  BY TimeStep
<1>4. time < HalfClock => time' = time + 1
  BY <1>1 DEF NextTick, Ticks
<1>5. reset_count \in 0..4 /\ time \in 0 .. TicksPerClock - 1
  BY DEF Ticks
<1>6. CASE reset_count = 0
  <2>1. Elapsed = time /\ time < HalfClock /\ time' = time + 1
    BY <1>4, <1>6 DEF Elapsed
  <2>2. CASE getEvent(time') = "RISING"
    <3>1. reset_count' = 1 /\ Phase' = 0 /\ time' = HalfClock
      BY <1>2, <1>3, <1>6, <2>2
    <3>2. Elapsed' = HalfClock + Evals(0) + 0
      BY <3>1 DEF Elapsed, HalfClock
    <3>. QED
      BY <1>1, <1>2, <1>5, <1>6, <2>1, <2>2, <3>1, <3>2, EvalsSmall
  <2>3. CASE getEvent(time') # "RISING"
    <3>1. reset_count' = 0 /\ time' # HalfClock
      BY <1>2, <1>3, <1>6, <2>3
    <3>2. Elapsed' = time'
      BY <3>1 DEF Elapsed
    <3>. QED
      BY <1>1, <1>2, <1>5, <1>6, <2>1, <2>3, <3>1, <3>2
  <2>. QED
    BY <2>2, <2>3
<1>7. CASE reset_count # 0
  <2>1. reset_count - 1 \in 0..3 /\ reset_count - 1 \in Int /\ 0 \in Int /\ 3 \in Int
        /\ 0 <= reset_count - 1 /\ reset_count - 1 <= 3 /\ reset_count - 1 + 1 = reset_count
    BY <1>5, <1>7
  <2>2. /\ Evals(reset_count - 1) \in Int /\ Evals(0) <= Evals(reset_count - 1)
        /\ Evals(reset_count - 1) <= Evals(3)
        /\ Evals(reset_count - 1 + 1) = Evals(reset_count - 1) + TicksPerClock
    BY ONLY <2>1, EvalsFacts, EvalsMonotone
  <2>3. Evals(3) = 3 * TicksPerClock /\ Evals(0) = 0
    BY DEF Evals
  <2>4. Elapsed = HalfClock + Evals(reset_count - 1) + Phase
    BY <1>7 DEF Elapsed
  <2>5. CASE getEvent(time') = "RISING"
    <3>1. reset_count' = reset_count + 1 /\ Phase = TicksPerClock - 1 /\ Phase' = 0
      BY <1>2, <1>3, <2>5
    <3>2. reset_count' # 0 /\ reset_count' - 1 = reset_count - 1 + 1
      BY <1>5, <3>1
    <3>3. Elapsed' = HalfClock + Evals(reset_count - 1 + 1) + Phase'
      BY <3>2 DEF Elapsed, HalfClock
    <3>. QED
      BY <1>1, <1>2, <1>5, <1>7, <2>2, <2>3, <2>4, <2>5, <3>1, <3>2, <3>3
  <2>6. CASE getEvent(time') # "RISING"
    <3>1. reset_count' = reset_count /\ Phase' = Phase + 1 /\ Phase < TicksPerClock - 1
      BY <1>2, <1>3, <2>6
    <3>2. Elapsed' = HalfClock + Evals(reset_count - 1) + Phase'
      BY <1>7, <3>1 DEF Elapsed, HalfClock
    <3>. QED
      BY <1>1, <1>2, <1>3, <1>5, <1>7, <2>2, <2>3, <2>4, <2>6, <3>1, <3>2
  <2>. QED
    BY <2>5, <2>6
<1>. QED
  BY <1>6, <1>7

\* What every step keeps, in reset or not.
DownCore ==
  /\ bit_interval \in BitIntervals
  /\ time \in Ticks /\ reset_count \in 0..ResetEdges
  /\ host_tx \in HostTxType
  /\ host_tx.state = "DATA" => host_tx.bit <= DATA_BITS + 1
  /\ dut_rx \in DutRxType /\ RxCounters(dut_rx)
  /\ sync \in [Stage -> Bit]

\* The invariant of the line down holds at first.
LEMMA DownCoreInit == Init => DownCore /\ DownInv
<1>. SUFFICES ASSUME Init PROVE DownCore /\ DownInv
  OBVIOUS
<1>1. HalfClock \in 1 .. TicksPerClock - 1
  BY HalfClockType
<1>2. bit_interval \in BitIntervals /\ bit_interval \in Nat
  BY LinkAssumption DEF Init
<1>3. time \in Ticks /\ reset_count \in 0..ResetEdges /\ ~sresetn
  BY DEF Init, Ticks, ResetEdges, sresetn, Released
<1>4. host_tx \in HostTxType
  BY <1>2 DEF Init, HostTxType, Bit, Data, DATA_BITS
<1>5. dut_rx \in DutRxType /\ RxCounters(dut_rx)
  <2>1. 0 \in 0..CLKS_PER_BIT - 1 /\ 0 \in 0..DATA_BITS + 1 /\ {} \in Data
    BY DEF DATA_BITS, Data
  <2>2. PICK st \in {"RESET", "CAPTURE"} :
          dut_rx = [state |-> st, baud_ctr |-> 0, data_ctr |-> 0, data |-> {}, valid |-> FALSE]
    BY DEF Init
  <2>3. dut_rx \in DutRxType
    BY <2>1, <2>2 DEF DutRxType
  <2>4. ~dut_rx.valid /\ dut_rx.data_ctr = 0
    BY <2>2
  <2>. QED
    BY <2>3, <2>4 DEF RxCounters, DATA_BITS
<1>6. sync \in [Stage -> Bit]
  BY DEF Init, Bit
<1>7. DownPowerUp
  <2>1. Elapsed = 0
    BY DEF Elapsed, Init
  <2>2. ~dut_rx.valid
    BY DEF Init
  <2>3. \A s \in Stage : ~(s + 2 <= reset_count)
    BY DEF Init, Stage
  <2>. QED
    BY <1>1, <2>1, <2>2, <2>3 DEF DownPowerUp, Init
<1>. QED
  BY <1>2, <1>3, <1>4, <1>5, <1>6, <1>7 DEF DownCore, DownInv, Init

\* An evaluation, seen from the line down.
LEMMA DownEval ==
  ASSUME DownCore, Eval
  PROVE  /\ DownCore'
         /\ bit_interval' = bit_interval
         /\ HostSteps
         /\ PinInv \/ host_tx.state = "IDLE" => PinInv'
         /\ getEvent(time') = "RISING" =>
              /\ sync' = SyncShift(sync, host_tx.pin) /\ down_received' = Got
              /\ sresetn => RxSteps(sync[SYNC_STAGES - 1])
              /\ ~sresetn => dut_rx' = [dut_rx EXCEPT !.state = "RESET"]
         /\ getEvent(time') # "RISING" =>
              sync' = sync /\ down_received' = down_received /\ dut_rx' = dut_rx
<1>1. /\ bit_interval' = bit_interval /\ HostTx /\ time' = NextTick(time)
      /\ reset_count' = ResetCount(reset_count, getEvent(time'))
      /\ IF getEvent(time') = "RISING" THEN Clk
         ELSE UNCHANGED <<sync, dut_rx, dut_tx, down_received, up_sent>>
  BY DEF Eval
<1>2. /\ host_tx' \in HostTxType
      /\ host_tx'.state = "DATA" => host_tx'.bit <= DATA_BITS + 1
      /\ PinInv \/ host_tx.state = "IDLE" => PinInv'
      /\ HostIdles \/ HostLoads \/ HostRuns \/ HostEnds
      /\ HostTxAt \in Int
  BY <1>1, HostTxStep DEF DownCore
<1>6. HostSteps
  BY <1>2 DEF HostSteps
<1>7. HostTxType' = HostTxType
  BY <1>1 DEF HostTxType
<1>3. time' \in Ticks /\ reset_count' \in 0..ResetEdges
  BY <1>1, TimeStep DEF DownCore, ResetCount, ResetEdges
<1>4. CASE getEvent(time') = "RISING"
  <2>1. /\ sync' = SyncShift(sync, host_tx.pin) /\ dut_rx' = DutRx(sync[SYNC_STAGES - 1])
        /\ down_received' = Got
    BY <1>1, <1>4 DEF Clk, Capture, Got
  <2>2. sync' \in [Stage -> Bit]
    <3>1. host_tx.pin \in Bit
      BY DEF DownCore, HostTxType
    <3>2. \A s \in Stage : s # 0 => s - 1 \in Stage
      BY DEF Stage
    <3>. QED
      BY <2>1, <3>1, <3>2 DEF SyncShift, DownCore
  <2>3. CASE sresetn
    <3>1. sync[SYNC_STAGES - 1] \in Bit
      BY DownNumbers DEF DownCore
    <3>2. dut_rx' \in DutRxType /\ RxCounters(dut_rx') /\ RxSteps(sync[SYNC_STAGES - 1])
      BY <2>1, <2>3, <3>1, DutRxStep DEF DownCore, RxSteps
    <3>3. RxCounters(dut_rx)'
      BY <3>2 DEF RxCounters
    <3>4. DownCore'
      BY ONLY DownCore, <1>1, <1>2, <1>3, <1>7, <2>2, <3>2, <3>3 DEF DownCore
    <3>. QED
      BY ONLY <1>1, <1>2, <1>4, <1>6, <2>1, <2>3, <3>2, <3>4
  <2>4. CASE ~sresetn
    <3>1. dut_rx' = [dut_rx EXCEPT !.state = "RESET"]
      BY <2>1, <2>4 DEF DutRx
    <3>2. dut_rx' \in DutRxType
      BY <3>1 DEF DownCore, DutRxType
    <3>3. dut_rx'.state = "RESET"
      BY <3>1 DEF DownCore, DutRxType
    <3>4. RxCounters(dut_rx)'
      BY <3>3 DEF RxCounters
    <3>5. DownCore'
      BY ONLY DownCore, <1>1, <1>2, <1>3, <1>7, <2>2, <3>2, <3>4 DEF DownCore
    <3>. QED
      BY ONLY <1>1, <1>2, <1>4, <1>6, <2>1, <2>4, <3>1, <3>5
  <2>. QED
    BY <2>3, <2>4
<1>5. CASE getEvent(time') # "RISING"
  <2>1. sync' = sync /\ down_received' = down_received /\ dut_rx' = dut_rx
    BY <1>1, <1>5
  <2>2. RxCounters(dut_rx)'
    BY <2>1 DEF DownCore, RxCounters
  <2>3. DownCore'
    BY ONLY DownCore, <1>1, <1>2, <1>3, <1>7, <2>1, <2>2 DEF DownCore
  <2>. QED
    BY ONLY <1>1, <1>2, <1>5, <1>6, <2>1, <2>3
<1>. QED
  BY <1>4, <1>5

-----------------------------------------------------------------------------
(* The line down: every step. *)

\* An evaluation before the end of the reset.
LEMMA PowerUpStep ==
  ASSUME DownCore, DownPowerUp, ~sresetn, Eval
  PROVE  DownInv'
<1>. DEFINE i == bit_interval
            Ready == \/ host_tx.state = "IDLE" /\ down_sent = <<>>
                     \/ host_tx.state = "DATA" /\ down_sent = <<host_tx.data>>
                        /\ HostTxAt < Elapsed - HostBits(1, i)
<1>1. /\ DownCore' /\ i' = i /\ HostSteps
      /\ PinInv \/ host_tx.state = "IDLE" => PinInv'
      /\ getEvent(time') = "RISING" =>
           /\ sync' = SyncShift(sync, host_tx.pin) /\ down_received' = Got
           /\ dut_rx' = [dut_rx EXCEPT !.state = "RESET"]
      /\ getEvent(time') # "RISING" =>
           sync' = sync /\ down_received' = down_received /\ dut_rx' = dut_rx
  BY DownEval
<1>2. /\ time \in Ticks /\ reset_count \in 0..4 /\ i \in BitIntervals
      /\ time' = NextTick(time) /\ reset_count' = ResetCount(reset_count, getEvent(time'))
  BY DEF DownCore, sresetn, Released, ResetEdges, Eval
<1>3. /\ Elapsed \in Nat /\ Elapsed' = Elapsed + 1 /\ Elapsed' <= 5 * TicksPerClock
      /\ reset_count' = 0 => time' < HalfClock
      /\ reset_count' = IF getEvent(time') = "RISING" THEN reset_count + 1 ELSE reset_count
      /\ reset_count > 0 => Elapsed > 0
  BY <1>2, ElapsedStep DEF DownPowerUp
<1>4. /\ HostBits(1, i) \in Int /\ HostBits(1, i) > 0 /\ HostBits(9, i) = 9 * HostBits(1, i)
      /\ 5 * TicksPerClock <= HostBits(1, i) /\ TicksPerClock \in Nat /\ HostBits(1, i)' = HostBits(1, i)
  BY <1>1, <1>2, DownNumbers, ResetIsShort
<1>5. down_received = <<>> /\ ~dut_rx.valid /\ Got = <<>> /\ Ready
  BY DEF DownPowerUp, Got
<1>6. PinInv'
  <2>1. Elapsed = 0 \/ Elapsed >= 1
    BY <1>3
  <2>. QED
    BY <1>1, <2>1 DEF DownPowerUp
<1>7. HostTxAt \in Int /\ (HostIdles \/ HostLoads \/ HostRuns \/ HostEnds)
  BY <1>1 DEF HostSteps
<1>8. Ready'
  <2>1. CASE host_tx.state = "IDLE" /\ down_sent = <<>>
    <3>1. CASE HostIdles
      BY <2>1, <3>1 DEF HostIdles
    <3>2. CASE HostLoads
      <4>1. host_tx'.state = "DATA" /\ down_sent' = <<host_tx'.data>> /\ HostTxAt' = -HostBits(1, i)
        BY <2>1, <3>2 DEF HostLoads
      <4>2. HostTxAt' < Elapsed' - HostBits(1, i)
        BY ONLY <1>3, <1>4, <4>1
      <4>. QED
        BY ONLY <1>1, <1>4, <4>1, <4>2
    <3>. QED
      BY <1>7, <2>1, <3>1, <3>2 DEF HostRuns, HostEnds
  <2>2. CASE host_tx.state = "DATA" /\ down_sent = <<host_tx.data>> /\ HostTxAt < Elapsed - HostBits(1, i)
    <3>1. HostTxAt # HostBits(9, i) - 1
      BY ONLY <1>3, <1>4, <1>7, <2>2
    <3>2. HostRuns
      BY <1>7, <2>2, <3>1 DEF HostIdles, HostLoads, HostEnds, DATA_BITS
    <3>3. host_tx'.state = "DATA" /\ down_sent' = <<host_tx'.data>> /\ HostTxAt' = HostTxAt + 1
      BY <2>2, <3>2 DEF HostRuns
    <3>4. HostTxAt' < Elapsed' - HostBits(1, i)
      BY ONLY <1>3, <1>4, <1>7, <2>2, <3>3
    <3>. QED
      BY ONLY <1>1, <1>4, <3>3, <3>4
  <2>. QED
    BY <1>5, <2>1, <2>2
<1>9. Elapsed >= 1 => host_tx.pin = 1
  <2>1. SUFFICES ASSUME Elapsed >= 1 PROVE host_tx.pin = 1
    OBVIOUS
  <2>2. PinInv
    BY <2>1 DEF DownPowerUp
  <2>3. CASE host_tx.state = "IDLE"
    BY <2>2, <2>3 DEF PinInv
  <2>4. CASE host_tx.state = "DATA" /\ HostTxAt < Elapsed - HostBits(1, i)
    <3>1. HostTxAt < 0
      BY ONLY <1>3, <1>4, <1>7, <2>4
    <3>2. OnLine(host_tx.pin, host_tx.data, HostTxAt, i)
      BY <2>2, <2>4, PinOnLine DEF DownCore
    <3>. QED
      BY ONLY <1>2, <1>7, <3>1, <3>2, LineEarly
  <2>. QED
    BY <1>5, <2>3, <2>4
<1>10. \A s \in Stage : s + 2 <= reset_count' => sync'[s] = 1
  <2>1. SUFFICES ASSUME NEW s \in Stage, s + 2 <= reset_count' PROVE sync'[s] = 1
    OBVIOUS
  <2>2. s \in Nat
    BY DEF Stage
  <2>3. CASE getEvent(time') # "RISING"
    BY <1>1, <1>3, <2>1, <2>3 DEF DownPowerUp
  <2>4. CASE getEvent(time') = "RISING"
    <3>1. reset_count' = reset_count + 1 /\ sync' = SyncShift(sync, host_tx.pin)
      BY <1>1, <1>3, <2>4
    <3>2. CASE s = 0
      <4>1. Elapsed >= 1
        BY <1>2, <1>3, <2>1, <3>1, <3>2
      <4>. QED
        BY <1>9, <3>1, <3>2, <4>1, Shifted
    <3>3. CASE s # 0
      <4>1. sync'[s] = sync[s - 1] /\ s - 1 \in Stage
        BY <3>1, <3>3, Shifted
      <4>2. (s - 1) + 2 <= reset_count
        BY <1>2, <2>1, <2>2, <3>1
      <4>. QED
        BY <4>1, <4>2 DEF DownPowerUp
    <3>. QED
      BY <3>2, <3>3
  <2>. QED
    BY <2>3, <2>4
<1>11. down_received' = <<>> /\ ~dut_rx'.valid
  <2>1. dut_rx \in DutRxType
    BY DEF DownCore
  <2>2. [dut_rx EXCEPT !.state = "RESET"].valid = dut_rx.valid
    BY <2>1 DEF DutRxType
  <2>. QED
    BY <1>1, <1>5, <2>2
<1>12. CASE ~sresetn'
  <2>1. DownPowerUp'
    <3>1. Elapsed' # 0
      BY <1>3
    <3>. QED
      BY <1>3, <1>6, <1>8, <1>10, <1>11, <3>1 DEF DownPowerUp
  <2>. QED
    BY <1>12, <2>1 DEF DownInv
<1>13. CASE sresetn'
  <2>1. reset_count' = 5 /\ getEvent(time') = "RISING"
    BY <1>2, <1>3, <1>13 DEF sresetn, Released, ResetEdges
  <2>2. \A s \in Stage : sync'[s] = 1
    BY <1>10, <2>1, ResetIsShort, <1>2 DEF Stage
  <2>3. dut_rx'.state = "RESET" /\ Got' = <<>>
    <3>1. dut_rx \in DutRxType
      BY DEF DownCore
    <3>2. dut_rx'.state = "RESET"
      BY <1>1, <2>1, <3>1 DEF DutRxType
    <3>. QED
      BY <1>11, <3>2 DEF Got
  <2>4. CASE host_tx'.state = "IDLE" /\ down_sent' = <<>>
    BY <1>6, <1>13, <2>2, <2>3, <2>4 DEF DownInv, DownLine, DownQuiet
  <2>5. CASE host_tx'.state = "DATA" /\ down_sent' = <<host_tx'.data>> /\ HostTxAt' < Elapsed' - HostBits(1, i)'
    <3>1. Phase' = 0
      BY <1>2, <2>1, TimeStep
    <3>3. HostTxAt' \in Int
      <4>1. CASE HostLoads
        BY <1>4, <4>1 DEF HostLoads
      <4>2. CASE HostRuns
        BY <1>7, <4>2 DEF HostRuns
      <4>. QED
        BY <1>7, <2>5, <4>1, <4>2 DEF HostIdles, HostEnds
    <3>2. Sampled' = HostTxAt' - 1
      <4>1. Sampled' = HostTxAt' - Phase' - 1
        BY DEF Sampled
      <4>. QED
        BY ONLY <3>1, <3>3, <4>1
    <3>4. Sampled' \in Int /\ Sampled' < 0
      <4>1. HostTxAt' < Elapsed' - HostBits(1, i)
        BY ONLY <1>4, <2>5
      <4>2. Elapsed' \in Int /\ Elapsed' <= HostBits(1, i) /\ HostBits(1, i) \in Int
        BY ONLY <1>3, <1>4
      <4>3. HostTxAt' < 0
        BY ONLY <3>3, <4>1, <4>2
      <4>4. \A u \in Int : u < 0 => u - 1 \in Int /\ u - 1 < 0
        OBVIOUS
      <4>. QED
        BY ONLY <3>2, <3>3, <4>3, <4>4
    <3>5. Sampled' < Evals(SYNC_STAGES)
      <4>1. Evals(SYNC_STAGES) \in Int /\ Evals(SYNC_STAGES) >= TicksPerClock
        BY <1>2, DownNumbers
      <4>. QED
        BY ONLY <1>4, <3>4, <4>1
    <3>6. ASSUME NEW s \in Stage
          PROVE  OnLine(sync'[s], host_tx'.data, Sampled' - Evals(s), i)
      <4>1. Evals(s) \in Int /\ Evals(s) >= 0
        BY <1>2, DownNumbers
      <4>2. Sampled' - Evals(s) \in Int /\ Sampled' - Evals(s) < 0 /\ sync'[s] = 1
        BY <2>2, <3>4, <4>1
      <4>. QED
        BY ONLY <1>2, <4>2, LineEarly
    <3>7. down_sent' = Append(Got', host_tx'.data)
      BY <2>3, <2>5
    <3>8. DownPending'
      BY <1>1, <2>3, <2>5, <3>5, <3>6, <3>7 DEF DownPending
    <3>. QED
      BY <1>6, <1>13, <3>8 DEF DownInv, DownLine
  <2>. QED
    BY <1>8, <2>4, <2>5
<1>. QED
  BY <1>12, <1>13

\* Every evaluation keeps the invariant of the line down.
LEMMA DownStep ==
  ASSUME DownCore, DownInv, Eval
  PROVE  DownCore' /\ DownInv'
<1>1. DownCore'
  BY DownEval
<1>2. CASE ~sresetn
  BY <1>1, <1>2, PowerUpStep DEF DownInv
<1>3. CASE sresetn
  <2>1. DownTypes /\ DownLine
    BY <1>3 DEF DownInv, DownCore, DownTypes
  <2>2. /\ bit_interval' = bit_interval /\ HostSteps /\ PinInv'
        /\ getEvent(time') = "RISING" =>
             /\ sync' = SyncShift(sync, host_tx.pin) /\ down_received' = Got
             /\ RxSteps(sync[SYNC_STAGES - 1])
        /\ getEvent(time') # "RISING" =>
             sync' = sync /\ down_received' = down_received /\ dut_rx' = dut_rx
    BY <1>3, DownEval DEF DownInv
  <2>3. /\ time' \in Ticks /\ Phase \in 0 .. TicksPerClock - 1
        /\ getEvent(time') = "RISING" => Phase = TicksPerClock - 1 /\ Phase' = 0 /\ time' = HalfClock
        /\ getEvent(time') # "RISING" => Phase < TicksPerClock - 1 /\ Phase' = Phase + 1 /\ time' # HalfClock
    BY TimeStep DEF DownCore, Eval
  <2>4. DownEdge \/ DownBetween
    <3>1. CASE getEvent(time') = "RISING"
      BY <2>2, <2>3, <3>1 DEF DownEdge
    <3>2. CASE getEvent(time') # "RISING"
      <4>1. Phase \in 0 .. TicksPerClock - 2
        BY <2>3, <3>2
      <4>. QED
        BY <2>2, <2>3, <3>2, <4>1 DEF DownBetween
    <3>. QED
      BY <3>1, <3>2
  <2>5. DownLine'
    BY <2>1, <2>4, EdgeLine, BetweenLine
  <2>6. sresetn'
    BY <1>3 DEF sresetn, Released, ResetCount, ResetEdges, Eval
  <2>. QED
    BY <1>1, <2>2, <2>5, <2>6 DEF DownInv
<1>. QED
  BY <1>2, <1>3

-----------------------------------------------------------------------------
(* uart_tx sends. *)

\* The registers of uart_tx.
DutTxType == [state : {"CAPTURE", "SEND"}, baud_ctr : 0..CLKS_PER_BIT - 1,
              data_ctr : 0..DATA_BITS + 2, data : Data, serial_data_reg : Bit]

TxCounters(t) == t.state = "SEND" => t.data_ctr <= DATA_BITS + 1

\* The place in a byte of uart_tx's line, and of the peripheral that listens.
DutTxAt == Position(dut_tx) - TicksPerClock + Phase

HostRxAt == 1 + bit_interval \div 2 + HostBits(host_rx.bit, bit_interval) - host_rx.timer

\* The line of uart_tx: it changes an edge after the counters.
TxLine ==
  /\ dut_tx.state = "CAPTURE" => dut_tx.serial_data_reg = 1
  /\ dut_tx.state = "SEND" =>
       dut_tx.serial_data_reg =
         IF dut_tx.baud_ctr > 0 THEN LineBit(dut_tx.data, dut_tx.data_ctr)
         ELSE IF dut_tx.data_ctr > 0 THEN LineBit(dut_tx.data, dut_tx.data_ctr - 1)
         ELSE 1

\* What an edge out of reset does to uart_tx.
TxRests == dut_tx.state = "CAPTURE" /\ dut_tx'.state = "CAPTURE" /\ up_sent' = up_sent

TxLoads ==
  /\ dut_tx.state = "CAPTURE" /\ dut_tx'.state = "SEND"
  /\ dut_tx'.data \in Byte /\ up_sent' = Append(up_sent, dut_tx'.data)
  /\ Position(dut_tx') = 0

TxRuns ==
  /\ dut_tx.state = "SEND" /\ dut_tx'.state = "SEND"
  /\ dut_tx'.data = dut_tx.data /\ up_sent' = up_sent
  /\ Position(dut_tx') = Position(dut_tx) + TicksPerClock

TxEnds ==
  /\ dut_tx.state = "SEND" /\ dut_tx'.state = "CAPTURE"
  /\ up_sent' = up_sent
  /\ Position(dut_tx) = DutBits(10) - TicksPerClock

TxSteps == TxRests \/ TxLoads \/ TxRuns \/ TxEnds

\* uart_tx: it rests, takes a byte, goes on by an edge, or ends.
LEMMA DutTxStep ==
  ASSUME dut_tx \in DutTxType, TxCounters(dut_tx), TxLine, sresetn, DutTx
  PROVE  /\ dut_tx' \in DutTxType
         /\ TxCounters(dut_tx)'
         /\ TxLine'
         /\ TxSteps
<1>. DEFINE baud == dut_tx.baud_ctr
            bit  == dut_tx.data_ctr
<1>1. /\ bit \in 0..10 /\ baud \in 0..CLKS_PER_BIT - 1 /\ dut_tx.data \in Data
      /\ dut_tx.state \in {"CAPTURE", "SEND"} /\ dut_tx.serial_data_reg \in Bit
  BY DEF DutTxType, DATA_BITS
<1>2. CASE dut_tx.state = "CAPTURE"
  <2>1. dut_tx.serial_data_reg = 1
    BY <1>2 DEF TxLine
  <2>2. 0 \in 0..CLKS_PER_BIT - 1 /\ 0 \in 0..DATA_BITS + 2
    BY DEF DATA_BITS
  <2>3. CASE dut_tx' = Idle(dut_tx) /\ UNCHANGED up_sent
    <3>1. dut_tx' = [dut_tx EXCEPT !.baud_ctr = 0, !.data_ctr = 0]
      BY <2>3 DEF Idle
    <3>2. dut_tx' \in DutTxType
      BY ONLY <2>2, <3>1, dut_tx \in DutTxType DEF DutTxType
    <3>3. dut_tx'.state = "CAPTURE" /\ dut_tx'.serial_data_reg = 1
      BY <1>2, <2>1, <3>1 DEF DutTxType
    <3>. QED
      BY <1>2, <2>3, <3>2, <3>3 DEF TxCounters, TxLine, TxRests, TxSteps
  <2>4. CASE \E b \in Byte : /\ dut_tx' = [Idle(dut_tx) EXCEPT !.state = "SEND", !.data = b]
                             /\ up_sent' = Append(up_sent, b)
    <3>1. PICK b \in Byte : /\ dut_tx' = [Idle(dut_tx) EXCEPT !.state = "SEND", !.data = b]
                            /\ up_sent' = Append(up_sent, b)
      BY <2>4
    <3>2. dut_tx' = [dut_tx EXCEPT !.baud_ctr = 0, !.data_ctr = 0, !.state = "SEND", !.data = b]
      BY <3>1 DEF Idle, DutTxType
    <3>3. b \in Data
      BY LinkAssumption DEF Data
    <3>4. dut_tx' \in DutTxType
      BY ONLY <2>2, <3>2, <3>3, dut_tx \in DutTxType DEF DutTxType
    <3>5. /\ dut_tx'.state = "SEND" /\ dut_tx'.data = b /\ dut_tx'.serial_data_reg = 1
          /\ dut_tx'.baud_ctr = 0 /\ dut_tx'.data_ctr = 0
      BY <2>1, <3>2 DEF DutTxType
    <3>6. Position(dut_tx') = 0
      BY <3>5, EvalsSmall, DutBitsValues DEF Position
    <3>. QED
      BY <1>2, <3>1, <3>4, <3>5, <3>6 DEF TxCounters, TxLine, TxLoads, TxSteps, DATA_BITS
  <2>. QED
    BY <1>2, <2>3, <2>4 DEF DutTx, s_axis_tready
<1>3. CASE dut_tx.state = "SEND"
  <2>1. dut_tx' = DutTxSend /\ up_sent' = up_sent
    BY <1>3 DEF DutTx, s_axis_tready
  <2>2. bit \in 0..9
    BY <1>1, <1>3 DEF TxCounters, DATA_BITS
  <2>3. /\ BitEnds(dut_tx) <=> baud = CLKS_PER_BIT - 1
        /\ (baud + 1) % BaudRange = baud + 1 /\ (bit + 1) % 16 = bit + 1
        /\ NextBaud(baud) \in 0..CLKS_PER_BIT - 1
        /\ NextBit(baud, bit) \in 0..10
        /\ DutBits(NextBit(baud, bit)) + Evals(NextBaud(baud)) = Position(dut_tx) + TicksPerClock
    BY <1>1, <2>2, CountArithmetic DEF BitEnds, Position
  <2>4. Count(dut_tx) = [dut_tx EXCEPT !.baud_ctr = NextBaud(baud), !.data_ctr = NextBit(baud, bit)]
    BY <2>3 DEF Count, NextBaud, NextBit
  <2>. DEFINE ends == bit = DATA_BITS + 1 /\ BitEnds(dut_tx)
              st == IF ends THEN "CAPTURE" ELSE "SEND"
  <2>5. dut_tx' = [dut_tx EXCEPT !.baud_ctr = NextBaud(baud), !.data_ctr = NextBit(baud, bit),
                                 !.serial_data_reg = LineBit(dut_tx.data, bit), !.state = st]
    BY <2>1, <2>4 DEF DutTxSend, DutTxType
  <2>6. LineBit(dut_tx.data, bit) \in Bit /\ st \in {"CAPTURE", "SEND"}
    BY LineBitType
  <2>7. dut_tx' \in DutTxType
    <3>1. NextBit(baud, bit) \in 0..DATA_BITS + 2
      BY <2>3 DEF DATA_BITS
    <3>. HIDE DEF st
    <3>. QED
      BY ONLY <2>3, <2>5, <2>6, <3>1, dut_tx \in DutTxType DEF DutTxType
  <2>8. /\ dut_tx'.baud_ctr = NextBaud(baud) /\ dut_tx'.data_ctr = NextBit(baud, bit)
        /\ dut_tx'.serial_data_reg = LineBit(dut_tx.data, bit) /\ dut_tx'.state = st
        /\ dut_tx'.data = dut_tx.data
    BY <2>5 DEF DutTxType
  <2>9. Position(dut_tx') = Position(dut_tx) + TicksPerClock
    BY <2>3, <2>8 DEF Position
  <2>10. CASE ends
    <3>1. bit = 9 /\ baud = CLKS_PER_BIT - 1
      BY <2>3, <2>10 DEF DATA_BITS
    <3>2. dut_tx'.serial_data_reg = 1 /\ dut_tx'.state = "CAPTURE"
      BY <2>8, <2>10, <3>1 DEF LineBit, DATA_BITS
    <3>3. Position(dut_tx) = DutBits(10) - TicksPerClock
      <4>1. Evals(CLKS_PER_BIT - 1) = Evals(CLKS_PER_BIT) - TicksPerClock
        BY EvalsFacts
      <4>2. DutBits(9) \in Int /\ DutBits(10) = DutBits(9) + Evals(CLKS_PER_BIT) /\ Evals(CLKS_PER_BIT) \in Int
        BY DutBitsFacts, DutBitsValues, EvalsFacts
      <4>. QED
        BY <3>1, <4>1, <4>2 DEF Position
    <3>. QED
      BY <1>3, <2>1, <2>7, <3>2, <3>3 DEF TxCounters, TxLine, TxEnds, TxSteps
  <2>11. CASE ~ends
    <3>1. dut_tx'.state = "SEND"
      BY <2>8, <2>11
    <3>2. ~(bit = 9 /\ baud = CLKS_PER_BIT - 1)
      BY <2>3, <2>11 DEF DATA_BITS
    <3>3. dut_tx'.data_ctr <= DATA_BITS + 1
      BY <2>2, <2>8, <3>2 DEF NextBit, DATA_BITS
    <3>4. TxLine'
      <4>1. CASE baud = CLKS_PER_BIT - 1
        <5>1. dut_tx'.baud_ctr = 0 /\ dut_tx'.data_ctr = bit + 1 /\ bit + 1 > 0 /\ bit + 1 - 1 = bit
          BY <2>2, <2>8, <4>1 DEF NextBit, NextBaud
        <5>2. /\ ~(dut_tx'.baud_ctr > 0) /\ dut_tx'.data_ctr > 0
              /\ dut_tx'.data_ctr - 1 = bit
          BY <2>2, <5>1
        <5>3. dut_tx'.serial_data_reg = LineBit(dut_tx'.data, dut_tx'.data_ctr - 1)
          BY ONLY <2>8, <5>2
        <5>. QED
          BY <3>1, <5>2, <5>3 DEF TxLine
      <4>2. CASE baud # CLKS_PER_BIT - 1
        <5>1. dut_tx'.baud_ctr = baud + 1 /\ dut_tx'.data_ctr = bit /\ baud + 1 > 0
          BY <1>1, <2>8, <4>2 DEF NextBit, NextBaud
        <5>. QED
          BY <2>8, <3>1, <5>1 DEF TxLine
      <4>. QED
        BY <4>1, <4>2
    <3>. QED
      BY <1>3, <2>1, <2>7, <2>8, <2>9, <3>1, <3>3, <3>4 DEF TxCounters, TxRuns, TxSteps
  <2>. QED
    BY <2>10, <2>11
<1>. QED
  BY <1>1, <1>2, <1>3

\* More bits take longer, by the ruler of the design.
LEMMA DutBitsMonotone ==
  ASSUME NEW m \in 0..10, NEW n \in 0..10, m <= n
  PROVE  DutBits(m) \in Int /\ DutBits(n) \in Int /\ 0 <= DutBits(m) /\ DutBits(m) <= DutBits(n)
<1>1. DutBits(1) \in Nat
  BY MidFacts, DutBitsFacts
<1>2. m \in {0, 1, 2, 3, 4, 5, 6, 7, 8, 9, 10} /\ n \in {0, 1, 2, 3, 4, 5, 6, 7, 8, 9, 10}
  OBVIOUS
<1>3. DutBits(m) = m * DutBits(1) /\ DutBits(n) = n * DutBits(1)
  BY ONLY <1>1, <1>2, DutBitsValues
<1>4. \A p, q \in Nat : p * q >= 0 /\ p * q \in Int
  OBVIOUS
<1>5. m * DutBits(1) \in Int /\ m * DutBits(1) >= 0 /\ (n - m) * DutBits(1) >= 0
      /\ (n - m) * DutBits(1) \in Int
  BY <1>1, <1>4
<1>6. n * DutBits(1) = m * DutBits(1) + (n - m) * DutBits(1)
  BY <1>1
<1>. QED
  BY ONLY <1>3, <1>5, <1>6

\* What is on the line of uart_tx.
LEMMA TxOnLine ==
  ASSUME dut_tx \in DutTxType, TxCounters(dut_tx), TxLine, dut_tx.state = "SEND", time \in Ticks
  PROVE  /\ DutTxAt \in Int /\ DutTxAt < DutBits(10) - TicksPerClock
         /\ Position(dut_tx) \in Int /\ Position(dut_tx) >= 0
         /\ DutTxAt < 0 => dut_tx.serial_data_reg = 1
         /\ \A n \in 0..9 : DutBits(n) <= DutTxAt /\ DutTxAt < DutBits(n + 1)
                            => dut_tx.serial_data_reg = LineBit(dut_tx.data, n)
<1>. DEFINE baud == dut_tx.baud_ctr
            bit  == dut_tx.data_ctr
            T    == TicksPerClock
<1>1. /\ bit \in 0..9 /\ baud \in 0..CLKS_PER_BIT - 1
  BY DEF DutTxType, DATA_BITS, TxCounters
<1>2. Phase \in 0 .. T - 1 /\ T \in Nat /\ T >= 2
  BY HalfClockType DEF Phase, Ticks
<1>3. /\ Evals(baud) \in Int /\ Evals(baud) >= 0 /\ Evals(baud) <= DutBits(1) - T /\ DutBits(1) \in Int
      /\ baud > 0 => Evals(baud) >= T
  <2>1. baud \in Int /\ 0 \in Int /\ 1 \in Int /\ CLKS_PER_BIT \in Int /\ CLKS_PER_BIT - 1 \in Int
        /\ 0 <= baud /\ baud <= CLKS_PER_BIT - 1 /\ (baud > 0 => 1 <= baud)
    BY <1>1
  <2>2. /\ Evals(0) <= Evals(baud) /\ Evals(baud) <= Evals(CLKS_PER_BIT - 1)
        /\ baud > 0 => Evals(1) <= Evals(baud)
    BY ONLY <2>1, EvalsMonotone
  <2>3. /\ Evals(baud) \in Int /\ Evals(CLKS_PER_BIT) \in Int
        /\ Evals(CLKS_PER_BIT - 1) = Evals(CLKS_PER_BIT) - T
    BY ONLY <2>1, EvalsFacts
  <2>. QED
    BY ONLY <2>2, <2>3, EvalsSmall, DutBitsFacts
<1>4. Position(dut_tx) = DutBits(bit) + Evals(baud) /\ DutTxAt = Position(dut_tx) - T + Phase
  <2>1. Position(dut_tx) = DutBits(bit) + Evals(baud)
    BY DEF Position
  <2>2. DutTxAt = Position(dut_tx) - T + Phase
    BY DEF DutTxAt
  <2>. QED
    BY <2>1, <2>2
<1>5. /\ DutBits(bit) \in Int /\ DutBits(bit) >= 0 /\ DutBits(bit + 1) = DutBits(bit) + DutBits(1)
      /\ bit + 1 \in 0..10 /\ DutBits(bit + 1) <= DutBits(10) /\ DutBits(10) \in Int
  <2>1. bit \in 0..10 /\ bit + 1 \in 0..10 /\ 10 \in 0..10 /\ bit <= 10 /\ bit + 1 <= 10 /\ bit \in Int
    BY <1>1
  <2>. QED
    BY ONLY <2>1, DutBitsMonotone, DutBitsFacts
<1>6. DutTxAt \in Int /\ DutTxAt < DutBits(10) - T /\ Position(dut_tx) \in Int /\ Position(dut_tx) >= 0
  BY ONLY <1>2, <1>3, <1>4, <1>5
\* m is the bit that is on the line.
<1>7. ASSUME NEW m \in 0..9, DutBits(m) <= DutTxAt, DutTxAt < DutBits(m + 1),
             dut_tx.serial_data_reg = LineBit(dut_tx.data, m)
      PROVE  /\ ~(DutTxAt < 0)
             /\ \A n \in 0..9 : DutBits(n) <= DutTxAt /\ DutTxAt < DutBits(n + 1) => n = m
  <2>1. m \in 0..10 /\ 0 <= DutBits(m) /\ DutBits(m) \in Int
    BY DutBitsMonotone
  <2>2. ASSUME NEW n \in 0..9, DutBits(n) <= DutTxAt, DutTxAt < DutBits(n + 1), n # m
        PROVE  FALSE
    <3>1. CASE n < m
      <4>1. n + 1 \in 0..10 /\ m \in 0..10 /\ n + 1 <= m
        BY <3>1
      <4>2. DutBits(n + 1) <= DutBits(m) /\ DutBits(n + 1) \in Int /\ DutBits(m) \in Int
        BY ONLY <4>1, DutBitsMonotone
      <4>. QED
        BY ONLY <1>6, <1>7, <2>2, <4>2
    <3>2. CASE n > m
      <4>1. m + 1 \in 0..10 /\ n \in 0..10 /\ m + 1 <= n
        BY <3>2
      <4>2. DutBits(m + 1) <= DutBits(n) /\ DutBits(m + 1) \in Int /\ DutBits(n) \in Int
        BY ONLY <4>1, DutBitsMonotone
      <4>. QED
        BY ONLY <1>6, <1>7, <2>2, <4>2
    <3>. QED
      BY <2>2, <3>1, <3>2
  <2>. QED
    BY <1>6, <1>7, <2>1, <2>2
<1>8. CASE baud > 0
  <2>1. dut_tx.serial_data_reg = LineBit(dut_tx.data, bit)
    BY <1>8 DEF TxLine
  <2>2. DutBits(bit) <= DutTxAt /\ DutTxAt < DutBits(bit + 1)
    BY ONLY <1>2, <1>3, <1>4, <1>5, <1>8
  <2>. QED
    BY <1>1, <1>6, <1>7, <2>1, <2>2
<1>9. CASE baud = 0 /\ bit > 0
  <2>1. dut_tx.serial_data_reg = LineBit(dut_tx.data, bit - 1)
    BY <1>9 DEF TxLine
  <2>2. bit - 1 \in 0..9 /\ bit - 1 \in Int /\ (bit - 1) + 1 = bit
    BY <1>1, <1>9
  <2>3. DutBits(bit) = DutBits(bit - 1) + DutBits(1) /\ DutBits(bit - 1) \in Int
    BY ONLY <2>2, DutBitsFacts
  <2>4. Evals(baud) = 0 /\ T <= DutBits(1)
    BY <1>2, <1>3, <1>9, EvalsSmall
  <2>5. DutBits(bit - 1) <= DutTxAt /\ DutTxAt < DutBits((bit - 1) + 1)
    BY ONLY <1>2, <1>3, <1>4, <1>5, <2>2, <2>3, <2>4
  <2>. QED
    BY <1>6, <1>7, <2>1, <2>2, <2>5
<1>10. CASE baud = 0 /\ bit = 0
  <2>1. dut_tx.serial_data_reg = 1
    BY <1>10 DEF TxLine
  <2>2. DutTxAt < 0
    BY <1>2, <1>4, <1>10, EvalsSmall, DutBitsValues
  <2>3. \A n \in 0..9 : DutBits(n) >= 0 /\ DutBits(n) \in Int
    BY DutBitsMonotone
  <2>. QED
    BY <1>6, <2>1, <2>2, <2>3
<1>. QED
  BY <1>1, <1>8, <1>9, <1>10

-----------------------------------------------------------------------------
(* The peripheral reads. *)

\* The receiver of the peripheral.
HostRxType == [state : {"IDLE", "DATA"}, bit : 0..DATA_BITS + 2, timer : 0..bit_interval, data : Data]

HearCounters(r) == r.state = "DATA" => r.bit <= DATA_BITS + 1

\* The peripheral has collected the bits of data that it has read.
HostRxBits(r, data) == \A n \in 0..DATA_BITS - 1 : n \in r.data <=> n + 1 < r.bit /\ n \in data

\* What an evaluation does to the receiver of the peripheral, v on the line.
HearIdles(v) ==
  /\ v = 1 /\ host_rx.state = "IDLE" /\ host_rx'.state = "IDLE"
  /\ up_received' = up_received /\ aborted' = aborted

HearBegins(v) ==
  /\ v = 0 /\ host_rx.state = "IDLE" /\ host_rx'.state = "DATA"
  /\ up_received' = up_received /\ aborted' = aborted
  /\ HostRxAt' = 1
  /\ \A b : HostRxBits(host_rx', b)

HearWaits ==
  /\ host_rx.state = "DATA" /\ host_rx'.state = "DATA"
  /\ up_received' = up_received /\ aborted' = aborted
  /\ HostRxAt' = HostRxAt + 1
  /\ HostRxAt < HostBits(9, bit_interval) + bit_interval \div 2 + 1
  /\ \A b : HostRxBits(host_rx, b) => HostRxBits(host_rx', b)

HearSamples(v) ==
  \E n \in 0..DATA_BITS :
    /\ host_rx.state = "DATA" /\ host_rx'.state = "DATA"
    /\ up_received' = up_received
    /\ HostRxAt' = HostRxAt + 1
    /\ HostRxAt = HostBits(n, bit_interval) + bit_interval \div 2 + 1
    /\ \A b : v = LineBit(b, n) => ~aborted' /\ (HostRxBits(host_rx, b) => HostRxBits(host_rx', b))

HearStops(v) ==
  /\ host_rx.state = "DATA" /\ host_rx'.state = "IDLE"
  /\ HostRxAt = HostBits(9, bit_interval) + bit_interval \div 2 + 1
  /\ v = 1 => ~aborted'
  /\ ~aborted' => \A b \in Data : HostRxBits(host_rx, b) => up_received' = Append(up_received, b)

HearSteps(v) == HearIdles(v) \/ HearBegins(v) \/ HearWaits \/ HearSamples(v) \/ HearStops(v)

\* Uart::rx_eval: it idles, begins when the line falls, waits, samples, or stops.
LEMMA HostRxStep ==
  ASSUME bit_interval \in BitIntervals, bit_interval' = bit_interval, NEW v \in Bit,
         host_rx \in HostRxType, HearCounters(host_rx), aborted \in BOOLEAN, HostRx(v)
  PROVE  /\ host_rx' \in HostRxType
         /\ HearCounters(host_rx)'
         /\ aborted' \in BOOLEAN
         /\ up_received' = up_received \/ \E b \in Data : up_received' = Append(up_received, b)
         /\ HearSteps(v)
         /\ HostRxAt \in Int
<1>. DEFINE i == bit_interval
            bit == host_rx.bit
            H == HostBits(bit, i)
<1>1. /\ i \in Nat /\ i \div 2 \in 0..i /\ i \in 0..i
      /\ bit \in 0..10 /\ host_rx.timer \in 0..i /\ host_rx.data \in Data
      /\ host_rx.state \in {"IDLE", "DATA"}
  BY LinkAssumption DEF HostRxType, DATA_BITS
<1>2. H \in Int /\ HostBits(bit + 1, i) = H + i + 1
  <2>1. bit \in Int /\ i \in Nat
    BY <1>1
  <2>. QED
    BY ONLY <2>1, HostBitsFacts
<1>3. HostRxAt = 1 + i \div 2 + H - host_rx.timer
  BY DEF HostRxAt
<1>4. HostRxAt' = 1 + i \div 2 + HostBits(host_rx'.bit, i) - host_rx'.timer
  BY DEF HostRxAt
<1>. HIDE DEF H
<1>5. HostRxAt \in Int
  BY ONLY <1>1, <1>2, <1>3
<1>6. CASE host_rx.state = "IDLE"
  <2>1. HostRxIdle(v)
    BY <1>6 DEF HostRx
  <2>2. CASE v = 1
    <3>1. host_rx' = host_rx /\ up_received' = up_received /\ aborted' = aborted
      BY <2>1, <2>2 DEF HostRxIdle
    <3>. QED
      BY <1>5, <1>6, <2>2, <3>1 DEF HearCounters, HearIdles, HearSteps
  <2>3. CASE v = 0
    <3>1. /\ host_rx' = [state |-> "DATA", bit |-> 0, timer |-> i \div 2, data |-> {}]
          /\ up_received' = up_received /\ aborted' = aborted
      BY <2>1, <2>3 DEF HostRxIdle
    <3>2. 0 \in 0..DATA_BITS + 2 /\ {} \in Data
      BY DEF DATA_BITS, Data
    <3>3. host_rx' \in HostRxType
      BY ONLY <1>1, <3>1, <3>2 DEF HostRxType
    <3>4. host_rx'.bit = 0 /\ host_rx'.timer = i \div 2 /\ host_rx'.data = {} /\ host_rx'.state = "DATA"
      BY <3>1
    <3>5. HostBits(0, i) = 0
      BY <1>1, HostBitsValues
    <3>6. HostRxAt' = 1
      BY <1>1, <1>4, <3>4, <3>5
    <3>7. \A b : HostRxBits(host_rx', b)
      BY <3>4 DEF HostRxBits, DATA_BITS
    <3>. QED
      <4>1. HearBegins(v)
        BY ONLY <1>6, <2>3, <3>1, <3>4, <3>6, <3>7 DEF HearBegins
      <4>2. HearCounters(host_rx)'
        BY <3>4 DEF HearCounters, DATA_BITS
      <4>. QED
        BY <1>5, <3>1, <3>3, <4>1, <4>2 DEF HearSteps
  <2>. QED
    BY <2>2, <2>3 DEF Bit
<1>7. CASE host_rx.state = "DATA" /\ host_rx.timer # 0
  <2>1. /\ host_rx' = [host_rx EXCEPT !.timer = host_rx.timer - 1]
        /\ up_received' = up_received /\ aborted' = aborted
    BY <1>7 DEF HostRx
  <2>2. host_rx.timer - 1 \in 0..i /\ host_rx.timer >= 1
    BY <1>1, <1>7
  <2>3. host_rx' \in HostRxType
    BY ONLY <2>1, <2>2, host_rx \in HostRxType DEF HostRxType
  <2>4. /\ host_rx'.state = "DATA" /\ host_rx'.bit = bit /\ host_rx'.data = host_rx.data
        /\ host_rx'.timer = host_rx.timer - 1
    BY <1>7, <2>1 DEF HostRxType
  <2>5. HostRxAt' = HostRxAt + 1
    BY <1>1, <1>2, <1>3, <1>4, <2>4 DEF H
  <2>6. HostRxAt < HostBits(9, i) + i \div 2 + 1
    <3>1. bit \in 0..9
      BY <1>1, <1>7 DEF HearCounters, DATA_BITS
    <3>2. HostBits(9, i) \in Nat /\ H <= HostBits(9, i)
      BY <3>1, HostBitsRange DEF H
    <3>. QED
      BY ONLY <1>1, <1>2, <1>3, <2>2, <3>2
  <2>7. \A b : HostRxBits(host_rx, b) => HostRxBits(host_rx', b)
    BY <2>4 DEF HostRxBits
  <2>8. HearWaits
    BY <1>7, <2>1, <2>4, <2>5, <2>6, <2>7 DEF HearWaits
  <2>9. HearCounters(host_rx)'
    BY <1>7, <2>4 DEF HearCounters
  <2>. QED
    BY <1>5, <2>1, <2>3, <2>8, <2>9 DEF HearSteps
<1>8. CASE host_rx.state = "DATA" /\ host_rx.timer = 0
  <2>. DEFINE seen == host_rx.data \cup {b \in {bit - 1} : v = 1 /\ b \in 0..DATA_BITS - 1}
  <2>1. /\ aborted' = (v # IF bit = 0 THEN 0 ELSE IF bit = 9 THEN 1 ELSE v)
        /\ up_received' = IF bit = 9 /\ ~aborted' THEN Append(up_received, host_rx.data) ELSE up_received
        /\ host_rx' = [state |-> IF bit = 9 THEN "IDLE" ELSE "DATA", bit |-> bit + 1, timer |-> i, data |-> seen]
    BY <1>8 DEF HostRx, HostRxSample, DATA_BITS
  <2>2. bit \in 0..9
    BY <1>1, <1>8 DEF HearCounters, DATA_BITS
  <2>3. seen \in Data
    BY <1>1 DEF Data
  <2>4. /\ host_rx'.state = (IF bit = 9 THEN "IDLE" ELSE "DATA") /\ host_rx'.bit = bit + 1
        /\ host_rx'.timer = i /\ host_rx'.data = seen
    BY <2>1
  <2>5. host_rx' \in HostRxType
    <3>1. bit + 1 \in 0..DATA_BITS + 2 /\ (IF bit = 9 THEN "IDLE" ELSE "DATA") \in {"IDLE", "DATA"}
      BY <2>2 DEF DATA_BITS
    <3>. HIDE DEF seen
    <3>. QED
      BY ONLY <1>1, <2>1, <2>3, <3>1 DEF HostRxType
  <2>6. HostRxAt = H + i \div 2 + 1
    BY ONLY <1>1, <1>2, <1>3, <1>8
  <2>7. HearCounters(host_rx)' /\ aborted' \in BOOLEAN
        /\ (up_received' = up_received \/ \E b \in Data : up_received' = Append(up_received, b))
    <3>1. HearCounters(host_rx)'
      BY <2>2, <2>4 DEF HearCounters, DATA_BITS
    <3>. QED
      BY <1>1, <2>1, <3>1
  <2>8. CASE bit = 9
    <3>1. /\ v = 1 => ~aborted'
          /\ ~aborted' => up_received' = Append(up_received, host_rx.data)
      <4>1. bit # 0
        BY <2>8
      <4>2. aborted' = (v # 1)
        BY <2>1, <2>8, <4>1, Zenon
      <4>3. ~aborted' => up_received' = Append(up_received, host_rx.data)
        BY <2>1, <2>8
      <4>. QED
        BY ONLY <4>2, <4>3, Zenon
    <3>2. ASSUME NEW b \in Data, HostRxBits(host_rx, b)
          PROVE  host_rx.data = b
      <4>1. \A n \in 0..7 : n \in host_rx.data <=> n \in b
        BY <2>8, <3>2 DEF HostRxBits, DATA_BITS
      <4>2. host_rx.data \subseteq 0..7 /\ b \subseteq 0..7
        BY <1>1 DEF Data, DATA_BITS
      <4>. QED
        BY <4>1, <4>2
    <3>3. HearStops(v)
      BY <1>8, <2>4, <2>6, <2>8, <3>1, <3>2 DEF HearStops, H
    <3>. QED
      BY <1>5, <2>5, <2>7, <3>3 DEF HearSteps
  <2>9. CASE bit # 9
    <3>1. bit \in 0..DATA_BITS /\ host_rx'.state = "DATA" /\ up_received' = up_received
      BY <2>1, <2>2, <2>4, <2>9 DEF DATA_BITS
    <3>2. HostRxAt' = HostRxAt + 1
      <4>1. HostRxAt' = 1 + i \div 2 + HostBits(bit + 1, i) - i
        BY <1>4, <2>4
      <4>. QED
        BY ONLY <1>1, <1>2, <2>6, <4>1
    <3>3. ASSUME NEW b, v = LineBit(b, bit)
          PROVE  ~aborted' /\ (HostRxBits(host_rx, b) => HostRxBits(host_rx', b))
      <4>1. ~aborted'
        BY <2>1, <2>9, <3>3 DEF LineBit
      <4>2. ASSUME HostRxBits(host_rx, b), NEW n \in 0..7
            PROVE  n \in seen <=> n + 1 < bit + 1 /\ n \in b
        <5>1. n \in host_rx.data <=> n + 1 < bit /\ n \in b
          BY <4>2 DEF HostRxBits, DATA_BITS
        <5>2. CASE n = bit - 1
          <6>1. v = 1 <=> n \in b
            BY <2>2, <2>9, <3>3, <5>2 DEF LineBit, DATA_BITS
          <6>2. n \in seen <=> v = 1 \/ n \in host_rx.data
            BY <5>2 DEF DATA_BITS
          <6>. QED
            BY <2>2, <5>1, <5>2, <6>1, <6>2
        <5>3. CASE n # bit - 1
          <6>1. n \in seen <=> n \in host_rx.data
            BY <5>3
          <6>2. n + 1 < bit <=> n + 1 < bit + 1
            BY <2>2, <5>3
          <6>. QED
            BY <5>1, <6>1, <6>2
        <5>. QED
          BY <5>2, <5>3
      <4>3. HostRxBits(host_rx, b) => HostRxBits(host_rx', b)
        <5>. HIDE DEF seen
        <5>. QED
          BY <2>4, <4>2 DEF HostRxBits, DATA_BITS
      <4>. QED
        BY <4>1, <4>3
    <3>4. HearSamples(v)
      BY <1>8, <2>6, <3>1, <3>2, <3>3 DEF HearSamples, H
    <3>. QED
      BY <1>5, <2>5, <2>7, <3>4 DEF HearSteps
  <2>. QED
    BY <2>8, <2>9
<1>. QED
  BY <1>1, <1>6, <1>7, <1>8

-----------------------------------------------------------------------------
(* The line up: the situations and what an evaluation does. *)

\* Nothing is under way.
UpQuiet == up_sent = up_received /\ host_rx.state = "IDLE" /\ dut_tx.state = "CAPTURE"

\* The start bit is not on the line yet, or only just.
UpWaiting ==
  /\ up_sent = Append(up_received, dut_tx.data)
  /\ host_rx.state = "IDLE" /\ dut_tx.state = "SEND"
  /\ DutTxAt <= 0

\* The peripheral is reading the byte of uart_tx, at the place that is on the line.
UpHearing ==
  /\ up_sent = Append(up_received, dut_tx.data)
  /\ host_rx.state = "DATA" /\ dut_tx.state = "SEND"
  /\ HostRxAt = DutTxAt
  /\ HostRxBits(host_rx, dut_tx.data)

\* The peripheral has read the stop bit, which is still on the line.
UpHeard ==
  /\ up_sent = up_received
  /\ host_rx.state = "IDLE" /\ dut_tx.state = "SEND"
  /\ DutTxAt > DutBits(9)

\* uart_tx has finished with b, and the peripheral has yet to read the stop bit.
UpTail ==
  \E b \in Data :
    /\ up_sent = Append(up_received, b)
    /\ host_rx.state = "DATA" /\ dut_tx.state = "CAPTURE"
    /\ HostRxAt = DutBits(10) - TicksPerClock + Phase
    /\ HostRxBits(host_rx, b)

UpLine == UpQuiet \/ UpWaiting \/ UpHearing \/ UpHeard \/ UpTail

\* What every step keeps, in reset or not, and the invariant of the line up.
UpCore ==
  /\ bit_interval \in BitIntervals
  /\ time \in Ticks /\ reset_count \in 0..ResetEdges
  /\ host_rx \in HostRxType /\ HearCounters(host_rx)
  /\ aborted \in BOOLEAN
  /\ dut_tx \in DutTxType /\ TxCounters(dut_tx)

UpInv ==
  /\ ~aborted
  /\ IF sresetn THEN TxLine /\ UpLine
     ELSE up_sent = <<>> /\ up_received = <<>> /\ host_rx.state = "IDLE"

\* What an evaluation out of reset does to uart_tx, as the peripheral counts.
LineRests ==
  /\ dut_tx.state = "CAPTURE" /\ dut_tx'.state = "CAPTURE" /\ up_sent' = up_sent
  /\ Phase = TicksPerClock - 1 \/ Phase' = Phase + 1

LineLoads ==
  /\ dut_tx.state = "CAPTURE" /\ dut_tx'.state = "SEND"
  /\ dut_tx'.data \in Byte /\ up_sent' = Append(up_sent, dut_tx'.data)
  /\ Phase = TicksPerClock - 1 /\ DutTxAt' = -TicksPerClock

LineRuns ==
  /\ dut_tx.state = "SEND" /\ dut_tx'.state = "SEND"
  /\ dut_tx'.data = dut_tx.data /\ up_sent' = up_sent
  /\ DutTxAt' = DutTxAt + 1

LineEnds ==
  /\ dut_tx.state = "SEND" /\ dut_tx'.state = "CAPTURE" /\ up_sent' = up_sent
  /\ DutTxAt = DutBits(10) - TicksPerClock - 1 /\ Phase' = 0

LineSteps == LineRests \/ LineLoads \/ LineRuns \/ LineEnds

\* An evaluation, seen from the line up.
LEMMA UpEval ==
  ASSUME UpCore, sresetn => TxLine, Eval
  PROVE  /\ UpCore'
         /\ bit_interval' = bit_interval
         /\ HearSteps(serial_data) /\ HostRxAt \in Int
         /\ up_received' = up_received \/ \E b \in Data : up_received' = Append(up_received, b)
         /\ sresetn => TxLine' /\ LineSteps
         /\ ~sresetn => /\ up_sent' = up_sent
                        /\ getEvent(time') = "RISING" => dut_tx'.state = "CAPTURE" /\ dut_tx'.serial_data_reg = 1
<1>1. /\ bit_interval' = bit_interval /\ HostRx(serial_data) /\ time' = NextTick(time)
      /\ reset_count' = ResetCount(reset_count, getEvent(time'))
      /\ IF getEvent(time') = "RISING" THEN Clk
         ELSE UNCHANGED <<sync, dut_rx, dut_tx, down_received, up_sent>>
  BY DEF Eval
<1>2. serial_data \in Bit
  BY DEF serial_data, UpCore, DutTxType, Bit
<1>3. /\ host_rx' \in HostRxType
      /\ HearCounters(host_rx)'
      /\ aborted' \in BOOLEAN
      /\ up_received' = up_received \/ \E b \in Data : up_received' = Append(up_received, b)
      /\ HearSteps(serial_data)
      /\ HostRxAt \in Int
  BY <1>1, <1>2, HostRxStep DEF UpCore
<1>4. HostRxType' = HostRxType
  BY <1>1 DEF HostRxType
<1>5. time' \in Ticks /\ reset_count' \in 0..ResetEdges
  BY <1>1, TimeStep DEF UpCore, ResetCount, ResetEdges
<1>6. /\ Phase \in 0 .. TicksPerClock - 1
      /\ getEvent(time') = "RISING" => Phase = TicksPerClock - 1 /\ Phase' = 0
      /\ getEvent(time') # "RISING" => Phase' = Phase + 1
  BY <1>1, TimeStep DEF UpCore
<1>. DEFINE Moved == /\ dut_tx' \in DutTxType /\ TxCounters(dut_tx)'
                     /\ sresetn => TxLine' /\ LineSteps
                     /\ ~sresetn => /\ up_sent' = up_sent
                                    /\ getEvent(time') = "RISING" =>
                                         dut_tx'.state = "CAPTURE" /\ dut_tx'.serial_data_reg = 1
<1>7. SUFFICES Moved
  <2>1. ASSUME Moved PROVE UpCore'
    BY ONLY UpCore, <1>1, <1>3, <1>4, <1>5, <2>1 DEF UpCore
  <2>. QED
    BY <1>1, <1>3, <2>1
<1>8. CASE getEvent(time') = "RISING" /\ sresetn
  <2>1. DutTx
    BY <1>1, <1>8 DEF Clk
  <2>2. dut_tx' \in DutTxType /\ TxCounters(dut_tx)' /\ TxLine' /\ TxSteps
    BY <1>8, <2>1, DutTxStep DEF UpCore
  <2>3. DutTxAt = Position(dut_tx) - TicksPerClock + Phase
        /\ DutTxAt' = Position(dut_tx') - TicksPerClock + Phase'
    BY DEF DutTxAt, Position
  <2>4. Phase = TicksPerClock - 1 /\ Phase' = 0 /\ TicksPerClock \in Nat
    BY <1>6, <1>8
  <2>5. ASSUME TxRests PROVE LineSteps
    BY <2>4, <2>5 DEF TxRests, LineRests, LineSteps
  <2>6. ASSUME TxLoads PROVE LineSteps
    <3>1. DutTxAt' = -TicksPerClock
      BY <2>3, <2>4, <2>6 DEF TxLoads
    <3>. QED
      BY <2>4, <2>6, <3>1 DEF TxLoads, LineLoads, LineSteps
  <2>7. dut_tx.state = "SEND" => Position(dut_tx) \in Int
    BY <1>8, TxOnLine DEF UpCore
  <2>8. ASSUME TxRuns PROVE LineSteps
    <3>1. DutTxAt' = DutTxAt + 1
      BY <2>3, <2>4, <2>7, <2>8 DEF TxRuns
    <3>. QED
      BY <2>8, <3>1 DEF TxRuns, LineRuns, LineSteps
  <2>9. ASSUME TxEnds PROVE LineSteps
    <3>1. DutTxAt = DutBits(10) - TicksPerClock - 1
      <4>1. DutBits(10) \in Int
        BY DutBitsFacts
      <4>. QED
        BY <2>3, <2>4, <2>9, <4>1 DEF TxEnds
    <3>. QED
      BY <2>4, <2>9, <3>1 DEF TxEnds, LineEnds, LineSteps
  <2>10. LineSteps
    BY <2>2, <2>5, <2>6, <2>8, <2>9 DEF TxSteps
  <2>. QED
    BY <1>8, <2>2, <2>10
<1>9. CASE getEvent(time') = "RISING" /\ ~sresetn
  <2>1. dut_tx' = [dut_tx EXCEPT !.state = "CAPTURE", !.serial_data_reg = 1] /\ up_sent' = up_sent
    BY <1>1, <1>9 DEF Clk, DutTx
  <2>2. dut_tx \in DutTxType
    BY DEF UpCore
  <2>3. dut_tx' \in DutTxType
    BY <2>1, <2>2 DEF DutTxType, Bit
  <2>4. dut_tx'.state = "CAPTURE" /\ dut_tx'.serial_data_reg = 1
    BY <2>1, <2>2 DEF DutTxType
  <2>. QED
    BY <1>9, <2>1, <2>3, <2>4 DEF TxCounters
<1>10. CASE getEvent(time') # "RISING"
  <2>1. dut_tx' = dut_tx /\ up_sent' = up_sent
    BY <1>1, <1>10
  <2>2. dut_tx' \in DutTxType /\ TxCounters(dut_tx)'
    BY <2>1 DEF UpCore, TxCounters
  <2>3. ASSUME sresetn PROVE TxLine' /\ LineSteps
    <3>1. TxLine'
      BY <2>1, <2>3 DEF TxLine
    <3>2. Phase' = Phase + 1
      BY <1>6, <1>10
    <3>3. CASE dut_tx.state = "CAPTURE"
      BY <2>1, <3>1, <3>2, <3>3 DEF LineRests, LineSteps
    <3>4. CASE dut_tx.state = "SEND"
      <4>1. Position(dut_tx) \in Int
        BY <2>3, <3>4, TxOnLine DEF UpCore
      <4>2. DutTxAt = Position(dut_tx) - TicksPerClock + Phase
            /\ DutTxAt' = Position(dut_tx) - TicksPerClock + Phase'
        BY <2>1 DEF DutTxAt, Position
      <4>3. DutTxAt' = DutTxAt + 1
        BY <1>6, <3>2, <4>1, <4>2
      <4>. QED
        BY <2>1, <3>1, <3>4, <4>3 DEF LineRuns, LineSteps
    <3>. QED
      BY <3>3, <3>4 DEF UpCore, DutTxType
  <2>. QED
    BY <1>10, <2>1, <2>2, <2>3
<1>. QED
  BY <1>8, <1>9, <1>10

\* The lengths that the line up compares, for a length of the bit.
LEMMA UpNumbers ==
  ASSUME NEW i \in BitIntervals
  PROVE  /\ TicksPerClock \in Nat /\ TicksPerClock >= 2 /\ DutBits(9) \in Int /\ DutBits(10) \in Int
         /\ DutBits(0) = 0 /\ DutBits(1) > 0 /\ DutBits(1) \in Int
         /\ DutBits(9) >= 2 * TicksPerClock
         /\ DutBits(9) + 2 * TicksPerClock <= DutBits(10)
         /\ HostBits(9, i) \in Int /\ i \div 2 \in Int
         /\ DutBits(9) <= HostBits(9, i) + i \div 2 + 1
         /\ HostBits(9, i) + i \div 2 + 1 < DutBits(10)
<1>1. i \in Nat
  BY LinkAssumption
<1>2. /\ DutBits(9) \in Int /\ DutBits(10) = DutBits(9) + DutBits(1) /\ DutBits(1) \in Int
      /\ DutBits(0) = 0 /\ DutBits(9) = 9 * DutBits(1)
  BY DutBitsFacts, DutBitsValues
<1>3. DutBits(1) >= 2 * TicksPerClock
  BY <1>2, MidFacts
<1>4. HostBits(9, i) \in Int
  BY <1>1, HostBitsFacts
<1>5. /\ DutBits(9) <= HostBits(9, i) + i \div 2 + 1
      /\ HostBits(9, i) + i \div 2 + 1 < DutBits(9 + 1)
  <2>1. 9 \in 0..9
    OBVIOUS
  <2>. QED
    BY <2>1, UpWindow
<1>6. 9 + 1 = 10 /\ i \div 2 \in Int
  BY <1>1
<1>7. TicksPerClock \in Nat /\ TicksPerClock >= 2
  OBVIOUS
<1>. QED
  BY ONLY <1>1, <1>2, <1>3, <1>4, <1>5, <1>6, <1>7

\* The common part of the four cases below.
UpMove ==
  /\ UpCore /\ TxLine /\ ~aborted /\ bit_interval' = bit_interval
  /\ HearSteps(dut_tx.serial_data_reg) /\ LineSteps /\ HostRxAt \in Int

\* An evaluation while nothing is under way.
LEMMA MoveQuiet ==
  ASSUME UpMove, UpQuiet
  PROVE  UpLine' /\ ~aborted'
<1>1. HearIdles(1)
  <2>1. dut_tx.serial_data_reg = 1
    BY DEF UpMove, UpQuiet, TxLine
  <2>. QED
    BY <2>1 DEF UpMove, UpQuiet, HearSteps, HearIdles, HearBegins, HearWaits, HearSamples, HearStops
<1>2. /\ up_received' = up_received /\ ~aborted' /\ host_rx'.state = "IDLE"
  BY <1>1 DEF HearIdles, UpMove
<1>3. CASE LineRests
  BY <1>2, <1>3 DEF LineRests, UpQuiet, UpLine
<1>4. CASE LineLoads
  <2>1. TicksPerClock \in Nat
    OBVIOUS
  <2>2. DutTxAt' <= 0
    BY <1>4, <2>1 DEF LineLoads
  <2>3. UpWaiting'
    BY <1>2, <1>4, <2>2 DEF LineLoads, UpQuiet, UpWaiting
  <2>. QED
    BY <1>2, <2>3 DEF UpLine
<1>. QED
  BY <1>3, <1>4 DEF UpMove, LineSteps, LineRuns, LineEnds, UpQuiet

\* An evaluation at which the line may fall: the peripheral sees it at once.
LEMMA MoveWaiting ==
  ASSUME UpMove, UpWaiting
  PROVE  UpLine' /\ ~aborted'
<1>. DEFINE v == dut_tx.serial_data_reg
            b == dut_tx.data
<1>1. /\ DutTxAt \in Int
      /\ DutTxAt < 0 => v = 1
      /\ \A n \in 0..9 : DutBits(n) <= DutTxAt /\ DutTxAt < DutBits(n + 1) => v = LineBit(b, n)
  BY TxOnLine DEF UpMove, UpCore, UpWaiting
<1>2. DutTxAt = 0 => v = 0
  <2>1. /\ DutBits(0) = 0 /\ DutBits(1) > 0 /\ 0 \in 0..9 /\ 0 + 1 = 1
        /\ LineBit(b, 0) = 0
    BY UpNumbers DEF UpMove, UpCore, LineBit
  <2>. QED
    BY <1>1, <2>1
<1>3. LineRuns
  <2>1. DutTxAt # DutBits(10) - TicksPerClock - 1
    <3>1. /\ TicksPerClock \in Nat /\ TicksPerClock >= 2 /\ DutBits(9) \in Int /\ DutBits(10) \in Int
          /\ DutBits(9) >= 2 * TicksPerClock /\ DutBits(9) + 2 * TicksPerClock <= DutBits(10)
      BY UpNumbers DEF UpMove, UpCore
    <3>2. DutTxAt <= 0
      BY DEF UpWaiting
    <3>. QED
      BY ONLY <1>1, <3>1, <3>2
  <2>. QED
    BY <2>1 DEF UpMove, LineSteps, LineRests, LineLoads, LineEnds, UpWaiting
<1>4. /\ dut_tx'.state = "SEND" /\ dut_tx'.data = b /\ up_sent' = up_sent /\ DutTxAt' = DutTxAt + 1
  BY <1>3 DEF LineRuns
<1>5. CASE HearIdles(v)
  <2>1. host_rx'.state = "IDLE" /\ up_received' = up_received /\ ~aborted'
    BY <1>5 DEF HearIdles, UpMove
  <2>2. DutTxAt' <= 0
    <3>1. DutTxAt # 0 /\ DutTxAt <= 0
      BY <1>2, <1>5 DEF HearIdles, UpWaiting
    <3>. QED
      BY ONLY <1>1, <1>4, <3>1
  <2>3. UpWaiting'
    BY <1>4, <2>1, <2>2 DEF UpWaiting
  <2>. QED
    BY <2>1, <2>3 DEF UpLine
<1>6. CASE HearBegins(v)
  <2>1. /\ host_rx'.state = "DATA" /\ up_received' = up_received /\ ~aborted' /\ HostRxAt' = 1
        /\ HostRxBits(host_rx', b)
    BY <1>6 DEF HearBegins, UpMove
  <2>2. DutTxAt' = 1
    <3>1. ~(DutTxAt < 0) /\ DutTxAt <= 0
      BY <1>1, <1>6 DEF HearBegins, UpWaiting
    <3>. QED
      BY ONLY <1>1, <1>4, <3>1
  <2>3. HostRxBits(host_rx, dut_tx.data)'
    BY <1>4, <2>1 DEF HostRxBits
  <2>4. UpHearing'
    BY <1>4, <2>1, <2>2, <2>3 DEF UpHearing, UpWaiting
  <2>. QED
    BY <2>1, <2>4 DEF UpLine
<1>. QED
  BY <1>5, <1>6 DEF UpMove, UpWaiting, HearSteps, HearWaits, HearSamples, HearStops

\* An evaluation after the peripheral has read the stop bit.
LEMMA MoveHeard ==
  ASSUME UpMove, UpHeard
  PROVE  UpLine' /\ ~aborted'
<1>. DEFINE v == dut_tx.serial_data_reg
            b == dut_tx.data
<1>1. /\ DutTxAt \in Int /\ DutTxAt < DutBits(10) - TicksPerClock
      /\ \A n \in 0..9 : DutBits(n) <= DutTxAt /\ DutTxAt < DutBits(n + 1) => v = LineBit(b, n)
  BY TxOnLine DEF UpMove, UpCore, UpHeard
<1>2. TicksPerClock \in Nat /\ DutBits(9) \in Int /\ DutBits(10) \in Int /\ DutTxAt > DutBits(9)
  BY UpNumbers DEF UpMove, UpCore, UpHeard
<1>3. v = 1
  <2>1. 9 \in 0..9 /\ 9 + 1 = 10 /\ LineBit(b, 9) = 1
    BY DEF LineBit, DATA_BITS
  <2>2. DutBits(9) <= DutTxAt /\ DutTxAt < DutBits(10)
    BY ONLY <1>1, <1>2
  <2>. QED
    BY <1>1, <2>1, <2>2
<1>4. host_rx'.state = "IDLE" /\ up_received' = up_received /\ ~aborted'
  BY <1>3 DEF UpMove, UpHeard, HearSteps, HearIdles, HearBegins, HearWaits, HearSamples, HearStops
<1>5. CASE LineRuns
  <2>1. DutTxAt' > DutBits(9)
    BY <1>1, <1>2, <1>5 DEF LineRuns
  <2>2. UpHeard'
    BY <1>4, <1>5, <2>1 DEF LineRuns, UpHeard
  <2>. QED
    BY <1>4, <2>2 DEF UpLine
<1>6. CASE LineEnds
  BY <1>4, <1>6 DEF LineEnds, UpHeard, UpQuiet, UpLine
<1>. QED
  BY <1>5, <1>6 DEF UpMove, LineSteps, LineRests, LineLoads, UpHeard

-----------------------------------------------------------------------------
(* The line up: every step. *)

\* An evaluation at which the peripheral may sample, and uart_tx may end.
LEMMA MoveHearing ==
  ASSUME UpMove, UpHearing
  PROVE  UpLine' /\ ~aborted'
<1>. DEFINE v == dut_tx.serial_data_reg
            b == dut_tx.data
            i == bit_interval
            T == TicksPerClock
<1>1. /\ DutTxAt \in Int
      /\ \A n \in 0..9 : DutBits(n) <= DutTxAt /\ DutTxAt < DutBits(n + 1) => v = LineBit(b, n)
  BY TxOnLine DEF UpMove, UpCore, UpHearing
<1>2. HostRxAt = DutTxAt /\ HostRxBits(host_rx, b) /\ up_sent = Append(up_received, b) /\ b \in Data
      /\ i \in BitIntervals
  BY DEF UpHearing, UpMove, UpCore, DutTxType
<1>3. ASSUME NEW n \in 0..9, HostRxAt = HostBits(n, i) + i \div 2 + 1
      PROVE  v = LineBit(b, n)
  <2>1. DutBits(n) <= HostRxAt /\ HostRxAt < DutBits(n + 1)
    BY <1>2, <1>3, UpWindow
  <2>. QED
    BY <1>1, <1>2, <2>1
<1>4. /\ T \in Nat /\ T >= 2 /\ DutBits(9) \in Int /\ DutBits(10) \in Int
      /\ HostBits(9, i) \in Int /\ i \div 2 \in Int
      /\ DutBits(9) <= HostBits(9, i) + i \div 2 + 1
  BY <1>2, UpNumbers
<1>5. LineRuns \/ LineEnds
  BY DEF UpMove, LineSteps, LineRests, LineLoads, UpHearing
<1>6. ASSUME /\ host_rx'.state = "DATA" /\ up_received' = up_received /\ ~aborted'
             /\ HostRxAt' = HostRxAt + 1
             /\ HostRxBits(host_rx', b)
      PROVE  UpLine'
  <2>1. CASE LineRuns
    <3>1. dut_tx'.state = "SEND" /\ dut_tx'.data = b /\ up_sent' = up_sent /\ DutTxAt' = DutTxAt + 1
      BY <2>1 DEF LineRuns
    <3>2. HostRxBits(host_rx, dut_tx.data)'
      BY <1>6, <3>1 DEF HostRxBits
    <3>3. UpHearing'
      BY <1>2, <1>6, <3>1, <3>2 DEF UpHearing
    <3>. QED
      BY <3>3 DEF UpLine
  <2>2. CASE LineEnds
    <3>1. dut_tx'.state = "CAPTURE" /\ up_sent' = up_sent /\ DutTxAt = DutBits(10) - T - 1 /\ Phase' = 0
      BY <2>2 DEF LineEnds
    <3>2. HostRxAt' = DutBits(10) - T + Phase'
      BY <1>2, <1>4, <1>6, <3>1
    <3>3. up_sent' = Append(up_received', b)
      BY <1>2, <1>6, <3>1
    <3>4. UpTail'
      <4>. HIDE DEF b
      <4>. QED
        BY <1>2, <1>6, <3>1, <3>2, <3>3 DEF UpTail
    <3>. QED
      BY <3>4 DEF UpLine
  <2>. QED
    BY <1>5, <2>1, <2>2
<1>7. CASE HearWaits
  <2>1. /\ host_rx'.state = "DATA" /\ up_received' = up_received /\ ~aborted'
        /\ HostRxAt' = HostRxAt + 1 /\ HostRxBits(host_rx', b)
    BY <1>2, <1>7 DEF HearWaits, UpMove
  <2>. QED
    BY <1>6, <2>1
<1>8. CASE HearSamples(v)
  <2>1. PICK n \in 0..DATA_BITS :
          /\ host_rx'.state = "DATA" /\ up_received' = up_received
          /\ HostRxAt' = HostRxAt + 1
          /\ HostRxAt = HostBits(n, i) + i \div 2 + 1
          /\ \A d : v = LineBit(d, n) => ~aborted' /\ (HostRxBits(host_rx, d) => HostRxBits(host_rx', d))
    BY <1>8 DEF HearSamples
  <2>2. n \in 0..9
    BY DEF DATA_BITS
  <2>3. v = LineBit(b, n)
    BY <1>3, <2>1, <2>2
  <2>. QED
    BY <1>2, <1>6, <2>1, <2>3
<1>9. CASE HearStops(v)
  <2>1. HostRxAt = HostBits(9, i) + i \div 2 + 1 /\ host_rx'.state = "IDLE"
    BY <1>9 DEF HearStops
  <2>2. v = 1
    <3>1. 9 \in 0..9 /\ LineBit(b, 9) = 1
      BY DEF LineBit, DATA_BITS
    <3>. QED
      BY <1>3, <2>1, <3>1
  <2>3. ~aborted' /\ up_received' = Append(up_received, b)
    BY <1>2, <1>9, <2>2 DEF HearStops
  <2>4. CASE LineRuns
    <3>1. dut_tx'.state = "SEND" /\ up_sent' = up_sent /\ DutTxAt' = DutTxAt + 1
      BY <2>4 DEF LineRuns
    <3>2. DutTxAt' > DutBits(9)
      <4>1. DutTxAt = HostBits(9, i) + i \div 2 + 1
        BY <1>2, <2>1
      <4>. QED
        BY ONLY <1>1, <1>4, <3>1, <4>1
    <3>3. UpHeard'
      BY <1>2, <2>1, <2>3, <3>1, <3>2 DEF UpHeard
    <3>. QED
      BY <2>3, <3>3 DEF UpLine
  <2>5. CASE LineEnds
    BY <1>2, <2>1, <2>3, <2>5 DEF LineEnds, UpQuiet, UpLine
  <2>. QED
    BY <1>5, <2>4, <2>5
<1>. QED
  BY <1>7, <1>8, <1>9 DEF UpMove, HearSteps, HearIdles, HearBegins, UpHearing

\* An evaluation after uart_tx has ended: the line is high, as the stop bit has to be.
LEMMA MoveTail ==
  ASSUME UpMove, UpTail
  PROVE  UpLine' /\ ~aborted'
<1>. DEFINE v == dut_tx.serial_data_reg
            i == bit_interval
            T == TicksPerClock
<1>1. PICK b \in Data :
        /\ up_sent = Append(up_received, b)
        /\ host_rx.state = "DATA" /\ dut_tx.state = "CAPTURE"
        /\ HostRxAt = DutBits(10) - T + Phase
        /\ HostRxBits(host_rx, b)
  BY DEF UpTail
<1>2. v = 1 /\ i \in BitIntervals
  BY <1>1 DEF UpMove, TxLine, UpCore
<1>3. /\ T \in Nat /\ T >= 2 /\ DutBits(9) \in Int /\ DutBits(10) \in Int
      /\ HostBits(9, i) \in Int /\ i \div 2 \in Int
      /\ DutBits(9) + 2 * T <= DutBits(10)
      /\ HostBits(9, i) + i \div 2 + 1 < DutBits(10)
  BY <1>2, UpNumbers
<1>4. Phase \in 0 .. T - 1
  BY HalfClockType DEF Phase, Ticks, UpMove, UpCore
<1>5. LineRests \/ LineLoads
  BY <1>1 DEF UpMove, LineSteps, LineRuns, LineEnds
<1>6. CASE HearWaits
  <2>1. /\ host_rx'.state = "DATA" /\ up_received' = up_received /\ ~aborted'
        /\ HostRxAt' = HostRxAt + 1 /\ HostRxBits(host_rx', b)
        /\ HostRxAt < HostBits(9, i) + i \div 2 + 1
    BY <1>1, <1>6 DEF HearWaits, UpMove
  <2>2. Phase # T - 1
    BY ONLY <1>1, <1>3, <1>4, <2>1
  <2>3. dut_tx'.state = "CAPTURE" /\ up_sent' = up_sent /\ Phase' = Phase + 1
    BY <1>5, <2>2 DEF LineRests, LineLoads
  <2>4. HostRxAt' = DutBits(10) - T + Phase'
    BY ONLY <1>1, <1>3, <1>4, <2>1, <2>3
  <2>5. HostRxBits(host_rx, b)' /\ up_sent' = Append(up_received', b)
    BY <1>1, <2>1, <2>3 DEF HostRxBits
  <2>6. UpTail'
    BY <2>1, <2>3, <2>4, <2>5 DEF UpTail
  <2>. QED
    BY <2>1, <2>6 DEF UpLine
<1>7. ~HearSamples(v)
  <2>1. SUFFICES ASSUME NEW n \in 0..8, HostRxAt = HostBits(n, i) + i \div 2 + 1
                 PROVE  FALSE
    BY DEF HearSamples, DATA_BITS
  <2>2. n \in 0..9 /\ n + 1 \in 0..10 /\ 9 \in 0..10 /\ n + 1 <= 9
    OBVIOUS
  <2>3. HostRxAt < DutBits(n + 1)
    BY <1>2, <2>1, <2>2, UpWindow
  <2>4. DutBits(n + 1) <= DutBits(9) /\ DutBits(n + 1) \in Int
    BY ONLY <2>2, DutBitsMonotone
  <2>. QED
    BY ONLY <1>1, <1>3, <1>4, <2>3, <2>4
<1>8. CASE HearStops(v)
  <2>1. ~aborted' /\ up_received' = Append(up_received, b) /\ host_rx'.state = "IDLE"
    BY <1>1, <1>2, <1>8 DEF HearStops
  <2>2. CASE LineRests
    BY <1>1, <2>1, <2>2 DEF LineRests, UpQuiet, UpLine
  <2>3. CASE LineLoads
    <3>1. dut_tx'.state = "SEND" /\ up_sent' = Append(up_received', dut_tx'.data) /\ DutTxAt' = -T
      BY <1>1, <2>1, <2>3 DEF LineLoads
    <3>2. DutTxAt' <= 0
      BY ONLY <1>3, <3>1
    <3>3. UpWaiting'
      BY <2>1, <3>1, <3>2 DEF UpWaiting
    <3>. QED
      BY <2>1, <3>3 DEF UpLine
  <2>. QED
    BY <1>5, <2>2, <2>3
<1>. QED
  BY <1>1, <1>6, <1>7, <1>8 DEF UpMove, HearSteps, HearIdles, HearBegins

\* The invariant of the line up holds at first.
LEMMA UpInit == Init => UpCore /\ UpInv
<1>. SUFFICES ASSUME Init PROVE UpCore /\ UpInv
  OBVIOUS
<1>1. bit_interval \in BitIntervals /\ bit_interval \in Nat
  BY LinkAssumption DEF Init
<1>2. time \in Ticks /\ reset_count \in 0..ResetEdges /\ ~sresetn
  BY HalfClockType DEF Init, Ticks, ResetEdges, sresetn, Released
<1>3. host_rx \in HostRxType /\ HearCounters(host_rx) /\ host_rx.state = "IDLE"
  BY <1>1 DEF Init, HostRxType, HearCounters, Data, DATA_BITS
<1>4. dut_tx \in DutTxType /\ TxCounters(dut_tx)
  <2>1. 0 \in 0..CLKS_PER_BIT - 1 /\ 0 \in 0..DATA_BITS + 2 /\ {} \in Data
    BY DEF DATA_BITS, Data
  <2>2. PICK st \in {"CAPTURE", "SEND"}, r \in Bit :
          dut_tx = [state |-> st, baud_ctr |-> 0, data_ctr |-> 0, data |-> {}, serial_data_reg |-> r]
    BY DEF Init
  <2>3. dut_tx \in DutTxType
    BY <2>1, <2>2 DEF DutTxType
  <2>4. dut_tx.data_ctr = 0
    BY <2>2
  <2>. QED
    BY <2>3, <2>4 DEF TxCounters, DATA_BITS
<1>. QED
  BY <1>1, <1>2, <1>3, <1>4 DEF UpCore, UpInv, Init

\* Every evaluation keeps the invariant of the line up.
LEMMA UpStep ==
  ASSUME UpCore, UpInv, Eval
  PROVE  UpCore' /\ UpInv'
<1>1. /\ UpCore'
      /\ bit_interval' = bit_interval
      /\ HearSteps(serial_data) /\ HostRxAt \in Int
      /\ sresetn => TxLine' /\ LineSteps
      /\ ~sresetn => /\ up_sent' = up_sent
                     /\ getEvent(time') = "RISING" => dut_tx'.state = "CAPTURE" /\ dut_tx'.serial_data_reg = 1
  BY UpEval DEF UpInv
<1>2. reset_count' = ResetCount(reset_count, getEvent(time'))
  BY DEF Eval
<1>3. CASE sresetn
  <2>1. UpMove
    BY <1>1, <1>3 DEF UpMove, UpInv, serial_data
  <2>2. UpLine' /\ ~aborted'
    BY <1>3, <2>1, MoveQuiet, MoveWaiting, MoveHearing, MoveHeard, MoveTail DEF UpInv, UpLine
  <2>3. sresetn'
    BY <1>2, <1>3 DEF sresetn, Released, ResetCount, ResetEdges
  <2>. QED
    BY <1>1, <1>3, <2>2, <2>3 DEF UpInv
<1>4. CASE ~sresetn
  <2>1. serial_data = 1 /\ ~aborted /\ host_rx.state = "IDLE" /\ up_sent = <<>> /\ up_received = <<>>
    BY <1>4 DEF serial_data, UpInv
  <2>2. host_rx'.state = "IDLE" /\ up_received' = <<>> /\ ~aborted' /\ up_sent' = <<>>
    <3>1. HearIdles(1)
      BY <1>1, <2>1 DEF HearSteps, HearIdles, HearBegins, HearWaits, HearSamples, HearStops
    <3>. QED
      BY <1>1, <1>4, <2>1, <3>1 DEF HearIdles
  <2>3. CASE ~sresetn'
    BY <1>1, <2>2, <2>3 DEF UpInv
  <2>4. CASE sresetn'
    <3>1. getEvent(time') = "RISING"
      BY <1>2, <1>4, <2>4 DEF ResetCount, sresetn, Released
    <3>2. dut_tx'.state = "CAPTURE" /\ dut_tx'.serial_data_reg = 1
      BY <1>1, <1>4, <3>1
    <3>3. TxLine' /\ UpLine'
      BY <2>2, <3>2 DEF TxLine, UpLine, UpQuiet
    <3>. QED
      BY <1>1, <2>2, <2>4, <3>3 DEF UpInv
  <2>. QED
    BY <2>3, <2>4
<1>. QED
  BY <1>3, <1>4

-----------------------------------------------------------------------------
(* Both together. *)

\* The bytes so far.
Histories ==
  /\ quota \in Quotas
  /\ down_sent \in Seq(Data) /\ down_received \in Seq(Data)
  /\ up_sent \in Seq(Data) /\ up_received \in Seq(Data)

\* The inductive invariant.
IInv == Histories /\ DownCore /\ DownInv /\ UpCore /\ UpInv

\* The inductive invariant holds at first ...
LEMMA IInvInit == Init => IInv
<1>. SUFFICES ASSUME Init PROVE IInv
  OBVIOUS
<1>1. Histories
  BY DEF Init, Histories
<1>. QED
  BY <1>1, DownCoreInit, UpInit DEF IInv

\* A sequence that has grown by an item is one of those items still.
LEMMA AppendType ==
  ASSUME NEW S, NEW s \in Seq(S), NEW t, t = s \/ \E b \in S : t = Append(s, b)
  PROVE  t \in Seq(S)
<1>1. CASE t = s
  BY <1>1
<1>2. ASSUME NEW b \in S, t = Append(s, b) PROVE t \in Seq(S)
  BY <1>2, AppendProperties
<1>. QED
  BY <1>1, <1>2

\* The histories hold bytes.
LEMMA HistoriesStep ==
  ASSUME IInv, Eval
  PROVE  Histories'
<1>1. Byte \subseteq Data
  BY LinkAssumption DEF Data
<1>2. /\ HostSteps
      /\ getEvent(time') = "RISING" => down_received' = Got
      /\ getEvent(time') # "RISING" => down_received' = down_received
  BY DownEval DEF IInv
<1>3. /\ up_received' = up_received \/ \E b \in Data : up_received' = Append(up_received, b)
      /\ sresetn => LineSteps
      /\ ~sresetn => up_sent' = up_sent
  BY UpEval DEF IInv, UpInv
<1>4. down_sent' \in Seq(Data)
  <2>1. down_sent' = down_sent \/ \E b \in Data : down_sent' = Append(down_sent, b)
    BY <1>1, <1>2 DEF HostSteps, HostIdles, HostLoads, HostRuns, HostEnds
  <2>2. down_sent \in Seq(Data)
    BY DEF IInv, Histories
  <2>. QED
    BY ONLY <2>1, <2>2, AppendType
<1>5. down_received' \in Seq(Data)
  <2>1. dut_rx.data \in Data
    BY DEF IInv, DownCore, DutRxType
  <2>2. Got \in Seq(Data)
    BY <2>1 DEF Got, IInv, Histories
  <2>3. down_received \in Seq(Data)
    BY DEF IInv, Histories
  <2>. QED
    BY ONLY <1>2, <2>2, <2>3
<1>6. up_sent' \in Seq(Data)
  <2>1. up_sent' = up_sent \/ \E b \in Data : up_sent' = Append(up_sent, b)
    BY <1>1, <1>3 DEF LineSteps, LineRests, LineLoads, LineRuns, LineEnds
  <2>2. up_sent \in Seq(Data)
    BY DEF IInv, Histories
  <2>. QED
    BY ONLY <2>1, <2>2, AppendType
<1>7. up_received' \in Seq(Data)
  <2>1. up_received \in Seq(Data)
    BY DEF IInv, Histories
  <2>. QED
    BY ONLY <1>3, <2>1, AppendType
<1>8. quota' = quota
  BY DEF Eval
<1>. QED
  BY <1>4, <1>5, <1>6, <1>7, <1>8 DEF IInv, Histories

\* ... is kept when nothing changes ...
LEMMA IInvStutter ==
  ASSUME IInv, UNCHANGED vars
  PROVE  IInv'
<1>1. /\ bit_interval' = bit_interval /\ quota' = quota /\ time' = time /\ reset_count' = reset_count
      /\ host_rx' = host_rx /\ host_tx' = host_tx /\ aborted' = aborted /\ sync' = sync
      /\ dut_rx' = dut_rx /\ dut_tx' = dut_tx /\ down_sent' = down_sent /\ down_received' = down_received
      /\ up_sent' = up_sent /\ up_received' = up_received
  BY DEF vars
<1>2. Histories'
  BY <1>1 DEF IInv, Histories
<1>3. DownCore' /\ UpCore'
  BY <1>1 DEF IInv, DownCore, UpCore, HostTxType, RxCounters, HostRxType, HearCounters, TxCounters
<1>4. /\ (Phase' = Phase) /\ (HostTxAt' = HostTxAt) /\ (HostRxAt' = HostRxAt) /\ (Got' = Got)
      /\ (Window' = Window) /\ (sresetn' <=> sresetn) /\ (PinInv' <=> PinInv) /\ (TxLine' <=> TxLine)
  <2>1. Phase' = Phase /\ HostTxAt' = HostTxAt /\ HostRxAt' = HostRxAt /\ Got' = Got
    BY <1>1 DEF Phase, HostTxAt, HostRxAt, Got
  <2>2. Window' = Window
    BY <1>1 DEF Window, Position
  <2>3. sresetn' <=> sresetn
    BY <1>1 DEF sresetn
  <2>4. PinInv' <=> PinInv
    BY <1>1 DEF PinInv
  <2>5. TxLine' <=> TxLine
    BY <1>1 DEF TxLine
  <2>. QED
    BY <2>1, <2>2, <2>3, <2>4, <2>5
<1>5. Sampled' = Sampled /\ DutTxAt' = DutTxAt /\ Elapsed' = Elapsed
  BY <1>1, <1>4 DEF Sampled, DutTxAt, Elapsed, Position
<1>6. DownPowerUp' <=> DownPowerUp
  BY <1>1, <1>4, <1>5 DEF DownPowerUp
<1>7. DownLine => DownLine'
  <2>1. DownQuiet => DownQuiet'
    BY <1>1, <1>4 DEF DownQuiet
  <2>2. DownPending => DownPending'
    BY <1>1, <1>4, <1>5 DEF DownPending
  <2>3. ASSUME NEW b, NEW a, Receives(b, a) PROVE Receives(b, a)'
    BY <1>1, <1>4, <2>3 DEF Receives
  <2>4. DownReceiving => DownReceiving'
    BY <1>1, <1>4, <1>5, <2>3 DEF DownReceiving
  <2>5. DownOverlap => DownOverlap'
    BY <1>1, <1>4, <1>5, <2>3 DEF DownOverlap
  <2>. QED
    BY <2>1, <2>2, <2>4, <2>5 DEF DownLine
<1>8. DownInv'
  BY <1>4, <1>6, <1>7 DEF DownInv, IInv
<1>9. UpLine => UpLine'
  <2>1. UpQuiet => UpQuiet'
    BY <1>1 DEF UpQuiet
  <2>2. UpWaiting => UpWaiting'
    BY <1>1, <1>5 DEF UpWaiting
  <2>3. UpHearing => UpHearing'
    BY <1>1, <1>4, <1>5 DEF UpHearing, HostRxBits
  <2>4. UpHeard => UpHeard'
    BY <1>1, <1>5 DEF UpHeard
  <2>5. UpTail => UpTail'
    BY <1>1, <1>4 DEF UpTail, HostRxBits
  <2>. QED
    BY <2>1, <2>2, <2>3, <2>4, <2>5 DEF UpLine
<1>10. UpInv'
  BY <1>1, <1>4, <1>9 DEF UpInv, IInv
<1>. QED
  BY <1>2, <1>3, <1>8, <1>10 DEF IInv

\* ... and by every evaluation.
LEMMA IInvStep == IInv /\ [Eval]_vars => IInv'
<1>. SUFFICES ASSUME IInv, [Eval]_vars PROVE IInv'
  OBVIOUS
<1>1. CASE Eval
  BY <1>1, HistoriesStep, DownStep, UpStep DEF IInv
<1>2. CASE UNCHANGED vars
  BY <1>2, IInvStutter
<1>. QED
  BY <1>1, <1>2

\* Both lines are always in one of their situations, in reset or out of it.
THEOREM InductiveInvariant == Spec => []IInv
BY IInvInit, IInvStep, PTL DEF Spec

\* The types are part of the invariant.
LEMMA IInvTypes == IInv => TypeOK
<1>. SUFFICES ASSUME IInv PROVE TypeOK
  OBVIOUS
<1>1. dut_tx \in DutTxType /\ dut_rx \in DutRxType /\ host_tx \in HostTxType /\ host_rx \in HostRxType
  BY DEF IInv, DownCore, UpCore
<1>2. \A s \in {down_sent, down_received, up_sent, up_received} : s \in Seq(SUBSET (0..DATA_BITS - 1))
  BY DEF IInv, Histories, Data
<1>3. /\ bit_interval \in BitIntervals /\ quota \in Quotas /\ time \in Ticks
      /\ reset_count \in 0..ResetEdges /\ aborted \in BOOLEAN /\ sync \in [Stage -> Bit]
  BY DEF IInv, DownCore, UpCore, Histories
<1>. QED
  BY ONLY <1>1, <1>2, <1>3 DEF TypeOK, DutTxType, DutRxType, HostTxType, HostRxType, Data

\* Every variable has its type: no counter of either end leaves its width.
THEOREM TypeCorrect == Spec => []TypeOK
BY InductiveInvariant, IInvTypes, PTL

\* No assert of Uart::rx_eval fails (sim/other/Uart.hpp), whatever is sent and
\* for every pair of rulers that UartLink tolerates.
THEOREM NoFramingErrorCorrect == Spec => []NoFramingError
<1>1. IInv => NoFramingError
  BY DEF IInv, UpInv, NoFramingError
<1>. QED
  BY <1>1, InductiveInvariant, PTL

\* The first item that one sequence has beyond another.
LEMMA NextItem ==
  ASSUME NEW S, NEW r \in Seq(S), NEW x \in S, NEW y \in S, NEW z \in S,
         NEW s, s \in {Append(r, x), Append(Append(r, x), y), Append(Append(Append(r, x), y), z)}
  PROVE  Len(r) < Len(s) /\ s[Len(r) + 1] = x
<1>1. /\ Append(r, x) \in Seq(S) /\ Len(Append(r, x)) = Len(r) + 1 /\ Append(r, x)[Len(r) + 1] = x
      /\ Len(r) \in Nat
  OBVIOUS
<1>2. /\ Append(Append(r, x), y) \in Seq(S) /\ Len(Append(Append(r, x), y)) = Len(r) + 2
      /\ Append(Append(r, x), y)[Len(r) + 1] = x
  <2>. DEFINE q == Append(r, x)
  <2>1. q \in Seq(S) /\ Len(q) = Len(r) + 1 /\ q[Len(r) + 1] = x
    BY <1>1
  <2>. HIDE DEF q
  <2>2. Append(q, y) \in Seq(S) /\ Len(Append(q, y)) = Len(r) + 2 /\ Append(q, y)[Len(r) + 1] = x
    BY <1>1, <2>1
  <2>. QED
    BY <2>2 DEF q
<1>3. /\ Len(Append(Append(Append(r, x), y), z)) = Len(r) + 3
      /\ Append(Append(Append(r, x), y), z)[Len(r) + 1] = x
  <2>. DEFINE q == Append(Append(r, x), y)
  <2>1. q \in Seq(S) /\ Len(q) = Len(r) + 2 /\ q[Len(r) + 1] = x
    BY <1>2
  <2>. HIDE DEF q
  <2>2. Len(Append(q, z)) = Len(r) + 3 /\ Append(q, z)[Len(r) + 1] = x
    BY <1>1, <2>1
  <2>. QED
    BY <2>2 DEF q
<1>. QED
  BY <1>1, <1>2, <1>3

\* An evaluation is a step of the channel down: the byte that uart_rx puts out is the next one.
LEMMA DownNext ==
  ASSUME IInv, Eval
  PROVE  [Down!Next]_<<down_sent, down_received>>
<1>1. /\ HostSteps
      /\ getEvent(time') = "RISING" => down_received' = Got
      /\ getEvent(time') # "RISING" => down_received' = down_received
  BY DownEval DEF IInv
<1>2. down_sent' = down_sent \/ Down!Send
  BY <1>1 DEF HostSteps, HostIdles, HostLoads, HostRuns, HostEnds, Down!Send
<1>3. down_received' = down_received \/ Down!Deliver
  <2>1. CASE down_received' = Got /\ dut_rx.valid
    <3>1. down_received' = Append(down_received, dut_rx.data) /\ Got = Append(down_received, dut_rx.data)
      BY <2>1 DEF Got
    <3>2. dut_rx.data \in Data /\ host_tx.data \in Data /\ down_received \in Seq(Data)
      BY DEF IInv, DownCore, DutRxType, HostTxType, Histories
    <3>3. sresetn /\ dut_rx.state # "CAPTURE"
      BY <2>1 DEF IInv, DownInv, DownPowerUp, DownCore, RxCounters
    <3>4. down_sent \in {Got, Append(Got, host_tx.data)}
      BY <3>3 DEF IInv, DownInv, DownLine, DownQuiet, DownPending, DownReceiving, DownOverlap, Receives
    <3>5. Len(down_received) < Len(down_sent) /\ down_sent[Len(down_received) + 1] = dut_rx.data
      BY <3>1, <3>2, <3>4, NextItem
    <3>. QED
      BY <3>1, <3>5 DEF Down!Deliver
  <2>. QED
    BY <1>1, <2>1 DEF Got
<1>. QED
  BY <1>2, <1>3 DEF Down!Next

\* An evaluation is a step of the channel up: the byte that is written is the next one.
LEMMA UpNext ==
  ASSUME IInv, Eval, IInv'
  PROVE  [Up!Next]_<<up_sent, up_received>>
<1>1. /\ HearSteps(serial_data)
      /\ sresetn => LineSteps
      /\ ~sresetn => up_sent' = up_sent
  BY UpEval DEF IInv, UpInv
<1>2. up_sent' = up_sent \/ Up!Send
  BY <1>1 DEF LineSteps, LineRests, LineLoads, LineRuns, LineEnds, Up!Send
<1>3. up_received' = up_received \/ Up!Deliver
  <2>1. CASE HearStops(serial_data)
    <3>1. ~aborted'
      BY DEF IInv, UpInv
    <3>2. host_rx.state = "DATA" /\ \A b \in Data : HostRxBits(host_rx, b) => up_received' = Append(up_received, b)
      BY <2>1, <3>1 DEF HearStops
    <3>3. UpHearing \/ UpTail
      BY <3>2 DEF IInv, UpInv, UpLine, UpQuiet, UpWaiting, UpHeard
    <3>4. PICK b \in Data : up_sent = Append(up_received, b) /\ HostRxBits(host_rx, b)
      BY <3>3 DEF UpHearing, UpTail, IInv, UpCore, DutTxType
    <3>5. up_received \in Seq(Data)
      BY DEF IInv, Histories
    <3>6. Len(up_received) < Len(up_sent) /\ up_sent[Len(up_received) + 1] = b
      BY <3>4, <3>5, NextItem
    <3>. QED
      BY <3>2, <3>4, <3>6 DEF Up!Deliver
  <2>. QED
    BY <1>1, <2>1 DEF HearSteps, HearIdles, HearBegins, HearWaits, HearSamples
<1>. QED
  BY <1>2, <1>3 DEF Up!Next

\* The line implements a channel each way: no byte is changed, lost, doubled,
\* made up or moved before another, between uart_rx, uart_tx and the peripheral.
THEOREM LinesAreChannelsCorrect == Spec => LinesAreChannels
<1>1. Init => Down!Init /\ Up!Init
  BY DEF Init, Down!Init, Up!Init
<1>2. IInv /\ IInv' /\ [Eval]_vars
      => [Down!Next]_<<down_sent, down_received>> /\ [Up!Next]_<<up_sent, up_received>>
  <2>. SUFFICES ASSUME IInv, IInv', [Eval]_vars
                PROVE  [Down!Next]_<<down_sent, down_received>> /\ [Up!Next]_<<up_sent, up_received>>
    OBVIOUS
  <2>1. CASE Eval
    BY <2>1, DownNext, UpNext
  <2>2. CASE UNCHANGED vars
    BY <2>2 DEF vars
  <2>. QED
    BY <2>1, <2>2
<1>. QED
  BY <1>1, <1>2, InductiveInvariant, PTL DEF Spec, LinesAreChannels, Down!Spec, Up!Spec
=============================================================================
