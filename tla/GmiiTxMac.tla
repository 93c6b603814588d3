----------------------------- MODULE GmiiTxMac -----------------------------
(***************************************************************************)
(* gmii_tx_mac.sv between a packet FIFO and the GMIISink of the test bench *)
(* (sim/network/GMIISink.cpp), one byte wide, so that its width converter  *)
(* is a wire.                                                              *)
(*                                                                         *)
(* A step is a rising edge of the clock.  The sink is evaluated with the   *)
(* pins as they were latched before the edge.  Everything begins out of    *)
(* reset: the MAC is only reset with the rest of a bench, before the FIFO  *)
(* has a packet.                                                           *)
(*                                                                         *)
(* A byte of a packet is its packet and place; the CRC of some bytes is the     *)
(* sequence of these bytes, so that two are equal only if they should be.  *)
(***************************************************************************)
EXTENDS Naturals, Sequences, SequencesExt

CONSTANTS
  MinBytes,     \* how many values ctr has: 64, the bytes of the shortest frame
  Lengths,      \* of the packets
  MaxPackets    \* bound

\* Sixteen values are needed for the inter packet gap.  A packet of one byte is
\* left out: its tlast is seen in SM_WAIT_VALID, where line 191 takes it back.
\* What the Ethernet framer sends begins with a header.
ASSUME TxAssumption ==
  /\ MinBytes \in Nat /\ MinBytes >= 16 /\ MinBytes % 2 = 0
  /\ Lengths \subseteq Nat \ {0, 1}
  /\ MaxPackets \in Nat

VARIABLES
  fifo,                \* the bytes that wait on axis_i
  width_conv_register,
  state, ctr, length_ok, last_byte_sent, crc,
  eth_txen, eth_txd,
  current_packet, ipg_counter,
  threw, gap_violated, \* an exception of the sink: thrown, or only built (line 23)
  stored,              \* what data_sink got
  offered,             \* history: the packets that came into the FIFO
  swallowed            \* history: a byte of the next packet was sent as padding

mac  == <<width_conv_register, state, ctr, length_ok, last_byte_sent, crc, eth_txen, eth_txd>>
sink == <<current_packet, ipg_counter, threw, gap_violated, stored>>
vars == <<fifo, mac, sink, offered, swallowed>>

\* What is on eth_txd.
Preamble == <<"55">>
Sfd == <<"D5">>
CrcByte(of, n) == <<"crc", of, n>>
PacketByte(packet, place, last) == <<"byte", packet, place, last>>
IsLast(b) == Len(b) = 4 /\ b[4]

Packet(n, len) == [i \in 1..len |-> PacketByte(n, i, i = len)]
PacketBytes == UNION {Range(Packet(n, len)) : n \in 1..MaxPackets, len \in Lengths}
-----------------------------------------------------------------------------
(* gmii_tx_mac *)

axis_i_tvalid == fifo # <<>>

\* Mutant: the register is read before the data begin.
axis_narrow_reg_treadyEarly == state \in {"SFD", "DATA"}

axis_narrow_reg_tready == state = "DATA"

axis_i_tready == ~width_conv_register.tvalid \/ axis_narrow_reg_tready

\* Mutant: one clock less between two packets.
next_stateShortGap(tlast) ==
  CASE state = "WAIT_VALID" /\ axis_i_tvalid -> "PREAMBLE"
    [] state = "PREAMBLE" /\ ctr % 8 = 6     -> "SFD"
    [] state = "SFD"                         -> "DATA"
    [] state = "DATA" /\ length_ok /\ (last_byte_sent \/ (axis_i_tready /\ tlast)) -> "CRC"
    [] state = "CRC" /\ ctr % 4 = 3          -> "IPG"
    [] state = "IPG" /\ ctr % 16 = 9         -> "WAIT_VALID"
    [] OTHER                                 -> state

next_state(tlast) ==
  CASE state = "WAIT_VALID" /\ axis_i_tvalid -> "PREAMBLE"
    [] state = "PREAMBLE" /\ ctr % 8 = 6     -> "SFD"
    [] state = "SFD"                         -> "DATA"
    [] state = "DATA" /\ length_ok /\ (last_byte_sent \/ (axis_i_tready /\ tlast)) -> "CRC"
    [] state = "CRC" /\ ctr % 4 = 3          -> "IPG"
    [] state = "IPG" /\ ctr % 16 = 10        -> "WAIT_VALID"
    [] OTHER                                 -> state

Flags(tlast) ==
  IF state = "WAIT_VALID" THEN length_ok' = FALSE /\ last_byte_sent' = FALSE
  ELSE /\ length_ok' = (length_ok \/ ctr \div 2 = MinBytes \div 2 - 1)
       /\ last_byte_sent' = (last_byte_sent \/ (axis_i_tready /\ tlast))

Output ==
  /\ eth_txen' = (state \in {"PREAMBLE", "SFD", "DATA", "CRC"})
  /\ eth_txd' = CASE state = "PREAMBLE" -> Preamble
                  [] state = "SFD"      -> Sfd
                  [] state = "DATA"     -> width_conv_register.tdata
                  [] state = "CRC"      -> CrcByte(crc, ctr % 4)
                  [] OTHER              -> eth_txd
  /\ crc' = CASE state = "WAIT_VALID" -> <<>>
              [] state = "DATA"       -> Append(crc, width_conv_register.tdata)
              [] OTHER                -> crc

\* Without tvalid, tlast may be anything.
TransmitMac ==
  \E tlast \in IF axis_i_tvalid THEN {IsLast(Head(fifo))} ELSE BOOLEAN :
    /\ state' = next_state(tlast)
    /\ ctr' = IF state' # state THEN 0 ELSE (ctr + 1) % MinBytes
    /\ Flags(tlast)
    /\ Output
    /\ width_conv_register' =
         IF axis_i_tready /\ axis_i_tvalid THEN [tvalid |-> TRUE, tdata |-> Head(fifo)]
         ELSE [width_conv_register EXCEPT !.tvalid = @ /\ ~axis_narrow_reg_tready]
    /\ swallowed' = \/ swallowed
                    \/ /\ state = "DATA" /\ state' = "DATA" /\ last_byte_sent
                       /\ axis_i_tready /\ axis_i_tvalid

\* The FIFO shows a packet when it has all of it (external), so tvalid stays
\* to the packet's end.
Fifo ==
  LET rest == IF axis_i_tready /\ axis_i_tvalid THEN Tail(fifo) ELSE fifo IN
  \/ fifo' = rest /\ UNCHANGED offered
  \/ /\ Len(offered) < MaxPackets
     /\ \E len \in Lengths : LET packet == Packet(Len(offered) + 1, len) IN
          fifo' = rest \o packet /\ offered' = Append(offered, packet)
-----------------------------------------------------------------------------
(* GMIISink::eval *)

\* Mutant: counts on below zero.
GapLeftUnguarded == ipg_counter - 1

\* Lines 11-14.
GapLeft == IF ipg_counter = 0 THEN 0 ELSE ipg_counter - 1

PreambleBytes(p) ==
  CHOOSE n \in 0..Len(p) : /\ \A i \in 1..n : p[i] = Preamble
                           /\ n < Len(p) => p[n + 1] # Preamble

\* From the byte behind the SFD.
Body(p) == SubSeq(p, PreambleBytes(p) + 2, Len(p))

CrcCorrect(body) ==
  LET n == Len(body) - 4 IN
  \A i \in 1..4 : body[n + i] = CrcByte(SubSeq(body, 1, n), i - 1)

Acceptable(p) ==
  /\ PreambleBytes(p) >= 7
  /\ PreambleBytes(p) < Len(p)
  /\ p[PreambleBytes(p) + 1] = Sfd
  /\ Len(Body(p)) >= MinBytes
  /\ CrcCorrect(Body(p))

\* Lines 20-27.
SinkTakesByte ==
  /\ eth_txen
  /\ ipg_counter' = GapLeft
  /\ gap_violated' = (gap_violated \/ ipg_counter' # 0)
  /\ current_packet' = Append(current_packet, eth_txd)
  /\ UNCHANGED <<threw, stored>>

\* Lines 28-73.
SinkEndsPacket ==
  /\ ~eth_txen /\ current_packet # <<>>
  /\ UNCHANGED gap_violated
  /\ IF Acceptable(current_packet)
     THEN /\ stored' = Append(stored, Body(current_packet))
          /\ current_packet' = <<>>
          /\ ipg_counter' = 12
          /\ UNCHANGED threw
     ELSE /\ threw' = TRUE
          /\ ipg_counter' = GapLeft
          /\ UNCHANGED <<stored, current_packet>>

SinkIdle ==
  /\ ~eth_txen /\ current_packet = <<>>
  /\ ipg_counter' = GapLeft
  /\ UNCHANGED <<current_packet, threw, gap_violated, stored>>
-----------------------------------------------------------------------------
Init ==
  /\ fifo = <<>> /\ offered = <<>> /\ stored = <<>>
  /\ width_conv_register = [tvalid |-> FALSE, tdata |-> Preamble]
  /\ state = "WAIT_VALID"
  /\ ctr = 0
  /\ length_ok = FALSE /\ last_byte_sent = FALSE
  /\ crc = <<>>
  /\ eth_txen = FALSE /\ eth_txd = Preamble
  /\ current_packet = <<>>
  /\ ipg_counter = 0
  /\ threw = FALSE /\ gap_violated = FALSE
  /\ swallowed = FALSE

Clk ==
  /\ ~threw
  /\ TransmitMac
  /\ Fifo
  /\ SinkTakesByte \/ SinkEndsPacket \/ SinkIdle

Spec == Init /\ [][Clk]_vars /\ WF_vars(Clk)
-----------------------------------------------------------------------------
\* Every variable has its type; the counters stay within their widths.
TypeOK ==
  /\ \A b \in Range(fifo) : b \in PacketBytes
  /\ width_conv_register.tvalid \in BOOLEAN
  /\ width_conv_register.tdata \in PacketBytes \cup {Preamble}
  /\ state \in {"WAIT_VALID", "PREAMBLE", "SFD", "DATA", "CRC", "IPG"}
  /\ ctr \in 0..MinBytes - 1
  /\ \A flag \in {length_ok, last_byte_sent, eth_txen, threw, gap_violated, swallowed} : flag \in BOOLEAN
  /\ \A b \in Range(crc) : b \in PacketBytes
  /\ ipg_counter \in 0..12
  /\ Len(offered) <= MaxPackets

\* Nothing of what GMIISink checks is ever wrong, the gap that it measures but
\* does not complain of included, however packets follow one another.
SinkAccepts == ~threw /\ ~gap_violated

\* gmii_tx_mac.sv:239-241: "Progress to CRC when we have sent at least the
\* minimum number of bytes and either: We previously send the last byte ...
\* This is currently the last byte (no padding needed)".
LastByteBeforeCrc ==
  state = "CRC" => \E i \in 1..Len(crc) : IsLast(crc[i])

\* Every packet arrives whole, as the frame of its own that it should be, as
\* long as no packet was there early enough to be taken for padding.
FramesArrive ==
  \A n \in 1..MaxPackets :
    Len(offered) >= n ~> swallowed \/ (Len(stored) >= n /\ IsPrefix(offered[n], stored[n]))
=============================================================================
