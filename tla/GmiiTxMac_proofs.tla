-------------------------- MODULE GmiiTxMac_proofs --------------------------
(***************************************************************************)
(* For every width of the counter, every set of lengths and any number of  *)
(* packets: what gmii_tx_mac puts on the line is a frame that GMIISink     *)
(* takes, and the gap before it is as long as it should be.                *)
(***************************************************************************)
EXTENDS GmiiTxMac, SequenceTheorems, TLAPS

LineBytes == PacketBytes \cup {Preamble, Sfd} \cup ({"crc"} \X Seq(PacketBytes) \X (0..3))

\* The byte that is to be in a place of the frame, as far as crc has it ...
ByteAt(i) ==
  CASE i <= 7            -> Preamble
    [] i = 8             -> Sfd
    [] i > 8 /\ i <= 8 + Len(crc) -> crc[i - 8]
    [] OTHER             -> CrcByte(crc, (i - 9) - Len(crc))

\* ... and how many of them the MAC has sent.
Sent ==
  CASE state = "PREAMBLE" -> ctr
    [] state = "SFD"      -> 7
    [] state = "DATA"     -> 8 + Len(crc)
    [] state = "CRC"      -> 8 + Len(crc) + ctr
    [] state = "IPG" /\ ctr <= 1 -> 12 + Len(crc)
    [] OTHER              -> 0

\* The line lags by a clock: the last byte sent is still on the pins.
Driven ==
  \/ state = "PREAMBLE" /\ ctr > 0
  \/ state \in {"SFD", "DATA", "CRC"}
  \/ state = "IPG" /\ ctr = 0

Line == IF eth_txen THEN Append(current_packet, eth_txd) ELSE current_packet

TypeInv ==
  /\ TypeOK
  /\ fifo \in Seq(PacketBytes) /\ offered \in Seq(Seq(PacketBytes)) /\ crc \in Seq(PacketBytes)
  /\ current_packet \in Seq(LineBytes) /\ eth_txd \in LineBytes
  /\ width_conv_register \in [tvalid : BOOLEAN, tdata : PacketBytes \cup {Preamble}]
  /\ width_conv_register.tvalid \/ state # "WAIT_VALID" => width_conv_register.tdata \in PacketBytes

\* The state machine: the flag is up when enough bytes have been sent.
MacInv ==
  /\ state = "PREAMBLE" => ctr <= 6 /\ ~length_ok
  /\ state = "SFD" => ctr = 0 /\ ~length_ok
  /\ state \in {"PREAMBLE", "SFD"} => crc = <<>>
  /\ state = "DATA" => IF length_ok THEN Len(crc) >= MinBytes - 1
                       ELSE Len(crc) = ctr /\ ctr <= MinBytes - 2
  /\ state \in {"CRC", "IPG"} => Len(crc) >= MinBytes
  /\ state = "CRC" => ctr <= 3
  /\ state = "IPG" => ctr <= 10

LineInv ==
  /\ eth_txen <=> Driven
  /\ Len(Line) = Sent
  /\ \A i \in 1..Sent : Line[i] = ByteAt(i)

\* The sink's counter runs out as the first byte reaches it.
GapInv ==
  /\ state = "WAIT_VALID" => ipg_counter <= 3
  /\ state = "PREAMBLE" => ipg_counter <= IF ctr <= 2 THEN 2 - ctr ELSE 0
  /\ state \in {"SFD", "DATA", "CRC"} => ipg_counter = 0
  /\ state = "IPG" => ipg_counter = IF ctr <= 1 THEN 0 ELSE 14 - ctr

IInv == TypeInv /\ MacInv /\ LineInv /\ GapInv /\ SinkAccepts
-----------------------------------------------------------------------------
(* Arithmetic and bytes                                                    *)

USE TxAssumption DEF TxAssumption

LEMMA Counting ==
  ASSUME NEW c \in 0 .. MinBytes - 1
  PROVE  /\ (c + 1) % MinBytes \in 0 .. MinBytes - 1
         /\ c # MinBytes - 1 => (c + 1) % MinBytes = c + 1
         /\ c \div 2 = MinBytes \div 2 - 1 <=> c >= MinBytes - 2
<1>1. c # MinBytes - 1 => (c + 1) % MinBytes = c + 1
  OBVIOUS
<1>2. (c + 1) % MinBytes \in 0 .. MinBytes - 1
  OBVIOUS
<1>3. c \div 2 = MinBytes \div 2 - 1 <=> c >= MinBytes - 2
  OBVIOUS
<1>. QED
  BY <1>1, <1>2, <1>3

LEMMA BytesOfPackets ==
  ASSUME NEW n \in 1..MaxPackets, NEW len \in Lengths
  PROVE  Packet(n, len) \in Seq(PacketBytes)
<1>1. Range(Packet(n, len)) \subseteq PacketBytes
  BY DEF PacketBytes
<1>2. \A i \in 1..len : Packet(n, len)[i] \in Range(Packet(n, len))
  BY DEF Packet, Range
<1>3. \A i \in 1..len : Packet(n, len)[i] \in PacketBytes
  BY <1>1, <1>2
<1>4. Packet(n, len) \in [1..len -> PacketBytes]
  BY <1>3 DEF Packet
<1>. QED
  BY <1>4

LEMMA BytesOnTheLine ==
  /\ Preamble \in LineBytes /\ Sfd \in LineBytes /\ Sfd # Preamble
  /\ PacketBytes \subseteq LineBytes
  /\ \A c \in Seq(PacketBytes), n \in 0..3 : CrcByte(c, n) \in LineBytes
BY DEF LineBytes, Preamble, Sfd, CrcByte

LEMMA FifoStep ==
  ASSUME TypeInv, Fifo
  PROVE  /\ fifo' \in Seq(PacketBytes) /\ offered' \in Seq(Seq(PacketBytes))
         /\ Len(offered') <= MaxPackets
<1>. DEFINE rest == IF axis_i_tready /\ axis_i_tvalid THEN Tail(fifo) ELSE fifo
<1>1. rest \in Seq(PacketBytes)
  BY DEF TypeInv, axis_i_tvalid
<1>2. offered \in Seq(Seq(PacketBytes)) /\ Len(offered) <= MaxPackets
  BY DEF TypeInv, TypeOK
<1>3. CASE fifo' = rest /\ UNCHANGED offered
  BY <1>1, <1>2, <1>3
<1>4. ASSUME Len(offered) < MaxPackets, NEW len \in Lengths,
             fifo' = rest \o Packet(Len(offered) + 1, len),
             offered' = Append(offered, Packet(Len(offered) + 1, len))
      PROVE  /\ fifo' \in Seq(PacketBytes) /\ offered' \in Seq(Seq(PacketBytes))
             /\ Len(offered') <= MaxPackets
  <2>. DEFINE packet == Packet(Len(offered) + 1, len)
  <2>1. packet \in Seq(PacketBytes)
    BY <1>2, <1>4, BytesOfPackets
  <2>. HIDE DEF packet, rest
  <2>. QED
    BY <1>1, <1>2, <1>4, <2>1 DEF packet
<1>. QED
  BY <1>3, <1>4 DEF Fifo
-----------------------------------------------------------------------------
(* The MAC                                                                 *)

States == {"WAIT_VALID", "PREAMBLE", "SFD", "DATA", "CRC", "IPG"}

LEMMA NextState ==
  ASSUME TypeInv, MacInv, NEW tlast \in BOOLEAN
  PROVE  /\ state = "WAIT_VALID" => next_state(tlast) = IF axis_i_tvalid THEN "PREAMBLE" ELSE "WAIT_VALID"
         /\ state = "PREAMBLE" => next_state(tlast) = IF ctr = 6 THEN "SFD" ELSE "PREAMBLE"
         /\ state = "SFD" => next_state(tlast) = "DATA"
         /\ state = "DATA" => next_state(tlast) \in IF length_ok THEN {"DATA", "CRC"} ELSE {"DATA"}
         /\ state = "CRC" => next_state(tlast) = IF ctr = 3 THEN "IPG" ELSE "CRC"
         /\ state = "IPG" => next_state(tlast) = IF ctr = 10 THEN "WAIT_VALID" ELSE "IPG"
<1>. ctr \in Nat
  BY DEF TypeInv, TypeOK
<1>1. CASE state = "WAIT_VALID"
  BY <1>1 DEF next_state
<1>2. CASE state = "PREAMBLE"
  BY <1>2 DEF next_state, MacInv
<1>3. CASE state = "SFD"
  BY <1>3 DEF next_state
<1>4. CASE state = "DATA"
  BY <1>4 DEF next_state
<1>5. CASE state = "CRC"
  BY <1>5 DEF next_state, MacInv
<1>6. CASE state = "IPG"
  BY <1>6 DEF next_state, MacInv
<1>. QED
  BY <1>1, <1>2, <1>3, <1>4, <1>5, <1>6

\* The state machine's step, state by state.
MacStep ==
  /\ state = "WAIT_VALID" =>
       /\ state' = IF axis_i_tvalid THEN "PREAMBLE" ELSE "WAIT_VALID"
       /\ state' = "PREAMBLE" => ctr' = 0
       /\ ~length_ok' /\ crc' = <<>>
  /\ state = "PREAMBLE" =>
       /\ state' = IF ctr = 6 THEN "SFD" ELSE "PREAMBLE"
       /\ ctr' = IF ctr = 6 THEN 0 ELSE ctr + 1
       /\ ~length_ok' /\ crc' = crc
  /\ state = "SFD" => state' = "DATA" /\ ctr' = 0 /\ ~length_ok' /\ crc' = crc
  /\ state = "DATA" =>
       /\ state' \in {"DATA", "CRC"}
       /\ state' = "CRC" => length_ok /\ ctr' = 0
       /\ ~length_ok => /\ length_ok' <=> ctr = MinBytes - 2
                        /\ ctr' = ctr + 1
       /\ length_ok => length_ok'
       /\ crc' = Append(crc, width_conv_register.tdata)
  /\ state = "CRC" =>
       /\ state' = IF ctr = 3 THEN "IPG" ELSE "CRC"
       /\ ctr' = IF ctr = 3 THEN 0 ELSE ctr + 1
       /\ crc' = crc
  /\ state = "IPG" =>
       /\ state' = IF ctr = 10 THEN "WAIT_VALID" ELSE "IPG"
       /\ ctr' = IF ctr = 10 THEN 0 ELSE ctr + 1
       /\ crc' = crc

LEMMA MacSteps ==
  ASSUME TypeInv, MacInv, NEW tlast \in BOOLEAN, state' = next_state(tlast),
         ctr' = IF state' # state THEN 0 ELSE (ctr + 1) % MinBytes, Flags(tlast), Output
  PROVE  MacStep /\ state' \in States /\ ctr' \in 0 .. MinBytes - 1
<1>. ctr \in 0 .. MinBytes - 1 /\ state \in States
  BY DEF TypeInv, TypeOK, States
<1>. USE NextState, Counting DEF MacStep, States
<1>7. state # "WAIT_VALID" => (length_ok' <=> length_ok \/ ctr >= MinBytes - 2)
  <2>1. state # "WAIT_VALID" => length_ok' = (length_ok \/ ctr \div 2 = MinBytes \div 2 - 1)
    BY DEF Flags
  <2>. HIDE DEF MacStep
  <2>2. ctr \div 2 = MinBytes \div 2 - 1 <=> ctr >= MinBytes - 2
    OBVIOUS
  <2>. QED
    BY ONLY <2>1, <2>2
<1>1. CASE state = "WAIT_VALID"
  BY <1>1 DEF Flags, Output
<1>2. CASE state = "PREAMBLE"
  BY <1>2, <1>7 DEF Output, MacInv
<1>3. CASE state = "SFD"
  BY <1>3, <1>7 DEF Output, MacInv
<1>4. CASE state = "DATA"
  <2>1. crc' = Append(crc, width_conv_register.tdata)
    BY <1>4 DEF Output
  <2>2. state' \in IF length_ok THEN {"DATA", "CRC"} ELSE {"DATA"}
    BY <1>4
  <2>3. ~length_ok => ctr <= MinBytes - 2
    BY <1>4 DEF MacInv
  <2>4. ~length_ok => ctr' = ctr + 1 /\ (length_ok' <=> ctr = MinBytes - 2)
    BY <1>4, <1>7, <2>2, <2>3
  <2>5. /\ length_ok => length_ok'
        /\ state' \in {"DATA", "CRC"}
        /\ state' = "CRC" => length_ok /\ ctr' = 0
    BY <1>4, <1>7, <2>2
  <2>6. ctr' \in 0 .. MinBytes - 1
    OBVIOUS
  <2>. QED
    BY <1>4, <2>1, <2>4, <2>5, <2>6
<1>5. CASE state = "CRC"
  BY <1>5 DEF Output, MacInv
<1>6. CASE state = "IPG"
  BY <1>6 DEF Output, MacInv
<1>. QED
  BY <1>1, <1>2, <1>3, <1>4, <1>5, <1>6

LEMMA MacInvStep ==
  ASSUME TypeInv, MacInv, MacStep, state' \in States
  PROVE  MacInv'
<1>. crc \in Seq(PacketBytes) /\ ctr \in Nat /\ state \in States
  BY DEF TypeInv, TypeOK, States
<1>1. CASE state = "WAIT_VALID"
  BY <1>1 DEF MacInv, MacStep
<1>2. CASE state = "PREAMBLE"
  BY <1>2 DEF MacInv, MacStep
<1>3. CASE state = "SFD"
  BY <1>3 DEF MacInv, MacStep
<1>4. CASE state = "DATA"
  <2>1. width_conv_register.tdata \in PacketBytes
    BY <1>4 DEF TypeInv
  <2>2. Len(crc') = Len(crc) + 1
    BY <1>4, <2>1 DEF MacStep
  <2>. QED
    BY <1>4, <2>2 DEF MacInv, MacStep
<1>5. CASE state = "CRC"
  BY <1>5 DEF MacInv, MacStep
<1>6. CASE state = "IPG"
  BY <1>6 DEF MacInv, MacStep
<1>. QED
  BY <1>1, <1>2, <1>3, <1>4, <1>5, <1>6 DEF States
-----------------------------------------------------------------------------
(* The sink                                                                *)

\* What a complete frame looks like to the sink.
LEMMA FrameIsAcceptable ==
  ASSUME NEW p \in Seq(LineBytes), crc \in Seq(PacketBytes), Len(crc) >= MinBytes,
         Len(p) = 12 + Len(crc), \A i \in 1..Len(p) : p[i] = ByteAt(i)
  PROVE  Acceptable(p)
<1>. DEFINE n == Len(crc)
<1>0. n \in Nat
  OBVIOUS
<1>1. (\A i \in 1..7 : p[i] = Preamble) /\ p[8] = Sfd
  <2>1. \A i \in 1..8 : i \in 1..Len(p)
    BY <1>0
  <2>2. \A i \in 1..7 : ByteAt(i) = Preamble
    BY DEF ByteAt
  <2>3. ByteAt(8) = Sfd
    BY DEF ByteAt
  <2>. QED
    BY <2>1, <2>2, <2>3
<1>2. PreambleBytes(p) = 7
  <2>. DEFINE Counts(k) == (\A i \in 1..k : p[i] = Preamble) /\ (k < Len(p) => p[k + 1] # Preamble)
  <2>1. Counts(7) /\ 7 \in 0..Len(p)
    BY <1>0, <1>1, BytesOnTheLine
  <2>2. ASSUME NEW k \in 0..Len(p), Counts(k)  PROVE k = 7
    <3>1. ~(k < 7)
      BY <1>0, <1>1, <2>2
    <3>2. ~(k > 7)
      BY <1>0, <1>1, <2>2, BytesOnTheLine
    <3>. QED
      BY <3>1, <3>2
  <2>. QED
    BY <2>1, <2>2 DEF PreambleBytes
<1>. DEFINE body == Body(p)
<1>3. /\ body = SubSeq(p, 9, Len(p)) /\ body \in Seq(LineBytes) /\ Len(body) = n + 4
      /\ \A i \in 1 .. n + 4 : body[i] = p[i + 8]
  <2>1. body = SubSeq(p, 9, Len(p))
    BY <1>2 DEF Body
  <2>2. \A i \in 9..Len(p) : p[i] \in LineBytes
    BY ElementOfSeq
  <2>3. /\ SubSeq(p, 9, Len(p)) \in Seq(LineBytes)
        /\ Len(SubSeq(p, 9, Len(p))) = IF 9 <= Len(p) THEN Len(p) - 9 + 1 ELSE 0
        /\ \A i \in 1 .. Len(p) - 9 + 1 : SubSeq(p, 9, Len(p))[i] = p[9 + i - 1]
    <3>. Len(p) \in Int /\ 9 \in Int
      BY <1>0
    <3>. QED
      BY <2>2, SubSeqProperties
  <2>. HIDE DEF body
  <2>4. \A i \in 1 .. n + 4 : i \in 1 .. Len(p) - 9 + 1 /\ 9 + i - 1 = i + 8
    BY <1>0
  <2>. QED
    BY <1>0, <2>1, <2>3, <2>4
<1>. HIDE DEF body
<1>4. \A i \in 1..n : body[i] = crc[i]
  <2>. SUFFICES ASSUME NEW i \in 1..n PROVE ByteAt(i + 8) = crc[i] /\ i \in 1 .. n + 4 /\ i + 8 \in 1..Len(p)
    BY <1>3
  <2>. QED
    BY <1>0 DEF ByteAt
<1>5. \A i \in 1..4 : body[n + i] = CrcByte(crc, i - 1)
  <2>. SUFFICES ASSUME NEW i \in 1..4
                PROVE  ByteAt(n + i + 8) = CrcByte(crc, i - 1) /\ n + i \in 1 .. n + 4 /\ n + i + 8 \in 1..Len(p)
    BY <1>3
  <2>1. ByteAt(n + i + 8) = CrcByte(crc, (n + i + 8 - 9) - n)
    BY <1>0 DEF ByteAt
  <2>2. (n + i + 8 - 9) - n = i - 1
    BY <1>0
  <2>. QED
    BY <1>0, <2>1, <2>2
<1>6. SubSeq(body, 1, n) = crc
  <2>1. \A i \in 1..n : body[i] \in PacketBytes
    BY <1>4, ElementOfSeq
  <2>2. /\ SubSeq(body, 1, n) \in Seq(PacketBytes)
        /\ Len(SubSeq(body, 1, n)) = IF 1 <= n THEN n - 1 + 1 ELSE 0
        /\ \A i \in 1 .. n - 1 + 1 : SubSeq(body, 1, n)[i] = body[1 + i - 1]
    <3>. n \in Int /\ 1 \in Int
      BY <1>0
    <3>. HIDE DEF n
    <3>. QED
      BY <2>1, SubSeqProperties
  <2>3. Len(SubSeq(body, 1, n)) = n
    BY <1>0, <2>2
  <2>4. \A i \in 1..n : SubSeq(body, 1, n)[i] = crc[i]
    <3>1. \A i \in 1..n : i \in 1 .. n - 1 + 1 /\ 1 + i - 1 = i
      BY <1>0
    <3>. QED
      BY <1>4, <2>2, <3>1
  <2>. QED
    BY <2>2, <2>3, <2>4, SeqEqual
<1>7. CrcCorrect(body)
  <2>1. Len(body) - 4 = n
    BY <1>0, <1>3
  <2>. HIDE DEF n
  <2>. QED
    BY <1>5, <1>6, <2>1 DEF CrcCorrect, n
<1>. QED
  BY <1>0, <1>1, <1>2, <1>3, <1>7 DEF Acceptable, body

\* What the sink does with what is on the line: it always takes it.
LEMMA SinkStep ==
  ASSUME IInv, SinkTakesByte \/ SinkEndsPacket \/ SinkIdle
  PROVE  /\ threw' = threw /\ gap_violated' = gap_violated
         /\ current_packet' \in Seq(LineBytes)
         /\ current_packet' = IF state = "IPG" /\ ctr = 1 THEN <<>> ELSE Line
         /\ ipg_counter' = IF state = "IPG" /\ ctr = 1 THEN 12 ELSE GapLeft
<1>1. TypeInv /\ MacInv /\ LineInv /\ GapInv /\ SinkAccepts
  BY DEF IInv
<1>2. /\ current_packet \in Seq(LineBytes) /\ eth_txd \in LineBytes /\ crc \in Seq(PacketBytes)
      /\ ctr \in Nat /\ state \in States /\ ipg_counter \in Nat
  BY <1>1 DEF TypeInv, TypeOK, States
<1>3. CASE SinkTakesByte
  <2>1. Driven
    BY <1>1, <1>3 DEF LineInv, SinkTakesByte
  <2>2. ~(state = "IPG" /\ ctr = 1)
    BY <2>1 DEF Driven
  <2>3. GapLeft = 0
    BY <1>1, <1>2, <2>1 DEF Driven, GapInv, GapLeft
  <2>4. Line = Append(current_packet, eth_txd)
    BY <1>3 DEF SinkTakesByte, Line
  <2>5. gap_violated' = gap_violated
    BY <1>3, <1>1, <2>3 DEF SinkTakesByte, TypeInv, TypeOK
  <2>. QED
    BY <1>2, <1>3, <2>2, <2>4, <2>5 DEF SinkTakesByte
<1>4. CASE ~eth_txen /\ ~(state = "IPG" /\ ctr = 1)
  <2>1. Line = current_packet /\ Sent = 0
    BY <1>1, <1>2, <1>4 DEF Line, LineInv, Driven, Sent, States
  <2>2. current_packet = <<>>
    BY <1>1, <1>2, <2>1, EmptySeq DEF LineInv
  <2>. QED
    BY <1>2, <1>4, <2>1, <2>2 DEF SinkTakesByte, SinkEndsPacket, SinkIdle
<1>5. CASE ~eth_txen /\ state = "IPG" /\ ctr = 1
  <2>1. Line = current_packet /\ Sent = 12 + Len(crc) /\ Len(crc) >= MinBytes
    BY <1>1, <1>2, <1>5 DEF Line, Sent, MacInv
  <2>2. current_packet # <<>>
    BY <1>1, <1>2, <2>1, EmptySeq DEF LineInv
  <2>3. Acceptable(current_packet)
    BY <1>1, <1>2, <2>1, FrameIsAcceptable DEF LineInv
  <2>4. SinkEndsPacket
    BY <1>5, <2>2 DEF SinkTakesByte, SinkIdle
  <2>5. /\ current_packet' = <<>> /\ ipg_counter' = 12
        /\ threw' = threw /\ gap_violated' = gap_violated
    BY <2>3, <2>4 DEF SinkEndsPacket
  <2>. QED
    BY <1>5, <2>5, EmptySeq
<1>. QED
  BY <1>3, <1>4, <1>5 DEF SinkTakesByte, SinkEndsPacket, SinkIdle
-----------------------------------------------------------------------------
(* The steps                                                               *)

LEMMA TypeStep ==
  ASSUME IInv, Clk, NEW tlast \in BOOLEAN, Flags(tlast), Output,
         width_conv_register' = IF axis_i_tready /\ axis_i_tvalid THEN [tvalid |-> TRUE, tdata |-> Head(fifo)]
                                ELSE [width_conv_register EXCEPT !.tvalid = @ /\ ~axis_narrow_reg_tready],
         state' \in States, ctr' \in 0 .. MinBytes - 1, MacStep
  PROVE  TypeInv'
<1>. USE DEF TypeInv
<1>1. TypeInv /\ MacInv /\ TypeOK
  BY DEF IInv
<1>2. fifo' \in Seq(PacketBytes) /\ offered' \in Seq(Seq(PacketBytes)) /\ Len(offered') <= MaxPackets
  BY <1>1, FifoStep DEF Clk
<1>3. crc' \in Seq(PacketBytes)
  <2>1. CASE state = "WAIT_VALID"
    BY <2>1 DEF MacStep
  <2>2. CASE state = "DATA"
    <3>1. width_conv_register.tdata \in PacketBytes /\ crc \in Seq(PacketBytes)
      BY <1>1, <2>2
    <3>2. crc' = Append(crc, width_conv_register.tdata)
      BY <2>2 DEF MacStep
    <3>. QED
      BY ONLY <3>1, <3>2
  <2>3. CASE state \notin {"WAIT_VALID", "DATA"}
    BY <1>1, <2>3 DEF Output
  <2>. QED
    BY <2>1, <2>2, <2>3
<1>4. /\ width_conv_register' \in [tvalid : BOOLEAN, tdata : PacketBytes \cup {Preamble}]
      /\ width_conv_register'.tvalid \/ state' # "WAIT_VALID" => width_conv_register'.tdata \in PacketBytes
  <2>1. CASE axis_i_tready /\ axis_i_tvalid
    <3>1. Head(fifo) \in PacketBytes
      BY <1>1, <2>1, HeadTailProperties DEF axis_i_tvalid
    <3>. QED
      BY <2>1, <3>1
  <2>2. CASE ~(axis_i_tready /\ axis_i_tvalid)
    <3>1. /\ width_conv_register'.tdata = width_conv_register.tdata
          /\ width_conv_register'.tvalid = (width_conv_register.tvalid /\ ~axis_narrow_reg_tready)
          /\ width_conv_register' \in [tvalid : BOOLEAN, tdata : PacketBytes \cup {Preamble}]
      BY <1>1, <2>2
    <3>2. state = "WAIT_VALID" /\ state' # "WAIT_VALID" => width_conv_register.tvalid
      BY <1>1, <2>2 DEF MacStep, axis_i_tready
    <3>. QED
      BY <1>1, <3>1, <3>2
  <2>. QED
    BY <2>1, <2>2
<1>5. eth_txd' \in LineBytes
  <2>1. CASE state = "DATA"
    BY <1>1, <2>1, BytesOnTheLine DEF Output
  <2>2. CASE state = "CRC"
    <3>1. ctr % 4 \in 0..3
      <4>1. ctr \in 0 .. MinBytes - 1
        BY <1>1 DEF TypeOK
      <4>. QED
        BY ONLY <4>1, TxAssumption DEF TxAssumption
    <3>. QED
      BY <1>1, <2>2, <3>1, BytesOnTheLine DEF Output
  <2>3. CASE state \notin {"DATA", "CRC"}
    BY <1>1, <2>3, BytesOnTheLine DEF Output
  <2>. QED
    BY <2>1, <2>2, <2>3
<1>6. /\ threw' = threw /\ gap_violated' = gap_violated /\ current_packet' \in Seq(LineBytes)
      /\ ipg_counter' \in 0..12
  <2>1. /\ threw' = threw /\ gap_violated' = gap_violated /\ current_packet' \in Seq(LineBytes)
        /\ ipg_counter' = 12 \/ ipg_counter' = GapLeft
    BY SinkStep DEF Clk
  <2>2. ipg_counter \in 0..12
    BY <1>1 DEF TypeOK
  <2>3. GapLeft \in 0..12
    BY ONLY <2>2 DEF GapLeft
  <2>. QED
    BY ONLY <2>1, <2>3
<1>7. /\ length_ok' \in BOOLEAN /\ last_byte_sent' \in BOOLEAN /\ eth_txen' \in BOOLEAN /\ swallowed' \in BOOLEAN
  <2>1. length_ok' \in BOOLEAN /\ last_byte_sent' \in BOOLEAN
    BY Zenon DEF Flags
  <2>2. eth_txen' \in BOOLEAN
    <3>1. eth_txen' = (state \in {"PREAMBLE", "SFD", "DATA", "CRC"})
      BY DEF Output
    <3>. QED
      BY ONLY <3>1
  <2>3. swallowed' \in BOOLEAN
    BY DEF Clk, TransmitMac
  <2>. QED
    BY <2>1, <2>2, <2>3
<1>8. threw \in BOOLEAN /\ gap_violated \in BOOLEAN
  BY <1>1, Zenon DEF TypeOK
<1>9. \A flag \in {length_ok, last_byte_sent, eth_txen, threw, gap_violated, swallowed}' : flag \in BOOLEAN
  BY <1>6, <1>7, <1>8, Zenon
<1>10. \A s \in Seq(PacketBytes) : \A b \in Range(s) : b \in PacketBytes
  BY DEF Range
<1>11. TypeOK'
  BY <1>2, <1>3, <1>4, <1>6, <1>9, <1>10 DEF TypeOK, States
<1>. QED
  BY <1>2, <1>3, <1>4, <1>5, <1>6, <1>11

\* A byte more on the line, and it is the one that is due.
LEMMA LineStep ==
  ASSUME IInv, Clk, Output, MacStep, state' \in States, TypeInv', MacInv'
  PROVE  LineInv'
<1>1. TypeInv /\ MacInv /\ LineInv
  BY DEF IInv
<1>2. /\ current_packet \in Seq(LineBytes) /\ eth_txd \in LineBytes /\ crc \in Seq(PacketBytes)
      /\ current_packet' \in Seq(LineBytes) /\ eth_txd' \in LineBytes /\ crc' \in Seq(PacketBytes)
      /\ ctr \in Nat /\ ctr' \in Nat /\ state \in States
  BY <1>1 DEF TypeInv, TypeOK, States
<1>3. current_packet' = IF state = "IPG" /\ ctr = 1 THEN <<>> ELSE Line
  BY SinkStep DEF Clk
<1>4. Line \in Seq(LineBytes)
  BY <1>2 DEF Line
<1>5. eth_txen' <=> state \in {"PREAMBLE", "SFD", "DATA", "CRC"}
  BY DEF Output
<1>6. eth_txen' <=> Driven'
  BY <1>1, <1>2, <1>5 DEF MacStep, MacInv, Driven, States
<1>7. CASE state \in {"PREAMBLE", "SFD", "DATA", "CRC"}
  <2>1. PICK n \in Nat : n = Sent
    BY <1>2 DEF Sent
  <2>2. Sent' = n + 1
    <3>1. CASE state = "PREAMBLE"
      BY <1>1, <1>2, <3>1, <2>1 DEF Sent, MacStep
    <3>2. CASE state = "SFD"
      BY <1>1, <1>2, <3>2, <2>1 DEF Sent, MacStep, MacInv
    <3>3. CASE state = "DATA"
      <4>1. Len(crc') = Len(crc) + 1
        BY <1>1, <1>2, <3>3, <2>1 DEF MacStep, TypeInv
      <4>. QED
        BY <1>2, <2>1, <3>3, <4>1 DEF Sent, MacStep
    <3>4. CASE state = "CRC"
      <4>1. n = 8 + Len(crc) + ctr /\ Len(crc) \in Nat /\ ctr \in 0..3 /\ crc' = crc
        BY <1>1, <1>2, <2>1, <3>4 DEF Sent, MacInv, MacStep
      <4>2. /\ state' = IF ctr = 3 THEN "IPG" ELSE "CRC"
            /\ ctr' = IF ctr = 3 THEN 0 ELSE ctr + 1
        BY <3>4 DEF MacStep
      <4>. QED
        BY <4>1, <4>2 DEF Sent
    <3>. QED
      BY <1>7, <3>1, <3>2, <3>3, <3>4
  <2>3. eth_txd' = ByteAt(n + 1)'
    <3>1. CASE state = "PREAMBLE"
      BY <1>1, <1>2, <3>1, <2>1 DEF Sent, MacStep, MacInv, ByteAt, Output
    <3>2. CASE state = "SFD"
      BY <1>1, <1>2, <3>2, <2>1 DEF Sent, MacStep, ByteAt, Output
    <3>3. CASE state = "DATA"
      <4>1. n = 8 + Len(crc) /\ Len(crc) \in Nat
        BY <1>2, <2>1, <3>3 DEF Sent
      <4>2. Len(crc') = Len(crc) + 1 /\ crc'[Len(crc) + 1] = width_conv_register.tdata
        BY <1>1, <1>2, <3>3, <2>1 DEF MacStep, TypeInv
      <4>3. ByteAt(n + 1)' = crc'[(n + 1) - 8]
        BY <4>1, <4>2 DEF ByteAt
      <4>4. (n + 1) - 8 = Len(crc) + 1
        BY <4>1
      <4>. QED
        BY <3>3, <4>2, <4>3, <4>4 DEF Output
    <3>4. CASE state = "CRC"
      <4>1. n = 8 + Len(crc) + ctr /\ Len(crc) \in Nat /\ ctr \in 0..3 /\ crc' = crc
        BY <1>1, <1>2, <3>4, <2>1 DEF Sent, MacInv, MacStep
      <4>2. ByteAt(n + 1)' = CrcByte(crc, (n + 1 - 9) - Len(crc))
        <5>1. ~(n + 1 <= 7) /\ n + 1 # 8 /\ ~(n + 1 <= 8 + Len(crc))
          BY <4>1
        <5>. QED
          BY <4>1, <5>1 DEF ByteAt
      <4>3. (n + 1 - 9) - Len(crc) = ctr /\ ctr % 4 = ctr
        BY <4>1
      <4>. QED
        BY <3>4, <4>2, <4>3 DEF Output
    <3>. QED
      BY <1>7, <3>1, <3>2, <3>3, <3>4
  <2>4. \A i \in 1..n : ByteAt(i)' = ByteAt(i)
    <3>1. CASE state = "DATA"
      <4>1. /\ n = 8 + Len(crc) /\ Len(crc) \in Nat
            /\ Len(crc') = Len(crc) + 1 /\ \A i \in 1..Len(crc) : crc'[i] = crc[i]
        BY <1>1, <1>2, <3>1, <2>1 DEF Sent, MacStep, TypeInv
      <4>. QED
        BY <4>1 DEF ByteAt
    <3>2. CASE state # "DATA"
      <4>1. crc' = crc
        BY <1>7, <3>2 DEF MacStep
      <4>. QED
        BY <4>1 DEF ByteAt
    <3>. QED
      BY <3>1, <3>2
  <2>5. Line' = Append(Line, eth_txd')
    BY <1>3, <1>5, <1>7 DEF Line
  <2>6. Len(Line) = n /\ \A i \in 1..n : Line[i] = ByteAt(i)
    BY <1>1, <2>1 DEF LineInv
  <2>7. Len(Line') = n + 1 /\ Line'[n + 1] = eth_txd' /\ \A i \in 1..n : Line'[i] = Line[i]
    BY <1>2, <1>4, <2>1, <2>5, <2>6
  <2>8. \A i \in 1 .. n + 1 : Line'[i] = ByteAt(i)'
    BY <2>1, <2>3, <2>4, <2>6, <2>7
  <2>. QED
    BY <1>6, <2>2, <2>7, <2>8 DEF LineInv
<1>8. CASE state = "WAIT_VALID" \/ (state = "IPG" /\ ctr >= 1)
  <2>1. Sent' = 0
    BY <1>1, <1>2, <1>8 DEF Sent, MacStep, MacInv
  <2>2. Line' = IF state = "IPG" /\ ctr = 1 THEN <<>> ELSE Line
    BY <1>3, <1>5, <1>8 DEF Line
  <2>3. ~(state = "IPG" /\ ctr = 1) => Len(Line) = 0
    BY <1>1, <1>2, <1>8 DEF LineInv, Sent
  <2>. QED
    BY <1>4, <1>6, <2>1, <2>2, <2>3 DEF LineInv
<1>9. CASE state = "IPG" /\ ctr = 0
  <2>1. Sent' = Sent /\ crc' = crc
    BY <1>1, <1>2, <1>9 DEF Sent, MacStep, MacInv
  <2>2. Line' = Line
    BY <1>3, <1>5, <1>9 DEF Line
  <2>3. \A i \in 1..Sent : ByteAt(i)' = ByteAt(i)
    BY <2>1 DEF ByteAt
  <2>. QED
    BY <1>1, <1>6, <2>1, <2>2, <2>3 DEF LineInv
<1>. QED
  BY <1>2, <1>7, <1>8, <1>9 DEF States

LEMMA GapStep ==
  ASSUME IInv, Clk, MacStep, state' \in States
  PROVE  GapInv'
<1>1. TypeInv /\ MacInv /\ GapInv
  BY DEF IInv
<1>2. ctr \in Nat /\ state \in States /\ ipg_counter \in Nat
  BY <1>1 DEF TypeInv, TypeOK, States
<1>3. ipg_counter' = IF state = "IPG" /\ ctr = 1 THEN 12 ELSE GapLeft
  BY SinkStep DEF Clk
<1>4. CASE state = "WAIT_VALID"
  BY <1>1, <1>2, <1>3, <1>4 DEF MacStep, GapInv, GapLeft
<1>5. CASE state = "PREAMBLE"
  BY <1>1, <1>2, <1>3, <1>5 DEF MacStep, MacInv, GapInv, GapLeft
<1>6. CASE state \in {"SFD", "DATA", "CRC"}
  BY <1>1, <1>2, <1>3, <1>6 DEF MacStep, MacInv, GapInv, GapLeft
<1>7. CASE state = "IPG"
  BY <1>1, <1>2, <1>3, <1>7 DEF MacStep, MacInv, GapInv, GapLeft
<1>. QED
  BY <1>2, <1>4, <1>5, <1>6, <1>7 DEF States
-----------------------------------------------------------------------------
(* The theorems                                                            *)

LEMMA Initially == Init => IInv
<1>. SUFFICES ASSUME Init PROVE IInv
  OBVIOUS
<1>. USE DEF Init
<1>1. TypeInv
  <2>1. /\ fifo \in Seq(PacketBytes) /\ offered \in Seq(Seq(PacketBytes)) /\ crc \in Seq(PacketBytes)
        /\ current_packet \in Seq(LineBytes) /\ eth_txd \in LineBytes
    BY BytesOnTheLine
  <2>2. /\ width_conv_register \in [tvalid : BOOLEAN, tdata : PacketBytes \cup {Preamble}]
        /\ ~width_conv_register.tvalid
    OBVIOUS
  <2>3. \A flag \in {length_ok, last_byte_sent, eth_txen, threw, gap_violated, swallowed} : flag \in BOOLEAN
    BY Zenon
  <2>4. TypeOK
    BY <2>2, <2>3 DEF TypeOK, Range
  <2>. QED
    BY <2>1, <2>2, <2>4 DEF TypeInv
<1>2. MacInv /\ GapInv /\ SinkAccepts
  BY DEF MacInv, GapInv, SinkAccepts
<1>3. LineInv
  BY DEF LineInv, Line, Sent, Driven
<1>. QED
  BY <1>1, <1>2, <1>3 DEF IInv

LEMMA Inductive == IInv /\ [Clk]_vars => IInv'
<1>1. ASSUME IInv, Clk  PROVE IInv'
  <2>1. TypeInv /\ MacInv /\ SinkAccepts
    BY <1>1 DEF IInv
  <2>2. PICK tlast \in BOOLEAN :
          /\ state' = next_state(tlast)
          /\ ctr' = IF state' # state THEN 0 ELSE (ctr + 1) % MinBytes
          /\ Flags(tlast) /\ Output
          /\ width_conv_register' =
               IF axis_i_tready /\ axis_i_tvalid THEN [tvalid |-> TRUE, tdata |-> Head(fifo)]
               ELSE [width_conv_register EXCEPT !.tvalid = @ /\ ~axis_narrow_reg_tready]
    <3>1. IsLast(Head(fifo)) \in BOOLEAN
      BY DEF IsLast
    <3>. QED
      BY <1>1, <3>1 DEF Clk, TransmitMac
  <2>3. MacStep /\ state' \in States /\ ctr' \in 0 .. MinBytes - 1
    BY <2>1, <2>2, MacSteps
  <2>4. TypeInv'
    BY <1>1, <2>2, <2>3, TypeStep
  <2>5. MacInv'
    BY <2>1, <2>3, MacInvStep
  <2>6. LineInv'
    BY <1>1, <2>2, <2>3, <2>4, <2>5, LineStep
  <2>7. GapInv'
    BY <1>1, <2>3, GapStep
  <2>8. SinkAccepts'
    BY <1>1, <2>1, SinkStep DEF Clk, SinkAccepts
  <2>. QED
    BY <2>4, <2>5, <2>6, <2>7, <2>8 DEF IInv
<1>2. ASSUME IInv, UNCHANGED vars  PROVE IInv'
  <2>. USE <1>2 DEF vars, mac, sink, IInv
  <2>1. TypeInv'
    BY DEF TypeInv, TypeOK
  <2>2. MacInv' /\ GapInv' /\ SinkAccepts'
    BY DEF MacInv, GapInv, SinkAccepts
  <2>3. Line' = Line /\ Sent' = Sent /\ Driven' = Driven /\ \A i \in 1..Sent : ByteAt(i)' = ByteAt(i)
    BY DEF Line, Sent, Driven, ByteAt
  <2>4. LineInv'
    BY <2>3 DEF LineInv
  <2>. QED
    BY <2>1, <2>2, <2>4
<1>. QED
  BY <1>1, <1>2

\* The variables keep their types: ctr its width, and the sink's counter does
\* not run below zero.
THEOREM TypeCorrect == Spec => []TypeOK
<1>1. IInv => TypeOK
  BY DEF IInv, TypeInv
<1>. QED
  BY <1>1, Initially, Inductive, PTL DEF Spec

\* GMIISink::eval throws none of its exceptions, and builds none about the gap:
\* preamble, length and CRC of each frame are right, however the packets of the
\* FIFO follow one another and whatever their lengths.
THEOREM SinkAcceptsCorrect == Spec => []SinkAccepts
<1>1. IInv => SinkAccepts
  BY DEF IInv
<1>. QED
  BY <1>1, Initially, Inductive, PTL DEF Spec
=============================================================================
