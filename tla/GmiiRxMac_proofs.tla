-------------------------- MODULE GmiiRxMac_proofs --------------------------
(***************************************************************************)
(* For every width of a word, every set of lengths, every gap and reset:   *)
(* the packets that gmii_rx_mac_async puts out are frames of the line, and *)
(* every frame that arrives whole goes out.                                *)
(***************************************************************************)
EXTENDS GmiiRxMac, SequenceTheorems, FiniteSetTheorems, TLAPS

USE AxisBytesAssumption, EdgesAssumption

\* The error filter is done with the word at the output: it forgets it, or
\* hands on the packet.
Done == fifo_in.tlast \/ fifo_in_error

\* What the error filter holds of a packet once it has taken the word ...
Carry == IF ~fifo_in_valid THEN sent ELSE IF Done THEN <<>> ELSE Bytes

\* ... and what the MAC holds of the next word.
Filling == [i \in 1 .. ctr |-> fifo_in.data[i - 1]]

Held == Carry \o Filling

\* Preamble and payload on the line, as far as the MAC relies on them.
LineInv ==
  /\ rx_valid => gap = 0
  /\ rx_data.tag.index = 0 => rx_data.tag.err = "none"
  /\ rx_data.tag.index = 0 /\ rx_data.val = "data" => rx_data.tag.last
  /\ rx_data.tag.index > 0 /\ rx_data.tag.err # "before" => rx_data.val = "data"
  /\ ~rx_valid => \E f \in {0, 1} : rx_data = IdleByte(f)

\* The lanes that are kept are those below ctr, or all of a full word, and
\* something has been put into them.
LanesInv ==
  /\ \A l \in fifo_in.keep : fifo_in.data[l] \in Tag
  /\ ctr # 0 => fifo_in.keep = 0 .. ctr - 1
  /\ fifo_in_valid => ctr # 0 \/ fifo_in.keep = Lane
  /\ fifo_in_valid /\ ~Done => ctr = 0

\* A reset holds the state machine from its second edge on.
ResetInv == reset \in 1 .. ResetEdges - 1 => state = "SM_WAIT_INVALID"

\* Between frames the error filter holds nothing.
EmptyInv ==
  /\ reset = 0 /\ state # "SM_OUTPUT" => Carry = <<>>
  /\ state = "SM_SFD" => ~fifo_in_valid

\* held ends with the bytes of the frame at the input from index k on, up to
\* the one before tag.
Gathered(held, stale, k, tag) ==
  /\ stale <= Len(held)
  /\ tag.index = k + Len(held) - stale
  /\ \A i \in stale + 1 .. Len(held) :
       /\ held[i].frame = tag.frame
       /\ held[i].index = k + (i - stale) - 1
       /\ ~held[i].last
       /\ held[i].err = IF tag.err = "before" THEN "before" ELSE "none"

Collects(held, tag) ==
  \E stale \in 0 .. AXIS_BYTES - 1, k \in Nat \ {0} :
    /\ tag.err # "before" => k = 1
    /\ Gathered(held, stale, k, tag)

\* While a frame is put out, what was gathered of it follows what was left in
\* the lanes; or nothing did, and the line is idle again.
OutputInv ==
  state = "SM_OUTPUT" =>
    IF rx_valid THEN rx_data.tag.index > 0 /\ Collects(Held, rx_data.tag)
    ELSE gap < MinGap /\ Carry = <<>>

\* The state machine is in step with a frame that no reset has hit.
PhaseInv ==
  /\ gap >= 2 => state \in {"SM_WAIT_INVALID", "SM_PREAMBLE"}
  /\ whole /\ rx_valid /\ rx_data.tag.index = 0 =>
       state = "SM_SFD" \/ (state = "SM_PREAMBLE" /\ rx_data.val # "d5")
  /\ whole /\ rx_valid /\ rx_data.tag.index > 0 /\ rx_data.tag.err # "before" =>
       state = "SM_OUTPUT"

IInv ==
  /\ TypeOK
  /\ LineInv
  /\ LanesInv
  /\ ResetInv
  /\ EmptyInv
  /\ OutputInv
  /\ PhaseInv
  /\ PacketsAreFrames
-----------------------------------------------------------------------------
LEMMA MaxLengthType == MaxLength \in Nat
<1>1. \E n \in FrameLengths : \A m \in FrameLengths : m <= n
  BY LengthsAssumption
<1>2. MaxLength \in FrameLengths
  BY <1>1 DEF MaxLength
<1>. QED
  BY <1>2, LengthsAssumption

\* The kept lanes, if they are the first ones.
LEMMA KeptFirst ==
  ASSUME NEW word, NEW c \in Nat, word.keep = 0 .. c - 1
  PROVE  Kept(word) = [i \in 1 .. c |-> word.data[i - 1]]
<1>. DEFINE Below(l) == Cardinality({k \in word.keep : k < l})
<1>1. Cardinality(word.keep) = c
  BY FS_Interval
<1>2. ASSUME NEW l \in word.keep  PROVE Cardinality({k \in word.keep : k < l}) = l
  <2>1. l \in Nat /\ {k \in word.keep : k < l} = 0 .. l - 1
    OBVIOUS
  <2>2. 0 \in Int /\ l - 1 \in Int
    BY <2>1
  <2>3. Cardinality(0 .. l - 1) = IF 0 > l - 1 THEN 0 ELSE (l - 1) - 0 + 1
    BY <2>2, FS_Interval
  <2>4. Cardinality(0 .. l - 1) = l
    BY <2>1, <2>3
  <2>. QED
    BY <2>1, <2>4, Zenon
<1>3. \A l \in word.keep : Below(l) = l
  BY <1>2
<1>. HIDE DEF Below
<1>4. ASSUME NEW i \in 1 .. c
      PROVE  (CHOOSE l \in word.keep : Below(l) = i - 1) = i - 1
  <2>1. i - 1 \in word.keep
    OBVIOUS
  <2>2. Below(i - 1) = i - 1
    BY <1>3, <2>1
  <2>3. \A l \in word.keep : Below(l) = i - 1 => l = i - 1
    BY <1>3
  <2>. QED
    BY <2>1, <2>2, <2>3
<1>5. Kept(word) = [i \in 1 .. c |-> word.data[CHOOSE l \in word.keep : Below(l) = i - 1]]
  BY <1>1 DEF Kept, Below
<1>. QED
  BY <1>4, <1>5

LEMMA WordKept ==
  ASSUME TypeOK, LanesInv, fifo_in_valid
  PROVE  Kept(fifo_in) \in Seq(Tag)
<1>. DEFINE c == IF ctr = 0 THEN AXIS_BYTES ELSE ctr
<1>1. c \in 1 .. AXIS_BYTES /\ fifo_in.keep = 0 .. c - 1
  BY DEF TypeOK, LanesInv, Lane
<1>. HIDE DEF c
<1>2. Kept(fifo_in) = [i \in 1 .. c |-> fifo_in.data[i - 1]]
  BY <1>1, KeptFirst
<1>3. \A i \in 1 .. c : fifo_in.data[i - 1] \in Tag
  BY <1>1 DEF LanesInv
<1>. QED
  BY <1>1, <1>2, <1>3

LEMMA HeldType ==
  ASSUME TypeOK, LanesInv
  PROVE  /\ Carry \in Seq(Tag)
         /\ Filling \in Seq(Tag) /\ Len(Filling) = ctr
         /\ Held \in Seq(Tag) /\ Len(Held) = Len(Carry) + ctr
<1>1. Carry \in Seq(Tag)
  BY WordKept, ConcatProperties DEF Carry, Bytes, TypeOK
<1>2. ctr \in Nat
  BY DEF TypeOK, Lane
<1>3. \A i \in 1 .. ctr : fifo_in.data[i - 1] \in Tag
  BY <1>2 DEF LanesInv
<1>4. Filling \in Seq(Tag) /\ Len(Filling) = ctr
  BY <1>2, <1>3 DEF Filling
<1>. QED
  BY <1>1, <1>4, ConcatProperties DEF Held
-----------------------------------------------------------------------------
(* The line.                                                               *)

LEMMA IdleType ==
  ASSUME NEW f \in {0, 1}
  PROVE  IdleByte(f) \in Byte /\ IdleByte(f).tag.index = 0 /\ IdleByte(f).tag.err = "none"
         /\ IdleByte(f).tag.last /\ IdleByte(f).tag.frame = f
BY MaxLengthType DEF IdleByte, Lead, Byte, Tag

LEMMA FirstType ==
  ASSUME NEW f \in {0, 1}, NEW byte \in AfterPreamble(f)
  PROVE  /\ byte \in Byte
         /\ byte.tag.frame = f /\ byte.tag.index = 0 /\ byte.tag.err = "none"
         /\ byte.val = "data" => byte.tag.last
<1>1. PICK val \in {"55", "d5", "data"}, last \in BOOLEAN :
        byte = Lead(f, val, last) /\ (val = "data" => last)
  <2>1. CASE byte \in FirstBytes(f)
    BY <2>1 DEF FirstBytes
  <2>2. CASE byte \notin FirstBytes(f)
    <3>1. PICK last \in {l \in BOOLEAN : l => 0 \in FrameLengths} : byte = Lead(f, "d5", last)
      BY <2>2 DEF AfterPreamble
    <3>. QED
      BY <3>1
  <2>. QED
    BY <2>1, <2>2
<1>. QED
  BY <1>1, MaxLengthType DEF Lead, Byte, Tag

\* What a frame goes on with after the byte that is at the input.
Follows(byte) ==
  IF rx_data.val = "55" /\ rx_data.tag.index = 0
  THEN byte.tag.index = 0
  ELSE /\ byte.tag.index = rx_data.tag.index + 1
       /\ byte.tag.err = "before" <=> rx_data.tag.err \in {"here", "before"}
       /\ byte.tag.err # "before" => byte.val = "data"

LEMMA NextType ==
  ASSUME TypeOK, NEW byte \in NextBytes(rx_data)
  PROVE  /\ byte \in Byte
         /\ byte.tag.frame = rx_data.tag.frame
         /\ byte.tag.index = 0 => byte.tag.err = "none" /\ (byte.val = "data" => byte.tag.last)
         /\ byte.tag.index > 0 /\ byte.tag.err # "before" => byte.val = "data"
         /\ Follows(byte)
<1>1. rx_data \in Byte /\ rx_data.tag \in Tag /\ rx_data.tag.frame \in {0, 1} /\ rx_data.tag.index \in Nat
      /\ rx_data.tag.err \in {"none", "here", "before"}
  BY MaxLengthType DEF TypeOK, Byte, Tag
<1>2. CASE rx_data.val = "55" /\ rx_data.tag.index = 0
  BY <1>1, <1>2, FirstType DEF NextBytes, Follows
<1>3. CASE ~(rx_data.val = "55" /\ rx_data.tag.index = 0)
  <2>1. byte \in AfterPayload(rx_data.tag)
    BY <1>3 DEF NextBytes
  <2>. QED
    BY <1>1, <1>3, <2>1 DEF AfterPayload, Follows
<1>. QED
  BY <1>2, <1>3

\* What an edge leaves at the input.
LineStep ==
  /\ rx_data' \in Byte /\ rx_valid' \in BOOLEAN
  /\ gap' \in 0 .. MinGap /\ reset' \in 0 .. ResetEdges /\ whole' \in BOOLEAN
  /\ reset = 0 => reset' \in {0, ResetEdges}
  /\ reset # 0 => reset' = reset - 1
  /\ IF MidFrame
     THEN /\ rx_valid' /\ gap' = gap /\ (whole' <=> whole /\ reset = 0)
          /\ rx_data'.tag.frame = rx_data.tag.frame
          /\ Follows(rx_data')
     ELSE \/ /\ ~rx_valid' /\ (whole' <=> whole)
             /\ gap' = IF gap = MinGap THEN gap ELSE gap + 1
          \/ /\ rx_valid' /\ (whole' <=> reset = 0) /\ gap = MinGap
             /\ rx_data'.tag.index = 0 /\ rx_data'.val # "d5"

LEMMA LineEdge ==
  ASSUME TypeOK, LineInv, Next
  PROVE  LineInv' /\ LineStep
<1>1. rx_data \in Byte /\ rx_data.tag.frame \in {0, 1} /\ gap \in Nat /\ reset \in Nat
  BY DEF TypeOK, Byte, Tag
<1>2. ASSUME NEW dv \in BOOLEAN, NEW byte, Edge(dv, byte)
      PROVE  /\ reset' \in 0 .. ResetEdges
             /\ reset = 0 => reset' \in {0, ResetEdges}
             /\ reset # 0 => reset' = reset - 1
  BY <1>1, <1>2 DEF TypeOK, Edge
<1>3. CASE Idle
  <2>1. /\ ~MidFrame
        /\ rx_valid' = FALSE /\ rx_data' = IdleByte(rx_data.tag.frame)
        /\ gap' = IF gap = MinGap THEN gap ELSE gap + 1
        /\ whole' = whole
    BY <1>3 DEF Idle, Edge
  <2>2. Edge(FALSE, IdleByte(rx_data.tag.frame))
    BY <1>3 DEF Idle
  <2>3. gap' \in 0 .. MinGap
    BY <1>1, <2>1 DEF TypeOK
  <2>4. IdleByte(rx_data.tag.frame) \in Byte /\ rx_data'.tag.index = 0
        /\ rx_data'.tag.err = "none" /\ rx_data'.tag.last
    BY <1>1, <2>1, IdleType
  <2>5. LineInv'
    BY <1>1, <2>1, <2>4 DEF LineInv
  <2>. QED
    BY <1>2, <2>1, <2>2, <2>3, <2>4, <2>5 DEF LineStep, TypeOK
<1>4. CASE StartFrame
  <2>1. PICK byte \in FirstBytes(1 - rx_data.tag.frame) : Edge(TRUE, byte)
    BY <1>4 DEF StartFrame
  <2>2. /\ rx_valid' = TRUE /\ rx_data' = byte
        /\ gap = MinGap /\ gap' = 0 /\ whole' = (reset = 0)
    BY <1>4, <2>1 DEF StartFrame, Edge
  <2>3. ~MidFrame
    BY <2>2 DEF LineInv, MidFrame
  <2>4. 1 - rx_data.tag.frame \in {0, 1} /\ byte \in AfterPreamble(1 - rx_data.tag.frame)
    <3>1. 1 - rx_data.tag.frame \in {0, 1}
      BY <1>1
    <3>2. byte \in AfterPreamble(1 - rx_data.tag.frame)
      BY Zenon DEF AfterPreamble
    <3>. QED
      BY <3>1, <3>2
  <2>5. byte \in Byte /\ byte.tag.index = 0 /\ byte.tag.err = "none" /\ (byte.val = "data" => byte.tag.last)
    BY <2>4, FirstType
  <2>6. byte.val # "d5"
    BY DEF FirstBytes, Lead
  <2>7. LineInv'
    BY <2>2, <2>5 DEF LineInv
  <2>8. whole' \in BOOLEAN /\ (whole' <=> reset = 0)
    BY <2>2
  <2>9. rx_data' \in Byte /\ rx_data'.tag.index = 0 /\ rx_data'.val # "d5" /\ rx_valid'
        /\ gap' \in 0 .. MinGap
    BY <2>2, <2>5, <2>6
  <2>. QED
    BY <1>2, <2>1, <2>2, <2>3, <2>7, <2>8, <2>9 DEF LineStep
<1>5. CASE ContinueFrame
  <2>1. PICK byte \in NextBytes(rx_data) : Edge(TRUE, byte)
    BY <1>5 DEF ContinueFrame
  <2>2. /\ MidFrame
        /\ rx_valid' = TRUE /\ rx_data' = byte
        /\ gap' = gap /\ whole' = (whole /\ reset = 0)
    BY <1>5, <2>1 DEF ContinueFrame, Edge
  <2>3. /\ byte \in Byte
        /\ byte.tag.frame = rx_data.tag.frame
        /\ byte.tag.index = 0 => byte.tag.err = "none" /\ (byte.val = "data" => byte.tag.last)
        /\ byte.tag.index > 0 /\ byte.tag.err # "before" => byte.val = "data"
        /\ Follows(byte)
    BY NextType
  <2>4. LineInv'
    BY <2>2, <2>3 DEF LineInv, MidFrame
  <2>5. Follows(rx_data') /\ rx_data' \in Byte /\ rx_data'.tag.frame = rx_data.tag.frame
    BY <2>2, <2>3
  <2>. QED
    BY <1>2, <2>1, <2>2, <2>4, <2>5 DEF LineStep, TypeOK
<1>. QED
  BY <1>3, <1>4, <1>5 DEF Next

\* What an edge does to the state machine and to the error filter.
Machine(rx_last) ==
  /\ WaitInvalid \/ Preamble \/ Sfd \/ Output(rx_last)
  /\ rx_last \in BOOLEAN /\ (rx_last <=> ~rx_valid')
  /\ sent' = IF reset > 0 THEN <<>> ELSE Carry

LEMMA MachineEdge ==
  ASSUME Next
  PROVE  \E rx_last \in BOOLEAN : Machine(rx_last)
<1>1. ASSUME NEW dv \in BOOLEAN, NEW byte, Edge(dv, byte)
      PROVE  Machine(~dv)
  BY <1>1 DEF Machine, Edge, Carry, Done
<1>2. PICK dv \in BOOLEAN : \E byte : Edge(dv, byte)
  BY DEF Next, Idle, StartFrame, ContinueFrame
<1>. QED
  BY <1>1, <1>2
-----------------------------------------------------------------------------
(* The state machine.                                                      *)

LEMMA PackedType ==
  ASSUME TypeOK, LanesInv, NEW last \in BOOLEAN
  PROVE  /\ Packed(last) \in Word
         /\ Packed(last).keep = 0 .. ctr
         /\ \A l \in 0 .. ctr : Packed(last).data[l] \in Tag
         /\ \A l \in 0 .. ctr - 1 : Packed(last).data[l] = fifo_in.data[l]
         /\ Packed(last).data[ctr] = rx_data.tag
<1>1. /\ ctr \in Lane /\ ctr \in Nat /\ rx_data.tag \in Tag
      /\ fifo_in.data \in [Lane -> Tag \cup {NoByte}] /\ fifo_in.keep \in SUBSET Lane
  BY DEF TypeOK, Lane, Byte, Word
<1>. DEFINE data == [fifo_in.data EXCEPT ![ctr] = rx_data.tag]
            keep == (IF ctr = 0 THEN {} ELSE fifo_in.keep) \cup {ctr}
<1>2. data \in [Lane -> Tag \cup {NoByte}] /\ data[ctr] = rx_data.tag
      /\ \A l \in Lane : l # ctr => data[l] = fifo_in.data[l]
  BY <1>1
<1>3. keep = 0 .. ctr /\ keep \in SUBSET Lane
  BY <1>1 DEF LanesInv, Lane
<1>4. \A l \in 0 .. ctr - 1 : l \in Lane /\ l # ctr /\ fifo_in.data[l] \in Tag
  BY <1>1 DEF LanesInv, Lane
<1>. HIDE DEF data, keep
<1>5. Packed(last) = [data |-> data, keep |-> keep, tlast |-> last]
  BY DEF Packed, data, keep
<1>6. Packed(last) \in Word
  BY <1>2, <1>3, <1>5 DEF Word
<1>7. \A l \in 0 .. ctr : data[l] \in Tag
  BY <1>1, <1>2, <1>4
<1>. QED
  BY <1>1, <1>2, <1>3, <1>4, <1>5, <1>6, <1>7

LEMMA MachineType ==
  ASSUME TypeOK, LanesInv, NEW rx_last, Machine(rx_last)
  PROVE  /\ state' \in {"SM_WAIT_INVALID", "SM_PREAMBLE", "SM_SFD", "SM_OUTPUT"}
         /\ ctr' \in Lane
         /\ fifo_in_valid' \in BOOLEAN /\ fifo_in_error' \in BOOLEAN
         /\ fifo_in' \in Word
         /\ sent' \in Seq(Tag)
         /\ LanesInv'
<1>1. sent' \in Seq(Tag)
  BY HeldType DEF Machine
<1>2. CASE WaitInvalid \/ Preamble \/ Sfd
  <2>1. fifo_in_valid' = FALSE /\ fifo_in' = fifo_in /\ fifo_in_error' = fifo_in_error
        /\ ctr' \in {0, ctr}
    BY <1>2 DEF WaitInvalid, Preamble, Sfd, NothingOut
  <2>2. state' \in {"SM_WAIT_INVALID", "SM_PREAMBLE", "SM_SFD", "SM_OUTPUT"}
    BY <1>2 DEF WaitInvalid, Preamble, Sfd, Goto, TypeOK
  <2>3. LanesInv'
    BY <2>1 DEF LanesInv
  <2>4. ctr' \in Lane
    BY <2>1 DEF TypeOK, Lane
  <2>5. fifo_in_valid' \in BOOLEAN /\ fifo_in_error' \in BOOLEAN
    BY <2>1 DEF TypeOK
  <2>6. fifo_in' \in Word
    BY <2>1 DEF TypeOK
  <2>. QED
    BY <1>1, <2>2, <2>3, <2>4, <2>5, <2>6
<1>3. CASE Output(rx_last)
  <2>1. /\ fifo_in' = Packed(rx_last)
        /\ fifo_in_valid' = (rx_last \/ rx_error \/ ctr = REG_CTR_MAX)
        /\ fifo_in_error' = rx_error
        /\ ctr' = IF ctr = REG_CTR_MAX THEN 0 ELSE ctr + 1
        /\ state' \in {"SM_WAIT_INVALID", "SM_PREAMBLE", "SM_OUTPUT"}
    BY <1>3 DEF Output, Goto
  <2>2. rx_last \in BOOLEAN /\ rx_error \in BOOLEAN
    BY DEF Machine, rx_error
  <2>3. /\ fifo_in' \in Word
        /\ fifo_in'.keep = 0 .. ctr
        /\ \A l \in 0 .. ctr : fifo_in'.data[l] \in Tag
        /\ fifo_in'.tlast = rx_last
    BY <2>1, <2>2, PackedType DEF Packed
  <2>4. fifo_in_valid' \in BOOLEAN /\ (fifo_in_valid' <=> rx_last \/ rx_error \/ ctr = REG_CTR_MAX)
    BY <2>1, <2>2
  <2>5. ctr \in 0 .. AXIS_BYTES - 1
    BY DEF TypeOK, Lane
  <2>6. ctr' \in Lane
    BY <2>1, <2>5 DEF Lane, REG_CTR_MAX
  <2>7. ctr' # 0 => fifo_in'.keep = 0 .. ctr' - 1
    BY <2>1, <2>3, <2>5
  <2>8. ctr' = 0 => fifo_in'.keep = Lane
    BY <2>1, <2>3, <2>5 DEF Lane, REG_CTR_MAX
  <2>9. fifo_in_valid' /\ ~Done' => ctr' = 0
    BY <2>1, <2>2, <2>3, <2>4 DEF Done
  <2>10. LanesInv'
    BY <2>3, <2>7, <2>8, <2>9 DEF LanesInv
  <2>. QED
    BY <1>1, <2>1, <2>2, <2>3, <2>4, <2>6, <2>10
<1>. QED
  BY <1>2, <1>3 DEF Machine

\* The byte at the input is added to what is held.
LEMMA OutputAppends ==
  ASSUME TypeOK, LanesInv, reset = 0, NEW rx_last, Machine(rx_last), Output(rx_last)
  PROVE  /\ fifo_in_valid' => Bytes' = Append(Held, rx_data.tag)
         /\ ~Done' => Held' = Append(Held, rx_data.tag)
<1>1. /\ fifo_in' = Packed(rx_last) /\ sent' = Carry
      /\ ctr' = IF ctr = REG_CTR_MAX THEN 0 ELSE ctr + 1
      /\ rx_last \in BOOLEAN /\ rx_data.tag \in Tag /\ ctr \in 0 .. AXIS_BYTES - 1
  BY DEF Machine, Output, TypeOK, Byte, Lane
<1>2. /\ Carry \in Seq(Tag) /\ Filling \in Seq(Tag) /\ Len(Filling) = ctr
  BY HeldType
<1>. DEFINE next == [i \in 1 .. ctr + 1 |-> fifo_in'.data[i - 1]]
<1>3. next = Append(Filling, rx_data.tag)
  <2>1. /\ \A l \in 0 .. ctr : fifo_in'.data[l] \in Tag
        /\ \A l \in 0 .. ctr - 1 : fifo_in'.data[l] = fifo_in.data[l]
        /\ fifo_in'.data[ctr] = rx_data.tag
    BY <1>1, PackedType
  <2>2. next \in Seq(Tag) /\ Len(next) = ctr + 1
    <3>1. \A i \in 1 .. ctr + 1 : fifo_in'.data[i - 1] \in Tag
      BY <1>1, <2>1
    <3>. QED
      BY <1>1, <3>1
  <2>3. \A i \in 1 .. ctr + 1 : next[i] = IF i = ctr + 1 THEN rx_data.tag ELSE Filling[i]
    <3>. SUFFICES ASSUME NEW i \in 1 .. ctr + 1
                  PROVE  next[i] = IF i = ctr + 1 THEN rx_data.tag ELSE Filling[i]
      OBVIOUS
    <3>1. next[i] = fifo_in'.data[i - 1]
      OBVIOUS
    <3>2. CASE i = ctr + 1
      BY <1>1, <2>1, <3>1, <3>2
    <3>3. CASE i # ctr + 1
      <4>1. i \in 1 .. ctr /\ i - 1 \in 0 .. ctr - 1
        BY <1>1, <3>3
      <4>2. Filling[i] = fifo_in.data[i - 1]
        BY <4>1 DEF Filling
      <4>. QED
        BY <2>1, <3>1, <3>3, <4>1, <4>2
    <3>. QED
      BY <3>2, <3>3
  <2>. HIDE DEF next
  <2>4. /\ Append(Filling, rx_data.tag) \in Seq(Tag)
        /\ Len(Append(Filling, rx_data.tag)) = ctr + 1
        /\ \A i \in 1 .. ctr + 1 :
             Append(Filling, rx_data.tag)[i] = IF i = ctr + 1 THEN rx_data.tag ELSE Filling[i]
    BY <1>1, <1>2, AppendProperties
  <2>. QED
    BY <2>2, <2>3, <2>4, SeqEqual
<1>4. Carry \o next = Append(Held, rx_data.tag)
  <2>. HIDE DEF next
  <2>1. <<rx_data.tag>> \in Seq(Tag)
    BY <1>1
  <2>2. next = Filling \o <<rx_data.tag>>
    BY <1>1, <1>2, <1>3, AppendIsConcat
  <2>3. (Carry \o Filling) \o <<rx_data.tag>> = Carry \o (Filling \o <<rx_data.tag>>)
    BY <1>2, <2>1, ConcatAssociative
  <2>4. Append(Held, rx_data.tag) = Held \o <<rx_data.tag>>
    BY <1>1, HeldType, AppendIsConcat
  <2>. QED
    BY <2>2, <2>3, <2>4 DEF Held
<1>5. Kept(fifo_in') = next
  <2>1. fifo_in'.keep = 0 .. (ctr + 1) - 1 /\ ctr + 1 \in Nat
    <3>1. fifo_in'.keep = 0 .. ctr
      BY <1>1, PackedType
    <3>. QED
      BY <1>1, <3>1
  <2>. QED
    BY <2>1, KeptFirst
<1>. HIDE DEF next
<1>6. Bytes' = Append(Held, rx_data.tag)
  BY <1>1, <1>4, <1>5 DEF Bytes
<1>7. ASSUME ~Done'  PROVE Held' = Append(Held, rx_data.tag)
  <2>1. /\ fifo_in_valid' <=> rx_last \/ rx_error \/ ctr = REG_CTR_MAX
        /\ ~rx_last /\ ~rx_error
    <3>1. fifo_in'.tlast = rx_last
      BY <1>1 DEF Packed
    <3>2. fifo_in_error' = rx_error /\ fifo_in_valid' = (rx_last \/ rx_error \/ ctr = REG_CTR_MAX)
      BY DEF Output
    <3>3. ~rx_last /\ ~rx_error
      BY <1>7, <3>1, <3>2 DEF Done
    <3>. QED
      BY <3>2, <3>3
  <2>2. CASE ctr = REG_CTR_MAX
    <3>1. ctr' = 0 /\ fifo_in_valid'
      BY <1>1, <2>1, <2>2
    <3>2. Filling' = <<>> /\ Carry' = Bytes'
      BY <1>7, <3>1 DEF Filling, Carry
    <3>3. Append(Held, rx_data.tag) \in Seq(Tag)
      BY <1>1, HeldType, AppendProperties
    <3>. QED
      BY <1>6, <3>2, <3>3, ConcatEmptySeq DEF Held
  <2>3. CASE ctr # REG_CTR_MAX
    <3>1. ctr' = ctr + 1 /\ ~fifo_in_valid'
      BY <1>1, <2>1, <2>3
    <3>2. Filling' = next /\ Carry' = Carry
      BY <1>1, <3>1 DEF Filling, Carry, next
    <3>. QED
      BY <1>4, <3>2 DEF Held
  <2>. QED
    BY <2>2, <2>3
<1>. QED
  BY <1>6, <1>7
-----------------------------------------------------------------------------
(* The bytes of a frame.                                                   *)

LEMMA GatherStep ==
  ASSUME NEW held \in Seq(Tag), NEW stale \in Nat, NEW k \in Nat \ {0},
         NEW tag \in Tag, NEW next \in Tag,
         Gathered(held, stale, k, tag),
         ~tag.last, tag.err # "here",
         next.frame = tag.frame, next.index = tag.index + 1,
         next.err = "before" <=> tag.err = "before"
  PROVE  Gathered(Append(held, tag), stale, k, next)
<1>1. /\ Len(held) \in Nat /\ Len(Append(held, tag)) = Len(held) + 1
      /\ \A i \in 1 .. Len(held) : Append(held, tag)[i] = held[i]
      /\ Append(held, tag)[Len(held) + 1] = tag
  BY AppendProperties, LenProperties
<1>2. tag.index \in Nat /\ tag.err \in {"none", "here", "before"}
  BY MaxLengthType DEF Tag
<1>3. ASSUME NEW i \in stale + 1 .. Len(held) + 1
      PROVE  /\ Append(held, tag)[i].frame = next.frame
             /\ Append(held, tag)[i].index = k + (i - stale) - 1
             /\ ~Append(held, tag)[i].last
             /\ Append(held, tag)[i].err = IF next.err = "before" THEN "before" ELSE "none"
  <2>1. CASE i = Len(held) + 1
    BY <1>1, <1>2, <2>1 DEF Gathered
  <2>2. CASE i # Len(held) + 1
    <3>1. i \in stale + 1 .. Len(held) /\ i \in 1 .. Len(held)
      BY <1>1, <2>2
    <3>. QED
      BY <1>1, <3>1 DEF Gathered
  <2>. QED
    BY <2>1, <2>2
<1>. HIDE DEF Gathered
<1>4. stale <= Len(held) + 1 /\ next.index = k + (Len(held) + 1) - stale
  BY <1>1, <1>2 DEF Gathered
<1>. QED
  BY <1>1, <1>3, <1>4 DEF Gathered

LEMMA GatherEnd ==
  ASSUME NEW held \in Seq(Tag), NEW stale \in Nat, NEW k \in Nat \ {0}, NEW tag \in Tag,
         Gathered(held, stale, k, tag),
         tag.last, tag.err # "here"
  PROVE  LET bs == SubSeq(Append(held, tag), stale + 1, Len(held) + 1)
         IN  IsTail(bs, k) /\ bs[1].err = tag.err /\ bs[1].index = k
<1>. DEFINE whole_ == Append(held, tag)
            bs == SubSeq(whole_, stale + 1, Len(held) + 1)
            n == Len(held) + 1 - stale
<1>1. /\ Len(held) \in Nat /\ Len(whole_) = Len(held) + 1 /\ whole_ \in Seq(Tag)
      /\ \A i \in 1 .. Len(held) : whole_[i] = held[i]
      /\ whole_[Len(held) + 1] = tag
  BY AppendProperties, LenProperties
<1>2. tag.index \in Nat /\ tag.err \in {"none", "here", "before"} /\ tag.last \in BOOLEAN
  BY MaxLengthType DEF Tag
<1>. HIDE DEF whole_
<1>3. stale <= Len(held) /\ n \in Nat \ {0}
  BY <1>1 DEF Gathered
<1>4. bs \in Seq(Tag) /\ Len(bs) = n /\ \A i \in 1 .. n : bs[i] = whole_[stale + i]
  <2>1. \A i \in stale + 1 .. Len(held) + 1 : whole_[i] \in Tag
    BY <1>1, ElementOfSeq
  <2>2. /\ bs \in Seq(Tag)
        /\ Len(bs) = IF stale + 1 <= Len(held) + 1 THEN (Len(held) + 1) - (stale + 1) + 1 ELSE 0
        /\ \A i \in 1 .. ((Len(held) + 1) - (stale + 1) + 1) : bs[i] = whole_[(stale + 1) + i - 1]
    BY <1>1, <2>1, SubSeqProperties
  <2>. QED
    BY <1>1, <1>3, <2>2
<1>. HIDE DEF bs
<1>5. ASSUME NEW i \in 1 .. n
      PROVE  /\ bs[i].frame = tag.frame
             /\ bs[i].index = k + i - 1
             /\ bs[i].last <=> (i = n)
             /\ bs[i].err = tag.err
  <2>1. CASE i = n
    <3>1. bs[i] = tag
      BY <1>1, <1>3, <1>4, <2>1
    <3>. QED
      BY <1>1, <1>2, <1>3, <2>1, <3>1 DEF Gathered
  <2>2. CASE i # n
    <3>1. stale + i \in stale + 1 .. Len(held) /\ stale + i \in 1 .. Len(held)
      BY <1>1, <1>3, <2>2
    <3>2. bs[i] = held[stale + i]
      BY <1>1, <1>4, <3>1
    <3>. QED
      BY <1>1, <1>2, <1>3, <2>2, <3>1, <3>2 DEF Gathered
  <2>. QED
    BY <2>1, <2>2
<1>6. 1 \in 1 .. n /\ DOMAIN bs = 1 .. n /\ bs # <<>>
  BY <1>3, <1>4, LenProperties
<1>7. IsTail(bs, k)
  BY <1>2, <1>3, <1>4, <1>5, <1>6 DEF IsTail
<1>8. bs[1].err = tag.err /\ bs[1].index = k
  BY <1>5, <1>6
<1>. QED
  BY <1>7, <1>8 DEF bs, whole_

LEMMA CollectsEnd ==
  ASSUME NEW held \in Seq(Tag), NEW tag \in Tag, Collects(held, tag), tag.last, tag.err # "here"
  PROVE  HasPacket(Append(held, tag))
<1>1. PICK stale \in 0 .. AXIS_BYTES - 1, k \in Nat \ {0} :
        (tag.err # "before" => k = 1) /\ Gathered(held, stale, k, tag)
  BY DEF Collects
<1>2. stale \in Nat
  OBVIOUS
<1>. DEFINE bs == SubSeq(Append(held, tag), stale + 1, Len(held) + 1)
<1>3. IsTail(bs, k) /\ bs[1].err = tag.err /\ bs[1].index = k
  BY <1>1, <1>2, GatherEnd
<1>4. Len(Append(held, tag)) = Len(held) + 1
  BY AppendProperties
<1>. HIDE DEF bs
<1>5. IsPacket(bs)
  BY <1>1, <1>3 DEF IsPacket, IsFrame, IsResynced, IsTail
<1>6. IsPacket(SubSeq(Append(held, tag), stale + 1, Len(Append(held, tag))))
  BY <1>4, <1>5 DEF bs
<1>. QED
  BY <1>6 DEF HasPacket

LEMMA EmptyEnd ==
  ASSUME NEW held \in Seq(Tag), Len(held) < AXIS_BYTES, NEW f \in {0, 1}
  PROVE  HasPacket(Append(held, IdleByte(f).tag))
<1>. DEFINE tag == IdleByte(f).tag
            all == Append(held, tag)
            n == Len(held)
<1>1. tag \in Tag
  BY IdleType DEF Byte
<1>2. n \in Nat /\ all \in Seq(Tag) /\ Len(all) = n + 1 /\ all[n + 1] = tag
  BY <1>1, AppendProperties, LenProperties
<1>. HIDE DEF tag, all, n
<1>3. SubSeq(all, n + 1, n + 1) = <<tag>>
  <2>1. n + 1 \in 1 .. Len(all) /\ SubSeq(all, n + 1, n) = <<>>
    BY <1>2, SubSeqEmpty
  <2>2. SubSeq(all, n + 1, n + 1) = SubSeq(all, n + 1, (n + 1) - 1) \o <<all[n + 1]>>
    BY <1>2, <2>1, SubSeqRecursiveSecond
  <2>3. (n + 1) - 1 = n /\ <<tag>> \in Seq(Tag)
    BY <1>1, <1>2
  <2>. QED
    BY <1>2, <2>1, <2>2, <2>3, ConcatEmptySeq
<1>4. IsPacket(SubSeq(all, n + 1, Len(all)))
  BY <1>2, <1>3 DEF IsPacket, IsEmptyFrame, tag
<1>5. n \in 0 .. AXIS_BYTES - 1
  BY <1>2 DEF n
<1>. QED
  BY <1>4, <1>5 DEF HasPacket, all, tag
-----------------------------------------------------------------------------
(* The invariant.                                                          *)

LEMMA InitIInv == Init => IInv
<1>. SUFFICES ASSUME Init  PROVE IInv
  OBVIOUS
<1>1. rx_data = IdleByte(0) /\ rx_data \in Byte /\ rx_data.tag.index = 0
      /\ rx_data.tag.err = "none" /\ rx_data.tag.last
  BY IdleType DEF Init
<1>2. fifo_in \in Word
  <2>1. [l \in Lane |-> NoByte] \in [Lane -> Tag \cup {NoByte}]
    OBVIOUS
  <2>. QED
    BY <2>1 DEF Init, Word
<1>3. 0 \in Lane
  BY DEF Lane
<1>4. TypeOK
  BY <1>1, <1>2, <1>3 DEF Init, TypeOK
<1>5. LineInv
  BY <1>1 DEF Init, LineInv
<1>6. LanesInv /\ ResetInv /\ EmptyInv /\ PacketsAreFrames
  BY DEF Init, LanesInv, ResetInv, EmptyInv, Carry, PacketsAreFrames
<1>7. OutputInv /\ PhaseInv
  BY DEF Init, OutputInv, PhaseInv
<1>. QED
  BY <1>4, <1>5, <1>6, <1>7 DEF IInv

\* Outside of SM_OUTPUT nothing goes out and nothing is held.
LEMMA SilentStep ==
  ASSUME IInv, state # "SM_OUTPUT", NEW rx_last, Machine(rx_last)
  PROVE  /\ ~fifo_in_valid' /\ fifo_in' = fifo_in
         /\ ctr' \in {0, ctr}
         /\ reset \notin 1 .. ResetEdges - 1 \/ state' = "SM_WAIT_INVALID"
         /\ reset <= 1 => sent' = <<>>
<1>1. ~fifo_in_valid' /\ fifo_in' = fifo_in /\ ctr' \in {0, ctr}
  BY DEF Machine, WaitInvalid, Preamble, Sfd, Output, NothingOut
<1>2. reset > 0 => state' = "SM_WAIT_INVALID"
  BY DEF Machine, WaitInvalid, Preamble, Sfd, Output, Goto
<1>3. reset \in 0 .. ResetEdges
  BY DEF IInv, TypeOK
<1>. QED
  BY <1>1, <1>2, <1>3 DEF IInv, EmptyInv, Machine

\* As long as a frame is put out, there is another byte of it and no error.
LEMMA OutputStep ==
  ASSUME IInv, state = "SM_OUTPUT", NEW rx_last, Machine(rx_last), LineStep
  PROVE  /\ Output(rx_last)
         /\ fifo_in'.tlast = rx_last /\ (fifo_in_error' <=> rx_error)
         /\ fifo_in_valid' <=> rx_last \/ rx_error \/ ctr = REG_CTR_MAX
         /\ state' = IF reset > 0 THEN "SM_WAIT_INVALID"
                     ELSE IF rx_last \/ rx_error THEN "SM_PREAMBLE" ELSE "SM_OUTPUT"
         /\ rx_last <=> ~(rx_valid /\ ~rx_data.tag.last)
<1>1. Output(rx_last)
  BY DEF Machine, WaitInvalid, Preamble, Sfd
<1>2. rx_last <=> ~rx_valid'
  BY DEF Machine
<1>3. rx_valid => gap = 0
  BY DEF IInv, LineInv
<1>4. rx_last <=> ~(rx_valid /\ ~rx_data.tag.last)
  BY <1>2, <1>3 DEF IInv, OutputInv, LineStep, MidFrame
<1>5. state' = IF reset > 0 THEN "SM_WAIT_INVALID"
               ELSE IF rx_last \/ ~rx_valid \/ rx_error THEN "SM_PREAMBLE" ELSE "SM_OUTPUT"
  BY <1>1 DEF Output, Goto
<1>6. fifo_in'.tlast = rx_last /\ fifo_in_error' = rx_error
      /\ fifo_in_valid' = (rx_last \/ rx_error \/ ctr = REG_CTR_MAX)
  BY <1>1 DEF Output, Packed
<1>. QED
  BY <1>1, <1>4, <1>5, <1>6

LEMMA StepEmpty ==
  ASSUME IInv, NEW rx_last, Machine(rx_last), LineStep
  PROVE  EmptyInv' /\ ResetInv'
<1>1. CASE state # "SM_OUTPUT"
  <2>1. /\ ~fifo_in_valid' /\ (reset <= 1 => sent' = <<>>)
        /\ reset \notin 1 .. ResetEdges - 1 \/ state' = "SM_WAIT_INVALID"
    BY <1>1, SilentStep
  <2>2. reset \in 0 .. ResetEdges /\ (reset' = 0 => reset <= 1)
    BY DEF IInv, TypeOK, LineStep
  <2>3. EmptyInv'
    BY <2>1, <2>2 DEF EmptyInv, Carry
  <2>4. reset > 0 => state' = "SM_WAIT_INVALID"
    BY <1>1 DEF Machine, WaitInvalid, Preamble, Sfd, Output, Goto
  <2>5. ResetInv'
    BY <2>2, <2>4 DEF ResetInv, LineStep
  <2>. QED
    BY <2>3, <2>5
<1>2. CASE state = "SM_OUTPUT"
  <2>1. /\ fifo_in'.tlast = rx_last /\ (fifo_in_error' <=> rx_error)
        /\ fifo_in_valid' <=> rx_last \/ rx_error \/ ctr = REG_CTR_MAX
        /\ state' = IF reset > 0 THEN "SM_WAIT_INVALID"
                    ELSE IF rx_last \/ rx_error THEN "SM_PREAMBLE" ELSE "SM_OUTPUT"
    BY <1>2, OutputStep
  <2>2. reset \in {0, ResetEdges}
    BY <1>2 DEF IInv, TypeOK, ResetInv
  <2>3. reset = ResetEdges => reset' = ResetEdges - 1
    BY DEF LineStep
  <2>4. ResetInv'
    BY <2>1, <2>2 DEF ResetInv, LineStep
  <2>5. reset' = 0 => reset = 0
    BY <2>2, <2>3
  <2>6. rx_last \/ rx_error => fifo_in_valid' /\ Done'
    BY <2>1 DEF Done
  <2>7. EmptyInv'
    BY <2>1, <2>5, <2>6 DEF EmptyInv, Carry
  <2>. QED
    BY <2>4, <2>7
<1>. QED
  BY <1>1, <1>2

\* The start of frame delimiter comes: nothing is held but what is in the lanes.
LEMMA StepEnters ==
  ASSUME IInv, state # "SM_OUTPUT", state' = "SM_OUTPUT",
         NEW rx_last, Machine(rx_last), LineStep, TypeOK', LanesInv'
  PROVE  OutputInv'
<1>1. state = "SM_SFD" /\ reset = 0 /\ rx_valid /\ rx_data.val = "d5" /\ ctr' = ctr
  <2>1. reset \in Nat
    BY DEF IInv, TypeOK
  <2>. QED
    BY <2>1 DEF Machine, WaitInvalid, Preamble, Sfd, Goto, Output
<1>2. ~fifo_in_valid' /\ sent' = <<>>
  BY <1>1, SilentStep
<1>3. Carry' = <<>>
  BY <1>2 DEF Carry
<1>4. gap = 0
  BY <1>1 DEF IInv, LineInv
<1>5. CASE ~rx_valid'
  BY <1>3, <1>4, <1>5 DEF OutputInv, LineStep
<1>6. CASE rx_valid'
  <2>1. /\ rx_data.tag.index \in Nat /\ rx_data.tag.err \in {"none", "here", "before"}
        /\ rx_data'.tag.index \in Nat
    BY MaxLengthType DEF IInv, TypeOK, LineStep, Byte, Tag
  <2>2. Follows(rx_data')
    BY <1>4, <1>6 DEF LineStep
  <2>3. /\ rx_data'.tag.index = rx_data.tag.index + 1
        /\ rx_data'.tag.err # "before" => rx_data.tag.index = 0
    BY <1>1, <2>1, <2>2 DEF Follows, IInv, LineInv
  <2>4. Held' \in Seq(Tag) /\ Len(Held') = ctr' /\ ctr' \in 0 .. AXIS_BYTES - 1
    <3>1. (TypeOK /\ LanesInv => Held \in Seq(Tag) /\ Len(Held) = Len(Carry) + ctr)'
      BY HeldType, PTL
    <3>2. ctr' \in 0 .. AXIS_BYTES - 1
      BY DEF TypeOK, Lane
    <3>3. Len(Carry') = 0
      BY <1>3
    <3>. QED
      BY <3>1, <3>2, <3>3
  <2>. DEFINE k == rx_data.tag.index + 1
  <2>5. Gathered(Held', ctr', k, rx_data'.tag)
    <3>1. ctr' + 1 .. Len(Held') = {} /\ ctr' <= Len(Held')
      <4>1. ctr' \in Nat /\ Len(Held') = ctr'
        BY <2>4
      <4>2. \A n \in Nat : n + 1 .. n = {} /\ n <= n
        OBVIOUS
      <4>. QED
        BY <4>1, <4>2, Zenon
    <3>2. rx_data'.tag.index = k + Len(Held') - ctr'
      BY <2>1, <2>3, <2>4
    <3>. QED
      BY <3>1, <3>2 DEF Gathered
  <2>6. k \in Nat \ {0} /\ (rx_data'.tag.err # "before" => k = 1)
    BY <2>1, <2>3
  <2>. HIDE DEF k
  <2>7. Collects(Held', rx_data'.tag)
    BY <2>4, <2>5, <2>6 DEF Collects
  <2>. QED
    BY <1>6, <2>1, <2>3, <2>7 DEF OutputInv
<1>. QED
  BY <1>5, <1>6

LEMMA StepStays ==
  ASSUME IInv, state = "SM_OUTPUT", state' = "SM_OUTPUT",
         NEW rx_last, Machine(rx_last), LineStep
  PROVE  OutputInv'
<1>1. /\ Output(rx_last) /\ fifo_in'.tlast = rx_last /\ (fifo_in_error' <=> rx_error)
      /\ state' = IF reset > 0 THEN "SM_WAIT_INVALID"
                  ELSE IF rx_last \/ rx_error THEN "SM_PREAMBLE" ELSE "SM_OUTPUT"
      /\ rx_last <=> ~(rx_valid /\ ~rx_data.tag.last)
  BY OutputStep
<1>2. reset = 0 /\ ~rx_last /\ ~rx_error
  BY <1>1 DEF IInv, TypeOK
<1>3. rx_valid /\ ~rx_data.tag.last /\ rx_valid'
  BY <1>1, <1>2 DEF Machine
<1>4. Held' = Append(Held, rx_data.tag)
  BY <1>1, <1>2, OutputAppends DEF IInv, Done
<1>5. rx_data.tag.index > 0 /\ Collects(Held, rx_data.tag)
  BY <1>3 DEF IInv, OutputInv
<1>6. /\ rx_data.tag \in Tag /\ rx_data'.tag \in Tag /\ rx_data.tag.index \in Nat
      /\ rx_data.tag.err \in {"none", "here", "before"} /\ rx_data'.tag.index \in Nat
  BY MaxLengthType DEF IInv, TypeOK, LineStep, Byte, Tag
<1>7. Held \in Seq(Tag)
  BY HeldType DEF IInv
<1>8. Follows(rx_data') /\ rx_data'.tag.frame = rx_data.tag.frame
  BY <1>3 DEF LineStep, MidFrame
<1>9. /\ rx_data'.tag.index = rx_data.tag.index + 1
      /\ rx_data'.tag.err = "before" <=> rx_data.tag.err = "before"
      /\ rx_data.tag.err # "here"
  BY <1>2, <1>5, <1>6, <1>8 DEF Follows, rx_error
<1>10. PICK stale \in 0 .. AXIS_BYTES - 1, k \in Nat \ {0} :
         (rx_data.tag.err # "before" => k = 1) /\ Gathered(Held, stale, k, rx_data.tag)
  BY <1>5 DEF Collects
<1>11. Gathered(Append(Held, rx_data.tag), stale, k, rx_data'.tag)
  BY <1>3, <1>6, <1>7, <1>8, <1>9, <1>10, GatherStep
<1>12. Collects(Held', rx_data'.tag)
  BY <1>4, <1>9, <1>10, <1>11 DEF Collects
<1>. QED
  BY <1>3, <1>6, <1>9, <1>12 DEF OutputInv

\* The last byte of a frame.
LEMMA StepEnds ==
  ASSUME IInv, state = "SM_OUTPUT", reset = 0, NEW rx_last, Machine(rx_last), LineStep,
         rx_last, ~rx_error
  PROVE  fifo_in_valid' /\ fifo_in'.tlast /\ ~fifo_in_error' /\ HasPacket(Bytes')
<1>1. /\ Output(rx_last) /\ fifo_in'.tlast = rx_last /\ (fifo_in_error' <=> rx_error)
      /\ fifo_in_valid' <=> rx_last \/ rx_error \/ ctr = REG_CTR_MAX
      /\ rx_last <=> ~(rx_valid /\ ~rx_data.tag.last)
  BY OutputStep
<1>2. fifo_in_valid' /\ Bytes' = Append(Held, rx_data.tag)
  BY <1>1, OutputAppends DEF IInv
<1>3. Held \in Seq(Tag) /\ Len(Held) = Len(Carry) + ctr
  BY HeldType DEF IInv
<1>4. rx_data.tag \in Tag
  BY DEF IInv, TypeOK, Byte
<1>5. HasPacket(Append(Held, rx_data.tag))
  <2>1. CASE rx_valid
    <3>1. Collects(Held, rx_data.tag) /\ rx_data.tag.last /\ rx_data.tag.err # "here"
      BY <1>1, <2>1 DEF IInv, OutputInv, rx_error
    <3>. QED
      BY <1>3, <1>4, <3>1, CollectsEnd
  <2>2. CASE ~rx_valid
    <3>1. PICK f \in {0, 1} : rx_data = IdleByte(f)
      BY <2>2 DEF IInv, LineInv
    <3>2. Carry = <<>> /\ ctr \in 0 .. AXIS_BYTES - 1
      BY <2>2 DEF IInv, OutputInv, TypeOK, Lane
    <3>3. Len(Held) < AXIS_BYTES
      BY <1>3, <3>2
    <3>. QED
      BY <1>3, <3>1, <3>3, EmptyEnd
  <2>. QED
    BY <2>1, <2>2
<1>. QED
  BY <1>1, <1>2, <1>5

LEMMA StepPhase ==
  ASSUME IInv, NEW rx_last, Machine(rx_last), LineStep
  PROVE  PhaseInv'
<1>1. /\ rx_data.tag.index \in Nat /\ rx_data.tag.err \in {"none", "here", "before"}
      /\ rx_data'.tag.index \in Nat /\ gap \in 0 .. MinGap /\ reset \in 0 .. ResetEdges
  BY MaxLengthType DEF IInv, TypeOK, LineStep, Byte, Tag
<1>2. gap' >= 2 => state' \in {"SM_WAIT_INVALID", "SM_PREAMBLE"}
  <2>. SUFFICES ASSUME gap' >= 2  PROVE state' \in {"SM_WAIT_INVALID", "SM_PREAMBLE"}
    OBVIOUS
  <2>1. ~rx_valid
    BY <1>1 DEF IInv, LineInv, LineStep, MidFrame
  <2>2. CASE state = "SM_OUTPUT"
    BY <2>1, <2>2, OutputStep
  <2>3. CASE state # "SM_OUTPUT"
    BY <2>1, <2>3 DEF Machine, WaitInvalid, Preamble, Sfd, Output, Goto
  <2>. QED
    BY <2>2, <2>3
<1>. DEFINE Step1 == whole' /\ rx_valid' /\ rx_data'.tag.index = 0 =>
                       state' = "SM_SFD" \/ (state' = "SM_PREAMBLE" /\ rx_data'.val # "d5")
            Step2 == whole' /\ rx_valid' /\ rx_data'.tag.index > 0 /\ rx_data'.tag.err # "before" =>
                       state' = "SM_OUTPUT"
<1>3. ASSUME MidFrame, whole'  PROVE Step1 /\ Step2
  <2>1. /\ whole /\ reset = 0 /\ rx_valid /\ ~rx_data.tag.last /\ Follows(rx_data') /\ rx_valid'
    BY <1>3 DEF LineStep, MidFrame
  <2>2. CASE rx_data.tag.index = 0
    <3>1. \/ state = "SM_SFD"
          \/ state = "SM_PREAMBLE" /\ rx_data.val # "d5"
      BY <2>1, <2>2 DEF IInv, PhaseInv
    <3>2. rx_data.val \in {"55", "d5"}
      BY <2>1, <2>2 DEF IInv, LineInv, TypeOK, Byte
    <3>3. CASE rx_data.val = "55"
      <4>1. rx_data'.tag.index = 0
        BY <2>1, <2>2, <3>3 DEF Follows
      <4>2. state' = "SM_SFD"
        BY <2>1, <3>1, <3>3 DEF Machine, WaitInvalid, Preamble, Sfd, Output, Goto
      <4>. QED
        BY <4>1, <4>2
    <3>4. CASE rx_data.val = "d5"
      <4>1. rx_data'.tag.index = 1
        BY <2>1, <2>2, <3>4 DEF Follows
      <4>2. state' = "SM_OUTPUT"
        BY <2>1, <3>1, <3>4 DEF Machine, WaitInvalid, Preamble, Sfd, Output, Goto
      <4>. QED
        BY <4>1, <4>2
    <3>. QED
      BY <3>2, <3>3, <3>4
  <2>3. CASE rx_data.tag.index > 0
    <3>1. /\ rx_data'.tag.index > 0
          /\ rx_data'.tag.err # "before" => rx_data.tag.err = "none"
      BY <1>1, <2>1, <2>3 DEF Follows
    <3>2. rx_data.tag.err = "none" => state = "SM_OUTPUT"
      BY <2>1, <2>3 DEF IInv, PhaseInv
    <3>3. rx_data.tag.err = "none" => state' = "SM_OUTPUT"
      BY <2>1, <3>2, OutputStep DEF rx_error
    <3>. QED
      BY <3>1, <3>3
  <2>. QED
    BY <1>1, <2>2, <2>3
<1>4. ASSUME ~MidFrame, whole', rx_valid'  PROVE Step1 /\ Step2
  <2>1. /\ reset = 0 /\ gap = MinGap /\ rx_data'.tag.index = 0 /\ rx_data'.val # "d5"
    BY <1>4 DEF LineStep
  <2>2. state \in {"SM_WAIT_INVALID", "SM_PREAMBLE"} /\ ~rx_valid
    BY <2>1 DEF IInv, PhaseInv, LineInv
  <2>3. state' = "SM_PREAMBLE"
    BY <2>1, <2>2 DEF Machine, WaitInvalid, Preamble, Sfd, Output, Goto
  <2>. QED
    BY <2>1, <2>3
<1>5. Step1 /\ Step2
  BY <1>3, <1>4
<1>. QED
  BY <1>2, <1>5 DEF PhaseInv

LEMMA StepIInv == IInv /\ [Next]_vars => IInv'
<1>. SUFFICES ASSUME IInv, [Next]_vars  PROVE IInv'
  OBVIOUS
<1>1. CASE Next
  <2>1. PICK rx_last \in BOOLEAN : Machine(rx_last)
    BY <1>1, MachineEdge
  <2>2. LineInv' /\ LineStep
    BY <1>1, LineEdge DEF IInv
  <2>3. TypeOK' /\ LanesInv'
    BY <2>1, <2>2, MachineType DEF IInv, TypeOK, LineStep
  <2>4. EmptyInv' /\ ResetInv'
    BY <2>1, <2>2, StepEmpty
  <2>5. PhaseInv'
    BY <2>1, <2>2, StepPhase
  <2>6. OutputInv'
    <3>1. CASE state' = "SM_OUTPUT" /\ state = "SM_OUTPUT"
      BY <2>1, <2>2, <3>1, StepStays
    <3>2. CASE state' = "SM_OUTPUT" /\ state # "SM_OUTPUT"
      BY <2>1, <2>2, <2>3, <3>2, StepEnters
    <3>3. CASE state' # "SM_OUTPUT"
      BY <3>3 DEF OutputInv
    <3>. QED
      BY <3>1, <3>2, <3>3
  <2>7. PacketsAreFrames'
    <3>. SUFFICES ASSUME reset' = 0, fifo_in_valid', fifo_in'.tlast, ~fifo_in_error'
                  PROVE  HasPacket(Bytes)'
      BY DEF PacketsAreFrames
    <3>1. state = "SM_OUTPUT"
      BY <2>1, SilentStep
    <3>2. reset = 0
      BY <2>2, <3>1 DEF IInv, TypeOK, ResetInv, LineStep
    <3>3. rx_last /\ ~rx_error
      BY <2>1, <2>2, <3>1, OutputStep
    <3>. QED
      BY <2>1, <2>2, <3>1, <3>2, <3>3, StepEnds DEF HasPacket
  <2>. QED
    BY <2>2, <2>3, <2>4, <2>5, <2>6, <2>7 DEF IInv
<1>2. CASE UNCHANGED vars
  BY <1>2 DEF vars, IInv, TypeOK, LineInv, LanesInv, ResetInv, EmptyInv, OutputInv, PhaseInv,
              PacketsAreFrames, Carry, Held, Filling, Bytes, Done
<1>. QED
  BY <1>1, <1>2

\* The variables keep their types; the lane counter stays within a word, and
\* what is handed on has come from the line: no lane of the power-up state.
THEOREM TypeCorrect == Spec => []TypeOK
<1>1. IInv => TypeOK
  BY DEF IInv
<1>. QED
  BY <1>1, InitIInv, StepIInv, PTL DEF Spec

\* A packet that goes out is, but for the lanes in front, one frame of the line
\* up to its end, or what remains of one after an error.
THEOREM PacketsAreFramesCorrect == Spec => []PacketsAreFrames
<1>1. IInv => PacketsAreFrames
  BY DEF IInv
<1>. QED
  BY <1>1, InitIInv, StepIInv, PTL DEF Spec

\* A frame that no reset hits and that has no error goes out with its last
\* byte, whatever was on the line before it.
THEOREM FramesGoOutCorrect == Spec => FramesGoOut
<1>. DEFINE Ends == reset = 0 /\ whole /\ rx_valid /\ rx_data.tag.index > 0 /\ rx_data.tag.last
                    /\ rx_data.tag.err = "none"
            GoesOut == /\ fifo_in_valid' /\ fifo_in'.tlast /\ ~fifo_in_error'
                       /\ HasPacket(Bytes')
<1>1. ASSUME IInv, [Next]_vars  PROVE [Ends => GoesOut]_vars
  <2>. SUFFICES ASSUME Next, Ends  PROVE GoesOut
    BY <1>1
  <2>1. PICK rx_last \in BOOLEAN : Machine(rx_last)
    BY MachineEdge
  <2>2. LineStep
    BY <1>1, LineEdge DEF IInv
  <2>3. state = "SM_OUTPUT"
    BY <1>1 DEF IInv, PhaseInv
  <2>4. rx_last /\ ~rx_error
    BY <1>1, <2>1, <2>2, <2>3, OutputStep DEF rx_error
  <2>. QED
    BY <1>1, <2>1, <2>2, <2>3, <2>4, StepEnds
<1>. QED
  BY <1>1, InitIInv, StepIInv, PTL DEF Spec, FramesGoOut
=============================================================================
