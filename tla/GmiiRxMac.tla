----------------------------- MODULE GmiiRxMac -----------------------------
(***************************************************************************)
(* synth/network/gmii_rx_mac_async.sv in the domain of eth_clk: it strips  *)
(* the preamble of the frames that a PHY delivers byte by byte, packs the  *)
(* rest into words of AXIS_BYTES and pushes them, with no way to wait,     *)
(* into the error filter (ErrorFilterAsync).                               *)
(*                                                                         *)
(* A byte is its value, as far as the code looks at it, and a tag that     *)
(* says which byte of which frame it is; the lanes of a word keep the tag. *)
(***************************************************************************)
EXTENDS Integers, Sequences, FiniteSets

CONSTANTS
  AXIS_BYTES,
  FrameLengths,     \* payload bytes of the frames on the line
  ResetEdges,       \* edges that a reset lasts, at least
  MinGap,           \* edges without eth_rxdv between two frames, at least
  NoByte            \* what power-up left in a lane

ASSUME AxisBytesAssumption == AXIS_BYTES \in Nat \ {0}

ASSUME LengthsAssumption ==
  /\ FrameLengths \subseteq Nat
  /\ \E n \in FrameLengths : \A m \in FrameLengths : m <= n

\* Neither is ever one: a gap is 12 bytes where it is sent and loses a few on
\* the way, and a reset of a single edge would leave a word behind.
ASSUME EdgesAssumption ==
  /\ MinGap \in Nat /\ MinGap >= 2
  /\ ResetEdges \in Nat /\ ResetEdges >= 2

Lane == 0 .. AXIS_BYTES - 1

REG_CTR_MAX == AXIS_BYTES - 1

MaxLength == CHOOSE n \in FrameLengths : \A m \in FrameLengths : m <= n

VARIABLES
  rx_data,      \* the input one edge late: a byte, whose tag has rx_error
  rx_valid,
  state, ctr,
  fifo_in_valid,
  fifo_in_error,
  fifo_in,      \* fifo_in_data and _keep, and fifo_in_last as tlast
  gap,          \* edges since the last frame, up to MinGap
  reset,        \* edges at which eth_sresetn is still going to be low
  sent,         \* history: the bytes put out of the packet under way
  whole         \* history: whether no reset hit the current frame so far

vars == <<rx_data, rx_valid, state, ctr, fifo_in_valid, fifo_in_error,
          fifo_in, gap, reset, sent, whole>>
-----------------------------------------------------------------------------
(* The PHY.  A frame keeps eth_rxdv up throughout: a preamble of any       *)
(* length, the delimiter, the payload.  Noise may end it early.  eth_rxer  *)
(* may come with one byte of the payload; until it does, the values of the *)
(* payload are of no consequence.                                          *)

\* index 0 is the preamble and the delimiter; err says whether eth_rxer came
\* with this byte, or came with an earlier one of the frame.
Tag ==
  [ frame : {0, 1}, index : 0 .. MaxLength, last : BOOLEAN,
    err : {"none", "here", "before"} ]

Byte == [val : {"55", "d5", "data"}, tag : Tag]

Lead(f, val, last) ==
  [val |-> val, tag |-> [frame |-> f, index |-> 0, last |-> last, err |-> "none"]]

\* The frames have alternating numbers.
IdleByte(f) == Lead(f, "data", TRUE)

FirstBytes(f) == { Lead(f, "55", FALSE), Lead(f, "55", TRUE), Lead(f, "data", TRUE) }

AfterPreamble(f) ==
  FirstBytes(f) \cup { Lead(f, "d5", last) : last \in {l \in BOOLEAN : l => 0 \in FrameLengths} }

AfterPayload(tag) ==
  { b \in Byte :
      /\ b.tag.frame = tag.frame
      /\ b.tag.index = tag.index + 1
      /\ b.tag.last => b.tag.index \in FrameLengths
      /\ b.tag.index = MaxLength => b.tag.last
      /\ IF tag.err = "none"
         THEN b.val = "data" /\ b.tag.err \in {"none", "here"}
         ELSE b.tag.err = "before" }

NextBytes(byte) ==
  IF byte.val = "55" /\ byte.tag.index = 0
  THEN AfterPreamble(byte.tag.frame) ELSE AfterPayload(byte.tag)

rx_error == rx_data.tag.err = "here"
-----------------------------------------------------------------------------
Init ==
  /\ rx_data = IdleByte(0) /\ rx_valid = FALSE
  /\ state = "SM_WAIT_INVALID"
  /\ ctr = 0
  /\ fifo_in_valid = FALSE /\ fifo_in_error = FALSE
  /\ fifo_in = [data |-> [l \in Lane |-> NoByte], keep |-> {}, tlast |-> FALSE]
  /\ gap = MinGap
  /\ reset = ResetEdges
  /\ sent = <<>>
  /\ whole = FALSE

\* The reset comes last in the always block and overrides the state alone.
Goto(s) == state' = IF reset > 0 THEN "SM_WAIT_INVALID" ELSE s

NothingOut ==
  /\ fifo_in_valid' = FALSE
  /\ UNCHANGED <<fifo_in, fifo_in_error>>

\* Wait until the input is invalid.
WaitInvalid ==
  /\ state = "SM_WAIT_INVALID"
  /\ ctr' = 0
  /\ Goto(IF rx_valid THEN state ELSE "SM_PREAMBLE")
  /\ NothingOut

\* The first byte must be preamble.
Preamble ==
  /\ state = "SM_PREAMBLE"
  /\ Goto(IF ~rx_valid THEN state
          ELSE IF rx_data.val = "55" THEN "SM_SFD" ELSE "SM_WAIT_INVALID")
  /\ UNCHANGED ctr
  /\ NothingOut

\* More preamble, up to the start of frame delimiter.
Sfd ==
  /\ state = "SM_SFD"
  /\ Goto(IF rx_valid /\ rx_data.val = "d5" THEN "SM_OUTPUT"
          ELSE IF ~rx_valid \/ rx_data.val # "55" THEN "SM_WAIT_INVALID"
          ELSE state)
  /\ UNCHANGED ctr
  /\ NothingOut

\* Mutant: the keep bits of the word before are not cleared.
PackedStale(last) ==
  [ data  |-> [fifo_in.data EXCEPT ![ctr] = rx_data.tag],
    keep  |-> fifo_in.keep \cup {ctr},
    tlast |-> last ]

\* The word with the byte at the input put into its lane.
Packed(last) ==
  [ data  |-> [fifo_in.data EXCEPT ![ctr] = rx_data.tag],
    keep  |-> (IF ctr = 0 THEN {} ELSE fifo_in.keep) \cup {ctr},
    tlast |-> last ]

\* Mutant: the counter passes the last lane.
OutputNoWrap(rx_last) ==
  /\ state = "SM_OUTPUT"
  /\ fifo_in' = Packed(rx_last)
  /\ fifo_in_valid' = (rx_last \/ rx_error \/ ctr = REG_CTR_MAX)
  /\ fifo_in_error' = rx_error
  /\ ctr' = ctr + 1
  /\ Goto(IF rx_last \/ ~rx_valid \/ rx_error THEN "SM_PREAMBLE" ELSE state)

\* Mutant: only full words go out.
OutputNoFlush(rx_last) ==
  /\ state = "SM_OUTPUT"
  /\ fifo_in' = Packed(rx_last)
  /\ fifo_in_valid' = (rx_error \/ ctr = REG_CTR_MAX)
  /\ fifo_in_error' = rx_error
  /\ ctr' = IF ctr = REG_CTR_MAX THEN 0 ELSE ctr + 1
  /\ Goto(IF rx_last \/ ~rx_valid \/ rx_error THEN "SM_PREAMBLE" ELSE state)

\* rx_last is the absence of eth_rxdv, one edge ahead of rx_valid.  The word
\* goes out with its last lane, with the last byte, or with an error.
Output(rx_last) ==
  /\ state = "SM_OUTPUT"
  /\ fifo_in' = Packed(rx_last)
  /\ fifo_in_valid' = (rx_last \/ rx_error \/ ctr = REG_CTR_MAX)
  /\ fifo_in_error' = rx_error
  /\ ctr' = IF ctr = REG_CTR_MAX THEN 0 ELSE ctr + 1
  /\ Goto(IF rx_last \/ ~rx_valid \/ rx_error THEN "SM_PREAMBLE" ELSE state)

\* The bytes in the kept lanes of a word, in order.
Kept(word) ==
  LET KeptBelow(l) == Cardinality({k \in word.keep : k < l})
  IN  [i \in 1 .. Cardinality(word.keep) |->
         word.data[CHOOSE l \in word.keep : KeptBelow(l) = i - 1]]

\* What the packet consists of with the word at the output.
Bytes == sent \o Kept(fifo_in)

\* An edge of eth_clk at which eth_rxdv = dv, with the rest in byte.  The
\* error filter takes the word at the output; after an error or in the reset
\* it forgets what it had of the packet.  The reset may come at any edge.
Edge(dv, byte) ==
  /\ rx_data' = byte
  /\ rx_valid' = dv
  /\ WaitInvalid \/ Preamble \/ Sfd \/ Output(~dv)
  /\ sent' = IF reset > 0 THEN <<>>
             ELSE IF ~fifo_in_valid THEN sent
             ELSE IF fifo_in.tlast \/ fifo_in_error THEN <<>> ELSE Bytes
  /\ reset' \in IF reset = 0 THEN {0, ResetEdges} ELSE {reset - 1}

MidFrame == rx_valid /\ ~rx_data.tag.last

Idle ==
  /\ ~MidFrame
  /\ Edge(FALSE, IdleByte(rx_data.tag.frame))
  /\ gap' = IF gap = MinGap THEN gap ELSE gap + 1
  /\ UNCHANGED whole

StartFrame ==
  /\ gap = MinGap
  /\ \E byte \in FirstBytes(1 - rx_data.tag.frame) : Edge(TRUE, byte)
  /\ gap' = 0
  /\ whole' = (reset = 0)

ContinueFrame ==
  /\ MidFrame
  /\ \E byte \in NextBytes(rx_data) : Edge(TRUE, byte)
  /\ whole' = (whole /\ reset = 0)
  /\ UNCHANGED gap

Next == Idle \/ StartFrame \/ ContinueFrame

Spec == Init /\ [][Next]_vars
-----------------------------------------------------------------------------
Word == [data : [Lane -> Tag \cup {NoByte}], keep : SUBSET Lane, tlast : BOOLEAN]

TypeOK ==
  /\ rx_data \in Byte /\ rx_valid \in BOOLEAN
  /\ state \in {"SM_WAIT_INVALID", "SM_PREAMBLE", "SM_SFD", "SM_OUTPUT"}
  /\ ctr \in Lane
  /\ fifo_in_valid \in BOOLEAN /\ fifo_in_error \in BOOLEAN
  /\ fifo_in \in Word
  /\ gap \in 0 .. MinGap /\ reset \in 0 .. ResetEdges /\ whole \in BOOLEAN
  /\ sent \in Seq(Tag)

\* bs are the bytes of one frame from index k to its end, and eth_rxer came
\* with none of them.
IsTail(bs, k) ==
  /\ bs # <<>>
  /\ \A i \in DOMAIN bs :
       /\ bs[i].frame = bs[1].frame
       /\ bs[i].index = k + i - 1
       /\ bs[i].last <=> (i = Len(bs))
       /\ bs[i].err = bs[1].err /\ bs[i].err # "here"

\* A packet is one frame from its first byte to its last.
IsFrame(bs) == IsTail(bs, 1)

\* What remains of a frame after an error, if its bytes look like a preamble.
IsResynced(bs) == bs # <<>> /\ bs[1].err = "before" /\ IsTail(bs, bs[1].index)

\* A frame that ends with the delimiter gives the byte that was on the line
\* after it.
IsEmptyFrame(bs) == \E f \in {0, 1} : bs = <<IdleByte(f).tag>>

IsPacket(bs) == IsFrame(bs) \/ IsResynced(bs) \/ IsEmptyFrame(bs)

(* A packet that goes out is one frame, complete up to its end and with no *)
(* byte in error, except that                                              *)
(*   - it may begin with up to AXIS_BYTES - 1 stale bytes, since ctr is    *)
(*     not cleared between frames;                                         *)
(*   - it may be the end of a frame that had an error before.              *)
HasPacket(bs) ==
  \E stale \in 0 .. AXIS_BYTES - 1 : IsPacket(SubSeq(bs, stale + 1, Len(bs)))

PacketsAreFrames ==
  reset = 0 /\ fifo_in_valid /\ fifo_in.tlast /\ ~fifo_in_error => HasPacket(Bytes)

\* A frame with a preamble, no error and no reset always goes out as a packet,
\* whatever noise came before it.
FramesGoOut ==
  [][ reset = 0 /\ whole /\ rx_valid /\ rx_data.tag.index > 0 /\ rx_data.tag.last /\ rx_data.tag.err = "none"
      => /\ fifo_in_valid' /\ fifo_in'.tlast /\ ~fifo_in_error'
         /\ HasPacket(Bytes') ]_vars

\* The data is packed from the first lane on: nothing goes out in front of
\* the first byte of a frame.
PackedFromTheFirstLane ==
  reset = 0 /\ fifo_in_valid /\ fifo_in.tlast /\ ~fifo_in_error => IsPacket(Bytes)
=============================================================================
