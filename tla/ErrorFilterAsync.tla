-------------------------- MODULE ErrorFilterAsync --------------------------
(***************************************************************************)
(* synth/axis/axis_error_filter_async.sv: it turns a stream that cannot    *)
(* wait into packets of the asynchronous packet FIFO, dropping those with  *)
(* an error and those the FIFO had no room for.  With it come the          *)
(* axis_register behind it and the write side of the FIFO, clocked alike.  *)
(*                                                                         *)
(* The source presents the words of packets of up to MaxWords words, with  *)
(* an error or not, and holds its outputs in between, as the registers of  *)
(* gmii_rx_mac_async do.                                                   *)
(***************************************************************************)
EXTENDS Integers, Sequences

CONSTANTS
  MaxWords,     \* words of the longest packet
  Depth,        \* words in the FIFO's RAM
  NoBeat        \* the register is empty

ASSUME SizesAssumption == MaxWords \in Nat \ {0} /\ Depth \in Nat \ {0}

\* A word is known by its packet (the packets have alternating numbers) and
\* its place in it.  err says that it comes with an error, after that the
\* word of the packet before it did.
Word ==
  [ packet : {0, 1}, index : 1 .. MaxWords, tlast : BOOLEAN,
    err : BOOLEAN, after : BOOLEAN ]

Beat == [word : Word, drop : BOOLEAN]

ASSUME NoBeatAssumption == NoBeat \notin Beat

VARIABLES
  input,        \* i_last, i_data and i_error, as last presented
  overflowed_reg,
  axis_reg,     \* the beat in the axis_register, or NoBeat
  open, used,   \* the FIFO (PacketFifoWriter)
  hit           \* history: whether the packet at the input, and the one
                \* before it, lost a word to an overflow

vars == <<input, overflowed_reg, axis_reg, open, used, hit>>

Fifo == INSTANCE PacketFifoWriter

TypeOK ==
  /\ input \in Word
  /\ overflowed_reg \in BOOLEAN
  /\ axis_reg \in Beat \cup {NoBeat}
  /\ open \in Seq(Word)
  /\ used \in Nat /\ used + Len(open) <= Depth
  /\ hit \in [current : BOOLEAN, previous : BOOLEAN]

Init ==
  /\ input = [packet |-> 0, index |-> 1, tlast |-> TRUE, err |-> FALSE, after |-> FALSE]
  /\ overflowed_reg = FALSE
  /\ axis_reg = NoBeat
  /\ Fifo!Init
  /\ hit = [current |-> FALSE, previous |-> FALSE]
-----------------------------------------------------------------------------
\* axis_i_tready of the axis_register.
axis_i_tready == axis_reg = NoBeat \/ Fifo!tready

next_overflowed(valid) == ~axis_i_tready /\ valid

overflowed(valid) == next_overflowed(valid) \/ overflowed_reg

\* Mutants: the flag is not kept for the rest of the packet, or for ever.
OverflowedRegPulse(valid, last) == next_overflowed(valid)
OverflowedRegSticky(valid, last) == next_overflowed(valid) \/ overflowed_reg

OverflowedReg(valid, last) ==
  \/ next_overflowed(valid)
  \/ overflowed_reg /\ ~(axis_i_tready /\ valid /\ last)

axis_i_drop(valid, error) == error \/ overflowed(valid)

\* Mutant: the register keeps the drop mark of the beat before.
AxisRegSticky(valid, word) ==
  IF axis_i_tready /\ (valid \/ overflowed(valid))
  THEN [ word |-> word,
         drop |-> axis_i_drop(valid, word.err) \/ (axis_reg # NoBeat /\ axis_reg.drop) ]
  ELSE IF Fifo!tready THEN NoBeat ELSE axis_reg

\* axis_register.sv.  While the filter is in overflow it presents a beat,
\* marked to be dropped, at every edge.
AxisReg(valid, word) ==
  IF axis_i_tready /\ (valid \/ overflowed(valid))
  THEN [word |-> word, drop |-> axis_i_drop(valid, word.err)]
  ELSE IF Fifo!tready THEN NoBeat ELSE axis_reg

\* An edge of i_clk with i_valid = valid and the rest of the inputs in word,
\* at which the FIFO learns that freed words were read.
Edge(valid, word, freed) ==
  /\ input' = word
  /\ overflowed_reg' = OverflowedReg(valid, word.tlast)
  /\ axis_reg' = AxisReg(valid, word)
  /\ Fifo!Edge(axis_reg, freed)
  /\ hit' = LET now == hit.current \/ next_overflowed(valid)
            IN  IF valid /\ word.tlast
                THEN [current |-> FALSE, previous |-> now]
                ELSE [hit EXCEPT !.current = now]

NextWords ==
  { w \in Word :
      /\ w.index = MaxWords => w.tlast
      /\ IF input.tlast
         THEN w.packet = 1 - input.packet /\ w.index = 1 /\ ~w.after
         ELSE /\ w.packet = input.packet /\ w.index = input.index + 1
              /\ w.after <=> input.err }

Present(freed) == \E word \in NextWords : Edge(TRUE, word, freed)

Pause(freed) == Edge(FALSE, input, freed)

\* i_sresetn, for as long as it lasts.  The source is reset with it and
\* starts again with a new packet.
Reset ==
  /\ input' = [input EXCEPT !.tlast = TRUE]
  /\ overflowed_reg' = FALSE
  /\ axis_reg' = NoBeat
  /\ Fifo!Reset
  /\ hit' = [current |-> FALSE, previous |-> FALSE]

Next == Reset \/ \E freed \in 0 .. used : Present(freed) \/ Pause(freed)

Spec == Init /\ [][Next]_vars

\* The clock runs, and the sink goes on reading what was committed
\* (CommittedIsRead of PacketFifoAsync).
FairSpec ==
  /\ Spec
  /\ WF_vars(\E freed \in 0 .. used : Present(freed) \/ Pause(freed))
  /\ WF_vars(\E freed \in 1 .. used : Present(freed) \/ Pause(freed))
-----------------------------------------------------------------------------
(* What the FIFO commits is an unbroken run of words of one packet up to   *)
(* its last, none with an error, whatever was lost before it.  The run     *)
(* begins with the packet's first word or with the one after an error: the *)
(* code does not remember i_error, so what line 2 of it calls the          *)
(* remainder of the packet is committed as a packet.                       *)
Commits ==
  Fifo!tready /\ axis_reg # NoBeat /\ ~axis_reg.drop /\ axis_reg.word.tlast

UnbrokenRuns ==
  Commits =>
    LET p == Append(open, axis_reg.word)
    IN  /\ p[1].index = 1 \/ p[1].after
        /\ \A i \in DOMAIN p :
             /\ p[i].packet = p[1].packet /\ p[i].index = p[1].index + i - 1
             /\ ~p[i].err
             /\ p[i].tlast <=> (i = Len(p))

\* The overflow flag drops the rest of the packet that overflowed, and at
\* most the one packet after it.
OverflowIsRecent == overflowed_reg => hit.current \/ hit.previous

\* A word that comes without an error, in a packet that has not overflowed,
\* and not right after a packet that has, is passed through, also when a word
\* before it in the packet came with an error.
PassedThrough ==
  [][ /\ input' \in NextWords /\ axis_i_tready /\ ~input'.err
      /\ ~hit.current /\ ~hit.previous
      => axis_reg' = [word |-> input', drop |-> FALSE] ]_vars

\* An overflow is not left half way: what was let in of the packet that
\* overflowed is removed, as soon as the FIFO has room for the beat that
\* says so.
OverflowDiscards == overflowed_reg ~> (open = <<>>)

\* The source is never shut out for good.
ReadyAgain == []<>axis_i_tready
=============================================================================
