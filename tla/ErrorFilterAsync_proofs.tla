----------------------- MODULE ErrorFilterAsync_proofs -----------------------
(***************************************************************************)
(* For packets of any length, a FIFO of any depth and any pattern of       *)
(* words, errors, pauses, reads and resets: what the error filter commits  *)
(* are unbroken runs of words, its overflow flag is never older than one   *)
(* packet, and nothing else is dropped.                                    *)
(***************************************************************************)
EXTENDS ErrorFilterAsync, TLAPS

USE SizesAssumption, NoBeatAssumption DEF SizesAssumption, NoBeatAssumption
-----------------------------------------------------------------------------
(* Consecutive words of one packet without an error, from its first word   *)
(* or the one after an error.                                              *)
Run(p) ==
  /\ p # <<>> => p[1].index = 1 \/ p[1].after
  /\ \A i \in 1 .. Len(p) : /\ p[i].packet = p[1].packet
                            /\ p[i].index = p[1].index + i - 1
                            /\ ~p[i].err

NoneLast(p) == \A i \in 1 .. Len(p) : ~p[i].tlast

(* The open packet as it will be when the FIFO has taken the register.     *)
Pending ==
  IF axis_reg = NoBeat THEN open
  ELSE IF axis_reg.drop THEN <<>> ELSE Append(open, axis_reg.word)

(* Unless the filter is in overflow, the pending packet ends with the word *)
(* at the input; if nothing is pending, the next word may start a packet.  *)
InputContinues ==
  IF Pending = <<>> THEN input.tlast \/ input.err
  ELSE Pending[Len(Pending)] = input

IInv ==
  /\ TypeOK
  /\ OverflowIsRecent
  /\ Run(open) /\ NoneLast(open)
  /\ Run(Pending)
  /\ ~overflowed_reg => InputContinues
-----------------------------------------------------------------------------
LEMMA RunAppend ==
  ASSUME NEW p \in Seq(Word), NEW w \in Word, Run(p), ~w.err,
         p = <<>> => w.index = 1 \/ w.after,
         p # <<>> => w.packet = p[Len(p)].packet /\ w.index = p[Len(p)].index + 1
  PROVE  Run(Append(p, w))
<1>. DEFINE q == Append(p, w)
<1>1. /\ Len(q) = Len(p) + 1 /\ q[Len(p) + 1] = w /\ Len(p) \in Nat
      /\ \A i \in 1 .. Len(p) : q[i] = p[i]
  OBVIOUS
<1>2. CASE p = <<>>
  <2>1. Len(q) = 1 /\ q[1] = w
    BY <1>1, <1>2
  <2>2. w.index \in Int
    BY DEF Word
  <2>. QED
    BY <1>2, <2>1, <2>2 DEF Run
<1>3. CASE p # <<>>
  <2>1. Len(p) \in 1 .. Len(p) /\ Len(p) >= 1
    BY <1>3
  <2>2. q[1] = p[1] /\ q # <<>>
    BY <1>1, <2>1
  <2>3. w.packet = p[1].packet /\ w.index = p[1].index + Len(p)
    <3>1. p[1] \in Word
      BY <2>1
    <3>2. p[1].index \in Int
      BY <3>1 DEF Word
    <3>3. p[Len(p)].packet = p[1].packet /\ p[Len(p)].index = p[1].index + Len(p) - 1
      BY <2>1 DEF Run
    <3>. QED
      BY <1>3, <2>1, <3>2, <3>3
  <2>4. ASSUME NEW i \in 1 .. Len(q)
        PROVE  q[i].packet = q[1].packet /\ q[i].index = q[1].index + i - 1 /\ ~q[i].err
    <3>1. CASE i \in 1 .. Len(p)
      BY <1>1, <2>2, <3>1 DEF Run
    <3>2. CASE i = Len(p) + 1
      <4>1. p[1].index \in Int
        <5>1. p[1] \in Word
          BY <2>1
        <5>. QED
          BY <5>1 DEF Word
      <4>2. q[i] = w
        BY <1>1, <3>2
      <4>. HIDE DEF q
      <4>. QED
        BY <1>1, <2>2, <2>3, <3>2, <4>1, <4>2
    <3>. QED
      BY <1>1, <3>1, <3>2
  <2>. QED
    BY <1>3, <2>2, <2>4 DEF Run
<1>. QED
  BY <1>2, <1>3

LEMMA EmptyRun == Run(<<>>) /\ NoneLast(<<>>)
BY DEF Run, NoneLast

LEMMA NoneLastAppend ==
  ASSUME NEW p \in Seq(Word), NEW w \in Word, NoneLast(p), ~w.tlast
  PROVE  NoneLast(Append(p, w))
BY DEF NoneLast

(* The FIFO, offered the register: it takes it, or nothing.                *)
LEMMA FifoTakes ==
  ASSUME TypeOK, NEW freed, Fifo!Edge(axis_reg, freed)
  PROVE  /\ used' \in Nat /\ used' + Len(open') <= Depth
         /\ open' \in Seq(Word)
         /\ open' = IF Fifo!tready /\ axis_reg # NoBeat
                    THEN IF axis_reg.drop \/ axis_reg.word.tlast THEN <<>>
                         ELSE Append(open, axis_reg.word)
                    ELSE open
<1>1. axis_reg # NoBeat => axis_reg.word \in Word /\ axis_reg.drop \in BOOLEAN
                           /\ axis_reg.word.tlast \in BOOLEAN
  BY DEF TypeOK, Beat, Word
<1>2. /\ open' = IF Fifo!tready /\ axis_reg # NoBeat
                 THEN IF axis_reg.drop \/ axis_reg.word.tlast THEN <<>>
                      ELSE Append(open, axis_reg.word)
                 ELSE open
  BY DEF Fifo!Edge
<1>3. open \in Seq(Word) /\ used \in Nat /\ used + Len(open) <= Depth /\ freed \in 0 .. used
  BY DEF TypeOK, Fifo!Edge
<1>4. open' \in Seq(Word)
  BY <1>1, <1>2, <1>3
<1>5. used' \in Nat /\ used' + Len(open') <= Depth
  <2>1. CASE ~(Fifo!tready /\ axis_reg # NoBeat)
    BY <1>3, <2>1 DEF Fifo!Edge
  <2>2. CASE Fifo!tready /\ axis_reg # NoBeat
    <3>1. Len(open) \in Nat /\ used + Len(open) < Depth
      BY <1>3, <2>2 DEF Fifo!tready
    <3>2. /\ Len(<<>>) = 0
          /\ Len(Append(open, axis_reg.word)) = Len(open) + 1
      BY <1>1, <1>3, <2>2
    <3>. QED
      BY <1>1, <1>3, <2>2, <3>1, <3>2 DEF Fifo!Edge
  <2>. QED
    BY <2>1, <2>2
<1>. QED
  BY <1>2, <1>4, <1>5
-----------------------------------------------------------------------------
LEMMA InitIInv == Init => IInv
<1>. SUFFICES ASSUME Init PROVE IInv
  OBVIOUS
<1>1. TypeOK
  <2>1. input \in Word
    BY DEF Init, Word
  <2>2. open \in Seq(Word) /\ used \in Nat /\ used + Len(open) <= Depth
    BY DEF Init, Fifo!Init
  <2>3. hit \in [current : BOOLEAN, previous : BOOLEAN]
    BY DEF Init
  <2>. QED
    BY <2>1, <2>2, <2>3 DEF Init, TypeOK
<1>2. OverflowIsRecent /\ Pending = <<>> /\ open = <<>> /\ input.tlast
  BY DEF Init, Fifo!Init, OverflowIsRecent, Pending
<1>. QED
  BY <1>1, <1>2, EmptyRun DEF IInv, InputContinues

LEMMA StepType ==
  ASSUME TypeOK, NEW valid \in BOOLEAN, NEW word \in Word, NEW freed,
         Edge(valid, word, freed)
  PROVE  TypeOK'
<1>1. /\ used' \in Nat /\ used' + Len(open') <= Depth
      /\ open' \in Seq(Word)
  BY FifoTakes DEF Edge
<1>2. input' \in Word
  BY DEF Edge
<1>3. overflowed_reg' \in BOOLEAN
  BY DEF Edge, OverflowedReg, next_overflowed, TypeOK
<1>4. axis_reg' \in Beat \cup {NoBeat}
  BY DEF Edge, AxisReg, axis_i_drop, overflowed, next_overflowed, TypeOK, Beat, Word
<1>5. hit' \in [current : BOOLEAN, previous : BOOLEAN]
  BY DEF Edge, next_overflowed, TypeOK
<1>. QED
  BY <1>1, <1>2, <1>3, <1>4, <1>5 DEF TypeOK

(* What is up came from the packet at the input or from the one before.    *)
LEMMA StepOverflowIsRecent ==
  ASSUME TypeOK, OverflowIsRecent, NEW valid \in BOOLEAN, NEW word \in Word,
         NEW freed, Edge(valid, word, freed)
  PROVE  OverflowIsRecent'
<1>1. CASE valid /\ word.tlast
  BY <1>1 DEF Edge, OverflowedReg, next_overflowed, OverflowIsRecent, TypeOK
<1>2. CASE ~(valid /\ word.tlast)
  BY <1>2 DEF Edge, OverflowedReg, next_overflowed, OverflowIsRecent, TypeOK
<1>. QED
  BY <1>1, <1>2

(* When the register moves on, the pending packet is the open one: it is   *)
(* without a last word unless that has just closed it.                     *)
LEMMA OpenRun ==
  ASSUME IInv, NEW freed, Fifo!Edge(axis_reg, freed)
  PROVE  Run(open') /\ NoneLast(open')
<1>1. open \in Seq(Word) /\ axis_reg \in Beat \cup {NoBeat} /\ Run(open) /\ NoneLast(open)
  BY DEF IInv, TypeOK
<1>2. CASE open' = open
  BY <1>1, <1>2
<1>3. CASE open' = <<>>
  BY <1>3, EmptyRun
<1>4. CASE /\ axis_reg # NoBeat /\ ~axis_reg.drop /\ ~axis_reg.word.tlast
           /\ open' = Append(open, axis_reg.word)
  <2>1. axis_reg.word \in Word
    BY <1>1, <1>4 DEF Beat
  <2>2. open' = Pending
    BY <1>4 DEF Pending
  <2>. QED
    BY <1>1, <1>4, <2>1, <2>2, NoneLastAppend DEF IInv
<1>. QED
  BY <1>2, <1>3, <1>4, FifoTakes DEF IInv

(* The four things that can happen to the register.                        *)
LEMMA PendingMoves ==
  ASSUME TypeOK, NEW valid \in BOOLEAN, NEW word \in Word, NEW freed,
         Edge(valid, word, freed)
  PROVE  \/ ~axis_i_tready /\ Pending' = Pending
         \/ /\ axis_i_tready /\ ~valid /\ ~overflowed_reg
            /\ Pending' = open'
         \/ /\ axis_i_tready /\ (valid \/ overflowed_reg)
            /\ word.err \/ overflowed_reg
            /\ Pending' = <<>>
         \/ /\ axis_i_tready /\ valid
            /\ ~word.err /\ ~overflowed_reg
            /\ Pending' = Append(open', word)
<1>1. Fifo!Edge(axis_reg, freed) /\ axis_reg' = AxisReg(valid, word)
  BY DEF Edge
<1>2. CASE ~axis_i_tready
  <2>1. axis_reg' = axis_reg /\ open' = open
    BY <1>1, <1>2, FifoTakes DEF AxisReg, axis_i_tready
  <2>. QED
    BY <1>2, <2>1 DEF Pending
<1>3. CASE axis_i_tready /\ ~valid /\ ~overflowed_reg
  <2>1. axis_reg' = NoBeat
    BY <1>1, <1>3 DEF AxisReg, axis_i_tready, overflowed, next_overflowed
  <2>. QED
    BY <1>3, <2>1 DEF Pending
<1>4. CASE axis_i_tready /\ (valid \/ overflowed_reg)
  <2>1. /\ axis_reg' = [word |-> word, drop |-> (word.err \/ overflowed_reg)]
        /\ axis_reg' # NoBeat
    <3>1. axis_reg' = [word |-> word, drop |-> (word.err \/ overflowed_reg)]
      BY <1>1, <1>4 DEF AxisReg, axis_i_drop, overflowed, next_overflowed
    <3>2. (word.err \/ overflowed_reg) \in BOOLEAN
      OBVIOUS
    <3>3. axis_reg' \in Beat
      BY <3>1, <3>2 DEF Beat
    <3>. QED
      BY <3>1, <3>3
  <2>2. axis_reg'.drop <=> word.err \/ overflowed_reg
    BY <2>1
  <2>3. axis_reg'.word = word
    BY <2>1
  <2>4. CASE word.err \/ overflowed_reg
    BY <1>4, <2>1, <2>2, <2>4 DEF Pending
  <2>5. CASE ~word.err /\ ~overflowed_reg
    BY <1>4, <2>1, <2>2, <2>3, <2>5 DEF Pending
  <2>. QED
    BY <2>4, <2>5
<1>. QED
  BY <1>2, <1>3, <1>4

(* Once the FIFO has taken the register, what was pending is open, or was  *)
(* closed by its last word.                                                *)
LEMMA OpenIsPending ==
  ASSUME TypeOK, axis_i_tready, NEW freed, Fifo!Edge(axis_reg, freed)
  PROVE  \/ open' = Pending
         \/ open' = <<>> /\ Pending # <<>> /\ Pending[Len(Pending)].tlast
<1>1. CASE axis_reg = NoBeat
  BY <1>1, FifoTakes DEF Pending
<1>2. CASE axis_reg # NoBeat
  <2>1. axis_reg.word \in Word /\ open \in Seq(Word)
    BY <1>2 DEF TypeOK, Beat
  <2>2. Fifo!tready
    BY <1>2 DEF axis_i_tready
  <2>3. /\ Append(open, axis_reg.word) # <<>>
        /\ LET q == Append(open, axis_reg.word) IN q[Len(q)] = axis_reg.word
    BY <2>1
  <2>4. CASE axis_reg.drop \/ ~axis_reg.word.tlast
    BY <1>2, <2>2, <2>4, FifoTakes DEF Pending
  <2>5. CASE ~axis_reg.drop /\ axis_reg.word.tlast
    BY <1>2, <2>2, <2>3, <2>5, FifoTakes DEF Pending
  <2>. QED
    BY <2>4, <2>5
<1>. QED
  BY <1>1, <1>2

LEMMA StepPending ==
  ASSUME IInv, NEW valid \in BOOLEAN, NEW word \in Word, NEW freed,
         Edge(valid, word, freed),
         valid => word \in NextWords,
         ~valid => word = input
  PROVE  Run(Pending') /\ (~overflowed_reg' => InputContinues')
<1>1. TypeOK /\ Fifo!Edge(axis_reg, freed) /\ input' = word
  BY DEF IInv, Edge
<1>2. overflowed_reg' = ((~axis_i_tready /\ valid)
                           \/ (overflowed_reg /\ ~(axis_i_tready /\ valid /\ word.tlast)))
  BY DEF Edge, OverflowedReg, next_overflowed
<1>3. CASE ~axis_i_tready /\ Pending' = Pending
  <2>1. Run(Pending')
    BY <1>3 DEF IInv
  <2>2. ~overflowed_reg' => ~valid /\ ~overflowed_reg /\ input' = input
    BY <1>1, <1>2, <1>3
  <2>. QED
    BY <1>3, <2>1, <2>2 DEF IInv, InputContinues
<1>4. CASE axis_i_tready /\ ~valid /\ ~overflowed_reg /\ Pending' = open'
  <2>1. Run(Pending')
    BY <1>1, <1>4, OpenRun
  <2>2. InputContinues /\ input' = input
    BY <1>1, <1>4 DEF IInv
  <2>3. CASE open' = Pending
    BY <1>4, <2>1, <2>2, <2>3 DEF InputContinues
  <2>4. CASE open' = <<>> /\ Pending # <<>> /\ Pending[Len(Pending)].tlast
    BY <1>4, <2>1, <2>2, <2>4 DEF InputContinues
  <2>. QED
    BY <1>1, <1>4, <2>3, <2>4, OpenIsPending
<1>5. CASE /\ axis_i_tready /\ (valid \/ overflowed_reg)
           /\ word.err \/ overflowed_reg
           /\ Pending' = <<>>
  <2>1. ~overflowed_reg' => word.err \/ word.tlast
    BY <1>2, <1>5
  <2>. QED
    BY <1>1, <1>5, <2>1, EmptyRun DEF InputContinues
<1>6. CASE /\ axis_i_tready /\ valid /\ ~word.err /\ ~overflowed_reg
           /\ Pending' = Append(open', word)
  <2>1. InputContinues /\ word \in NextWords
    BY <1>6 DEF IInv
  <2>2. open' \in Seq(Word) /\ Run(open') /\ NoneLast(open')
    BY <1>1, FifoTakes, OpenRun
  <2>3. open' = <<>> => word.index = 1 \/ word.after
    <3>1. open' = <<>> => input.tlast \/ input.err
      BY <1>1, <1>6, <2>1, OpenIsPending DEF InputContinues
    <3>. QED
      BY <2>1, <3>1 DEF NextWords
  <2>4. open' # <<>> => /\ word.packet = open'[Len(open')].packet
                        /\ word.index = open'[Len(open')].index + 1
    <3>1. SUFFICES ASSUME open' # <<>>
                   PROVE  /\ word.packet = open'[Len(open')].packet
                          /\ word.index = open'[Len(open')].index + 1
      OBVIOUS
    <3>2. open'[Len(open')] = input
      BY <1>1, <1>6, <2>1, <3>1, OpenIsPending DEF InputContinues
    <3>3. Len(open') \in 1 .. Len(open')
      BY <2>2, <3>1
    <3>4. ~input.tlast
      BY <2>2, <3>2, <3>3 DEF NoneLast
    <3>. QED
      BY <2>1, <3>2, <3>4 DEF NextWords
  <2>5. Run(Append(open', word))
    BY <1>6, <2>2, <2>3, <2>4, RunAppend
  <2>6. /\ Append(open', word) # <<>>
        /\ Append(open', word)[Len(Append(open', word))] = word
    BY <2>2
  <2>. QED
    BY <1>1, <1>6, <2>5, <2>6 DEF InputContinues
<1>. QED
  BY <1>1, <1>3, <1>4, <1>5, <1>6, PendingMoves

LEMMA StepEdge ==
  ASSUME IInv, NEW valid \in BOOLEAN, NEW word \in Word, NEW freed,
         Edge(valid, word, freed),
         valid => word \in NextWords,
         ~valid => word = input
  PROVE  IInv'
<1>1. TypeOK' /\ OverflowIsRecent'
  BY StepType, StepOverflowIsRecent DEF IInv
<1>2. Run(open') /\ NoneLast(open')
  BY OpenRun DEF Edge
<1>3. Run(Pending') /\ (~overflowed_reg' => InputContinues')
  BY StepPending
<1>. QED
  BY <1>1, <1>2, <1>3 DEF IInv

LEMMA StepReset ==
  ASSUME IInv, Reset
  PROVE  IInv'
<1>1. input' \in Word /\ input'.tlast
  BY DEF Reset, IInv, TypeOK, Word
<1>2. TypeOK'
  <2>1. open' \in Seq(Word) /\ used' \in Nat /\ used' + Len(open') <= Depth
    BY DEF Reset, Fifo!Reset
  <2>2. hit' \in [current : BOOLEAN, previous : BOOLEAN]
    BY DEF Reset
  <2>. QED
    BY <1>1, <2>1, <2>2 DEF Reset, TypeOK
<1>3. /\ Pending' = <<>> /\ open' = <<>>
      /\ overflowed_reg' = FALSE
  BY DEF Reset, Fifo!Reset, Pending
<1>. QED
  BY <1>1, <1>2, <1>3, EmptyRun DEF IInv, InputContinues, OverflowIsRecent

LEMMA StepIInv == IInv /\ [Next]_vars => IInv'
<1>. SUFFICES ASSUME IInv, [Next]_vars PROVE IInv'
  OBVIOUS
<1>1. ASSUME NEW freed, Present(freed) PROVE IInv'
  <2>1. PICK word \in NextWords : Edge(TRUE, word, freed)
    BY <1>1 DEF Present
  <2>2. word \in Word
    BY DEF NextWords
  <2>. QED
    BY <2>1, <2>2, StepEdge
<1>2. ASSUME NEW freed, Pause(freed) PROVE IInv'
  BY <1>2, StepEdge DEF Pause, IInv, TypeOK
<1>3. CASE UNCHANGED vars
  <2>1. TypeOK' /\ OverflowIsRecent'
    BY <1>3 DEF IInv, TypeOK, OverflowIsRecent, vars
  <2>2. Pending' = Pending
    BY <1>3 DEF Pending, vars
  <2>. QED
    BY <1>3, <2>1, <2>2 DEF IInv, InputContinues, vars
<1>. QED
  BY <1>1, <1>2, <1>3, StepReset DEF Next
-----------------------------------------------------------------------------
(* The filter and the FIFO's write side keep their types: in particular    *)
(* the FIFO never holds more words than its RAM.                           *)
THEOREM TypeCorrect == Spec => []TypeOK
<1>1. IInv => TypeOK
  BY DEF IInv
<1>. QED
  BY <1>1, InitIInv, StepIInv, PTL DEF Spec

(* The overflow flag is up only for the packet that overflowed and the one *)
(* after it, however the two packets and the FIFO's room interleave.       *)
THEOREM OverflowIsRecentCorrect == Spec => []OverflowIsRecent
<1>1. IInv => OverflowIsRecent
  BY DEF IInv
<1>. QED
  BY <1>1, InitIInv, StepIInv, PTL DEF Spec

(* Whatever was lost or erroneous, what axis_error_filter_async has the    *)
(* FIFO commit are consecutive words of one packet, none with an error, up *)
(* to its last, from its first or from the one after an error: the rest of *)
(* a packet with an error, which line 2 of the code means to drop, is      *)
(* covered by the second case.                                             *)
THEOREM UnbrokenRunsCorrect == Spec => []UnbrokenRuns
<1>1. IInv => UnbrokenRuns
  <2>. SUFFICES ASSUME IInv, Commits
                PROVE  LET p == Append(open, axis_reg.word)
                       IN  /\ p[1].index = 1 \/ p[1].after
                           /\ \A i \in DOMAIN p :
                                /\ p[i].packet = p[1].packet
                                /\ p[i].index = p[1].index + i - 1
                                /\ ~p[i].err
                                /\ p[i].tlast <=> (i = Len(p))
    BY DEF UnbrokenRuns
  <2>. DEFINE p == Append(open, axis_reg.word)
  <2>1. open \in Seq(Word) /\ axis_reg.word \in Word /\ axis_reg.word.tlast
    BY DEF IInv, TypeOK, Commits, Beat
  <2>2. /\ p # <<>> /\ DOMAIN p = 1 .. Len(p) /\ Len(p) = Len(open) + 1
        /\ p[Len(p)] = axis_reg.word
        /\ \A i \in 1 .. Len(open) : p[i] = open[i]
    BY <2>1
  <2>3. Run(p)
    BY DEF IInv, Commits, Pending
  <2>4. \A i \in 1 .. Len(p) : p[i].tlast <=> (i = Len(p))
    <3>1. ASSUME NEW i \in 1 .. Len(open) PROVE ~p[i].tlast
      BY <2>2, <3>1 DEF IInv, NoneLast
    <3>2. Len(open) \in Nat
      BY <2>1
    <3>. HIDE DEF p
    <3>3. ASSUME NEW i \in 1 .. Len(p) PROVE p[i].tlast <=> (i = Len(p))
      <4>1. CASE i = Len(p)
        BY <2>1, <2>2, <4>1
      <4>2. CASE i # Len(p)
        <5>1. i \in 1 .. Len(open)
          BY <2>2, <3>2, <4>2
        <5>. QED
          BY <3>1, <4>2, <5>1
      <4>. QED
        BY <4>1, <4>2
    <3>. QED
      BY <3>3
  <2>. HIDE DEF p
  <2>5. /\ p[1].index = 1 \/ p[1].after
        /\ \A i \in DOMAIN p :
             /\ p[i].packet = p[1].packet /\ p[i].index = p[1].index + i - 1
             /\ ~p[i].err
             /\ p[i].tlast <=> (i = Len(p))
    BY <2>2, <2>3, <2>4 DEF Run
  <2>. QED
    BY <2>5 DEF p
<1>. QED
  BY <1>1, InitIInv, StepIInv, PTL DEF Spec

(* Nothing is dropped without a reason: an error-free word that has room,  *)
(* in a packet that has not overflowed and does not follow one that has,   *)
(* goes on to the FIFO unmarked.                                           *)
THEOREM PassedThroughCorrect == Spec => PassedThrough
<1>. DEFINE Passed ==
       /\ input' \in NextWords /\ axis_i_tready /\ ~input'.err
       /\ ~hit.current /\ ~hit.previous
       => axis_reg' = [word |-> input', drop |-> FALSE]
<1>1. IInv /\ [Next]_vars => [Passed]_vars
  <2>. SUFFICES ASSUME IInv, Next, input' \in NextWords, axis_i_tready, ~input'.err,
                       ~hit.current, ~hit.previous
                PROVE  axis_reg' = [word |-> input', drop |-> FALSE]
    OBVIOUS
  <2>1. ~overflowed_reg
    BY DEF IInv, OverflowIsRecent
  <2>2. input \in Word
    BY DEF IInv, TypeOK
  <2>3. ASSUME NEW freed, Present(freed)
        PROVE  axis_reg' = [word |-> input', drop |-> FALSE]
    <3>1. PICK word \in NextWords : Edge(TRUE, word, freed)
      BY <2>3 DEF Present
    <3>2. word = input'
      BY <3>1 DEF Edge
    <3>3. (word.err \/ overflowed(TRUE)) = FALSE
      BY <2>1, <3>2 DEF overflowed, next_overflowed
    <3>. QED
      BY <3>1, <3>2, <3>3 DEF Edge, AxisReg, axis_i_drop
  <2>4. ASSUME NEW word, word.packet = input.packet, word.index = input.index
        PROVE  word \notin NextWords
    <3>1. input.index \in Nat /\ input.packet \in {0, 1}
      BY <2>2 DEF Word
    <3>. QED
      BY <2>4, <3>1 DEF NextWords
  <2>5. ASSUME NEW freed, Pause(freed) PROVE FALSE
    BY <2>4, <2>5 DEF Pause, Edge
  <2>6. CASE Reset
    BY <2>2, <2>4, <2>6 DEF Reset, Word
  <2>. QED
    BY <2>3, <2>5, <2>6 DEF Next
<1>. QED
  BY <1>1, InitIInv, StepIInv, PTL DEF Spec, PassedThrough
=============================================================================
