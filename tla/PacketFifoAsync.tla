-------------------------- MODULE PacketFifoAsync --------------------------
(***************************************************************************)
(* synth/axis/axis_packet_fifo_async.sv with its two cdc_vectors and its   *)
(* dual-port RAM: a FIFO between two unrelated clocks which commits whole  *)
(* packets, and drops packets, by moving pointers.                         *)
(*                                                                         *)
(* A step is an edge of i_clk, an edge of o_clk, edges of both that        *)
(* coincide, or a change of the reset.  The stream inputs are free at      *)
(* every edge.  tdata stands for tdata, tuser and tkeep together.          *)
(***************************************************************************)
EXTENDS CdcDatapath, Sequences

CONSTANTS
  Depth,        \* words in the RAM, 2**LOG2_DEPTH in the code
  Data,         \* payloads of a word
  NoWord        \* no word is presented or on offer

ASSUME DepthAssumption == Depth \in Nat \ {0}

Word == [tdata : Data, tlast : BOOLEAN]

\* What the source presents at an edge of i_clk: a word with axis_i_drop, or
\* axis_i_tvalid low.
Beat == [word : Word, drop : BOOLEAN]

ASSUME NoWordAssumption == NoWord \notin Word /\ NoWord \notin Beat

\* The pointers have one bit more than an address.
Ptr == 0 .. 2 * Depth - 1

Slot == 0 .. Depth - 1

Addr(p) == IF p < Depth THEN p ELSE p - Depth

Wrapped(p) == p >= Depth

\* Mutant: the pointer wraps one too late.
IncLate(p) == IF p = 2 * Depth THEN 0 ELSE p + 1

Inc(p) == IF p = 2 * Depth - 1 THEN 0 ELSE p + 1

VARIABLES
  sresetn,                  \* i_sresetn and o_sresetn, driven by one source
  wrptr_iclk,
  committed_wrptr_iclk,
  rdptr_oclk,
  wrptr_i_to_o,             \* the cdc_vector that carries the commit pointer
  rdptr_o_to_i,             \* the cdc_vector that carries the read pointer
  ram,
  axis_o_tvalid,
  axis_o,                   \* dob, the RAM's output register
  taken,                    \* parity of the words the sink took since the reset
  held,                     \* rounds that the reset has lasted
  seen                      \* clocks that had an edge in the round that is on

vars == <<sresetn, wrptr_iclk, committed_wrptr_iclk, rdptr_oclk, wrptr_i_to_o,
          rdptr_o_to_i, ram, axis_o_tvalid, axis_o, taken, held, seen>>

\* How long the reset has to last, in rounds: a round is over when both clocks
\* have had an edge in it.
ResetRounds == 3 * SYNC_STAGES + 5

TypeOK ==
  /\ sresetn \in BOOLEAN
  /\ wrptr_iclk \in Ptr
  /\ committed_wrptr_iclk \in Ptr
  /\ rdptr_oclk \in Ptr
  /\ wrptr_i_to_o \in VectorType(Ptr)
  /\ rdptr_o_to_i \in VectorType(Ptr)
  /\ ram \in [Slot -> Word]
  /\ axis_o_tvalid \in BOOLEAN
  /\ axis_o \in Word
  /\ taken \in Bit
  /\ held \in 0 .. ResetRounds
  /\ seen \in {{}, {"i"}, {"o"}}

\* Power-up clears every register (reset_gen.sv states it of the target) and
\* the reset is asserted.
Init ==
  /\ sresetn = FALSE
  /\ wrptr_iclk = 0
  /\ committed_wrptr_iclk = 0
  /\ rdptr_oclk = 0
  /\ wrptr_i_to_o = VectorPowerUp(0, 0)
  /\ rdptr_o_to_i = VectorPowerUp(0, 0)
  /\ \E w \in Word : ram = [s \in Slot |-> w] /\ axis_o = w
  /\ axis_o_tvalid = FALSE
  /\ taken = 0
  /\ held = ResetRounds
  /\ seen = {}
-----------------------------------------------------------------------------
(* The pointers as the other domain sees them.                             *)
wrptr_oclk == wrptr_i_to_o.o
rdptr_iclk == rdptr_o_to_i.o

\* Mutant: the full test is forgotten.
axis_i_treadyAlways == TRUE

\* Mutant: the full test leaves out the top bits.
axis_i_treadyNoTopBit == Addr(rdptr_iclk) # Addr(wrptr_iclk)

\* Not full: the address parts differ, or the top bits agree.
axis_i_tready ==
  ~ (Addr(rdptr_iclk) = Addr(wrptr_iclk) /\ Wrapped(rdptr_iclk) # Wrapped(wrptr_iclk))

\* Mutant: the reset leaves the commit pointer alone.
MovePointersKeepCommit(accepted, beat) ==
  \/ ~sresetn /\ wrptr_iclk' = 0 /\ UNCHANGED committed_wrptr_iclk
  \/ sresetn /\ ~accepted /\ UNCHANGED <<wrptr_iclk, committed_wrptr_iclk>>
  \/ /\ sresetn /\ accepted
     /\ wrptr_iclk' = IF beat.drop THEN committed_wrptr_iclk ELSE Inc(wrptr_iclk)
     /\ committed_wrptr_iclk' = IF beat.word.tlast /\ ~beat.drop THEN Inc(wrptr_iclk)
                                ELSE committed_wrptr_iclk

\* Mutant: a dropped word is not committed, but the packet is kept.
MovePointersKeep(accepted, beat) ==
  \/ ~sresetn /\ wrptr_iclk' = 0 /\ committed_wrptr_iclk' = 0
  \/ sresetn /\ ~accepted /\ UNCHANGED <<wrptr_iclk, committed_wrptr_iclk>>
  \/ /\ sresetn /\ accepted
     /\ wrptr_iclk' = Inc(wrptr_iclk)
     /\ committed_wrptr_iclk' = IF beat.word.tlast /\ ~beat.drop THEN Inc(wrptr_iclk)
                                ELSE committed_wrptr_iclk

\* Mutant: the commit leaves out the last word.
MovePointersShort(accepted, beat) ==
  \/ ~sresetn /\ wrptr_iclk' = 0 /\ committed_wrptr_iclk' = 0
  \/ sresetn /\ ~accepted /\ UNCHANGED <<wrptr_iclk, committed_wrptr_iclk>>
  \/ /\ sresetn /\ accepted
     /\ wrptr_iclk' = IF beat.drop THEN committed_wrptr_iclk ELSE Inc(wrptr_iclk)
     /\ committed_wrptr_iclk' = IF beat.word.tlast /\ ~beat.drop THEN wrptr_iclk
                                ELSE committed_wrptr_iclk

MovePointers(accepted, beat) ==
  \/ /\ ~sresetn
     /\ wrptr_iclk' = 0
     /\ committed_wrptr_iclk' = 0
  \/ /\ sresetn /\ ~accepted
     /\ UNCHANGED <<wrptr_iclk, committed_wrptr_iclk>>
  \/ /\ sresetn /\ accepted /\ beat.drop
     /\ wrptr_iclk' = committed_wrptr_iclk
     /\ UNCHANGED committed_wrptr_iclk
  \/ /\ sresetn /\ accepted /\ ~beat.drop
     /\ wrptr_iclk' = Inc(wrptr_iclk)
     /\ committed_wrptr_iclk' = IF beat.word.tlast THEN Inc(wrptr_iclk) ELSE committed_wrptr_iclk

\* The RAM is written with every accepted word, dropped or not, and is not
\* told of the reset.
WriteSide(beat) ==
  LET accepted == axis_i_tready /\ beat \in Beat
  IN  /\ MovePointers(accepted, beat)
      /\ ram' = IF accepted THEN [ram EXCEPT ![Addr(wrptr_iclk)] = beat.word] ELSE ram

\* Mutants: the sink, or the emptiness, is not looked at, or the sink has to
\* take a word before the next one is read.
read_from_ramUnasked(ready) == rdptr_oclk # wrptr_oclk
read_from_ramEmpty(ready) == ~axis_o_tvalid \/ ready
read_from_ramWaits(ready) == rdptr_oclk # wrptr_oclk /\ axis_o_tvalid /\ ready

read_from_ram(ready) == rdptr_oclk # wrptr_oclk /\ (~axis_o_tvalid \/ ready)

\* The read side at an edge of o_clk at which axis_o_tready = ready and the
\* RAM would return dob.  The sink counts the words it takes.
ReadSide(ready, dob) ==
  /\ \/ /\ ~sresetn
        /\ rdptr_oclk' = 0
        /\ UNCHANGED <<axis_o_tvalid, taken>>
     \/ /\ sresetn
        /\ rdptr_oclk' = IF read_from_ram(ready) THEN Inc(rdptr_oclk) ELSE rdptr_oclk
        /\ axis_o_tvalid' = (read_from_ram(ready) \/ (axis_o_tvalid /\ ~ready))
        /\ taken' = IF axis_o_tvalid /\ ready THEN 1 - taken ELSE taken
  /\ axis_o' = IF read_from_ram(ready) THEN dob ELSE axis_o

\* The inputs that make a difference at an edge: a beat that is refused is
\* like none, the drop does not matter in the reset, and the sink's readiness
\* does not matter while nothing is on offer, nor in the reset unless there is
\* something to read.
Offered ==
  { beat \in Beat : axis_i_tready /\ (beat.drop => sresetn) } \cup {NoWord}

Readiness ==
  IF axis_o_tvalid /\ (sresetn \/ rdptr_oclk # wrptr_oclk) THEN BOOLEAN ELSE {TRUE}

\* What the RAM can return at an edge that coincides with a write.
Collision(beat) ==
  IF axis_i_tready /\ beat \in Beat /\ Addr(wrptr_iclk) = Addr(rdptr_oclk)
  THEN Word ELSE { ram[Addr(rdptr_oclk)] }
-----------------------------------------------------------------------------
\* The rounds of the reset, at an edge of the clocks clks.
Rounds(clks) ==
  \/ /\ sresetn \/ held = ResetRounds
     /\ UNCHANGED <<held, seen>>
  \/ /\ ~sresetn /\ held < ResetRounds
     /\ seen \cup clks = {"i", "o"}
     /\ held' = held + 1 /\ seen' = {}
  \/ /\ ~sresetn /\ held < ResetRounds
     /\ seen \cup clks # {"i", "o"}
     /\ seen' = seen \cup clks /\ UNCHANGED held

IClk ==
  /\ Rounds({"i"})
  /\ \E beat \in Offered : WriteSide(beat)
  /\ wrptr_i_to_o' = InputEdgeAlone(wrptr_i_to_o, TRUE, committed_wrptr_iclk)
  /\ rdptr_o_to_i' = OutputEdgeAlone(rdptr_o_to_i)
  /\ UNCHANGED <<sresetn, rdptr_oclk, axis_o_tvalid, axis_o, taken>>

OClk(ready) ==
  /\ Rounds({"o"})
  /\ ReadSide(ready, ram[Addr(rdptr_oclk)])
  /\ wrptr_i_to_o' = OutputEdgeAlone(wrptr_i_to_o)
  /\ rdptr_o_to_i' = InputEdgeAlone(rdptr_o_to_i, TRUE, rdptr_oclk)
  /\ UNCHANGED <<sresetn, wrptr_iclk, committed_wrptr_iclk, ram>>

BothClks(ready) ==
  /\ Rounds({"i", "o"})
  /\ \E beat \in Offered :
       /\ WriteSide(beat)
       /\ \E dob \in Collision(beat) : ReadSide(ready, dob)
  /\ wrptr_i_to_o' \in CoincidingEdges(wrptr_i_to_o, TRUE, committed_wrptr_iclk, Ptr)
  /\ rdptr_o_to_i' \in CoincidingEdges(rdptr_o_to_i, TRUE, rdptr_oclk, Ptr)
  /\ UNCHANGED sresetn

Registers == <<wrptr_iclk, committed_wrptr_iclk, rdptr_oclk, wrptr_i_to_o,
               rdptr_o_to_i, ram, axis_o_tvalid, axis_o>>

\* The reset may come at any time.  It must last for some rounds: a cdc_vector
\* has no reset and brings pointers of before it until zeros have gone
\* through.  The code leaves this to whoever drives it.
AssertReset ==
  /\ sresetn /\ sresetn' = FALSE
  /\ taken' = 0
  /\ held' = 0 /\ seen' = {}
  /\ UNCHANGED Registers

ReleaseReset ==
  /\ ~sresetn /\ sresetn' = TRUE
  /\ held = ResetRounds
  /\ UNCHANGED <<Registers, taken, held, seen>>

Next ==
  \/ IClk
  \/ \E ready \in Readiness : OClk(ready) \/ BothClks(ready)
  \/ AssertReset \/ ReleaseReset

Spec == Init /\ [][Next]_vars

\* Both clocks run, the reset ends and does not come back, and the sink is
\* ready now and then.
NextUnreset ==
  \/ IClk
  \/ \E ready \in Readiness : OClk(ready) \/ BothClks(ready)
  \/ ReleaseReset

FairSpec ==
  /\ Init /\ [][NextUnreset]_vars
  /\ WF_vars(IClk \/ \E ready \in Readiness : BothClks(ready))
  /\ WF_vars(OClk(TRUE) \/ BothClks(TRUE))
  /\ WF_vars(ReleaseReset)
-----------------------------------------------------------------------------
\* How far b is ahead of a.
Dist(a, b) == IF a <= b THEN b - a ELSE b - a + 2 * Depth

(* The pointers and their copies stand in this order, all within one       *)
(* memory's length of the oldest: the writer's copy of the read pointer,   *)
(* the copy on its way, the read pointer, the reader's copy of the commit  *)
(* pointer, the copy on its way, the commit pointer, the write pointer.    *)
(* So no word is overwritten before it is read, none is read before it is  *)
(* committed, and neither side's stale copy errs on the wrong side.        *)
PointerOrder ==
  LET From(p) == Dist(rdptr_iclk, p)
  IN  sresetn =>
        /\ From(rdptr_o_to_i.i_reg) <= From(rdptr_oclk)
        /\ From(rdptr_oclk) <= From(wrptr_oclk)
        /\ From(wrptr_oclk) <= From(wrptr_i_to_o.i_reg)
        /\ From(wrptr_i_to_o.i_reg) <= From(committed_wrptr_iclk)
        /\ From(committed_wrptr_iclk) <= From(wrptr_iclk)
        /\ From(wrptr_iclk) <= Depth

(* A reset that has lasted ResetRounds rounds has crossed both ways: no    *)
(* crossing, however it was under way when the reset came, still holds or  *)
(* shows a pointer of before it.  A round less is not enough.              *)
ResetCrossed ==
  /\ wrptr_iclk = 0 /\ committed_wrptr_iclk = 0 /\ rdptr_oclk = 0
  /\ wrptr_i_to_o.i_reg = 0 /\ wrptr_i_to_o.o = 0
  /\ rdptr_o_to_i.i_reg = 0 /\ rdptr_o_to_i.o = 0

ResetCrosses == ~sresetn /\ held = ResetRounds => ResetCrossed

\* The two ports of the RAM never meet in one slot.
NoCollision ==
  sresetn /\ axis_i_tready /\ rdptr_oclk # wrptr_oclk
    => Addr(wrptr_iclk) # Addr(rdptr_oclk)

\* Words of whole packets stay as they are in the RAM until they are read.
Unread == { Addr(p) : p \in { q \in Ptr :
              Dist(rdptr_oclk, q) < Dist(rdptr_oclk, committed_wrptr_iclk) } }

UnreadStable ==
  [][sresetn => \A s \in Unread : ram'[s] = ram[s]]_vars

\* A word on offer stays on offer, unchanged, until the sink takes it.
OfferStable ==
  [][sresetn /\ axis_o_tvalid /\ taken' = taken
       => axis_o_tvalid' /\ axis_o' = axis_o]_vars

(* The refinement: the queue's words are those of the RAM between the      *)
(* pointers.                                                               *)
WordsFrom(p, q) ==
  IF ~sresetn THEN <<>>
  ELSE [i \in 1 .. Dist(p, q) |->
          ram[Addr(IF p + i - 1 < 2 * Depth THEN p + i - 1
                   ELSE p + i - 1 - 2 * Depth)]]

Queue == INSTANCE PacketQueue WITH
  down      <- ~sresetn,
  committed <- WordsFrom(rdptr_oclk, committed_wrptr_iclk),
  open      <- WordsFrom(committed_wrptr_iclk, wrptr_iclk),
  out       <- IF axis_o_tvalid THEN axis_o ELSE NoWord

QueueSpec == Queue!Spec

\* The write side alone: what its user can rely on without knowing when the
\* read pointer crosses over.
Writer == INSTANCE PacketFifoWriter WITH
  NoBeat <- NoWord,
  open   <- WordsFrom(committed_wrptr_iclk, wrptr_iclk),
  used   <- IF sresetn THEN Dist(rdptr_iclk, committed_wrptr_iclk) ELSE 0

WriterSpec == Writer!Spec

\* Everything committed is read: as long as something is unread, the read
\* pointer goes on and on.
CommittedIsRead ==
  <>[](rdptr_oclk # committed_wrptr_iclk) => []<><<rdptr_oclk' # rdptr_oclk>>_vars

\* A full FIFO has room again, unless the packet that is coming in fills the
\* whole RAM by itself.
RoomAgain ==
  ~axis_i_tready ~> \/ axis_i_tready
                    \/ Dist(committed_wrptr_iclk, wrptr_iclk) = Depth
=============================================================================
