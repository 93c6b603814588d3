----------------------- MODULE PacketFifoAsync_proofs -----------------------
(***************************************************************************)
(* For every depth, payload set, number of synchroniser flip-flops and     *)
(* pair of clocks: the pointers of the asynchronous packet FIFO and their  *)
(* stale copies keep their order, so that the two ports of the RAM never   *)
(* meet and no committed word is overwritten before it is read; and        *)
(* pointers, RAM and crossings implement the queue of whole packets and,   *)
(* for its user, the view of the write side.  A reset of ResetRounds       *)
(* rounds is long enough for all of it.                                    *)
(***************************************************************************)
EXTENDS PacketFifoAsync, CdcVector_proofs, SequenceTheorems

USE DepthAssumption DEF DepthAssumption
-----------------------------------------------------------------------------
(* Arithmetic of the ring of pointers.                                     *)
LEMMA IncType == ASSUME NEW p \in Ptr PROVE Inc(p) \in Ptr
BY DEF Ptr, Inc

LEMMA AddrType == ASSUME NEW p \in Ptr PROVE Addr(p) \in Slot
BY DEF Ptr, Slot, Addr

LEMMA DistType ==
  ASSUME NEW a \in Ptr, NEW b \in Ptr
  PROVE  Dist(a, b) \in 0 .. 2 * Depth - 1
BY DEF Ptr, Dist

LEMMA DistSelf == ASSUME NEW a \in Ptr PROVE Dist(a, a) = 0
BY DEF Ptr, Dist

(* Stepping forward adds one, as long as it does not lap the origin.       *)
LEMMA DistInc ==
  ASSUME NEW a \in Ptr, NEW b \in Ptr, Dist(a, b) < 2 * Depth - 1
  PROVE  Dist(a, Inc(b)) = Dist(a, b) + 1
BY DEF Ptr, Dist, Inc

(* Moving the origin forward subtracts its way.                            *)
LEMMA Rebase ==
  ASSUME NEW a \in Ptr, NEW p \in Ptr, NEW q \in Ptr, Dist(a, p) <= Dist(a, q)
  PROVE  Dist(p, q) = Dist(a, q) - Dist(a, p)
BY DEF Ptr, Dist

LEMMA DistZero ==
  ASSUME NEW a \in Ptr, NEW b \in Ptr, Dist(a, b) = 0
  PROVE  a = b
BY DEF Ptr, Dist

(* Less than one memory's length apart, two pointers address two slots.    *)
LEMMA AddrDiffer ==
  ASSUME NEW a \in Ptr, NEW b \in Ptr, Dist(a, b) \in 1 .. Depth - 1
  PROVE  Addr(a) # Addr(b)
BY DEF Ptr, Dist, Addr

(* Exactly one memory's length apart, they are full in the code's sense.   *)
LEMMA DepthApartIsFull ==
  ASSUME NEW a \in Ptr, NEW b \in Ptr, Dist(a, b) = Depth
  PROVE  Addr(a) = Addr(b) /\ Wrapped(a) # Wrapped(b)
BY DEF Ptr, Dist, Addr, Wrapped
-----------------------------------------------------------------------------
(* The order of the seven pointers, as a predicate on their values.        *)
Ordered(ri, rr, ro, wo, wr, c, w) ==
  /\ Dist(ri, rr) <= Dist(ri, ro)
  /\ Dist(ri, ro) <= Dist(ri, wo)
  /\ Dist(ri, wo) <= Dist(ri, wr)
  /\ Dist(ri, wr) <= Dist(ri, c)
  /\ Dist(ri, c) <= Dist(ri, w)
  /\ Dist(ri, w) <= Depth

(* Any of them may move up to its neighbour, or further where the code's   *)
(* guard allows it, and all of them at once.                               *)
Moves(ri, rr, ro, wo, wr, c, w, ri2, rr2, ro2, wo2, wr2, c2, w2) ==
  /\ ri2 \in {ri, rr}
  /\ rr2 \in {rr, ro}
  /\ ro2 \in {ro, Inc(ro)} /\ (ro2 # ro => ro # wo)
  /\ wo2 \in {wo, wr}
  /\ wr2 \in {wr, c}
  /\ \/ c2 = c /\ w2 \in {c, w}
     \/ Dist(ri, w) # Depth /\ c2 \in {c, Inc(w)} /\ w2 = Inc(w)

LEMMA OrderedStep ==
  ASSUME NEW ri, NEW rr, NEW ro, NEW wo, NEW wr, NEW c, NEW w,
         NEW ri2, NEW rr2, NEW ro2, NEW wo2, NEW wr2, NEW c2, NEW w2,
         {ri, rr, ro, wo, wr, c, w} \subseteq Ptr,
         Ordered(ri, rr, ro, wo, wr, c, w),
         Moves(ri, rr, ro, wo, wr, c, w, ri2, rr2, ro2, wo2, wr2, c2, w2)
  PROVE  Ordered(ri2, rr2, ro2, wo2, wr2, c2, w2)
<1>. USE DEF Moves
<1>. DEFINE From(p) == Dist(ri, p)
<1>1. /\ Inc(ro) \in Ptr /\ Inc(w) \in Ptr
      /\ {ri2, rr2, ro2, wo2, wr2, c2, w2} \subseteq Ptr
  BY IncType
<1>2. \A p \in Ptr : From(p) \in 0 .. 2 * Depth - 1
  BY DistType
<1>3. /\ From(ri) = 0
      /\ From(rr) <= From(ro)
      /\ From(ro) <= From(wo)
      /\ From(wo) <= From(wr)
      /\ From(wr) <= From(c)
      /\ From(c) <= From(w)
      /\ From(w) <= Depth
  BY DistSelf DEF Ordered
<1>4. ro2 # ro => From(ro2) = From(ro) + 1 /\ From(ro) < From(wo)
  <2>. SUFFICES ASSUME ro2 # ro
                PROVE  From(ro2) = From(ro) + 1 /\ From(ro) < From(wo)
    OBVIOUS
  <2>1. From(ro) # From(wo)
    <3>. SUFFICES ASSUME From(ro) = From(wo)
                  PROVE  FALSE
      OBVIOUS
    <3>1. Dist(ro, wo) = 0
      BY Rebase, <1>2
    <3>. QED
      BY <3>1, DistZero
  <2>2. From(ro) < From(wo)
    BY <2>1, <1>2, <1>3
  <2>3. From(ro) < 2 * Depth - 1
    BY <2>2, <1>2
  <2>. QED
    BY <2>2, <2>3, DistInc
<1>5. \/ c2 = c /\ w2 \in {c, w}
      \/ /\ From(Inc(w)) = From(w) + 1 /\ From(w) < Depth
         /\ c2 \in {c, Inc(w)} /\ w2 = Inc(w)
  <2>1. CASE Dist(ri, w) # Depth /\ c2 \in {c, Inc(w)} /\ w2 = Inc(w)
    <3>1. From(w) < Depth
      BY <2>1, <1>2, <1>3
    <3>2. From(w) < 2 * Depth - 1
      BY <3>1, <1>2
    <3>. QED
      BY <2>1, <3>1, <3>2, DistInc
  <2>. QED
    BY <2>1
<1>6. /\ From(ri2) <= From(rr2)
      /\ From(rr2) <= From(ro2)
      /\ From(ro2) <= From(wo2)
      /\ From(wo2) <= From(wr2)
      /\ From(wr2) <= From(c2)
      /\ From(c2) <= From(w2)
      /\ From(w2) <= Depth
  <2>. HIDE DEF From
  <2>1. From(ri2) \in {0, From(rr)} /\ From(rr2) \in {From(rr), From(ro)}
    BY <1>3
  <2>2. \/ From(ro2) = From(ro)
        \/ From(ro2) = From(ro) + 1 /\ From(ro) < From(wo)
    BY <1>4
  <2>3. From(wo2) \in {From(wo), From(wr)} /\ From(wr2) \in {From(wr), From(c)}
    OBVIOUS
  <2>4. \/ From(c2) = From(c) /\ From(w2) \in {From(c), From(w)}
        \/ /\ From(w2) = From(w) + 1 /\ From(w) < Depth
           /\ From(c2) \in {From(c), From(w) + 1}
    BY <1>5
  <2>5. {From(rr), From(ro), From(wo), From(wr), From(c), From(w)} \subseteq Nat
    BY <1>2
  <2>. QED
    BY <1>3, <2>1, <2>2, <2>3, <2>4, <2>5
<1>7. \A p \in {ri2, rr2, ro2, wo2, wr2, c2, w2} :
        Dist(ri2, p) = From(p) - From(ri2)
  <2>1. \A p \in {ri2, rr2, ro2, wo2, wr2, c2, w2} :
          From(ri2) <= From(p) /\ From(p) \in Nat
    <3>. HIDE DEF From
    <3>1. \A p \in {ri2, rr2, ro2, wo2, wr2, c2, w2} : From(p) \in Nat
      BY <1>1, <1>2
    <3>. QED
      BY <1>6, <3>1
  <2>. QED
    BY <1>1, <2>1, Rebase
<1>8. \A p \in {ri2, rr2, ro2, wo2, wr2, c2, w2} : From(p) \in Nat
  BY <1>1, <1>2
<1>. QED
  <2>. HIDE DEF From
  <2>. QED
    BY <1>6, <1>7, <1>8 DEF Ordered
-----------------------------------------------------------------------------
(* The reset on its way through a crossing c from the clock in to the      *)
(* clock out.  The front of c waits for out until the word is shown, then  *)
(* for in until the next word is accepted; Todo counts the moves that the  *)
(* front has before it until a zero is shown, if the input stays zero.     *)
(* Each round of the reset moves it on.                                    *)
Shown(c, k) == k >= SYNC_STAGES + 2 => c.o = c.i_reg

Waits(k, in, out) == IF k <= SYNC_STAGES + 1 THEN out ELSE in

Todo(c, k) ==
  IF c.i_reg # 0 THEN (RingEnd + 1 - k) + 1 + (SYNC_STAGES + 1)
  ELSE IF c.o # 0 THEN SYNC_STAGES + 2 - k ELSE 0

Crosses(c, in, out, down, h, s) ==
  \E k : /\ HandshakeAt(c, k)
         /\ Shown(c, k)
         /\ down /\ (h > 0 \/ in \in s) =>
              Todo(c, k) + h + (IF Waits(k, in, out) \in s THEN 1 ELSE 0)
                <= ResetRounds

ResetInv ==
  /\ held = ResetRounds => seen = {}
  /\ ~sresetn /\ (held > 0 \/ "i" \in seen) =>
       wrptr_iclk = 0 /\ committed_wrptr_iclk = 0
  /\ ~sresetn /\ (held > 0 \/ "o" \in seen) => rdptr_oclk = 0
  /\ Crosses(wrptr_i_to_o, "i", "o", ~sresetn, held, seen)
  /\ Crosses(rdptr_o_to_i, "o", "i", ~sresetn, held, seen)

CrossingsInv == OneToggle(wrptr_i_to_o) /\ OneToggle(rdptr_o_to_i)

IInv == TypeOK /\ CrossingsInv /\ ResetInv /\ PointerOrder
-----------------------------------------------------------------------------
(* A crossing after an edge of the clocks clks, with v at its input.       *)
AfterEdge(c, valid, v, clks, in, out, n) ==
  \/ clks = {in} /\ n = InputEdgeAlone(c, valid, v)
  \/ clks = {out} /\ n = OutputEdgeAlone(c)
  \/ clks = {in, out} /\ n \in CoincidingEdges(c, valid, v, Ptr)

(* An edge that the front waits for moves it on, any other leaves it.      *)
LEMMA FrontMoves ==
  ASSUME NEW c \in VectorType(Ptr), NEW k, HandshakeAt(c, k), Shown(c, k),
         NEW valid \in BOOLEAN, NEW v \in Ptr, c.i_tready => Accepts(c, valid),
         NEW n, NEW in, NEW out, in # out, NEW clks,
         AfterEdge(c, valid, v, clks, in, out, n)
  PROVE  \E k2 : /\ HandshakeAt(n, k2)
                 /\ Shown(n, k2)
                 /\ v = 0 => IF Waits(k, in, out) \in clks
                             THEN Todo(n, k2) = 0 \/ Todo(n, k2) < Todo(c, k)
                             ELSE k2 = k /\ Todo(n, k2) = Todo(c, k)
<1>. USE SyncStagesAssumption DEF SyncStagesAssumption
<1>1. /\ k \in 1 .. RingEnd + 1
      /\ Accepts(c, valid) <=> (k = RingEnd + 1)
      /\ Opulse(c.ackogen) <=> (k = SYNC_STAGES + 1)
  BY HandshakeSignals DEF HandshakeAt, Accepts
<1>2. c.i_reg \in Nat /\ c.o \in Nat
  BY DEF VectorType, Ptr
<1>3. CASE clks = {in} /\ n = InputEdgeAlone(c, valid, v)
  <2>. DEFINE k2 == IF Accepts(c, valid) THEN 1
                    ELSE IF k \in SYNC_STAGES + 2 .. RingEnd THEN k + 1 ELSE k
  <2>1. HandshakeAt(n, k2)
    BY <1>3, InputEdgeHandshake
  <2>2. /\ n.i_reg = IF k = RingEnd + 1 THEN v ELSE c.i_reg
        /\ n.o = c.o
    <3>1. /\ n.i_reg = IF Accepts(c, valid) THEN v ELSE c.i_reg
          /\ n.o = c.o
      BY ONLY <1>3, InputEdgeFields, c \in VectorType(Ptr) DEF InputEdgeAlone
    <3>. QED
      BY <1>1, <3>1, Zenon
  <2>3. k2 = IF k = RingEnd + 1 THEN 1
             ELSE IF k >= SYNC_STAGES + 2 THEN k + 1 ELSE k
    <3>1. k2 = IF k = RingEnd + 1 THEN 1
               ELSE IF k \in SYNC_STAGES + 2 .. RingEnd THEN k + 1 ELSE k
      BY <1>1, Zenon
    <3>. HIDE DEF k2
    <3>. QED
      BY <1>1, <3>1 DEF RingEnd
  <2>. HIDE DEF k2
  <2>4. Shown(n, k2)
    BY <1>1, <2>2, <2>3 DEF Shown, RingEnd
  <2>5. Waits(k, in, out) \in clks <=> k >= SYNC_STAGES + 2
    BY <1>1, <1>3 DEF Waits, RingEnd
  <2>6. v = 0 => IF k >= SYNC_STAGES + 2
                 THEN Todo(n, k2) = 0 \/ Todo(n, k2) < Todo(c, k)
                 ELSE k2 = k /\ Todo(n, k2) = Todo(c, k)
    BY <1>1, <1>2, <2>2, <2>3 DEF Todo, Shown, RingEnd
  <2>. QED
    BY <2>1, <2>4, <2>5, <2>6
<1>4. CASE clks = {out} /\ n = OutputEdgeAlone(c)
  <2>. DEFINE k2 == IF k <= SYNC_STAGES + 1 THEN k + 1 ELSE k
  <2>1. HandshakeAt(n, k2)
    BY <1>4, OutputEdgeHandshake
  <2>2. /\ n.i_reg = c.i_reg
        /\ n.o = IF k = SYNC_STAGES + 1 THEN c.i_reg ELSE c.o
    BY <1>1, <1>4, OutputEdgeFields DEF OutputEdgeAlone
  <2>3. k2 = IF k <= SYNC_STAGES + 1 THEN k + 1 ELSE k
    OBVIOUS
  <2>. HIDE DEF k2
  <2>4. Shown(n, k2)
    BY <1>1, <2>2, <2>3 DEF Shown, RingEnd
  <2>5. Waits(k, in, out) \in clks <=> k <= SYNC_STAGES + 1
    BY <1>1, <1>4 DEF Waits, RingEnd
  <2>6. IF k <= SYNC_STAGES + 1
        THEN Todo(n, k2) = 0 \/ Todo(n, k2) < Todo(c, k)
        ELSE k2 = k /\ Todo(n, k2) = Todo(c, k)
    BY <1>1, <1>2, <2>2, <2>3 DEF Todo, Shown, RingEnd
  <2>. QED
    BY <2>1, <2>4, <2>5, <2>6
<1>5. CASE clks = {in, out} /\ n \in CoincidingEdges(c, valid, v, Ptr)
  <2>1. PICK k2 \in 1 .. RingEnd + 1 :
          /\ HandshakeAt(n, k2)
          /\ IF Accepts(c, valid) THEN k2 \in {1, 2}
             ELSE IF k = RingEnd + 1 THEN k2 = k
             ELSE \/ k2 = k + 1
                  \/ k = SYNC_STAGES + 1 /\ k2 = k + 2
    BY ONLY <1>5, CoincidingEdgesHandshake, HandshakeAt(c, k), c \in VectorType(Ptr),
       valid \in BOOLEAN, v \in Ptr
  <2>2. /\ n.i_reg = IF k = RingEnd + 1 THEN v ELSE c.i_reg
        /\ n.o = IF k = SYNC_STAGES + 1 THEN c.i_reg ELSE c.o
    <3>1. /\ n.i_reg = IF Accepts(c, valid) THEN v ELSE c.i_reg
          /\ n.o = IF Opulse(c.ackogen) THEN c.i_reg ELSE c.o
      BY ONLY <1>5, CoincidingEdgesHandshake, HandshakeAt(c, k),
         c \in VectorType(Ptr), valid \in BOOLEAN, v \in Ptr
    <3>. QED
      BY <1>1, <3>1, Zenon
  <2>3. IF k = RingEnd + 1 THEN k2 \in {1, 2}
        ELSE k2 = k + 1 \/ (k = SYNC_STAGES + 1 /\ k2 = k + 2)
    BY <1>1, <2>1, Zenon
  <2>4. Shown(n, k2)
    BY <1>1, <2>2, <2>3 DEF Shown, RingEnd
  <2>5. Waits(k, in, out) \in clks
    BY <1>5 DEF Waits
  <2>6. v = 0 => Todo(n, k2) = 0 \/ Todo(n, k2) < Todo(c, k)
    BY <1>1, <1>2, <2>2, <2>3 DEF Todo, Shown, RingEnd
  <2>. QED
    BY <2>1, <2>4, <2>5, <2>6
<1>. QED
  BY <1>3, <1>4, <1>5 DEF AfterEdge

(* A crossing at an edge of the clocks clks, whose input v is zero if the  *)
(* reset has already had an edge of in.                                    *)
LEMMA CrossesStep ==
  ASSUME NEW c \in VectorType(Ptr), NEW valid \in BOOLEAN, NEW v \in Ptr,
         c.i_tready => Accepts(c, valid), NEW n, NEW clks,
         NEW in \in {"i", "o"}, NEW out \in {"i", "o"}, in # out,
         AfterEdge(c, valid, v, clks, in, out, n),
         Crosses(c, in, out, ~sresetn, held, seen),
         ~sresetn /\ (held > 0 \/ in \in seen) => v = 0,
         Rounds(clks), sresetn' = sresetn,
         held \in 0 .. ResetRounds, seen \in {{}, {"i"}, {"o"}},
         held = ResetRounds => seen = {}
  PROVE  Crosses(n, in, out, ~sresetn', held', seen')
<1>. USE SyncStagesAssumption DEF SyncStagesAssumption, ResetRounds
<1>1. PICK k : /\ HandshakeAt(c, k)
               /\ Shown(c, k)
               /\ ~sresetn /\ (held > 0 \/ in \in seen) =>
                    Todo(c, k) + held + (IF Waits(k, in, out) \in seen THEN 1 ELSE 0)
                      <= ResetRounds
  BY DEF Crosses
<1>2. PICK k2 : /\ HandshakeAt(n, k2)
                /\ Shown(n, k2)
                /\ v = 0 => IF Waits(k, in, out) \in clks
                            THEN Todo(n, k2) = 0 \/ Todo(n, k2) < Todo(c, k)
                            ELSE k2 = k /\ Todo(n, k2) = Todo(c, k)
  <2>1. /\ c \in VectorType(Ptr) /\ HandshakeAt(c, k) /\ Shown(c, k)
        /\ valid \in BOOLEAN /\ v \in Ptr /\ (c.i_tready => Accepts(c, valid))
        /\ in # out /\ AfterEdge(c, valid, v, clks, in, out, n)
    BY <1>1
  <2>2. \E k2 : /\ HandshakeAt(n, k2)
                /\ Shown(n, k2)
                /\ v = 0 => IF Waits(k, in, out) \in clks
                            THEN Todo(n, k2) = 0 \/ Todo(n, k2) < Todo(c, k)
                            ELSE k2 = k /\ Todo(n, k2) = Todo(c, k)
    BY ONLY <2>1, FrontMoves
  <2>. QED
    BY <2>2
<1>3. n \in VectorType(Ptr)
  <2>1. OneToggle(c)
    BY <1>1 DEF OneToggle, HandshakeAt
  <2>. QED
    BY <2>1, ChannelStep DEF AfterEdge
<1>4. /\ k \in 1 .. RingEnd + 1 /\ k2 \in 1 .. RingEnd + 1
      /\ c.i_reg \in Nat /\ c.o \in Nat /\ n.i_reg \in Nat /\ n.o \in Nat
  BY <1>1, <1>2, <1>3 DEF HandshakeAt, VectorType, Ptr
<1>5. /\ Todo(c, k) \in Nat
      /\ Todo(n, k2) \in 0 .. 3 * SYNC_STAGES + 4
  BY <1>1, <1>2, <1>4 DEF Todo, Shown, RingEnd
<1>6. /\ Waits(k, in, out) \in {"i", "o"} /\ Waits(k2, in, out) \in {"i", "o"}
      /\ clks \in {{"i"}, {"o"}, {"i", "o"}}
  BY DEF Waits, AfterEdge
<1>7. ~sresetn' /\ (held' > 0 \/ in \in seen') =>
        Todo(n, k2) + held' + (IF Waits(k2, in, out) \in seen' THEN 1 ELSE 0)
          <= ResetRounds
  <2>. DEFINE w == Waits(k, in, out)  w2 == Waits(k2, in, out)
              t == Todo(c, k)  t2 == Todo(n, k2)
  <2>0. /\ w \in {"i", "o"} /\ w2 \in {"i", "o"} /\ t \in Nat
        /\ t2 \in 0 .. 3 * SYNC_STAGES + 4
    BY <1>5, <1>6
  <2>01. ~sresetn /\ (held > 0 \/ in \in seen) =>
           t + held + (IF w \in seen THEN 1 ELSE 0) <= ResetRounds
    BY <1>1
  <2>02. v = 0 => IF w \in clks THEN t2 = 0 \/ t2 < t ELSE w2 = w /\ t2 = t
    BY <1>2
  <2>. HIDE DEF w, w2, t, t2
  <2>. SUFFICES ASSUME ~sresetn, held' > 0 \/ in \in seen'
                PROVE  t2 + held' + (IF w2 \in seen' THEN 1 ELSE 0) <= ResetRounds
    BY DEF w2, t2
  <2>1. \/ held = ResetRounds /\ held' = held /\ seen' = {}
        \/ held < ResetRounds /\ seen \cup clks = {"i", "o"} /\ held' = held + 1 /\ seen' = {}
        \/ /\ held < ResetRounds /\ seen \cup clks # {"i", "o"}
           /\ held' = held /\ seen' = seen \cup clks
    BY DEF Rounds
  <2>2. CASE held > 0 \/ in \in seen
    <3>1. v = 0 /\ t + held + (IF w \in seen THEN 1 ELSE 0) <= ResetRounds
      BY <2>2, <2>01
    <3>2. CASE held = ResetRounds /\ held' = held /\ seen' = {}
      BY <2>0, <2>02, <3>1, <3>2
    <3>3. CASE held < ResetRounds /\ seen \cup clks = {"i", "o"}
               /\ held' = held + 1 /\ seen' = {}
      <4>1. CASE w \in clks
        BY <2>0, <2>02, <3>1, <3>3, <4>1
      <4>2. CASE w \notin clks
        <5>1. w \in seen
          BY <2>0, <3>3, <4>2
        <5>. QED
          BY <2>0, <2>02, <3>1, <3>3, <4>2, <5>1
      <4>. QED
        BY <4>1, <4>2
    <3>4. CASE /\ held < ResetRounds /\ seen \cup clks # {"i", "o"}
               /\ held' = held /\ seen' = seen \cup clks
      <4>1. CASE w \in clks
        BY <2>0, <2>02, <3>1, <3>4, <4>1
      <4>2. CASE w \notin clks
        BY <2>0, <2>02, <3>1, <3>4, <4>2
      <4>. QED
        BY <4>1, <4>2
    <3>. QED
      BY <2>1, <3>2, <3>3, <3>4
  <2>3. CASE ~ (held > 0 \/ in \in seen)
    BY <2>0, <2>1, <2>3
  <2>. QED
    BY <2>2, <2>3
<1>. QED
  BY <1>2, <1>7 DEF Crosses

(* A reset that is over has crossed.                                       *)
LEMMA OverIsCrossed ==
  ASSUME TypeOK, ResetInv
  PROVE  ResetCrosses
<1>. SUFFICES ASSUME ~sresetn, held = ResetRounds
              PROVE  ResetCrossed
  BY DEF ResetCrosses
<1>. USE SyncStagesAssumption DEF SyncStagesAssumption
<1>1. held > 0 /\ ResetRounds \in Nat
  BY DEF ResetRounds
<1>2. wrptr_iclk = 0 /\ committed_wrptr_iclk = 0 /\ rdptr_oclk = 0
  BY <1>1 DEF ResetInv
<1>3. ASSUME NEW c \in VectorType(Ptr), NEW in, NEW out,
             Crosses(c, in, out, ~sresetn, held, seen)
      PROVE  c.i_reg = 0 /\ c.o = 0
  <2>1. PICK k : /\ HandshakeAt(c, k)
                 /\ Shown(c, k)
                 /\ Todo(c, k) + held + (IF Waits(k, in, out) \in seen THEN 1 ELSE 0)
                      <= ResetRounds
    BY <1>1, <1>3 DEF Crosses
  <2>2. k \in 1 .. RingEnd + 1 /\ c.i_reg \in Nat /\ c.o \in Nat
    BY <2>1 DEF HandshakeAt, VectorType, Ptr
  <2>3. Todo(c, k) <= 0
    BY <1>1, <2>1, <2>2 DEF Todo, RingEnd
  <2>. QED
    BY <2>1, <2>2, <2>3 DEF Todo, Shown, RingEnd
<1>4. /\ wrptr_i_to_o.i_reg = 0 /\ wrptr_i_to_o.o = 0
      /\ rdptr_o_to_i.i_reg = 0 /\ rdptr_o_to_i.o = 0
  BY <1>3 DEF ResetInv, TypeOK
<1>. QED
  BY <1>2, <1>4 DEF ResetCrossed

LEMMA PointerOrderIsOrdered ==
  PointerOrder <=>
    (sresetn => Ordered(rdptr_iclk, rdptr_o_to_i.i_reg, rdptr_oclk, wrptr_oclk,
                        wrptr_i_to_o.i_reg, committed_wrptr_iclk, wrptr_iclk))
BY DEF PointerOrder, Ordered

LEMMA Types ==
  ASSUME TypeOK
  PROVE  /\ {rdptr_iclk, rdptr_o_to_i.i_reg, rdptr_oclk, wrptr_oclk,
             wrptr_i_to_o.i_reg, committed_wrptr_iclk, wrptr_iclk} \subseteq Ptr
         /\ ram \in [Slot -> Word]
BY DEF TypeOK, VectorType, rdptr_iclk, wrptr_oclk

(* Power-up and the release of the reset: all pointers are zero.           *)
LEMMA ZerosOrdered ==
  ASSUME ResetCrossed
  PROVE  Ordered(rdptr_iclk, rdptr_o_to_i.i_reg, rdptr_oclk, wrptr_oclk,
                 wrptr_i_to_o.i_reg, committed_wrptr_iclk, wrptr_iclk)
<1>1. 0 \in Ptr
  BY DEF Ptr
<1>. QED
  BY <1>1, DistSelf DEF ResetCrossed, Ordered, rdptr_iclk, wrptr_oclk

LEMMA InitIInv == Init => IInv
<1>. SUFFICES ASSUME Init
              PROVE  IInv
  OBVIOUS
<1>1. 0 \in Ptr
  BY DEF Ptr
<1>2. /\ wrptr_i_to_o \in VectorType(Ptr) /\ OneToggle(wrptr_i_to_o)
      /\ rdptr_o_to_i \in VectorType(Ptr) /\ OneToggle(rdptr_o_to_i)
  BY <1>1, PowerUp DEF Init
<1>3. TypeOK
  <2>1. ResetRounds \in Nat
    BY SyncStagesAssumption DEF SyncStagesAssumption, ResetRounds
  <2>2. held \in 0 .. ResetRounds /\ seen \in {{}, {"i"}, {"o"}}
    BY <2>1 DEF Init
  <2>. QED
    BY <1>1, <1>2, <2>2 DEF Init, TypeOK, Bit
<1>4. ASSUME NEW c, c = VectorPowerUp(0, 0), NEW in, NEW out
      PROVE  Crosses(c, in, out, ~sresetn, held, seen)
  <2>1. OneToggle(c) /\ c.i_reg = 0 /\ c.o = 0
    BY <1>1, <1>4, PowerUp
  <2>2. PICK k : HandshakeAt(c, k)
    BY <2>1 DEF OneToggle
  <2>3. Shown(c, k) /\ Todo(c, k) = 0
    BY <2>1 DEF Shown, Todo
  <2>4. Todo(c, k) + held + (IF Waits(k, in, out) \in seen THEN 1 ELSE 0) <= ResetRounds
    BY <2>3, SyncStagesAssumption DEF Init, SyncStagesAssumption, ResetRounds
  <2>. QED
    BY <2>2, <2>3, <2>4 DEF Crosses
<1>5. ResetInv
  BY <1>4 DEF Init, ResetInv
<1>. QED
  BY <1>2, <1>3, <1>5 DEF Init, IInv, CrossingsInv, PointerOrder

(* What each side does to its pointers, and to the RAM.                    *)
WritePointersMove ==
  \/ committed_wrptr_iclk' = committed_wrptr_iclk
     /\ wrptr_iclk' \in {committed_wrptr_iclk, wrptr_iclk}
  \/ /\ axis_i_tready
     /\ committed_wrptr_iclk' \in {committed_wrptr_iclk, Inc(wrptr_iclk)}
     /\ wrptr_iclk' = Inc(wrptr_iclk)

LEMMA WriteSideMoves ==
  ASSUME TypeOK, NEW beat \in Beat \cup {NoWord}, WriteSide(beat)
  PROVE  /\ wrptr_iclk' \in Ptr /\ committed_wrptr_iclk' \in Ptr
         /\ ram' \in [Slot -> Word]
         /\ sresetn => WritePointersMove
         /\ \A s \in Slot : ~ axis_i_tready \/ s # Addr(wrptr_iclk) => ram'[s] = ram[s]
<1>. DEFINE accepted == axis_i_tready /\ beat \in Beat
<1>1. /\ MovePointers(accepted, beat)
      /\ ram' = IF accepted THEN [ram EXCEPT ![Addr(wrptr_iclk)] = beat.word] ELSE ram
  BY DEF WriteSide
<1>2. /\ wrptr_iclk \in Ptr /\ committed_wrptr_iclk \in Ptr
      /\ Inc(wrptr_iclk) \in Ptr /\ 0 \in Ptr
      /\ Addr(wrptr_iclk) \in Slot
      /\ ram \in [Slot -> Word]
  BY Types, IncType, AddrType DEF Ptr
<1>3. wrptr_iclk' \in Ptr /\ committed_wrptr_iclk' \in Ptr
  BY <1>1, <1>2 DEF MovePointers
<1>4. sresetn => WritePointersMove
  BY <1>1 DEF MovePointers, WritePointersMove
<1>5. ram' \in [Slot -> Word]
  <2>1. beat \in Beat => beat.word \in Word
    BY DEF Beat
  <2>. QED
    BY <1>1, <1>2, <2>1
<1>6. \A s \in Slot : ~ axis_i_tready \/ s # Addr(wrptr_iclk) => ram'[s] = ram[s]
  BY <1>1, <1>2
<1>. QED
  BY <1>3, <1>4, <1>5, <1>6

LEMMA ReadSideMoves ==
  ASSUME TypeOK, NEW ready \in BOOLEAN, NEW dob \in Word, ReadSide(ready, dob)
  PROVE  /\ rdptr_oclk' \in Ptr
         /\ axis_o_tvalid' \in BOOLEAN
         /\ axis_o' \in Word
         /\ taken' \in Bit
         /\ sresetn => /\ rdptr_oclk' \in {rdptr_oclk, Inc(rdptr_oclk)}
                       /\ rdptr_oclk' # rdptr_oclk => rdptr_oclk # wrptr_oclk
<1>1. /\ rdptr_oclk \in Ptr /\ Inc(rdptr_oclk) \in Ptr /\ 0 \in Ptr
      /\ axis_o_tvalid \in BOOLEAN /\ axis_o \in Word /\ taken \in Bit
  BY IncType DEF TypeOK, Ptr
<1>2. rdptr_oclk' \in Ptr
  BY <1>1 DEF ReadSide
<1>3. axis_o_tvalid' \in BOOLEAN /\ axis_o' \in Word
  BY <1>1 DEF ReadSide
<1>4. taken' \in Bit
  BY <1>1 DEF ReadSide, Bit
<1>5. sresetn => /\ rdptr_oclk' \in {rdptr_oclk, Inc(rdptr_oclk)}
                 /\ rdptr_oclk' # rdptr_oclk => rdptr_oclk # wrptr_oclk
  BY DEF ReadSide, read_from_ram
<1>. QED
  BY <1>2, <1>3, <1>4, <1>5

LEMMA ChannelsMove ==
  ASSUME TypeOK, CrossingsInv,
         \/ wrptr_i_to_o' = InputEdgeAlone(wrptr_i_to_o, TRUE, committed_wrptr_iclk)
         \/ wrptr_i_to_o' = OutputEdgeAlone(wrptr_i_to_o)
         \/ wrptr_i_to_o' \in CoincidingEdges(wrptr_i_to_o, TRUE, committed_wrptr_iclk, Ptr),
         \/ rdptr_o_to_i' = InputEdgeAlone(rdptr_o_to_i, TRUE, rdptr_oclk)
         \/ rdptr_o_to_i' = OutputEdgeAlone(rdptr_o_to_i)
         \/ rdptr_o_to_i' \in CoincidingEdges(rdptr_o_to_i, TRUE, rdptr_oclk, Ptr)
  PROVE  /\ wrptr_i_to_o' \in VectorType(Ptr)
         /\ rdptr_o_to_i' \in VectorType(Ptr)
         /\ CrossingsInv'
         /\ wrptr_oclk' \in {wrptr_oclk, wrptr_i_to_o.i_reg}
         /\ wrptr_i_to_o.i_reg' \in {wrptr_i_to_o.i_reg, committed_wrptr_iclk}
         /\ rdptr_iclk' \in {rdptr_iclk, rdptr_o_to_i.i_reg}
         /\ rdptr_o_to_i.i_reg' \in {rdptr_o_to_i.i_reg, rdptr_oclk}
<1>1. /\ committed_wrptr_iclk \in Ptr /\ rdptr_oclk \in Ptr
      /\ wrptr_i_to_o \in VectorType(Ptr) /\ OneToggle(wrptr_i_to_o)
      /\ rdptr_o_to_i \in VectorType(Ptr) /\ OneToggle(rdptr_o_to_i)
  BY DEF TypeOK, CrossingsInv
<1>2. /\ wrptr_i_to_o' \in VectorType(Ptr)
      /\ OneToggle(wrptr_i_to_o')
      /\ wrptr_i_to_o'.o \in {wrptr_i_to_o.o, wrptr_i_to_o.i_reg}
      /\ wrptr_i_to_o'.i_reg \in {wrptr_i_to_o.i_reg, committed_wrptr_iclk}
  BY <1>1, ChannelStep
<1>3. /\ rdptr_o_to_i' \in VectorType(Ptr)
      /\ OneToggle(rdptr_o_to_i')
      /\ rdptr_o_to_i'.o \in {rdptr_o_to_i.o, rdptr_o_to_i.i_reg}
      /\ rdptr_o_to_i'.i_reg \in {rdptr_o_to_i.i_reg, rdptr_oclk}
  BY <1>1, ChannelStep
<1>. QED
  BY <1>2, <1>3 DEF CrossingsInv, wrptr_oclk, rdptr_iclk

(* The rounds of the reset, and what an edge does to the reset's progress. *)
LEMMA RoundsMove ==
  ASSUME TypeOK, NEW clks \in {{"i"}, {"o"}, {"i", "o"}}, Rounds(clks)
  PROVE  /\ held' \in 0 .. ResetRounds
         /\ seen' \in {{}, {"i"}, {"o"}}
         /\ (held = ResetRounds => seen = {}) => (held' = ResetRounds => seen' = {})
         /\ \A x \in {"i", "o"} :
              ~sresetn /\ (held' > 0 \/ x \in seen')
                => held > 0 \/ x \in seen \/ x \in clks
<1>1. /\ ResetRounds \in Nat
      /\ held \in 0 .. ResetRounds
      /\ seen \in {{}, {"i"}, {"o"}}
  BY SyncStagesAssumption DEF SyncStagesAssumption, ResetRounds, TypeOK
<1>2. CASE held' = held /\ seen' = seen
  BY <1>1, <1>2
<1>3. CASE /\ held < ResetRounds /\ seen \cup clks = {"i", "o"}
           /\ held' = held + 1 /\ seen' = {}
  BY <1>1, <1>3
<1>4. CASE /\ held < ResetRounds /\ seen \cup clks # {"i", "o"}
           /\ seen' = seen \cup clks /\ held' = held
  BY <1>1, <1>4
<1>. QED
  BY <1>2, <1>3, <1>4 DEF Rounds

LEMMA ResetStep ==
  ASSUME TypeOK, ResetInv, sresetn' = sresetn,
         NEW clks \in {{"i"}, {"o"}, {"i", "o"}}, Rounds(clks),
         AfterEdge(wrptr_i_to_o, TRUE, committed_wrptr_iclk, clks, "i", "o", wrptr_i_to_o'),
         AfterEdge(rdptr_o_to_i, TRUE, rdptr_oclk, clks, "o", "i", rdptr_o_to_i'),
         ~sresetn /\ "i" \in clks => wrptr_iclk' = 0 /\ committed_wrptr_iclk' = 0,
         ~sresetn /\ "o" \in clks => rdptr_oclk' = 0,
         "i" \notin clks => UNCHANGED <<wrptr_iclk, committed_wrptr_iclk>>,
         "o" \notin clks => rdptr_oclk' = rdptr_oclk
  PROVE  ResetInv'
<1>1. /\ held' = ResetRounds => seen' = {}
      /\ \A x \in {"i", "o"} :
           ~sresetn /\ (held' > 0 \/ x \in seen')
             => held > 0 \/ x \in seen \/ x \in clks
  BY RoundsMove DEF ResetInv
<1>2. ~sresetn' /\ (held' > 0 \/ "i" \in seen')
        => wrptr_iclk' = 0 /\ committed_wrptr_iclk' = 0
  <2>. SUFFICES ASSUME ~sresetn, held' > 0 \/ "i" \in seen'
                PROVE  wrptr_iclk' = 0 /\ committed_wrptr_iclk' = 0
    OBVIOUS
  <2>1. CASE "i" \in clks
    BY <2>1
  <2>2. CASE "i" \notin clks
    BY <1>1, <2>2 DEF ResetInv
  <2>. QED
    BY <2>1, <2>2
<1>3. ~sresetn' /\ (held' > 0 \/ "o" \in seen') => rdptr_oclk' = 0
  <2>. SUFFICES ASSUME ~sresetn, held' > 0 \/ "o" \in seen'
                PROVE  rdptr_oclk' = 0
    OBVIOUS
  <2>1. CASE "o" \in clks
    BY <2>1
  <2>2. CASE "o" \notin clks
    BY <1>1, <2>2 DEF ResetInv
  <2>. QED
    BY <2>1, <2>2
<1>4. /\ wrptr_i_to_o \in VectorType(Ptr) /\ committed_wrptr_iclk \in Ptr
      /\ rdptr_o_to_i \in VectorType(Ptr) /\ rdptr_oclk \in Ptr
      /\ held \in 0 .. ResetRounds /\ seen \in {{}, {"i"}, {"o"}}
      /\ held = ResetRounds => seen = {}
  BY DEF TypeOK, ResetInv
<1>5. \A c : c.i_tready => Accepts(c, TRUE)
  BY DEF Accepts
<1>6. Crosses(wrptr_i_to_o', "i", "o", ~sresetn', held', seen')
  <2>1. ~sresetn /\ (held > 0 \/ "i" \in seen) => committed_wrptr_iclk = 0
    BY DEF ResetInv
  <2>2. Crosses(wrptr_i_to_o, "i", "o", ~sresetn, held, seen)
    BY DEF ResetInv
  <2>. QED
    BY <1>4, <1>5, <2>1, <2>2, CrossesStep
<1>7. Crosses(rdptr_o_to_i', "o", "i", ~sresetn', held', seen')
  <2>1. ~sresetn /\ (held > 0 \/ "o" \in seen) => rdptr_oclk = 0
    BY DEF ResetInv
  <2>2. Crosses(rdptr_o_to_i, "o", "i", ~sresetn, held, seen)
    BY DEF ResetInv
  <2>. QED
    BY <1>4, <1>5, <2>1, <2>2, CrossesStep
<1>. QED
  BY <1>1, <1>2, <1>3, <1>6, <1>7 DEF ResetInv

(* A full FIFO in the code's sense is the only obstacle to a write.        *)
LEMMA ReadyMeansRoom ==
  ASSUME TypeOK, axis_i_tready
  PROVE  Dist(rdptr_iclk, wrptr_iclk) # Depth
<1>1. rdptr_iclk \in Ptr /\ wrptr_iclk \in Ptr
  BY Types
<1>. QED
  BY <1>1, DepthApartIsFull DEF axis_i_tready

(* From the moves of the parts to the order after an edge.                 *)
LEMMA MovesKeepOrder ==
  ASSUME TypeOK, PointerOrder, sresetn' = sresetn,
         sresetn => WritePointersMove \/ UNCHANGED <<committed_wrptr_iclk, wrptr_iclk>>,
         sresetn => /\ rdptr_oclk' \in {rdptr_oclk, Inc(rdptr_oclk)}
                    /\ rdptr_oclk' # rdptr_oclk => rdptr_oclk # wrptr_oclk,
         wrptr_oclk' \in {wrptr_oclk, wrptr_i_to_o.i_reg},
         wrptr_i_to_o.i_reg' \in {wrptr_i_to_o.i_reg, committed_wrptr_iclk},
         rdptr_iclk' \in {rdptr_iclk, rdptr_o_to_i.i_reg},
         rdptr_o_to_i.i_reg' \in {rdptr_o_to_i.i_reg, rdptr_oclk}
  PROVE  PointerOrder'
<1>. SUFFICES ASSUME sresetn
              PROVE  Ordered(rdptr_iclk', rdptr_o_to_i'.i_reg, rdptr_oclk',
                             wrptr_oclk', wrptr_i_to_o'.i_reg,
                             committed_wrptr_iclk', wrptr_iclk')
  BY DEF PointerOrder, Ordered
<1>1. Ordered(rdptr_iclk, rdptr_o_to_i.i_reg, rdptr_oclk, wrptr_oclk,
              wrptr_i_to_o.i_reg, committed_wrptr_iclk, wrptr_iclk)
  BY PointerOrderIsOrdered
<1>2. {rdptr_iclk, rdptr_o_to_i.i_reg, rdptr_oclk, wrptr_oclk,
       wrptr_i_to_o.i_reg, committed_wrptr_iclk, wrptr_iclk} \subseteq Ptr
  BY Types
<1>3. \/ /\ committed_wrptr_iclk' = committed_wrptr_iclk
         /\ wrptr_iclk' \in {committed_wrptr_iclk, wrptr_iclk}
      \/ /\ Dist(rdptr_iclk, wrptr_iclk) # Depth
         /\ committed_wrptr_iclk' \in {committed_wrptr_iclk, Inc(wrptr_iclk)}
         /\ wrptr_iclk' = Inc(wrptr_iclk)
  BY ReadyMeansRoom DEF WritePointersMove
<1>4. PICK ri2, rr2, ro2, wo2, wr2, c2, w2 :
        /\ ri2 = rdptr_iclk' /\ rr2 = rdptr_o_to_i'.i_reg
        /\ ro2 = rdptr_oclk' /\ wo2 = wrptr_oclk'
        /\ wr2 = wrptr_i_to_o'.i_reg
        /\ c2 = committed_wrptr_iclk' /\ w2 = wrptr_iclk'
  OBVIOUS
<1>5. /\ ri2 \in {rdptr_iclk, rdptr_o_to_i.i_reg}
      /\ rr2 \in {rdptr_o_to_i.i_reg, rdptr_oclk}
      /\ ro2 \in {rdptr_oclk, Inc(rdptr_oclk)}
      /\ ro2 # rdptr_oclk => rdptr_oclk # wrptr_oclk
      /\ wo2 \in {wrptr_oclk, wrptr_i_to_o.i_reg}
      /\ wr2 \in {wrptr_i_to_o.i_reg, committed_wrptr_iclk}
  BY <1>4
<1>6. \/ c2 = committed_wrptr_iclk /\ w2 \in {committed_wrptr_iclk, wrptr_iclk}
      \/ /\ Dist(rdptr_iclk, wrptr_iclk) # Depth
         /\ c2 \in {committed_wrptr_iclk, Inc(wrptr_iclk)}
         /\ w2 = Inc(wrptr_iclk)
  BY <1>3, <1>4
<1>7. Ordered(ri2, rr2, ro2, wo2, wr2, c2, w2)
  <2>. DEFINE ri == rdptr_iclk  rr == rdptr_o_to_i.i_reg  ro == rdptr_oclk
              wo == wrptr_oclk  wr == wrptr_i_to_o.i_reg
              c == committed_wrptr_iclk  w == wrptr_iclk
  <2>1. {ri, rr, ro, wo, wr, c, w} \subseteq Ptr
    BY <1>2
  <2>2. Ordered(ri, rr, ro, wo, wr, c, w)
    BY <1>1
  <2>3. /\ ri2 \in {ri, rr} /\ rr2 \in {rr, ro} /\ ro2 \in {ro, Inc(ro)}
        /\ ro2 # ro => ro # wo
        /\ wo2 \in {wo, wr} /\ wr2 \in {wr, c}
    BY <1>5
  <2>4. \/ c2 = c /\ w2 \in {c, w}
        \/ Dist(ri, w) # Depth /\ c2 \in {c, Inc(w)} /\ w2 = Inc(w)
    BY <1>6
  <2>. HIDE DEF ri, rr, ro, wo, wr, c, w
  <2>5. Moves(ri, rr, ro, wo, wr, c, w, ri2, rr2, ro2, wo2, wr2, c2, w2)
    BY <2>3, <2>4 DEF Moves
  <2>. QED
    BY <2>1, <2>2, <2>5, OrderedStep
<1>. QED
  BY <1>4, <1>7

(* What an edge can take is a beat or none, and a Boolean.                 *)
LEMMA InputTypes == Offered \subseteq Beat \cup {NoWord} /\ Readiness \subseteq BOOLEAN
BY DEF Offered, Readiness

LEMMA StepIInv == IInv /\ [Next]_vars => IInv'
<1>. SUFFICES ASSUME IInv, [Next]_vars
              PROVE  IInv'
  OBVIOUS
<1>. USE DEF IInv
<1>1. CASE IClk
  <2>1. PICK beat \in Beat \cup {NoWord} : WriteSide(beat)
    BY <1>1, InputTypes DEF IClk
  <2>2. /\ wrptr_iclk' \in Ptr /\ committed_wrptr_iclk' \in Ptr
        /\ ram' \in [Slot -> Word]
        /\ sresetn => WritePointersMove
    BY <2>1, WriteSideMoves
  <2>3. UNCHANGED <<sresetn, rdptr_oclk, axis_o_tvalid, axis_o, taken>>
    BY <1>1 DEF IClk
  <2>4. /\ wrptr_i_to_o' \in VectorType(Ptr)
        /\ rdptr_o_to_i' \in VectorType(Ptr)
        /\ CrossingsInv'
        /\ wrptr_oclk' \in {wrptr_oclk, wrptr_i_to_o.i_reg}
        /\ wrptr_i_to_o.i_reg' \in {wrptr_i_to_o.i_reg, committed_wrptr_iclk}
        /\ rdptr_iclk' \in {rdptr_iclk, rdptr_o_to_i.i_reg}
        /\ rdptr_o_to_i.i_reg' \in {rdptr_o_to_i.i_reg, rdptr_oclk}
    BY <1>1, ChannelsMove DEF IClk
  <2>5. Rounds({"i"})
    BY <1>1 DEF IClk
  <2>6. TypeOK'
    BY <2>2, <2>3, <2>4, <2>5, RoundsMove DEF TypeOK
  <2>7. ResetInv'
    <3>1. /\ AfterEdge(wrptr_i_to_o, TRUE, committed_wrptr_iclk, {"i"}, "i", "o", wrptr_i_to_o')
          /\ AfterEdge(rdptr_o_to_i, TRUE, rdptr_oclk, {"i"}, "o", "i", rdptr_o_to_i')
      BY <1>1 DEF IClk, AfterEdge
    <3>2. ~sresetn => wrptr_iclk' = 0 /\ committed_wrptr_iclk' = 0
      BY <2>1 DEF WriteSide, MovePointers
    <3>. QED
      BY <2>3, <2>5, <3>1, <3>2, ResetStep
  <2>8. PointerOrder'
    BY <2>2, <2>3, <2>4, MovesKeepOrder
  <2>. QED
    BY <2>4, <2>6, <2>7, <2>8
<1>2. ASSUME NEW ready \in BOOLEAN, OClk(ready)
      PROVE  IInv'
  <2>1. ReadSide(ready, ram[Addr(rdptr_oclk)])
    BY <1>2 DEF OClk
  <2>2. ram[Addr(rdptr_oclk)] \in Word
    BY AddrType DEF TypeOK
  <2>3. /\ rdptr_oclk' \in Ptr
        /\ axis_o_tvalid' \in BOOLEAN
        /\ axis_o' \in Word
        /\ taken' \in Bit
        /\ sresetn => /\ rdptr_oclk' \in {rdptr_oclk, Inc(rdptr_oclk)}
                      /\ rdptr_oclk' # rdptr_oclk => rdptr_oclk # wrptr_oclk
    BY <2>1, <2>2, ReadSideMoves
  <2>4. UNCHANGED <<sresetn, wrptr_iclk, committed_wrptr_iclk, ram>>
    BY <1>2 DEF OClk
  <2>5. /\ wrptr_i_to_o' \in VectorType(Ptr)
        /\ rdptr_o_to_i' \in VectorType(Ptr)
        /\ CrossingsInv'
        /\ wrptr_oclk' \in {wrptr_oclk, wrptr_i_to_o.i_reg}
        /\ wrptr_i_to_o.i_reg' \in {wrptr_i_to_o.i_reg, committed_wrptr_iclk}
        /\ rdptr_iclk' \in {rdptr_iclk, rdptr_o_to_i.i_reg}
        /\ rdptr_o_to_i.i_reg' \in {rdptr_o_to_i.i_reg, rdptr_oclk}
    BY <1>2, ChannelsMove DEF OClk
  <2>6. Rounds({"o"})
    BY <1>2 DEF OClk
  <2>7. TypeOK'
    BY <2>3, <2>4, <2>5, <2>6, RoundsMove DEF TypeOK
  <2>8. ResetInv'
    <3>1. /\ AfterEdge(wrptr_i_to_o, TRUE, committed_wrptr_iclk, {"o"}, "i", "o", wrptr_i_to_o')
          /\ AfterEdge(rdptr_o_to_i, TRUE, rdptr_oclk, {"o"}, "o", "i", rdptr_o_to_i')
      BY <1>2 DEF OClk, AfterEdge
    <3>2. ~sresetn => rdptr_oclk' = 0
      BY <2>1 DEF ReadSide
    <3>. QED
      BY <2>4, <2>6, <3>1, <3>2, ResetStep
  <2>9. PointerOrder'
    BY <2>3, <2>4, <2>5, MovesKeepOrder
  <2>. QED
    BY <2>5, <2>7, <2>8, <2>9
<1>3. ASSUME NEW ready \in BOOLEAN, BothClks(ready)
      PROVE  IInv'
  <2>1. PICK beat \in Beat \cup {NoWord} :
          /\ WriteSide(beat)
          /\ \E dob \in Collision(beat) : ReadSide(ready, dob)
    BY <1>3, InputTypes DEF BothClks
  <2>2. PICK dob \in Collision(beat) : ReadSide(ready, dob)
    BY <2>1
  <2>3. dob \in Word
    BY AddrType DEF TypeOK, Collision
  <2>4. /\ wrptr_iclk' \in Ptr /\ committed_wrptr_iclk' \in Ptr
        /\ ram' \in [Slot -> Word]
        /\ sresetn => WritePointersMove
    BY <2>1, WriteSideMoves
  <2>5. /\ rdptr_oclk' \in Ptr
        /\ axis_o_tvalid' \in BOOLEAN
        /\ axis_o' \in Word
        /\ taken' \in Bit
        /\ sresetn => /\ rdptr_oclk' \in {rdptr_oclk, Inc(rdptr_oclk)}
                      /\ rdptr_oclk' # rdptr_oclk => rdptr_oclk # wrptr_oclk
    BY <2>2, <2>3, ReadSideMoves
  <2>6. /\ wrptr_i_to_o' \in VectorType(Ptr)
        /\ rdptr_o_to_i' \in VectorType(Ptr)
        /\ CrossingsInv'
        /\ wrptr_oclk' \in {wrptr_oclk, wrptr_i_to_o.i_reg}
        /\ wrptr_i_to_o.i_reg' \in {wrptr_i_to_o.i_reg, committed_wrptr_iclk}
        /\ rdptr_iclk' \in {rdptr_iclk, rdptr_o_to_i.i_reg}
        /\ rdptr_o_to_i.i_reg' \in {rdptr_o_to_i.i_reg, rdptr_oclk}
    BY <1>3, ChannelsMove DEF BothClks
  <2>7. sresetn' = sresetn
    BY <1>3 DEF BothClks
  <2>8. Rounds({"i", "o"})
    BY <1>3 DEF BothClks
  <2>9. TypeOK'
    BY <2>4, <2>5, <2>6, <2>7, <2>8, RoundsMove DEF TypeOK
  <2>10. ResetInv'
    <3>1. /\ AfterEdge(wrptr_i_to_o, TRUE, committed_wrptr_iclk, {"i", "o"}, "i", "o",
                       wrptr_i_to_o')
          /\ AfterEdge(rdptr_o_to_i, TRUE, rdptr_oclk, {"i", "o"}, "o", "i", rdptr_o_to_i')
      BY <1>3 DEF BothClks, AfterEdge
    <3>2. /\ ~sresetn => wrptr_iclk' = 0 /\ committed_wrptr_iclk' = 0
          /\ ~sresetn => rdptr_oclk' = 0
      BY <2>1, <2>2 DEF WriteSide, MovePointers, ReadSide
    <3>. QED
      BY <2>7, <2>8, <3>1, <3>2, ResetStep
  <2>11. PointerOrder'
    BY <2>4, <2>5, <2>6, <2>7, MovesKeepOrder
  <2>. QED
    BY <2>6, <2>9, <2>10, <2>11
<1>4. CASE AssertReset
  <2>1. TypeOK' /\ CrossingsInv'
    <3>1. ResetRounds \in Nat
      BY SyncStagesAssumption DEF SyncStagesAssumption, ResetRounds
    <3>2. held' \in 0 .. ResetRounds /\ seen' \in {{}, {"i"}, {"o"}}
      BY <1>4, <3>1 DEF AssertReset
    <3>. QED
      BY <1>4, <3>2 DEF AssertReset, Registers, TypeOK, CrossingsInv, Bit
  <2>2. ResetInv'
    BY <1>4 DEF AssertReset, Registers, ResetInv, Crosses
  <2>. QED
    BY <1>4, <2>1, <2>2 DEF AssertReset, PointerOrder
<1>5. CASE ReleaseReset
  <2>1. TypeOK' /\ CrossingsInv'
    BY <1>5 DEF ReleaseReset, Registers, TypeOK, CrossingsInv
  <2>4. ResetInv'
    BY <1>5 DEF ReleaseReset, Registers, ResetInv, Crosses
  <2>2. Ordered(rdptr_iclk, rdptr_o_to_i.i_reg, rdptr_oclk, wrptr_oclk,
                wrptr_i_to_o.i_reg, committed_wrptr_iclk, wrptr_iclk)
    BY <1>5, OverIsCrossed, ZerosOrdered DEF ReleaseReset, ResetCrosses
  <2>3. PointerOrder'
    BY <1>5, <2>2
    DEF ReleaseReset, Registers, PointerOrder, Ordered, rdptr_iclk, wrptr_oclk
  <2>. QED
    BY <2>1, <2>3, <2>4
<1>6. CASE UNCHANGED vars
  <2>1. TypeOK' /\ CrossingsInv' /\ PointerOrder'
    BY <1>6
    DEF vars, TypeOK, CrossingsInv, PointerOrder, rdptr_iclk, wrptr_oclk
  <2>2. ResetInv'
    BY <1>6 DEF vars, ResetInv, Crosses
  <2>. QED
    BY <2>1, <2>2
<1>. QED
  BY <1>1, <1>2, <1>3, <1>4, <1>5, <1>6, InputTypes DEF Next

(* Every register of the FIFO and of its two channels keeps its width.     *)
THEOREM TypeCorrect == Spec => []TypeOK
<1>1. IInv => TypeOK
  BY DEF IInv
<1>. QED
  BY <1>1, InitIInv, StepIInv, PTL DEF Spec

(* A reset that has lasted ResetRounds rounds of both clocks has crossed   *)
(* both ways, whatever the crossings, which have no reset, were about to   *)
(* deliver when it came, and however the edges and samples interleave.     *)
THEOREM ResetCrossesCorrect == Spec => []ResetCrosses
<1>1. IInv => ResetCrosses
  BY OverIsCrossed DEF IInv
<1>. QED
  BY <1>1, InitIInv, StepIInv, PTL DEF Spec

(* The pointers and their stale copies never pass each other, for every    *)
(* depth and however the clocks and their samples interleave.              *)
THEOREM PointerOrderCorrect == Spec => []PointerOrder
<1>1. IInv => PointerOrder
  BY DEF IInv
<1>. QED
  BY <1>1, InitIInv, StepIInv, PTL DEF Spec

(* What the order says about the pointers themselves, measured from the    *)
(* read pointer.                                                           *)
LEMMA FromReadPointer ==
  ASSUME IInv, sresetn
  PROVE  /\ Dist(rdptr_oclk, wrptr_oclk) <= Dist(rdptr_oclk, committed_wrptr_iclk)
         /\ Dist(rdptr_oclk, committed_wrptr_iclk) <= Dist(rdptr_oclk, wrptr_iclk)
         /\ Dist(rdptr_oclk, wrptr_iclk) <= Depth
         /\ axis_i_tready => Dist(rdptr_oclk, wrptr_iclk) < Depth
<1>. DEFINE From(p) == Dist(rdptr_iclk, p)
<1>1. {rdptr_iclk, rdptr_o_to_i.i_reg, rdptr_oclk, wrptr_oclk,
       wrptr_i_to_o.i_reg, committed_wrptr_iclk, wrptr_iclk} \subseteq Ptr
  BY Types DEF IInv
<1>2. \A p \in Ptr : From(p) \in 0 .. 2 * Depth - 1
  BY <1>1, DistType
<1>3. /\ From(rdptr_o_to_i.i_reg) <= From(rdptr_oclk)
      /\ From(rdptr_oclk) <= From(wrptr_oclk)
      /\ From(wrptr_oclk) <= From(wrptr_i_to_o.i_reg)
      /\ From(wrptr_i_to_o.i_reg) <= From(committed_wrptr_iclk)
      /\ From(committed_wrptr_iclk) <= From(wrptr_iclk)
      /\ From(wrptr_iclk) <= Depth
  BY DEF IInv, PointerOrder
<1>4. axis_i_tready => From(wrptr_iclk) # Depth
  BY ReadyMeansRoom DEF IInv
<1>5. /\ From(rdptr_oclk) <= From(committed_wrptr_iclk)
      /\ From(rdptr_oclk) <= From(wrptr_iclk)
  <2>. HIDE DEF From
  <2>. QED
    BY <1>1, <1>2, <1>3
<1>6. /\ Dist(rdptr_oclk, wrptr_oclk) = From(wrptr_oclk) - From(rdptr_oclk)
      /\ Dist(rdptr_oclk, committed_wrptr_iclk)
           = From(committed_wrptr_iclk) - From(rdptr_oclk)
      /\ Dist(rdptr_oclk, wrptr_iclk) = From(wrptr_iclk) - From(rdptr_oclk)
  BY <1>1, <1>3, <1>5, Rebase
<1>. QED
  <2>. HIDE DEF From
  <2>. QED
    BY <1>1, <1>2, <1>3, <1>4, <1>6

LEMMA PortsDoNotMeet ==
  ASSUME IInv, sresetn, axis_i_tready, rdptr_oclk # wrptr_oclk
  PROVE  Addr(wrptr_iclk) # Addr(rdptr_oclk)
<1>1. /\ rdptr_oclk \in Ptr /\ wrptr_oclk \in Ptr
      /\ wrptr_iclk \in Ptr /\ committed_wrptr_iclk \in Ptr
  BY Types DEF IInv
<1>2. Dist(rdptr_oclk, wrptr_oclk) # 0
  BY <1>1, DistZero
<1>3. Dist(rdptr_oclk, wrptr_iclk) \in 1 .. Depth - 1
  BY <1>1, <1>2, FromReadPointer, DistType
<1>. QED
  BY <1>1, <1>3, AddrDiffer

(* The RAM's ports never meet: no slot is read and written at once.        *)
THEOREM NoCollisionCorrect == Spec => []NoCollision
<1>1. IInv => NoCollision
  BY PortsDoNotMeet DEF NoCollision
<1>. QED
  BY <1>1, InitIInv, StepIInv, PTL DEF Spec

(* The slots of committed, unread words lie behind the write pointer.      *)
LEMMA UnreadNotWritten ==
  ASSUME IInv, sresetn, axis_i_tready, NEW s \in Unread
  PROVE  s # Addr(wrptr_iclk)
<1>1. PICK p \in Ptr : /\ s = Addr(p)
                       /\ Dist(rdptr_oclk, p) < Dist(rdptr_oclk, committed_wrptr_iclk)
  BY DEF Unread
<1>2. rdptr_oclk \in Ptr /\ wrptr_iclk \in Ptr /\ committed_wrptr_iclk \in Ptr
  BY Types DEF IInv
<1>3. /\ Dist(rdptr_oclk, p) < Dist(rdptr_oclk, wrptr_iclk)
      /\ Dist(rdptr_oclk, wrptr_iclk) < Depth
      /\ Dist(rdptr_oclk, p) \in Nat
  BY <1>1, <1>2, FromReadPointer, DistType
<1>4. Dist(p, wrptr_iclk) = Dist(rdptr_oclk, wrptr_iclk) - Dist(rdptr_oclk, p)
  BY <1>2, <1>3, DistType, Rebase
<1>5. Dist(p, wrptr_iclk) \in 1 .. Depth - 1
  BY <1>2, <1>3, <1>4, DistType
<1>. QED
  BY <1>1, <1>2, <1>5, AddrDiffer

LEMMA StepUnreadStable ==
  ASSUME IInv, [Next]_vars, sresetn, NEW s \in Unread
  PROVE  ram'[s] = ram[s]
<1>1. s \in Slot
  BY AddrType DEF Unread
<1>2. ASSUME NEW beat \in Beat \cup {NoWord}, WriteSide(beat)
      PROVE  ram'[s] = ram[s]
  BY <1>1, <1>2, WriteSideMoves, UnreadNotWritten DEF IInv
<1>3. CASE IClk
  BY <1>2, <1>3, InputTypes DEF IClk
<1>4. ASSUME NEW ready \in BOOLEAN, OClk(ready)
      PROVE  ram'[s] = ram[s]
  BY <1>4 DEF OClk
<1>5. ASSUME NEW ready \in BOOLEAN, BothClks(ready)
      PROVE  ram'[s] = ram[s]
  BY <1>2, <1>5, InputTypes DEF BothClks
<1>6. CASE AssertReset \/ ReleaseReset
  BY <1>6 DEF AssertReset, ReleaseReset, Registers
<1>7. CASE UNCHANGED vars
  BY <1>7 DEF vars
<1>. QED
  BY <1>3, <1>4, <1>5, <1>6, <1>7, InputTypes DEF Next

(* No step overwrites a word of a whole packet before it has been read.    *)
THEOREM UnreadStableCorrect == Spec => UnreadStable
<1>1. IInv /\ [Next]_vars => [sresetn => \A s \in Unread : ram'[s] = ram[s]]_vars
  BY StepUnreadStable
<1>. QED
  BY <1>1, InitIInv, StepIInv, PTL DEF Spec, UnreadStable

LEMMA ReadSideKeepsOffer ==
  ASSUME TypeOK, sresetn, axis_o_tvalid, taken' = taken,
         NEW ready \in BOOLEAN, NEW dob, ReadSide(ready, dob)
  PROVE  axis_o_tvalid' /\ axis_o' = axis_o
<1>1. ~ready
  <2>1. taken \in {0, 1}
    BY DEF TypeOK, Bit
  <2>2. ready => taken' = 1 - taken
    BY DEF ReadSide
  <2>. QED
    BY <2>1, <2>2
<1>. QED
  BY <1>1 DEF ReadSide, read_from_ram

LEMMA StepOfferStable ==
  ASSUME IInv, [Next]_vars, sresetn, axis_o_tvalid, taken' = taken
  PROVE  axis_o_tvalid' /\ axis_o' = axis_o
<1>1. CASE IClk
  BY <1>1 DEF IClk
<1>2. ASSUME NEW ready \in BOOLEAN, OClk(ready) \/ BothClks(ready)
      PROVE  axis_o_tvalid' /\ axis_o' = axis_o
  <2>1. \E dob : ReadSide(ready, dob)
    BY <1>2 DEF OClk, BothClks
  <2>. QED
    BY <2>1, ReadSideKeepsOffer DEF IInv
<1>3. CASE AssertReset \/ ReleaseReset
  BY <1>3 DEF AssertReset, ReleaseReset, Registers
<1>4. CASE UNCHANGED vars
  BY <1>4 DEF vars
<1>. QED
  BY <1>1, <1>2, <1>3, <1>4, InputTypes DEF Next

(* A word on offer to the sink stays there, unchanged, until it is taken,  *)
(* although valid falls and rises by two assignments and the RAM's output  *)
(* register is loaded by a condition of its own.                           *)
THEOREM OfferStableCorrect == Spec => OfferStable
<1>1. IInv /\ [Next]_vars
        => [sresetn /\ axis_o_tvalid /\ taken' = taken
              => axis_o_tvalid' /\ axis_o' = axis_o]_vars
  BY StepOfferStable
<1>. QED
  BY <1>1, InitIInv, StepIInv, PTL DEF Spec, OfferStable
-----------------------------------------------------------------------------
(* The refinement of PacketQueue and of PacketFifoWriter.                  *)
USE NoWordAssumption
-----------------------------------------------------------------------------
(* The words of a RAM between two pointers.                                *)
Ahead(p, i) == IF p + i < 2 * Depth THEN p + i ELSE p + i - 2 * Depth

Words(r, p, q) == [i \in 1 .. Dist(p, q) |-> r[Addr(Ahead(p, i - 1))]]

LEMMA WordsIndex ==
  ASSUME NEW r, NEW p \in Ptr, NEW q \in Ptr
  PROVE  [i \in 1 .. Dist(p, q) |->
            r[Addr(IF p + i - 1 < 2 * Depth THEN p + i - 1
                   ELSE p + i - 1 - 2 * Depth)]] = Words(r, p, q)
<1>1. \A i \in 1 .. Dist(p, q) :
        (IF p + i - 1 < 2 * Depth THEN p + i - 1 ELSE p + i - 1 - 2 * Depth)
          = Ahead(p, i - 1)
  <2>1. Dist(p, q) \in Nat /\ p \in Nat
    BY DistType DEF Ptr
  <2>. QED
    BY <2>1 DEF Ahead
<1>. QED
  BY <1>1 DEF Words

LEMMA AheadType ==
  ASSUME NEW p \in Ptr, NEW i \in 0 .. 2 * Depth - 1
  PROVE  Ahead(p, i) \in Ptr /\ Dist(p, Ahead(p, i)) = i
BY DEF Ahead, Ptr, Dist

LEMMA AheadDist ==
  ASSUME NEW p \in Ptr, NEW q \in Ptr
  PROVE  Ahead(p, Dist(p, q)) = q
BY DEF Ahead, Ptr, Dist

LEMMA AheadAhead ==
  ASSUME NEW p \in Ptr, NEW m \in Ptr, NEW j \in Nat, Dist(p, m) + j < 2 * Depth
  PROVE  Ahead(p, Dist(p, m) + j) = Ahead(m, j)
BY DEF Ahead, Ptr, Dist

LEMMA WordsType ==
  ASSUME NEW r \in [Slot -> Word], NEW p \in Ptr, NEW q \in Ptr
  PROVE  /\ Words(r, p, q) \in Seq(Word)
         /\ Len(Words(r, p, q)) = Dist(p, q)
         /\ \A i \in 1 .. Dist(p, q) : Words(r, p, q)[i] = r[Addr(Ahead(p, i - 1))]
<1>1. Dist(p, q) \in 0 .. 2 * Depth - 1
  BY DistType
<1>2. \A i \in 1 .. Dist(p, q) : r[Addr(Ahead(p, i - 1))] \in Word
  <2>. SUFFICES ASSUME NEW i \in 1 .. Dist(p, q)
                PROVE  r[Addr(Ahead(p, i - 1))] \in Word
    OBVIOUS
  <2>1. i - 1 \in 0 .. 2 * Depth - 1
    BY <1>1
  <2>2. Addr(Ahead(p, i - 1)) \in Slot
    BY <2>1, AheadType, AddrType
  <2>. QED
    BY <2>2
<1>3. Words(r, p, q) \in [1 .. Dist(p, q) -> Word]
  BY <1>2 DEF Words
<1>4. Words(r, p, q) \in Seq(Word)
  BY <1>1, <1>3, SeqDef
<1>5. Len(Words(r, p, q)) = Dist(p, q)
  <2>1. DOMAIN Words(r, p, q) = 1 .. Dist(p, q)
    BY <1>3
  <2>2. Len(Words(r, p, q)) \in Nat /\ DOMAIN Words(r, p, q) = 1 .. Len(Words(r, p, q))
    BY <1>4, LenProperties
  <2>. QED
    BY <1>1, <2>1, <2>2
<1>6. \A i \in 1 .. Dist(p, q) : Words(r, p, q)[i] = r[Addr(Ahead(p, i - 1))]
  BY DEF Words
<1>. QED
  BY <1>4, <1>5, <1>6

(* No words between a pointer and itself.                                  *)
LEMMA WordsEmpty ==
  ASSUME NEW r \in [Slot -> Word], NEW p \in Ptr
  PROVE  Words(r, p, p) = <<>>
BY WordsType, DistSelf, EmptySeq

(* One pointer on, one word more.                                          *)
LEMMA WordsSnoc ==
  ASSUME NEW r \in [Slot -> Word], NEW p \in Ptr, NEW q \in Ptr,
         Dist(p, q) < 2 * Depth - 1
  PROVE  Words(r, p, Inc(q)) = Append(Words(r, p, q), r[Addr(q)])
<1>. DEFINE s == Words(r, p, q)
            t == Words(r, p, Inc(q))
            u == Append(s, r[Addr(q)])
<1>1. Inc(q) \in Ptr /\ Dist(p, Inc(q)) = Dist(p, q) + 1 /\ Dist(p, q) \in Nat
  BY IncType, DistInc, DistType
<1>2. r[Addr(q)] \in Word
  BY AddrType
<1>3. s \in Seq(Word) /\ t \in Seq(Word) /\ Len(s) = Dist(p, q) /\ Len(t) = Dist(p, q) + 1
  BY <1>1, WordsType
<1>4. /\ u \in Seq(Word) /\ Len(u) = Len(s) + 1 /\ u[Len(s) + 1] = r[Addr(q)]
      /\ \A i \in 1 .. Len(s) : u[i] = s[i]
  <2>. HIDE DEF s
  <2>. QED
    BY <1>2, <1>3, AppendProperties
<1>5. ASSUME NEW i \in 1 .. Len(t) PROVE t[i] = u[i]
  <2>1. t[i] = r[Addr(Ahead(p, i - 1))]
    <3>1. i \in 1 .. Dist(p, Inc(q))
      BY <1>1, <1>3
    <3>. QED
      BY <1>1, <3>1, WordsType
  <2>2. CASE i \in 1 .. Len(s)
    <3>1. s[i] = r[Addr(Ahead(p, i - 1))]
      BY <1>3, <2>2, WordsType
    <3>. QED
      BY <1>4, <2>1, <2>2, <3>1
  <2>3. CASE i = Len(s) + 1
    <3>1. i - 1 = Dist(p, q)
      BY <1>1, <1>3, <2>3
    <3>. QED
      BY <1>4, <2>1, <2>3, <3>1, AheadDist
  <2>. QED
    BY <1>1, <1>3, <2>2, <2>3
<1>. HIDE DEF s, t, u
<1>6. t = u
  BY <1>1, <1>3, <1>4, <1>5, SeqEqual
<1>. QED
  BY <1>6 DEF s, t, u

(* What lies between two pointers can be cut at a third between them.      *)
LEMMA WordsCut ==
  ASSUME NEW r \in [Slot -> Word], NEW p \in Ptr, NEW m \in Ptr, NEW q \in Ptr,
         Dist(p, m) <= Dist(p, q)
  PROVE  Words(r, p, q) = Words(r, p, m) \o Words(r, m, q)
<1>. DEFINE s == Words(r, p, m)
            t == Words(r, m, q)
            u == Words(r, p, q)
            c == s \o t
<1>1. /\ Dist(p, m) \in 0 .. 2 * Depth - 1 /\ Dist(p, q) \in 0 .. 2 * Depth - 1
      /\ Dist(m, q) = Dist(p, q) - Dist(p, m) /\ Dist(m, q) \in Nat
  BY DistType, Rebase
<1>2. /\ s \in Seq(Word) /\ t \in Seq(Word) /\ u \in Seq(Word)
      /\ Len(s) = Dist(p, m) /\ Len(t) = Dist(m, q) /\ Len(u) = Dist(p, q)
  BY WordsType
<1>3. /\ c \in Seq(Word) /\ Len(c) = Len(s) + Len(t)
      /\ \A i \in 1 .. Len(s) + Len(t) :
           c[i] = IF i <= Len(s) THEN s[i] ELSE t[i - Len(s)]
  <2>. HIDE DEF s, t
  <2>. QED
    BY <1>2, ConcatProperties
<1>4. ASSUME NEW i \in 1 .. Len(u) PROVE u[i] = c[i]
  <2>1. i \in 1 .. Dist(p, q) /\ u[i] = r[Addr(Ahead(p, i - 1))]
    <3>1. i \in 1 .. Dist(p, q)
      BY <1>2
    <3>. QED
      BY <3>1, WordsType
  <2>2. CASE i <= Dist(p, m)
    <3>1. i \in 1 .. Dist(p, m)
      BY <1>1, <2>1, <2>2
    <3>2. s[i] = r[Addr(Ahead(p, i - 1))]
      BY <3>1, WordsType
    <3>. HIDE DEF s, t, u, c
    <3>. QED
      BY <1>1, <1>2, <1>3, <2>1, <2>2, <3>2
  <2>3. CASE ~(i <= Dist(p, m))
    <3>. DEFINE j == i - Dist(p, m)
    <3>1. j \in 1 .. Dist(m, q) /\ j - 1 \in Nat /\ i - 1 = Dist(p, m) + (j - 1)
          /\ Dist(p, m) + (j - 1) < 2 * Depth
      BY <1>1, <2>1, <2>3
    <3>2. t[j] = r[Addr(Ahead(m, j - 1))]
      BY <3>1, WordsType
    <3>3. Ahead(p, i - 1) = Ahead(m, j - 1)
      <4>. HIDE DEF j
      <4>. QED
        BY <3>1, AheadAhead
    <3>. HIDE DEF s, t, u, c
    <3>. QED
      BY <1>1, <1>2, <1>3, <2>1, <2>3, <3>2, <3>3
  <2>. QED
    BY <2>2, <2>3
<1>. HIDE DEF s, t, u, c
<1>5. Len(u) = Len(c)
  BY <1>1, <1>2, <1>3
<1>6. u = c
  BY <1>2, <1>3, <1>4, <1>5, SeqEqual
<1>. QED
  BY <1>6 DEF s, t, u, c

(* Reading the oldest word.                                                *)
LEMMA WordsHead ==
  ASSUME NEW r \in [Slot -> Word], NEW p \in Ptr, NEW q \in Ptr, Dist(p, q) # 0
  PROVE  /\ Words(r, p, q) # <<>>
         /\ Head(Words(r, p, q)) = r[Addr(p)]
         /\ Words(r, Inc(p), q) = Tail(Words(r, p, q))
<1>1. /\ Inc(p) \in Ptr /\ Dist(p, Inc(p)) = 1
      /\ Dist(p, q) \in Nat /\ Dist(p, p) = 0
      /\ Dist(p, p) < 2 * Depth - 1 /\ Dist(p, Inc(p)) <= Dist(p, q)
  BY IncType, DistSelf, DistInc, DistType
<1>2. Words(r, p, Inc(p)) = <<r[Addr(p)]>>
  <2>1. Words(r, p, Inc(p)) = Append(<<>>, r[Addr(p)])
    <3>1. Words(r, p, Inc(p)) = Append(Words(r, p, p), r[Addr(p)])
      BY <1>1, WordsSnoc
    <3>. QED
      BY <3>1, WordsEmpty
  <2>2. r[Addr(p)] \in Word
    BY AddrType
  <2>. QED
    BY <2>1, <2>2
<1>3. Words(r, p, q) = <<r[Addr(p)]>> \o Words(r, Inc(p), q)
  <2>1. Words(r, p, q) = Words(r, p, Inc(p)) \o Words(r, Inc(p), q)
    BY <1>1, WordsCut
  <2>. QED
    BY <1>2, <2>1
<1>4. r[Addr(p)] \in Word /\ Words(r, Inc(p), q) \in Seq(Word)
  BY <1>1, AddrType, WordsType
<1>5. ASSUME NEW w \in Word, NEW s \in Seq(Word)
      PROVE  <<w>> \o s # <<>> /\ Head(<<w>> \o s) = w /\ Tail(<<w>> \o s) = s
  OBVIOUS
<1>. QED
  BY <1>3, <1>4, <1>5

(* A write behind the words does not change them.                          *)
LEMMA WordsFrame ==
  ASSUME NEW r \in [Slot -> Word], NEW p \in Ptr, NEW q \in Ptr, NEW w \in Ptr,
         Dist(p, q) <= Dist(p, w), Dist(p, w) < Depth,
         NEW r2 \in [Slot -> Word], \A s \in Slot : s # Addr(w) => r2[s] = r[s]
  PROVE  Words(r2, p, q) = Words(r, p, q)
<1>1. ASSUME NEW i \in 1 .. Dist(p, q)
      PROVE  r2[Addr(Ahead(p, i - 1))] = r[Addr(Ahead(p, i - 1))]
  <2>1. Dist(p, q) \in Nat /\ Dist(p, w) \in Nat /\ i - 1 \in 0 .. 2 * Depth - 1
        /\ i - 1 < Dist(p, w)
    <3>1. Dist(p, q) \in Nat /\ Dist(p, w) \in Nat
      BY DistType
    <3>. QED
      BY <3>1
  <2>2. Ahead(p, i - 1) \in Ptr /\ Dist(p, Ahead(p, i - 1)) = i - 1
    BY <2>1, AheadType
  <2>3. Dist(Ahead(p, i - 1), w) = Dist(p, w) - (i - 1)
    BY <2>1, <2>2, Rebase
  <2>4. Addr(Ahead(p, i - 1)) # Addr(w)
    BY <2>1, <2>2, <2>3, AddrDiffer
  <2>5. Addr(Ahead(p, i - 1)) \in Slot
    BY <2>2, AddrType
  <2>. QED
    BY <2>4, <2>5
<1>. QED
  BY <1>1 DEF Words
-----------------------------------------------------------------------------
(* The abstract words, before and after a step.                            *)
LEMMA Views ==
  ASSUME IInv, sresetn
  PROVE  /\ WordsFrom(rdptr_oclk, committed_wrptr_iclk)
              = Words(ram, rdptr_oclk, committed_wrptr_iclk)
         /\ WordsFrom(committed_wrptr_iclk, wrptr_iclk)
              = Words(ram, committed_wrptr_iclk, wrptr_iclk)
<1>1. rdptr_oclk \in Ptr /\ committed_wrptr_iclk \in Ptr /\ wrptr_iclk \in Ptr
  BY Types DEF IInv
<1>. QED
  BY <1>1, WordsIndex DEF WordsFrom

LEMMA ViewsNext ==
  ASSUME TypeOK', sresetn'
  PROVE  /\ WordsFrom(rdptr_oclk, committed_wrptr_iclk)'
              = Words(ram', rdptr_oclk', committed_wrptr_iclk')
         /\ WordsFrom(committed_wrptr_iclk, wrptr_iclk)'
              = Words(ram', committed_wrptr_iclk', wrptr_iclk')
<1>1. rdptr_oclk' \in Ptr /\ committed_wrptr_iclk' \in Ptr /\ wrptr_iclk' \in Ptr
  BY DEF TypeOK
<1>. QED
  BY <1>1, WordsIndex DEF WordsFrom

LEMMA ViewsDown ==
  /\ ~sresetn => /\ WordsFrom(rdptr_oclk, committed_wrptr_iclk) = <<>>
                 /\ WordsFrom(committed_wrptr_iclk, wrptr_iclk) = <<>>
  /\ ~sresetn' => /\ WordsFrom(rdptr_oclk, committed_wrptr_iclk)' = <<>>
                  /\ WordsFrom(committed_wrptr_iclk, wrptr_iclk)' = <<>>
BY DEF WordsFrom

(* What an edge of i_clk does to the words.                                *)
LEMMA WriteSideWords ==
  ASSUME IInv, sresetn, NEW beat \in Beat \cup {NoWord}, WriteSide(beat)
  PROVE  LET accepted  == axis_i_tready /\ beat \in Beat
             committed == Words(ram, rdptr_oclk, committed_wrptr_iclk)
             open      == Words(ram, committed_wrptr_iclk, wrptr_iclk)
             committedN == Words(ram', rdptr_oclk, committed_wrptr_iclk')
             openN      == Words(ram', committed_wrptr_iclk', wrptr_iclk')
         IN  \/ ~accepted /\ committedN = committed /\ openN = open
             \/ accepted /\ beat.drop /\ committedN = committed /\ openN = <<>>
             \/ /\ accepted /\ ~beat.drop /\ ~beat.word.tlast
                /\ committedN = committed /\ openN = Append(open, beat.word)
             \/ /\ accepted /\ ~beat.drop /\ beat.word.tlast
                /\ committedN = committed \o Append(open, beat.word) /\ openN = <<>>
<1>. DEFINE ro == rdptr_oclk
            c == committed_wrptr_iclk
            w == wrptr_iclk
            accepted == axis_i_tready /\ beat \in Beat
<1>1. /\ ro \in Ptr /\ c \in Ptr /\ w \in Ptr /\ Inc(w) \in Ptr
      /\ ram \in [Slot -> Word] /\ ram' \in [Slot -> Word]
  BY Types, IncType, WriteSideMoves DEF IInv
<1>2. CASE ~accepted
  <2>1. UNCHANGED <<wrptr_iclk, committed_wrptr_iclk, ram>>
    BY <1>2 DEF WriteSide, MovePointers
  <2>. QED
    BY <1>2, <2>1
<1>3. CASE accepted
  <2>1. /\ beat.word \in Word /\ beat.drop \in BOOLEAN /\ beat.word.tlast \in BOOLEAN
        /\ ram' = [ram EXCEPT ![Addr(w)] = beat.word]
        /\ ram'[Addr(w)] = beat.word
    <3>1. beat.word \in Word /\ beat.drop \in BOOLEAN /\ beat.word.tlast \in BOOLEAN
      BY <1>3 DEF Beat, Word
    <3>2. ram' = [ram EXCEPT ![Addr(w)] = beat.word]
      BY <1>3 DEF WriteSide
    <3>3. Addr(w) \in Slot
      BY <1>1, AddrType
    <3>. QED
      BY <1>1, <3>1, <3>2, <3>3
  <2>2. /\ Dist(ro, w) \in Nat /\ Dist(ro, c) \in Nat /\ Dist(c, w) \in Nat
        /\ Dist(ro, c) <= Dist(ro, w) /\ Dist(ro, w) < Depth
        /\ Dist(c, w) = Dist(ro, w) - Dist(ro, c)
    <3>1. Dist(ro, c) <= Dist(ro, w) /\ Dist(ro, w) < Depth
      BY <1>3, FromReadPointer
    <3>2. Dist(ro, w) \in Nat /\ Dist(ro, c) \in Nat /\ Dist(c, w) \in Nat
      BY <1>1, DistType
    <3>. QED
      BY <1>1, <3>1, <3>2, Rebase
  <2>3. Dist(c, w) < Depth /\ Dist(c, w) <= Dist(c, w)
        /\ Dist(c, w) < 2 * Depth - 1 /\ Dist(ro, w) < 2 * Depth - 1
    BY <2>2
  <2>4. /\ Words(ram', ro, c) = Words(ram, ro, c)
        /\ Words(ram', c, w) = Words(ram, c, w)
    <3>1. \A s \in Slot : s # Addr(w) => ram'[s] = ram[s]
      BY <1>1, <2>1
    <3>. QED
      BY <1>1, <2>2, <2>3, <3>1, WordsFrame
  <2>5. Words(ram', c, Inc(w)) = Append(Words(ram, c, w), beat.word)
    <3>1. Words(ram', c, Inc(w)) = Append(Words(ram', c, w), ram'[Addr(w)])
      BY <1>1, <2>3, WordsSnoc
    <3>. QED
      BY <2>1, <2>4, <3>1
  <2>6. CASE beat.drop
    <3>1. w' = c /\ c' = c
      BY <1>3, <2>6 DEF WriteSide, MovePointers
    <3>2. Words(ram', c', w') = <<>>
      BY <1>1, <3>1, WordsEmpty
    <3>. QED
      BY <1>3, <2>4, <2>6, <3>1, <3>2
  <2>7. CASE ~beat.drop /\ ~beat.word.tlast
    <3>1. w' = Inc(w) /\ c' = c
      BY <1>3, <2>7 DEF WriteSide, MovePointers
    <3>. QED
      BY <1>3, <2>4, <2>5, <2>7, <3>1
  <2>8. CASE ~beat.drop /\ beat.word.tlast
    <3>1. w' = Inc(w) /\ c' = Inc(w)
      BY <1>3, <2>8 DEF WriteSide, MovePointers
    <3>2. Words(ram', c', w') = <<>>
      BY <1>1, <3>1, WordsEmpty
    <3>3. Dist(ro, Inc(w)) = Dist(ro, w) + 1
      BY <1>1, <2>3, DistInc
    <3>4. Dist(ro, c) <= Dist(ro, Inc(w))
      BY <2>2, <3>3
    <3>5. Words(ram', ro, Inc(w)) = Words(ram', ro, c) \o Words(ram', c, Inc(w))
      BY <1>1, <3>4, WordsCut
    <3>. QED
      BY <1>3, <2>4, <2>5, <2>8, <3>1, <3>2, <3>5
  <2>. QED
    BY <2>1, <2>6, <2>7, <2>8
<1>. QED
  BY <1>2, <1>3
-----------------------------------------------------------------------------
(* An edge of any clock, as the write side sees it.                        *)
ClockEdge == IClk \/ \E ready \in BOOLEAN : OClk(ready) \/ BothClks(ready)

LEMMA EdgeWrites ==
  ASSUME IInv, ClockEdge
  PROVE  /\ sresetn' = sresetn
         /\ sresetn => \E beat \in Beat \cup {NoWord} : WriteSide(beat)
         /\ rdptr_iclk' \in {rdptr_iclk, rdptr_o_to_i.i_reg}
<1>1. CASE IClk
  <2>1. sresetn' = sresetn /\ \E beat \in Beat \cup {NoWord} : WriteSide(beat)
    BY <1>1, InputTypes DEF IClk
  <2>2. rdptr_iclk' \in {rdptr_iclk, rdptr_o_to_i.i_reg}
    BY <1>1, ChannelsMove DEF IClk, IInv
  <2>. QED
    BY <2>1, <2>2
<1>2. ASSUME NEW ready \in BOOLEAN, OClk(ready)
      PROVE  /\ sresetn' = sresetn
             /\ sresetn => \E beat \in Beat \cup {NoWord} : WriteSide(beat)
             /\ rdptr_iclk' \in {rdptr_iclk, rdptr_o_to_i.i_reg}
  <2>1. UNCHANGED <<sresetn, wrptr_iclk, committed_wrptr_iclk, ram>>
    BY <1>2 DEF OClk
  <2>2. sresetn => WriteSide(NoWord)
    BY <2>1 DEF WriteSide, MovePointers
  <2>3. rdptr_iclk' \in {rdptr_iclk, rdptr_o_to_i.i_reg}
    BY <1>2, ChannelsMove DEF OClk, IInv
  <2>. QED
    BY <2>1, <2>2, <2>3
<1>3. ASSUME NEW ready \in BOOLEAN, BothClks(ready)
      PROVE  /\ sresetn' = sresetn
             /\ \E beat \in Beat \cup {NoWord} : WriteSide(beat)
             /\ rdptr_iclk' \in {rdptr_iclk, rdptr_o_to_i.i_reg}
  <2>1. sresetn' = sresetn /\ \E beat \in Beat \cup {NoWord} : WriteSide(beat)
    BY <1>3, InputTypes DEF BothClks
  <2>2. rdptr_iclk' \in {rdptr_iclk, rdptr_o_to_i.i_reg}
    BY <1>3, ChannelsMove DEF BothClks, IInv
  <2>. QED
    BY <2>1, <2>2
<1>. QED
  BY <1>1, <1>2, <1>3 DEF ClockEdge

LEMMA NextIsClockEdge ==
  [Next]_vars => ClockEdge \/ AssertReset \/ ReleaseReset \/ UNCHANGED vars
BY InputTypes DEF Next, ClockEdge

(* Room, as the code computes it, is room in the view of the write side.   *)
LEMMA RoomView ==
  ASSUME IInv, sresetn
  PROVE  /\ Dist(rdptr_iclk, rdptr_o_to_i.i_reg) <= Dist(rdptr_iclk, committed_wrptr_iclk)
         /\ Dist(rdptr_iclk, committed_wrptr_iclk) <= Dist(rdptr_iclk, wrptr_iclk)
         /\ Len(Words(ram, committed_wrptr_iclk, wrptr_iclk))
              = Dist(rdptr_iclk, wrptr_iclk) - Dist(rdptr_iclk, committed_wrptr_iclk)
         /\ axis_i_tready <=> Dist(rdptr_iclk, wrptr_iclk) < Depth
<1>. DEFINE From(p) == Dist(rdptr_iclk, p)
<1>1. /\ {rdptr_iclk, rdptr_o_to_i.i_reg, rdptr_oclk, wrptr_oclk,
          wrptr_i_to_o.i_reg, committed_wrptr_iclk, wrptr_iclk} \subseteq Ptr
      /\ ram \in [Slot -> Word]
  BY Types DEF IInv
<1>2. \A p \in Ptr : From(p) \in 0 .. 2 * Depth - 1
  BY <1>1, DistType
<1>3. /\ From(rdptr_o_to_i.i_reg) <= From(rdptr_oclk)
      /\ From(rdptr_oclk) <= From(wrptr_oclk)
      /\ From(wrptr_oclk) <= From(wrptr_i_to_o.i_reg)
      /\ From(wrptr_i_to_o.i_reg) <= From(committed_wrptr_iclk)
      /\ From(committed_wrptr_iclk) <= From(wrptr_iclk)
      /\ From(wrptr_iclk) <= Depth
  BY DEF IInv, PointerOrder
<1>4. From(rdptr_o_to_i.i_reg) <= From(committed_wrptr_iclk)
  <2>. HIDE DEF From
  <2>. QED
    BY <1>1, <1>2, <1>3
<1>5. Len(Words(ram, committed_wrptr_iclk, wrptr_iclk))
        = From(wrptr_iclk) - From(committed_wrptr_iclk)
  <2>1. Len(Words(ram, committed_wrptr_iclk, wrptr_iclk))
          = Dist(committed_wrptr_iclk, wrptr_iclk)
    BY <1>1, WordsType
  <2>. QED
    BY <1>1, <1>3, <2>1, Rebase
<1>6. axis_i_tready <=> From(wrptr_iclk) # Depth
  <2>1. ASSUME NEW a \in Ptr, NEW b \in Ptr,
               Addr(a) = Addr(b), Wrapped(a) # Wrapped(b)
        PROVE  Dist(a, b) = Depth
    BY <2>1 DEF Ptr, Dist, Addr, Wrapped
  <2>. QED
    BY <1>1, <2>1, DepthApartIsFull DEF axis_i_tready
<1>7. From(wrptr_iclk) # Depth <=> From(wrptr_iclk) < Depth
  <2>. HIDE DEF From
  <2>. QED
    BY <1>1, <1>2, <1>3
<1>. QED
  BY <1>3, <1>4, <1>5, <1>6, <1>7

LEMMA WriterEdge ==
  ASSUME IInv, TypeOK', sresetn, sresetn',
         NEW beat \in Beat \cup {NoWord}, WriteSide(beat),
         rdptr_iclk' \in {rdptr_iclk, rdptr_o_to_i.i_reg}
  PROVE  \E freed \in 0 .. Dist(rdptr_iclk, committed_wrptr_iclk) :
           Writer!Edge(beat, freed)
<1>. DEFINE c == committed_wrptr_iclk
            w == wrptr_iclk
            ri == rdptr_iclk
            open == Words(ram, c, w)
            freed == Dist(ri, ri')
<1>1. /\ ri \in Ptr /\ ri' \in Ptr /\ rdptr_o_to_i.i_reg \in Ptr
      /\ c \in Ptr /\ w \in Ptr /\ c' \in Ptr /\ Inc(w) \in Ptr
      /\ ram \in [Slot -> Word]
  BY Types, IncType DEF IInv, TypeOK
<1>2. /\ Dist(ri, c) \in Nat /\ Dist(ri, w) \in Nat /\ freed \in Nat
      /\ Dist(ri, c) <= Dist(ri, w)
      /\ Len(open) = Dist(ri, w) - Dist(ri, c)
      /\ axis_i_tready <=> Dist(ri, w) < Depth
  BY <1>1, RoomView, DistType
<1>3. freed <= Dist(ri, c)
  <2>1. CASE ri' = ri
    BY <1>1, <1>2, <2>1, DistSelf
  <2>2. CASE ri' = rdptr_o_to_i.i_reg
    BY <2>2, RoomView
  <2>. QED
    BY <2>1, <2>2
<1>4. c' = c => Dist(ri', c') = Dist(ri, c) - freed
  BY <1>1, <1>3, Rebase
<1>5. axis_i_tready /\ c' = Inc(w) => Dist(ri', c') = Dist(ri, c) - freed + Len(open) + 1
  <2>. SUFFICES ASSUME axis_i_tready, c' = Inc(w)
                PROVE  Dist(ri', c') = Dist(ri, c) - freed + Len(open) + 1
    OBVIOUS
  <2>1. Dist(ri, w) < 2 * Depth - 1
    BY <1>2
  <2>2. Dist(ri, Inc(w)) = Dist(ri, w) + 1
    BY <1>1, <2>1, DistInc
  <2>3. freed <= Dist(ri, Inc(w))
    <3>. HIDE DEF freed, open
    <3>. QED
      BY <1>2, <1>3, <2>2
  <2>4. Dist(ri', Inc(w)) = Dist(ri, Inc(w)) - freed
    BY <1>1, <2>3, Rebase
  <2>. HIDE DEF freed, open
  <2>. QED
    BY <1>2, <2>2, <2>4
<1>6. Writer!tready <=> axis_i_tready
  <2>1. Writer!tready <=> Dist(ri, c) + Len(open) < Depth
    BY Views DEF Writer!tready
  <2>. HIDE DEF freed, open
  <2>. QED
    BY <1>2, <2>1
<1>7. beat # NoWord <=> beat \in Beat
  OBVIOUS
<1>8. beat \in Beat => beat.drop \in BOOLEAN /\ beat.word.tlast \in BOOLEAN
  BY DEF Beat, Word
<1>9. /\ WordsFrom(c, w) = open
      /\ WordsFrom(c, w)' = Words(ram', c', w')
  BY Views, ViewsNext
<1>10. Writer!Edge(beat, freed)
  <2>0. freed \in 0 .. Dist(ri, c)
    BY <1>2, <1>3
  <2>1. CASE ~(axis_i_tready /\ beat \in Beat)
    <3>1. c' = c /\ WordsFrom(c, w)' = WordsFrom(c, w)
      <4>1. UNCHANGED <<committed_wrptr_iclk, wrptr_iclk, ram>>
        BY <2>1 DEF WriteSide, MovePointers
      <4>. QED
        BY <1>9, <4>1
    <3>. QED
      BY <1>4, <1>6, <1>7, <2>0, <2>1, <3>1 DEF Writer!Edge
  <2>2. CASE axis_i_tready /\ beat \in Beat /\ beat.drop
    <3>1. c' = c /\ WordsFrom(c, w)' = <<>>
      <4>1. c' = c
        BY <2>2 DEF WriteSide, MovePointers
      <4>. QED
        BY <1>9, <2>2, <4>1, WriteSideWords
    <3>. QED
      BY <1>4, <1>6, <1>7, <2>0, <2>2, <3>1 DEF Writer!Edge
  <2>3. CASE axis_i_tready /\ beat \in Beat /\ ~beat.drop /\ ~beat.word.tlast
    <3>1. c' = c /\ WordsFrom(c, w)' = Append(WordsFrom(c, w), beat.word)
      <4>1. c' = c
        BY <2>3 DEF WriteSide, MovePointers
      <4>. QED
        BY <1>9, <2>3, <4>1, WriteSideWords
    <3>. QED
      BY <1>4, <1>6, <1>7, <2>0, <2>3, <3>1 DEF Writer!Edge
  <2>4. CASE axis_i_tready /\ beat \in Beat /\ ~beat.drop /\ beat.word.tlast
    <3>1. c' = Inc(w) /\ WordsFrom(c, w)' = <<>>
      <4>1. c' = Inc(w)
        BY <2>4 DEF WriteSide, MovePointers
      <4>. QED
        BY <1>9, <2>4, <4>1, WriteSideWords
    <3>2. Dist(ri', c') = Dist(ri, c) - freed + Len(WordsFrom(c, w)) + 1
      BY <1>5, <1>9, <2>4, <3>1
    <3>. QED
      BY <1>6, <1>7, <2>0, <2>4, <3>1, <3>2 DEF Writer!Edge
  <2>. QED
    BY <1>8, <2>1, <2>2, <2>3, <2>4
<1>. QED
  BY <1>2, <1>3, <1>10

LEMMA WriterInit == Init => Writer!Init
BY ViewsDown DEF Init, Writer!Init

LEMMA ReleaseIsEmpty ==
  ASSUME IInv, TypeOK', ReleaseReset
  PROVE  /\ WordsFrom(rdptr_oclk, committed_wrptr_iclk)' = <<>>
         /\ WordsFrom(committed_wrptr_iclk, wrptr_iclk)' = <<>>
         /\ Dist(rdptr_iclk', committed_wrptr_iclk') = 0
<1>1. /\ rdptr_oclk' = 0 /\ committed_wrptr_iclk' = 0 /\ wrptr_iclk' = 0
      /\ rdptr_iclk' = 0 /\ sresetn'
  BY OverIsCrossed DEF IInv, ReleaseReset, ResetCrosses, ResetCrossed, Registers, rdptr_iclk
<1>2. 0 \in Ptr /\ ram' \in [Slot -> Word]
  BY DEF Ptr, TypeOK
<1>. QED
  BY <1>1, <1>2, ViewsNext, WordsEmpty, DistSelf

LEMMA WriterStep ==
  ASSUME IInv, TypeOK', [Next]_vars
  PROVE  [Writer!Next]_(Writer!vars)
<1>1. CASE ClockEdge /\ sresetn
  <2>1. /\ sresetn'
        /\ \E beat \in Beat \cup {NoWord} : WriteSide(beat)
        /\ rdptr_iclk' \in {rdptr_iclk, rdptr_o_to_i.i_reg}
    BY <1>1, EdgeWrites
  <2>2. PICK beat \in Beat \cup {NoWord} : WriteSide(beat)
    BY <2>1
  <2>3. PICK freed \in 0 .. Dist(rdptr_iclk, committed_wrptr_iclk) :
          Writer!Edge(beat, freed)
    BY <1>1, <2>1, <2>2, WriterEdge
  <2>. QED
    BY <1>1, <2>3 DEF Writer!Next
<1>2. CASE ClockEdge /\ ~sresetn
  BY <1>2, EdgeWrites, ViewsDown DEF Writer!vars
<1>3. CASE AssertReset
  BY <1>3, ViewsDown DEF AssertReset, Writer!Next, Writer!Reset
<1>4. CASE ReleaseReset
  <2>1. ~sresetn /\ sresetn'
    BY <1>4 DEF ReleaseReset
  <2>. QED
    BY <1>4, <2>1, ReleaseIsEmpty, ViewsDown DEF Writer!vars
<1>5. CASE UNCHANGED vars
  BY <1>5 DEF vars, Writer!vars, WordsFrom, rdptr_iclk
<1>. QED
  BY <1>1, <1>2, <1>3, <1>4, <1>5, NextIsClockEdge

(* What the error filter is composed with is what the FIFO does: its write *)
(* side accepts, drops and commits as PacketFifoWriter says, with room     *)
(* that comes back when a read pointer crosses over.                       *)
THEOREM WriterRefinement == Spec => WriterSpec
<1>1. IInv /\ TypeOK' /\ [Next]_vars => [Writer!Next]_(Writer!vars)
  BY WriterStep
<1>2. IInv => TypeOK
  BY DEF IInv
<1>. QED
  BY <1>1, <1>2, WriterInit, InitIInv, StepIInv, PTL DEF Spec, WriterSpec, Writer!Spec
-----------------------------------------------------------------------------
(* The queue: what the write side adds, and what the read side removes.    *)
LEMMA QueueWrites ==
  ASSUME IInv, TypeOK', sresetn, sresetn',
         NEW beat \in Beat \cup {NoWord}, WriteSide(beat)
  PROVE  \E v \in Word :
         \E new \in {<<>>, Append(WordsFrom(committed_wrptr_iclk, wrptr_iclk), v)} :
           /\ Queue!Wait(new) \/ Queue!Drop(new) \/ Queue!Push(v, new)
           /\ Words(ram', rdptr_oclk, committed_wrptr_iclk')
                = WordsFrom(rdptr_oclk, committed_wrptr_iclk) \o new
<1>. DEFINE C == WordsFrom(rdptr_oclk, committed_wrptr_iclk)
            O == WordsFrom(committed_wrptr_iclk, wrptr_iclk)
            O2 == O'
            C2 == Words(ram', rdptr_oclk, committed_wrptr_iclk')
            accepted == axis_i_tready /\ beat \in Beat
<1>1. /\ rdptr_oclk \in Ptr /\ committed_wrptr_iclk \in Ptr /\ wrptr_iclk \in Ptr
      /\ ram \in [Slot -> Word] /\ axis_o \in Word
  BY Types DEF IInv, TypeOK
<1>2. /\ C \in Seq(Word) /\ O \in Seq(Word)
      /\ Len(C) = Dist(rdptr_oclk, committed_wrptr_iclk)
      /\ Len(O) = Dist(committed_wrptr_iclk, wrptr_iclk)
  BY <1>1, Views, WordsType
<1>3. accepted => Len(C) + Len(O) < Depth
  <2>1. /\ Dist(rdptr_oclk, committed_wrptr_iclk) <= Dist(rdptr_oclk, wrptr_iclk)
        /\ axis_i_tready => Dist(rdptr_oclk, wrptr_iclk) < Depth
    BY FromReadPointer
  <2>2. Dist(committed_wrptr_iclk, wrptr_iclk)
          = Dist(rdptr_oclk, wrptr_iclk) - Dist(rdptr_oclk, committed_wrptr_iclk)
    BY <1>1, <2>1, Rebase
  <2>3. /\ Dist(rdptr_oclk, wrptr_iclk) \in Nat
        /\ Dist(rdptr_oclk, committed_wrptr_iclk) \in Nat
    BY <1>1, DistType
  <2>. HIDE DEF C, O
  <2>. QED
    BY <1>2, <2>1, <2>2, <2>3
<1>4. \/ ~accepted /\ C2 = C /\ O2 = O
      \/ accepted /\ beat.drop /\ C2 = C /\ O2 = <<>>
      \/ accepted /\ ~beat.drop /\ ~beat.word.tlast /\ C2 = C /\ O2 = Append(O, beat.word)
      \/ /\ accepted /\ ~beat.drop /\ beat.word.tlast
         /\ C2 = C \o Append(O, beat.word) /\ O2 = <<>>
  BY Views, ViewsNext, WriteSideWords
<1>5. C \o <<>> = C
  <2>. HIDE DEF C
  <2>. QED
    BY <1>2, ConcatEmptySeq
<1>6. beat \in Beat => beat.word \in Word
  BY DEF Beat
<1>7. CASE ~accepted /\ C2 = C /\ O2 = O
  <2>1. Queue!Wait(<<>>)
    BY <1>7 DEF Queue!Wait
  <2>. QED
    BY <1>1, <1>5, <1>7, <2>1
<1>8. CASE C2 = C /\ O2 = <<>>
  <2>1. Queue!Drop(<<>>)
    BY <1>8 DEF Queue!Drop
  <2>. QED
    BY <1>1, <1>5, <1>8, <2>1
<1>9. CASE accepted /\ ~beat.word.tlast /\ C2 = C /\ O2 = Append(O, beat.word)
  <2>1. Queue!Push(beat.word, <<>>)
    BY <1>3, <1>9 DEF Queue!Push
  <2>. QED
    BY <1>5, <1>6, <1>9, <2>1
<1>10. CASE accepted /\ beat.word.tlast /\ C2 = C \o Append(O, beat.word) /\ O2 = <<>>
  <2>1. Queue!Push(beat.word, Append(O, beat.word))
    BY <1>3, <1>10 DEF Queue!Push
  <2>. QED
    BY <1>6, <1>10, <2>1
<1>. QED
  BY <1>4, <1>7, <1>8, <1>9, <1>10

QueueReadsBy(n) == Queue!Hold(n) \/ Queue!Take(n) \/ Queue!Offer(n) \/ Queue!TakeAndOffer(n)

LEMMA QueueReads ==
  ASSUME IInv, sresetn, NEW ready \in BOOLEAN, NEW dob \in Word, ReadSide(ready, dob),
         read_from_ram(ready) => dob = ram[Addr(rdptr_oclk)]
  PROVE  \/ QueueReadsBy(0) /\ rdptr_oclk' = rdptr_oclk
         \/ /\ QueueReadsBy(1) /\ rdptr_oclk' = Inc(rdptr_oclk)
            /\ Dist(rdptr_oclk, committed_wrptr_iclk) # 0
<1>. DEFINE C == WordsFrom(rdptr_oclk, committed_wrptr_iclk)
            out == IF axis_o_tvalid THEN axis_o ELSE NoWord
<1>1. /\ rdptr_oclk \in Ptr /\ committed_wrptr_iclk \in Ptr /\ wrptr_oclk \in Ptr
      /\ ram \in [Slot -> Word] /\ axis_o \in Word /\ axis_o_tvalid \in BOOLEAN
  BY Types DEF IInv, TypeOK
<1>2. /\ rdptr_oclk' = IF read_from_ram(ready) THEN Inc(rdptr_oclk) ELSE rdptr_oclk
      /\ axis_o_tvalid' = (read_from_ram(ready) \/ (axis_o_tvalid /\ ~ready))
      /\ taken' = IF axis_o_tvalid /\ ready THEN 1 - taken ELSE taken
      /\ axis_o' = IF read_from_ram(ready) THEN dob ELSE axis_o
  BY DEF ReadSide
<1>3. out # NoWord <=> axis_o_tvalid
  BY <1>1
<1>4. CASE ~read_from_ram(ready) /\ axis_o_tvalid /\ ready
  <2>1. Queue!Take(0)
    BY <1>2, <1>3, <1>4 DEF Queue!Take
  <2>. QED
    BY <1>2, <1>4, <2>1 DEF QueueReadsBy
<1>5. CASE ~read_from_ram(ready) /\ ~(axis_o_tvalid /\ ready)
  <2>1. axis_o_tvalid' <=> axis_o_tvalid
    BY <1>2, <1>5
  <2>2. Queue!Hold(0)
    BY <1>2, <1>5, <2>1 DEF Queue!Hold
  <2>. QED
    BY <1>2, <1>5, <2>2 DEF QueueReadsBy
<1>6. CASE read_from_ram(ready)
  <2>1. rdptr_oclk # wrptr_oclk /\ (~axis_o_tvalid \/ ready)
    BY <1>6 DEF read_from_ram
  <2>2. Dist(rdptr_oclk, committed_wrptr_iclk) # 0
    <3>1. Dist(rdptr_oclk, wrptr_oclk) # 0
      BY <1>1, <2>1, DistZero
    <3>2. Dist(rdptr_oclk, wrptr_oclk) <= Dist(rdptr_oclk, committed_wrptr_iclk)
      BY FromReadPointer
    <3>3. Dist(rdptr_oclk, wrptr_oclk) \in Nat /\ Dist(rdptr_oclk, committed_wrptr_iclk) \in Nat
      BY <1>1, DistType
    <3>. QED
      BY <3>1, <3>2, <3>3
  <2>3. C # <<>> /\ Head(C) = dob
    BY <1>1, <1>6, <2>2, Views, WordsHead
  <2>4. out' = dob
    BY <1>2, <1>6
  <2>5. CASE axis_o_tvalid
    <3>1. Queue!TakeAndOffer(1)
      BY <1>2, <1>3, <2>1, <2>3, <2>4, <2>5 DEF Queue!TakeAndOffer
    <3>. QED
      BY <1>2, <1>6, <2>2, <3>1 DEF QueueReadsBy
  <2>6. CASE ~axis_o_tvalid
    <3>1. Queue!Offer(1)
      BY <1>2, <1>3, <2>3, <2>4, <2>6 DEF Queue!Offer
    <3>. QED
      BY <1>2, <1>6, <2>2, <3>1 DEF QueueReadsBy
  <2>. QED
    BY <2>5, <2>6
<1>. QED
  BY <1>4, <1>5, <1>6

LEMMA TakeFirst ==
  ASSUME NEW s \in Seq(Word), NEW t \in Seq(Word)
  PROVE  /\ SubSeq(s, 1, Len(s)) = s
         /\ s # <<>> => Tail(s \o t) = SubSeq(s, 2, Len(s)) \o t
<1>1. SubSeq(s, 1, Len(s)) = s
  BY SubSeqFull
<1>2. s # <<>> => Tail(s) = SubSeq(s, 2, Len(s))
  BY TailIsSubSeq
<1>3. s # <<>> => Tail(s \o t) = Tail(s) \o t
  OBVIOUS
<1>. QED
  BY <1>1, <1>2, <1>3

(* Both sides at once.                                                     *)
LEMMA QueueWork ==
  ASSUME IInv, TypeOK', sresetn, sresetn',
         NEW beat \in Beat \cup {NoWord}, WriteSide(beat),
         \/ QueueReadsBy(0) /\ rdptr_oclk' = rdptr_oclk
         \/ /\ QueueReadsBy(1) /\ rdptr_oclk' = Inc(rdptr_oclk)
            /\ Dist(rdptr_oclk, committed_wrptr_iclk) # 0
  PROVE  Queue!Work
<1>. DEFINE C == WordsFrom(rdptr_oclk, committed_wrptr_iclk)
            O == WordsFrom(committed_wrptr_iclk, wrptr_iclk)
            C2 == Words(ram', rdptr_oclk, committed_wrptr_iclk')
<1>0. PICK v \in Word :
        \E new \in {<<>>, Append(O, v)} :
          /\ Queue!Wait(new) \/ Queue!Drop(new) \/ Queue!Push(v, new)
          /\ C2 = C \o new
  BY QueueWrites
<1>1. PICK new \in {<<>>, Append(O, v)} :
        /\ Queue!Wait(new) \/ Queue!Drop(new) \/ Queue!Push(v, new)
        /\ C2 = C \o new
  BY <1>0
<1>2. /\ rdptr_oclk \in Ptr /\ committed_wrptr_iclk \in Ptr /\ wrptr_iclk \in Ptr
      /\ committed_wrptr_iclk' \in Ptr
      /\ ram \in [Slot -> Word] /\ ram' \in [Slot -> Word]
  BY Types DEF IInv, TypeOK
<1>3. /\ C \in Seq(Word) /\ O \in Seq(Word) /\ C2 \in Seq(Word)
      /\ Len(C) = Dist(rdptr_oclk, committed_wrptr_iclk)
      /\ Len(C2) = Dist(rdptr_oclk, committed_wrptr_iclk')
  <2>1. /\ C = Words(ram, rdptr_oclk, committed_wrptr_iclk)
        /\ O = Words(ram, committed_wrptr_iclk, wrptr_iclk)
    BY Views
  <2>2. /\ C \in Seq(Word) /\ Len(C) = Dist(rdptr_oclk, committed_wrptr_iclk)
        /\ O \in Seq(Word)
    BY <1>2, <2>1, WordsType
  <2>3. C2 \in Seq(Word) /\ Len(C2) = Dist(rdptr_oclk, committed_wrptr_iclk')
    BY <1>2, WordsType
  <2>. QED
    BY <2>2, <2>3
<1>4. new \in Seq(Word)
  <2>. HIDE DEF O
  <2>. QED
    BY <1>1, <1>3
<1>5. C' = Words(ram', rdptr_oclk', committed_wrptr_iclk')
  BY ViewsNext
<1>6. PICK n \in {0, 1} :
        /\ QueueReadsBy(n)
        /\ n = 0 => rdptr_oclk' = rdptr_oclk
        /\ n = 1 => /\ rdptr_oclk' = Inc(rdptr_oclk)
                    /\ Dist(rdptr_oclk, committed_wrptr_iclk) # 0
  OBVIOUS
<1>7. C' = SubSeq(C, n + 1, Len(C)) \o new
  <2>1. CASE n = 0
    <3>1. C' = C \o new
      BY <1>1, <1>5, <1>6, <2>1
    <3>2. SubSeq(C, n + 1, Len(C)) = C
      <4>. HIDE DEF C
      <4>. QED
        BY <1>3, <2>1, TakeFirst
    <3>. QED
      BY <3>1, <3>2
  <2>2. CASE n = 1
    <3>1. C # <<>>
      <4>. HIDE DEF C
      <4>. QED
        BY <1>3, <1>6, <2>2, EmptySeq
    <3>2. Dist(rdptr_oclk, committed_wrptr_iclk') # 0
      <4>. HIDE DEF C, C2
      <4>. QED
        BY <1>1, <1>3, <1>4, <3>1, ConcatProperties, EmptySeq, LenProperties
    <3>3. C' = Tail(C2)
      BY <1>2, <1>5, <1>6, <2>2, <3>2, WordsHead
    <3>4. Tail(C \o new) = SubSeq(C, 2, Len(C)) \o new
      <4>. HIDE DEF C
      <4>. QED
        BY <1>3, <1>4, <3>1, TakeFirst
    <3>5. n + 1 = 2
      BY <2>2
    <3>. HIDE DEF C, C2
    <3>. QED
      BY <1>1, <3>3, <3>4, <3>5
  <2>. QED
    BY <2>1, <2>2
<1>. QED
  BY <1>1, <1>6, <1>7 DEF Queue!Work, QueueReadsBy

(* In the reset nothing is queued; the word on offer may change.           *)
LEMMA QueueDown ==
  ASSUME ~sresetn, ~sresetn', taken' = taken, axis_o_tvalid' = axis_o_tvalid,
         axis_o' \in Word, axis_o_tvalid \in BOOLEAN, axis_o \in Word
  PROVE  Queue!Garble \/ UNCHANGED Queue!vars
<1>1. CASE axis_o_tvalid
  BY <1>1, ViewsDown DEF Queue!Garble
<1>2. CASE ~axis_o_tvalid
  BY <1>2, ViewsDown DEF Queue!vars
<1>. QED
  BY <1>1, <1>2

(* A read at a coinciding edge still gets the word that was there.         *)
LEMMA ReadsStored ==
  ASSUME IInv, sresetn, NEW ready \in BOOLEAN, NEW beat \in Beat \cup {NoWord},
         NEW dob \in Collision(beat), read_from_ram(ready)
  PROVE  dob = ram[Addr(rdptr_oclk)]
<1>1. rdptr_oclk # wrptr_oclk
  BY DEF read_from_ram
<1>2. axis_i_tready => Addr(wrptr_iclk) # Addr(rdptr_oclk)
  BY <1>1, PortsDoNotMeet
<1>. QED
  BY <1>2 DEF Collision

LEMMA QueueInit == Init => Queue!Init
BY ViewsDown DEF Init, Queue!Init

LEMMA QueueStep ==
  ASSUME IInv, IInv', [Next]_vars
  PROVE  [Queue!Next]_(Queue!vars)
<1>1. /\ TypeOK' /\ axis_o \in Word /\ axis_o' \in Word /\ axis_o_tvalid \in BOOLEAN
      /\ ram[Addr(rdptr_oclk)] \in Word
  BY AddrType DEF IInv, TypeOK
<1>2. CASE IClk /\ sresetn
  <2>1. PICK beat \in Beat \cup {NoWord} : WriteSide(beat)
    BY <1>2, EdgeWrites DEF ClockEdge
  <2>2. UNCHANGED <<sresetn, rdptr_oclk, axis_o_tvalid, axis_o, taken>>
    BY <1>2 DEF IClk
  <2>3. QueueReadsBy(0)
    BY <2>2 DEF QueueReadsBy, Queue!Hold
  <2>. QED
    BY <1>1, <1>2, <2>1, <2>2, <2>3, QueueWork DEF Queue!Next
<1>3. ASSUME NEW ready \in BOOLEAN, OClk(ready), sresetn
      PROVE  Queue!Work
  <2>1. PICK beat \in Beat \cup {NoWord} : WriteSide(beat)
    BY <1>3, EdgeWrites DEF ClockEdge
  <2>2. ReadSide(ready, ram[Addr(rdptr_oclk)]) /\ sresetn'
    BY <1>3 DEF OClk
  <2>. QED
    BY <1>1, <1>3, <2>1, <2>2, QueueReads, QueueWork
<1>4. ASSUME NEW ready \in BOOLEAN, BothClks(ready), sresetn
      PROVE  Queue!Work
  <2>1. PICK beat \in Beat \cup {NoWord} :
          /\ WriteSide(beat)
          /\ \E dob \in Collision(beat) : ReadSide(ready, dob)
    BY <1>4, InputTypes DEF BothClks
  <2>2. PICK dob \in Collision(beat) : ReadSide(ready, dob)
    BY <2>1
  <2>3. dob \in Word
    BY <1>1 DEF Collision
  <2>4. read_from_ram(ready) => dob = ram[Addr(rdptr_oclk)]
    BY <1>4, ReadsStored
  <2>5. sresetn'
    BY <1>4 DEF BothClks
  <2>. QED
    BY <1>1, <1>4, <2>1, <2>2, <2>3, <2>4, <2>5, QueueReads, QueueWork
<1>5. CASE ClockEdge /\ ~sresetn
  <2>1. ~sresetn'
    BY <1>5, EdgeWrites
  <2>2. taken' = taken /\ axis_o_tvalid' = axis_o_tvalid
    BY <1>5 DEF ClockEdge, IClk, OClk, BothClks, ReadSide
  <2>. QED
    BY <1>1, <1>5, <2>1, <2>2, QueueDown DEF Queue!Next
<1>6. CASE AssertReset
  BY <1>6, ViewsDown DEF AssertReset, Registers, Queue!Next, Queue!Fail
<1>7. CASE ReleaseReset
  <2>1. /\ ~sresetn /\ sresetn'
        /\ UNCHANGED <<axis_o_tvalid, axis_o, taken>>
    BY <1>7 DEF ReleaseReset, Registers
  <2>. QED
    BY <1>1, <1>7, <2>1, ReleaseIsEmpty, ViewsDown DEF Queue!Next, Queue!Restart
<1>8. CASE UNCHANGED vars
  BY <1>8 DEF vars, Queue!vars, WordsFrom
<1>. QED
  BY <1>2, <1>3, <1>4, <1>5, <1>6, <1>7, <1>8, NextIsClockEdge
  DEF ClockEdge, Queue!Next

(* The asynchronous packet FIFO is a queue of whole packets: in spite of   *)
(* pointers that arrive late, drops and resets, the sink gets the words of *)
(* committed packets, in order, each exactly once, and no others.          *)
THEOREM QueueRefinement == Spec => QueueSpec
<1>1. IInv /\ IInv' /\ [Next]_vars => [Queue!Next]_(Queue!vars)
  BY QueueStep
<1>. QED
  BY <1>1, QueueInit, InitIInv, StepIInv, PTL DEF Spec, QueueSpec, Queue!Spec
=============================================================================
