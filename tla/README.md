# hdl_common in TLA+

A verification development for `hdl_common`, a library of SystemVerilog building blocks (AXI
streams, Ethernet, Wishbone) with a C++ framework for Verilator test benches. The test benches drive
one packet or one transfer at a time, with sinks that are always ready, one clock for every domain and
a reset of five edges. What they cannot reach is what is modelled here: clocks of unrelated rates,
back-pressure at any edge, errors, overflows and resets in the middle of a packet; and the framework
itself, whose peripherals have to agree with the design on every edge, whatever their order.

Paths below are relative to the repository (`src/` in `PROJECT.json`).

## 1. The system

| Component | State | Operations (one per clock edge) | Interacts with | What makes it correct |
|---|---|---|---|---|
| `synth/other/cdc_sync`, `cdc_pulse`, `cdc_vector` | flip-flop chains, `en_iclk`, `i_reg`, `i_tready_sig`, `o`, `o_strb` | edge of `iclk`, edge of `oclk` | both pointers of the asynchronous FIFO cross by it | a word crosses whole, once, in order; the handshake never wedges |
| `synth/axis/axis_packet_fifo_async` + `simple_dual_port_two_clocks` | write, commit and read pointer, their copies, RAM, output valid | write, drop, commit on `i_clk`; read on `o_clk`; reset | error filter in front, framer or user behind | a queue of whole packets; no slot overwritten before it is read; full and empty err on the safe side |
| `synth/axis/axis_error_filter_async` + `axis_register` | overflow flag, one beat | edge of `i_clk` with or without a word, reset | receive MAC in front, FIFO behind | unbroken runs of error-free words get through; every overflow ends |
| `synth/network/gmii_rx_mac_async` | input registers, state, lane counter, word under construction | edge of `eth_clk`, reset | PHY, error filter | one packet per good frame, all of its bytes and no others |
| `axis_fifo`, `axis_packet_fifo` | pointers, RAM | push, pop, drop | most stream modules | order, no loss, whole packets |
| `axis_width_converter`, `axis_packer`, `axis_header_tagger` | lane counter, residue of a word | one beat in, one out | framers, deframers, header generators | the bytes out are the bytes in, packets keep their ends |
| `axis_padder`, `axis_trimmer`, `axis_spacer`, `axis_gater`, `axis_counter` | a counter | one beat | framer, IP deframer | packet length at least / at most / exactly |
| `axis_broadcaster`, `axis_joiner`, `axis_round_robin`, `axis_switch` | selected stream, pending flags | one beat, change of stream at `tlast` | checksum and header modules | every beat to every/one sink once, packets not mixed |
| `rom_to_axis`, `vector_to_axis`, `axis_spi_bridge` | shift register, counter | one beat | header generators, Wishbone-SPI bridge | all words once, last in place |
| `gmii_tx_mac` | framing state, CRC, byte counter | edge of the clock | packet FIFO in front | preamble, padding, CRC, gap, and no gap inside a frame |
| `eth_framer`, `eth_deframer`, `eth_crc`, `arp_engine` | header words, request under work | one beat | both MACs | a reply per request, to the requester |
| `ip_*`, `tcp_*`, `udp_*` | header counters, checksum accumulator | one beat | tagger, deframer | the checksum of what is sent; the header stripped at the right word |
| `wb_sdram`, `wb_sdram_controller` | command queue, bank and row state, timing counters, refresh counter | Wishbone request, command to the device, refresh | the memory chip | device timing respected, data to the right request, refresh in time |
| `serial_wb_master`, `wb_interconnect`, bridges, `uart_*` | command state, outstanding count, baud counter | one byte, one Wishbone cycle | a host over UART | answers in order, none lost |
| `reset_gen`, `debouncer` | a counter | one edge | everything | reset long enough |
| `sim/verilator`, `ClockGen`, `ResetGen` | time, input latches, a counter | `VerilatedModel::eval`: clocks, latch, model, peripherals | every test bench | all peripherals and the model see the same edge, in any order of registration |
| `sim/axis/AXISSource`, `AXISSink`, `PacketSourceSink` | packet, iterator, bytes so far | one evaluation | streams of the design | every byte of every packet once, ends in place |
| `sim/other/Uart`, `SpiSlave`, `FlashSpiDevice` | bit timers and counters, byte under way, command state | one evaluation | `uart_*`, `wb_to_spi_master` | in step with the design although they measure time differently; their asserts hold |
| `sim/network/GMIISource`, `GMIISink`, `TunTap`, `DummyRMII` | frame so far, gap counter | one evaluation | both MACs | frames, gaps and CRC as the standard has them |

The modules talk by `tvalid`/`tready` handshakes within a clock domain, by `cdc_vector` across
domains, and by a plain `valid` without `ready` where the source cannot wait (a PHY). The hard
behaviours are: two clocks that interleave in any way and sample each other's changing bits; decisions
taken from pointers that are several edges old; a drop or a reset that comes when pointers are on
their way; sources that cannot wait; packets that end in the middle of a word; counters at their
boundary.

## 2. Plan

1. **Crossings and the receive path** (done): `CdcDatapath`, `CdcVector`, `PacketFifoAsync`,
   `ErrorFilterAsync`, `GmiiRxMac`, with the abstract specifications `Mailbox`, `PacketQueue`,
   `PacketFifoWriter`.
2. **The test bench framework and the designs on its other side** (done): `VerilatedModel`;
   `AxisBench` (source, width converter, sink), `UartLink` with `Channel`, `SpiFlash`, `GmiiTxMac`.
3. **Proofs** (done, section 6): every safety property of the runs, for the crossings, the FIFO, the
   error filter, both MACs, the UART, the SPI path and the test bench around the width converter.
4. **SDRAM**: `SdramController` (command scheduling with timing counters against an abstract memory
   device that says which command is legal when) and `WbSdram` (the Wishbone front end, its three
   FIFOs and the controller), refining a memory that answers requests in order. Bounds: two banks, two
   rows, short timing constants.
5. **Stream reshaping**: packer and header tagger, composed as `eth_framer` and `eth_deframer` do.
6. **ARP path**: `GMIISource`, `arp_engine` between deframer and framer, `axis_packet_fifo` and
   `gmii_tx_mac`, with `TunTap` at both ends.
7. **Serial master**: `serial_wb_master` and `wb_interconnect` behind the UART.

The hazards without a property in `PROJECT.json` each belong to one of these steps.

## 3. Modules

### Crossings: `CdcDatapath`, `CdcVector`, `Mailbox`

`CdcDatapath` has the registers of one `cdc_vector` as a record and each clock edge as an operator on
it, since the FIFO needs two instances. `i_tready`, `en_iclk`, `i_reg`, `o`, `o_strb` have the code's
names; `ackogen` and `ackigen` are the two `cdc_pulse` instances, with `tmp` of their `cdc_sync`.
`InputEdge` is the two `posedge iclk` blocks with the edge of `ackigen`, `OutputEdge` the `posedge
oclk` block with that of `ackogen`.

Edges of the two clocks are separate steps, in any order, so every ratio and phase occurs.
`CoincidingEdges` is the case of edges so close that a flip-flop samples a signal while it changes: a
bit resolves to its old or its new value, and a *word* that changes at that moment resolves to
anything. `NoTornSample` and the refinement show that this never reaches `o`.

`CdcVector` is one such record, `ch`, with a producer that offers any word at any edge. It implements
`Mailbox` (a word that was put in is shown, whole, before the next is taken).

### Asynchronous packet FIFO: `PacketFifoAsync`, `PacketQueue`, `PacketFifoWriter`

Variables have the code's names; `wrptr_i_to_o` and `rdptr_o_to_i` are the two crossings, whose `o`
are `wrptr_oclk` and `rdptr_iclk`; `ram` and `axis_o` belong to `simple_dual_port_two_clocks`.
`MovePointers` is the `i_clk` block, `ReadSide` the `o_clk` block with the RAM's read port,
`Collision` what the RAM may return if both ports hit one slot at coinciding edges (anything; shown
never to happen). `Offered` and `Readiness` leave out inputs that make no difference at an edge: a
refused beat, a sink's readiness while nothing is on offer. `taken` is a history variable: without it two equal words could not be told from
one that stays.

The FIFO refines `PacketQueue`: a bounded queue from which a packet is visible to the sink only when
its last word is in, which forgets a dropped packet whole, and hands out one word at a time. Its
committed and open words are those of the RAM between the pointers. It also refines
`PacketFifoWriter`, what its *user* in the domain of `i_clk` can know: the open words and a number of
used slots that falls whenever a read pointer crosses over. The error filter is composed with this
view, so that the crossings and the RAM need not be explored again.

**The reset.** `AssertReset` may come at any time. A `cdc_vector` has no reset and brings a pointer
from before it to a side that has already started, if the reset is too short, and the code states no
bound. The model has one: `ReleaseReset` needs `ResetRounds` rounds, `3 * SYNC_STAGES + 5`, where a
round is over when both clocks have had an edge in it, so a round is about an edge of the slower clock
(`held` and `seen` count them and are history variables). That zeros have then crossed both ways is
not assumed but the property `ResetCrosses`. The bound is tight: with a round less, TLC finds
`ResetCrosses` and `PointerOrder` violated. It is eleven for the two flip-flops of the code:
`reset_gen` (100 edges) is long enough for clocks whose rates differ by a factor of up to eight; the five edges of
`sim/other/ResetGen.hpp` would be too few in the middle of a transfer, and do only because a bench
resets once, at power-up. The reset does not clear `axis_o_tvalid`, and the RAM's output register may
still load during it: the sink may be offered one word of before the reset, even another one than
before (`Garble` of `PacketQueue`).

**Power-up** clears all registers, as `reset_gen.sv:22` says of the target.

### Error filter: `ErrorFilterAsync`

`overflowed_reg`, the `axis_register` (`axis_reg`), and the write side of the FIFO, in one clock
domain. The source presents packets word by word with any gaps and errors, and holds its outputs in
between. `hit` is a history variable: whether the packet at the input, and the one before, lost a
word. `Reset` is a whole reset at once; the source is reset with it.

### Receive MAC: `GmiiRxMac`

One action per state of the state machine, each an edge of `eth_clk`. A byte is its value, as far as
the code compares it, with a tag that says which byte of which frame it is and whether `eth_rxer` came
with it or before it. The reset overrides the state at the end of the block (`Goto`), as in the code;
everything else goes on during it. `sent` is a history variable: what the error filter holds of the
current packet.

The PHY (external) sends frames with a preamble of any length, noise that ends in the preamble, noise
without one, one error in the payload; after the error the bytes may look like a preamble.

### Test bench framework: `VerilatedModel`, `AxisBench`

`VerilatedModel` has what every bench needs: the time, of which only the remainder by the clock period
is looked at, the level on the clock pin (`getVal`), the event that each peripheral computes for
itself (`getEvent`), the counter of `ResetGen`. The other bench modules extend it.

`AxisBench` is a bench with every step of `VerilatedModel::eval` on its own: `EvalModel` (time, clock
pin, latches, model), then one step per peripheral, in an order chosen once. `saved` is what the
`InputLatch`es hold, `pins` what the model last drove; a peripheral writes its pins at once, the model
sees them at its next evaluation. The design is `axis_width_converter.sv`, in both directions and as a
wire; lanes that `tkeep` leaves out are `NoByte`. The source is packed or uses the lanes that `rand()`
picks, the sink checks for packed beats or does not, and a sink that is not the library's may stall.
Three history variables: `lost`, for the one way in which the converter loses the end of a packet
(`LosesLast`); `begun` and `arrived`, the bytes of the packets that the source has begun and those that
the sink has been given, which tell a lost byte from a lost end.

### UART: `UartLink`, `Channel`

One step per evaluation; `HostRx` and `HostTx` are `rx_eval` and `tx_eval`, with their `switch`es as
operators, `DutRx` and `DutTx` the clocked blocks of `uart_rx.sv` and `uart_tx.sv`, behind `SyncShift`
of `CdcDatapath`. The peripheral counts evaluations, the modules clocks, and neither knows the other's
phase: bytes begin at any evaluation, in both directions at once. `Capture` is whoever is behind
`uart_rx` (external). Each direction implements a `Channel`: what was sent arrives once, unchanged, in
order. A bit of the peripheral lasts `bit_interval + 1` evaluations, so the exact setting is one less
than the length of a bit. `HostBits` and `DutBits` are the two rulers, and `Tolerated` says how far apart
they may be: each of its four conditions is one end's sample of the stop bit, neither before the other
end has put it on the line nor after it is over. `Byte` is what both ends send.

### SPI: `SpiFlash`

`ConfigEdge`, `RegisterEdge`, `InjectEdge`, `FifoEdge` and `BridgeEdge` are the clocked blocks of
`wb_to_spi_master.sv`, the register in `wb_axis_bridge.sv` and `axis_spi_bridge.sv`; `EvalSlave` is
`SpiSlave::eval`, with `ss` looked at before `sck` as there (`Selected`, then `Sampled` or `Shifted`;
`Aborts` are its assertions), and `Ret`, `transfer`, `ss_fall` the flash. The Wishbone master (`Requests`, external) writes the configuration whenever it likes; it sends
bytes only to the selected device, begins with a known instruction, and does not mix writes with
injected bytes, as the comment at `wb_to_spi_master.sv:116` asks. Without that discipline the
assertions of the two C++ classes can fail: zero in the inject register in the middle of an injected
byte lifts the stall of the configuration, and bytes sent with `ss` high still move the slave.
What the master reads back (acknowledgements, the data of a read) and the latency of the result FIFO
are left out. `selection` and `due` are history variables: which byte after which instruction the bridge is at.

### Transmit MAC: `GmiiTxMac`

One step per rising edge; `TransmitMac` is the clocked block with `next_state` and the
`axis_register` in front, `SinkTakesByte`, `SinkEndsPacket` and `SinkIdle` the branches of
`GMIISink::eval` on the latched pins. What the sink would complain of is kept in `threw` and, for the
gap, whose exception `GMIISink.cpp:23` builds but does not throw, in `gap_violated`. The CRC of some
bytes is the sequence of these bytes. The FIFO in front (external) shows a packet when it has all of
it; the value of `tlast` without `tvalid` is open. `swallowed` is a history variable: a byte of the
next packet went out as padding.

## 4. Runs

| Run | Shows | Bounds |
|---|---|---|
| `cdc_vector` | `VectorTypeOK`, one toggle on the ring (`HandshakeInv`), `NoTornSample`, refinement of `Mailbox`, every word is shown, ready again and again | two flip-flops as in the code, three words |
| `packet_fifo` | `TypeOK`, `ResetCrosses`, `PointerOrder`, `NoCollision`, `UnreadStable`, `OfferStable`, refinement of `PacketQueue` and of `PacketFifoWriter` | a RAM of two words, one flip-flop per synchroniser, payloads that differ in `tlast` only, resets of eight rounds or more, which come and go while the words in the RAM are alike (`WordsAlike`; the pointers and crossings do not look at words, and the proofs have no such bound) |
| `packet_fifo_live` | what is committed is read; a full FIFO gets room again | the same |
| `error_filter` | what is committed is an unbroken run of words up to `tlast`, from the first word of a packet or the one after an error; the flag is up only for the packet that overflowed and the next; nothing else is dropped; every overflow ends; ready again and again | packets of up to three words, a RAM of three |
| `error_filter_oversize` | *violated*: a packet of three words in a RAM of two is never discarded | |
| `gmii_rx_mac` | packets are frames (with two exceptions, below); every good frame goes out | words of three lanes, frames of 0, 1 and 5 bytes, gaps of two edges or more |
| `gmii_rx_packing` | *violated*: the next frame does not start in the first lane | words of four lanes, frames of two bytes |
| `axis_bench` | nobody writes a pin between the model's last evaluation and the edge (`SettledBeforeEdge`); as long as the sink has not thrown, every byte is somewhere, once, in order, whatever the stalls; the end of a packet is lost only from narrow to wide with a sink that stalls; until then packets arrive whole (`Conservation`); packed beats stay packed; every packet arrives | all orders of three peripherals; widths one to four with six pairs of them, packets that end in every lane and an empty one, a clock period of three ticks |
| `uart` | no assertion on start and stop bits fails; both lines are channels; every byte arrives | eleven clocks or 22 evaluations a bit, bit intervals of 21 (exact) and 22; two bytes one way or one each way; two byte values that tell every shift |
| `spi_flash` | no assertion of slave and device fails; every result is the flash's answer for its place | instructions 9F, AB and 05; up to six bytes in a selection, any number of selections; two injected bytes at once; two results buffered |
| `gmii_tx` | the sink's checks hold, the gap included; packets arrive whole, as frames of their own | the minimum of 64 bytes that the code's counter of six bits gives; two packets of 2, 63 and 64 bytes |
| `gmii_tx_long` | *violated*: the last byte is sent before the CRC | packets of 65 bytes |

Why the bounds are enough. Two slots give every relation of the pointers (empty, partly full, full,
wrapped, one slot read while the other is written) and the proofs below hold for every depth and any
number of flip-flops; one flip-flop is the shortest crossing and more only delay it. In the error
filter three words give a first, a middle and a last one, and a packet that fills the RAM exactly.
In the MAC a frame of five bytes holds an error, a false preamble and a byte after it, and leaves the
last word of three lanes unfilled; frames of one byte and of none are the edges of the state machine.

In `uart` and `spi_flash` a clock of two ticks is the shortest there is, with the least time between
what a peripheral writes and the edge that sees it; in `axis_bench` three ticks give an evaluation
without an event as well. Two bytes back to back are what makes a receiver of the
UART find a start bit anew, one each way makes both ends send and receive at once. The two bit
intervals are all that `Tolerated` admits at this rate, and no other works: with 20 or 23, and without
`RulersAssumption`, TLC finds a sample in the wrong bit. Six bytes in a selection are one more than the flash tells
apart. Two packets suffice for the transmit MAC: with the second it is in every state of the first,
and nothing else is kept from one frame to the next.

**Fairness.** A clock is fair: its edges keep coming, alone or together with those of the other. The
FIFO's sink is ready at infinitely many edges of `o_clk`. For the error filter, the FIFO's read
pointer keeps crossing over while words are used, which is what `packet_fifo_live` shows of the FIFO
and the crossing. Nothing is assumed of how metastable samples resolve, nor of the source. The reset
comes once in `packet_fifo_live`: a system reset for ever makes no progress. A test bench goes on
calling `eval()` (weak fairness of the step); in `axis_bench` a sink that stalls is ready again and
again, and `rand()` does not leave out every byte for ever (strong fairness of the steps that make
progress). `axis_bench` does not check for deadlock: a bench ends when its sink throws, which the strict sinks
behind an unpacked source of one lane do.

**Exceptions in `PacketsAreFrames`.** The property says what the code does, and the exceptions are
worth knowing: (1) up to `AXIS_BYTES - 1` stale bytes in front (`gmii_rx_packing`); (2) the rest of a
frame after an error, if it contains `55 .. D5`: the machine goes to `SM_PREAMBLE` while the frame is
still on (`gmii_rx_mac_async.sv:139-143`), and the error filter, which does not remember `i_error`,
lets it pass; (3) a frame that ends with its delimiter gives one byte that was not part of it.
`MinGap` is two edges because with a gap of one, (3) runs into the next frame; the standard's gap is
twelve, `GMIISource.cpp` uses twelve.

## 5. Findings

* `error_filter_oversize`: `axis_error_filter_async.sv:49-50` promises to discard a packet that
  overflows. One longer than the FIFO fills it with uncommitted words, and the beat that would drop
  them needs a free slot: the receive path is stuck until the next reset. `axis_packet_fifo.sv:27`
  admits the same of the synchronous FIFO.
* `error_filter`: `axis_error_filter_async.sv:2` says "Drop the remainder of the packet up until tlast
  if error ever goes high". The code drops what came *before* the error: line 57 marks the beat that
  comes with `i_error`, nothing remembers it, and the words after it go through as a packet of their
  own. `PassedThrough` holds of them too, and `UnbrokenRuns` cannot do without the run that begins
  after an error (`after`).
* `gmii_rx_packing`: `ctr` is not cleared between frames, so a frame after one whose length is not a
  multiple of `AXIS_BYTES` starts in the middle of a word, behind kept bytes of the old frame. With
  `AXIS_BYTES = 1` it cannot happen; `arp_engine_harness_with_mac.sv` uses 4.
* `gmii_tx_long`: `gmii_tx_mac.sv:242` goes to the CRC when the last byte enters the register in front
  of the state machine, one byte before it is sent. Up to 64 bytes `length_ok` hides it; every longer
  packet loses its last byte, and the next frame begins with it. The CRC covers the bytes that were
  sent, so no receiver notices. No test drives this module.
* Part of `FramesArrive`: the register is read during padding too (`gmii_tx_mac.sv:153`), so a packet
  that waits while a short one is sent loses its beginning to the padding.
* Part of `Conservation`: from narrow to wide, `axis_width_converter.sv:93` accepts a last beat that
  completes a word early while the sink is not ready, and the end of the packet is lost: `tlast`, but
  none of its bytes, which the converter keeps for the beginning of the next packet. `AXISSink` never stalls, so no
  test of the repository meets it. The comment at line 13 says the widths need not be multiples of
  each other; from two to three bytes, bytes are lost, whatever the sink does. `BenchesAssumption`
  leaves out these widths, and nothing is checked or proved of them.
* Seen in `sim/`, without a run: `GMIISink.cpp:23` builds its exception without throwing it;
  `GMIISource.cpp:31` appends the CRC in the order opposite to the one `GMIISink.cpp:59` reads;
  `Peripheral::removeInput` calls `std::remove` without erasing; `Uart`, `SpiSlave` and `DummyRMII`
  still use a constructor without the model that `Peripheral` no longer has, and are modelled as they
  are meant to be registered; `uart_rx` and `uart_tx` do not work with a power of two of clocks per
  bit (`ClksAssumption`); `TunTap.cpp:40` reads the MTU from a union that holds the flags.
* Not a run, but part of `OverflowIsRecent` and `PassedThrough`: an overflow at the last word of a
  packet also drops the whole next packet.

## 6. Proofs

`CdcVector_proofs`, for any number of flip-flops and any set of words: `VectorTypeCorrect`,
`HandshakeCorrect`, `NeverTorn`, `Refinement`. The inductive invariant is that the bits of both
synchronisers, read as a ring in the order in which a toggle travels, have one front (`FrontAt`), and
that `i_tready` says whether it has gone all the way round. `NoTornSample` alone is not inductive:
whether `i_reg` stands still follows only from where the front is. Its first half is lemmas on a record of
`CdcDatapath`, which move the front by each kind of edge; the FIFO's proofs, which extend this module, use
them for both of its crossings.

`PacketFifoAsync_proofs`, for any depth and any number of flip-flops: `TypeCorrect`,
`ResetCrossesCorrect`, `PointerOrderCorrect`, `NoCollisionCorrect`, `UnreadStableCorrect`,
`OfferStableCorrect`. `PointerOrder` is the invariant: it orders the seven pointers and copies, those
in flight included, by their distance from the oldest. The word that a crossing is about to show lies
between the copy shown and the pointer it came from, so each edge moves one of them towards the next
without passing it. `NoCollision` and `UnreadStable` follow from the order. The
order is established anew when the reset is released, which is where `ResetCrosses` is needed. That in
turn follows from a count (`ResetInv`): once the pointer at the input of a crossing is zero, `Todo` is the number of
moves the toggle has before it until a zero is shown: round the ring, a new word, and half round again.
An edge of the clock that the toggle waits for moves it on (`FrontMoves`), every round has such an
edge, and so `Todo` and the rounds that the reset has lasted stay within `ResetRounds` (`CrossesStep`).

Its second half has `QueueRefinement` and `WriterRefinement`, the FIFO against both of its abstract
specifications. The lemmas on `Words` say what the RAM holds between two pointers: stepping
a pointer adds or removes one word (`WordsSnoc`, `WordsHead`), a commit joins two stretches
(`WordsCut`), a write behind them leaves them alone (`WordsFrame`; this is where the order of the
pointers is needed). Each edge is then a step of the two sides of the queue, which act independently
(`QueueWrites`, `QueueReads`, joined by `QueueWork`); that a read at a coinciding edge gets the stored
word is `NoCollision` again.

`ErrorFilterAsync_proofs`, for packets of any length and a RAM of any depth: `TypeCorrect`,
`UnbrokenRunsCorrect`, `OverflowIsRecentCorrect`, `PassedThroughCorrect`. `UnbrokenRuns` speaks of the
moment of a commit; the invariant follows the packet up to there: the open words together with the
beat in the register (`Pending`) are consecutive, and unless the filter is in overflow they end with
the word at the input (`InputContinues`), so that the next word continues them or may start a packet.

`AxisBench_proofs`, for any set of benches in which a word that is made wider goes into a wide one a whole
number of times (`BenchesAssumption`; from wide to narrow, any two widths), any order of registration and any clock period:
`SettledCorrect`. The invariant is that pins and model agree except between a rise of the clock and the
next evaluation, and that the clock pin is what the time says. The next evaluation cannot be a rise,
because a period has at least two ticks.

`PackedIsAcceptedCorrect`, for the same benches, any packets and any stalls: the beats of a packed
source stay packed up to the sink. The invariant (`PackedInv`) follows a beat from the source
(`SourceInv`: a first stretch of the lanes is kept, all of them but at the end of a packet) through the
converter's register (`Filled`: the lanes below the counter are all kept, those above the word on the
pins are not) to the pins and the sink's latch. A lane not kept in front of one that is could only
come from a short beat in the middle of a packet, or from the register's contents before the reset;
that is why the invariant also says that the source does not move before the converter has seen the
reset (`ResetInv`, `BeatInv`).

`TypeCorrect` and `ConservationCorrect`, for the same benches: as long as the sink has not thrown, no
byte is lost, doubled or reordered, whatever the sink's stalls; the end of a packet is lost only from
narrow to wide and with a sink that stalls; as long as none is, every packet arrives whole. `Conservation` holds between evaluations; within one, the model has handed over a beat of which
the sink or the source still waits to be told. `ConsInv` counts for both: what the sink is due
(`SinkDue`) is counted as received, what the source is due to take down (`SourceDue`) as no longer on
offer. So `BytesConserved`
(the bytes) and `Conserved` (the packets, while no end is lost) change at the rise of the clock only, where `HandOver` shows that the bytes in the
converter and on offer are those given, those kept and those still on offer, and then the peripherals
may catch up in any order. `Conserved` also says that a packet under way has bytes left exactly while
the source has something to send: without it an empty packet could not be told from none. It needs that
the lanes beyond the word at the counter are blank (`AheadInv`) and that `tlast` is on the beat with
the last byte (`LastInv`). `SettledBeforeEdge` is what makes the latches agree with the model. The
lemmas before it are about bytes selected by `tkeep` from lanes of any number: what is chosen of a
concatenation is the concatenation of what is chosen (`ChosenConcat`), and `NextBeat` says of
`setupNextData` that lanes and rest together are the packet, whichever lanes `rand()` picks.

`GmiiRxMac_proofs`, for any width of a word, any set of frame lengths with a largest one, any gap and
reset of two edges or more: `TypeCorrect`, `PacketsAreFramesCorrect`, `FramesGoOutCorrect`. What counts
is what the error filter will hold of a packet together with the lanes filled so far (`Held`). While
the machine puts out a frame, that is at most a word less one lane of stale bytes and then the bytes of
the frame at the input, each in its place, from the first one or from where the machine
resynchronised (`Collects`); each edge appends the byte at the input (`OutputAppends`), whether it
completes a word or not. Outside of `SM_OUTPUT` the error filter holds nothing (`EmptyInv`), and the
stale bytes are those of the lanes below `ctr`. `PhaseInv` keeps the state machine in step with a frame
that no reset has hit, whatever noise came before. Both bounds of two are needed: with a gap of one a
frame that ends with its delimiter fills a lane without ending the packet, with a reset of one edge a
word that is not the last stays behind; TLC shows both.

`GmiiTxMac_proofs`, for any even minimum length from 16 on (the code has 64, the range of a counter of
six bits), any lengths and any number of packets: `TypeCorrect`, `SinkAcceptsCorrect`. The invariant
gives for every state of the MAC how many bytes of the frame it has sent (`Sent`) and which byte is in
which place (`ByteAt`: preamble, delimiter, the bytes in `crc`, the CRC of these), that the sink has
them but for the one on the pins (`LineInv`), and that the sink's gap counter has run out when the next
frame reaches it (`GapInv`). `MacInv` says why a frame is long enough: `length_ok` comes up a byte
before the minimum. `SinkAccepts` alone says nothing of a frame before it ends.

`SpiFlash_proofs`, for any set of known instructions, any depth of the result FIFO, any period:
`TypeCorrect`, `NoAbortCorrect`, `ResultsCorrect`. The slave is an evaluation behind the bridge, so the
invariant (`LineInv`) speaks of the slave as it will be once it has seen the pins, `SlaveAfter`: then its
bit counter is the bridge's, the flash is in the state that the number of bytes in this selection
calls for (`StateAfter`), and both ends have the same bits of the byte that passes (`Passed`).
`SeenInv` says that between two rising edges the slave has caught up, which takes a period of at
least two ticks. `RequestInv` ties the bytes asked for to those sent: a byte on the line keeps the
configuration stalled, so `ss` rises only between bytes.

`UartLink_proofs`, for any clock period, any number of clocks per bit that fits the counters, any bit
interval that is tolerated, any set of bytes and any number of them: `TypeCorrect`,
`NoFramingErrorCorrect`, `LinesAreChannelsCorrect`. `NoFramingError` is far from inductive: that a sample
hits the bit it should depends on all that both ends have counted since the start bit. So the invariant
puts the counters of an end together to its place in the byte, in evaluations: `HostTxAt` and `HostRxAt`
for the peripheral, `Position` for the modules, and `OnLine` says what is on the line at a place. Each
direction is then always in one of a few situations.

* Down, from the terminal (`DownLine`): nothing is under way; a start bit is still in the synchroniser
  (`DownPending`); `uart_rx` is reading (`DownReceiving`), and the place that the latest edge has sampled is
  less than a clock ahead of its counters (`Window`), which is what the phase of the two is worth; or it
  is reading while the peripheral has already taken the next byte (`DownOverlap`), whose start bit must
  not reach it before it is done. The flip-flops of the synchroniser hold what was on the line one, two,
  .. clocks before. `RxBits` says that the bits read so far are right.
* Up (`UpLine`): nothing; a byte whose start bit is not on the line yet; the peripheral is reading and
  both are at the same place, since it sees the line fall at once (`UpHearing`); it has read the stop bit
  before `uart_tx` is through (`UpHeard`), or will read it after `uart_tx` has gone to rest (`UpTail`).

`DownWindow` and `UpWindow` are the arithmetic: from the tolerance at the last bit of a byte follows that
of every bit before. They are where `RulersAssumption` is used. `DownPowerUp` is the reset: the
peripheral starts at the first evaluation, with its pin low until then, so the invariant counts
evaluations (`Elapsed`) to show that the synchroniser is full of ones before `uart_rx` looks at it, and a
start bit on its way is not missed. `ResetAssumption` says what this takes: fewer flip-flops than edges of
reset, and a bit longer than the reset, as every rate of a real UART is. What an evaluation does to the
four state machines is said once each (`HostTxStep`, `DutRxStep`, `DutTxStep`, `HostRxStep`) in terms of
places; the products of counters and lengths stay folded behind these lemmas.

With `WriterRefinement` the two asynchronous modules fit together: what is proved of the error filter with
`PacketFifoWriter` behind it holds with the FIFO behind it.

Assumptions: `SyncStagesAssumption`, `DepthAssumption`, `SizesAssumption`, `TicksAssumption`,
`BenchesAssumption` (the wider stream is a whole number of words of the narrower one),
`SpiAssumption`, `TxAssumption` (the counter slicing of `gmii_tx_mac.sv:110` needs an even minimum),
`LengthsAssumption` and `EdgesAssumption` of the receive MAC, `ClksAssumption`, `LinkAssumption`,
`RulersAssumption` and `ResetAssumption` of the UART (above), and that `NoWord`, `NoBeat`, `NoByte` and
`Empty` are not words, beats or bytes.

Model-checked only: liveness, which is out of the prover's reach (`EveryWordShown`, both `ReadyAgain`,
`CommittedIsRead`, `RoomAgain`, `OverflowDiscards`, `AllDelivered`, `EveryByteArrives`, `FramesArrive`).
Every other property of a passing run is a theorem. That the tolerance of the UART is also necessary is
model-checked for one rate.

## 7. Not modelled

The components with status `not_modelled` in `PROJECT.json`, and of those with status `partly` what
their note says. Of the test bench framework: traces, messages, the pseudo terminal and the network
devices themselves (a byte or a packet is there or is not), and `DummyRMII`, `GMIISource` and `tuser`. CRC, checksum arithmetic and payloads are
data, not control. Modules that do not elaborate (`tcp_header_gen.sv`, `wb_axis_bridge_modified.sv`)
and the body of `axis_splitter.sv`, which is commented out, have no behaviour to model. `tdata`,
`tuser` and `tkeep` of the FIFO are one payload: it does not look at them.
