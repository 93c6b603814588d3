--------------------------- MODULE VerilatedModel ---------------------------
(***************************************************************************)
(* Time, clock and reset of a test bench (sim/verilator/VerilatedModel.hpp,*)
(* sim/other/ClockGen.hpp, sim/other/ResetGen.hpp).                        *)
(*                                                                         *)
(* VerilatedModel::eval advances the time by one tick.  All that anything  *)
(* in a bench looks at is the remainder of the time by the length of a     *)
(* clock period, so that is what a bench keeps of it.                      *)
(***************************************************************************)
EXTENDS Integers

CONSTANT TicksPerClock  \* round((1/freq) * (1/resolution))

\* With a period of one tick ClockGen would report a rising edge in every
\* evaluation and the model's clock would never be low.
ASSUME TicksAssumption == TicksPerClock \in Nat /\ TicksPerClock >= 2

Ticks == 0 .. TicksPerClock - 1

\* The tick at which the clock rises.
HalfClock == TicksPerClock \div 2

NextTick(time) == (time + 1) % TicksPerClock

\* The level that ClockBind drives onto the clock pin.
getVal(time) == time >= HalfClock

\* Mutant: the events are exchanged.
getEventSwapped(time) ==
  CASE time = 0         -> "RISING"
    [] time = HalfClock -> "FALLING"
    [] OTHER            -> "NONE"

\* What a peripheral is told, from the same time but on its own.
getEvent(time) ==
  CASE time = 0         -> "FALLING"
    [] time = HalfClock -> "RISING"
    [] OTHER            -> "NONE"

ResetEdges == 5

\* Mutant: the counter stops one edge early.
ResetCountShort(count, event) ==
  IF event = "RISING" /\ count < ResetEdges - 1 THEN count + 1 ELSE count

\* The counter of ResetGen after an evaluation.
ResetCount(count, event) ==
  IF event = "RISING" /\ count < ResetEdges THEN count + 1 ELSE count

\* The pin: driven low at construction, turned round by the last counted edge.
Released(count) == count = ResetEdges
=============================================================================
