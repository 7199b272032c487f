---- MODULE DataFrameContents ----
(***************************************************************************)
(* A decoded data frame: one light pulse seen by one sensor of the deck    *)
(* (class DataFrameContents of datatypes.hpp).  The fields no decision of  *)
(* the code depends on (width, beam_word, raw_data) are left out; padding  *)
(* is checked before a frame exists, in module FrameSync.                  *)
(***************************************************************************)
EXTENDS Timestamps

CONSTANTS
    Sensor,      \* sensor ids, 0..3 in the code (kPulseProcessorNSensors of them)
    Npoly,       \* the six bit polynomial fields a frame may carry
    SyncOffset   \* offsets from the rotor's zero crossing, 0 when not measured

ASSUME FrameAssumption ==
    /\ Npoly \subseteq 0 .. 63
    /\ SyncOffset \subseteq Timestamp

DataFrame == [sid : Sensor, npoly : Npoly, sync_offset : SyncOffset,
              timestamp : Timestamp]

\* Bit 5 of npoly is set when the polynomial was not identified.
validNpoly(frame) == frame.npoly < 32

slowBit(frame) == frame.npoly % 2

\* Counted from 1: a valid npoly gives 1..16.
baseStationId(frame) == frame.npoly \div 2 + 1

\* The frame that measured the offset to the rotor's zero crossing.
hasOffset(frame) == frame.sync_offset # 0

\* Mutant of rotorZero: the difference is not reduced to the counter's width.
rotorZeroUnmasked(frame) == frame.timestamp - frame.sync_offset

\* When the rotor crossed zero, from a frame that measured its offset to it.
rotorZero(frame) == timestampDiff(frame.timestamp, frame.sync_offset)

====
