---- MODULE MeasurementProcessor ----
(***************************************************************************)
(* MeasurementProcessor (measurement_processor.cpp): pairs the two sweeps  *)
(* a station's rotor makes in one rotation and reports the bearing they    *)
(* give.  The trigonometry is a function of the offsets of the two sweeps, *)
(* so a bearing is kept as those offsets; whether the resulting angles     *)
(* pass bearingsAreValid is an input of the call.                          *)
(***************************************************************************)
EXTENDS Timestamps, Sequences

CONSTANTS
    Station,             \* the channels in use, among 1..16
    MaxTimestamp0Diff,   \* how far apart the zero crossings of a pair may be, 100 ticks
    NoBearing            \* the call reported no bearing

ASSUME MeasurementAssumption ==
    /\ Station \subseteq 1 .. 16
    /\ MaxTimestamp0Diff \in Nat
    /\ 2 * MaxTimestamp0Diff < CounterSize

VARIABLES
    per_channel_buffer,  \* the last sweeps of each station, not yet paired
    bearing              \* the bearing the last call reported, or NoBearing

measurementVars == <<per_channel_buffer, bearing>>

MeasurementInit ==
    /\ per_channel_buffer = [b \in Station |-> <<>>]
    /\ bearing = NoBearing

\* Mutant of LastTwo: nothing is popped.
LastOfAll(blocks) == blocks

\* Mutant of LastTwo: the newest sweep is popped.
FirstTwo(blocks) == IF Len(blocks) > 2 THEN SubSeq(blocks, 1, 2) ELSE blocks

\* The deque after push_back and, when it grew beyond two, pop_front.
LastTwo(blocks) == IF Len(blocks) > 2 THEN Tail(blocks) ELSE blocks

\* Mutant of blocksAreMatchedPair: any two sweeps of a station match.
anyTwoMatch(blocks) == Len(blocks) = 2

\* Two sweeps whose rotor crossed zero at the same time.
blocksAreMatchedPair(blocks) ==
    /\ Len(blocks) = 2
    /\ ~ timestampAbsDiffLargerThan(blocks[2].timestamp0, blocks[1].timestamp0,
                                    MaxTimestamp0Diff)

extractMeasurements(blocks) ==
    [base_station_id    |-> blocks[2].base_station_id,
     hardware_timestamp |-> blocks[2].timestamp,
     offset_0           |-> blocks[1].sensors,
     offset_1           |-> blocks[2].sensors]

\* processBlock.  The pair is taken out of the buffer before the angles are
\* validated, so an implausible pair is dropped as a whole, and a callback that
\* throws finds the buffer already empty.
ProcessBlock(block, plausible) ==
    LET b      == block.base_station_id
        blocks == LastTwo(Append(per_channel_buffer[b], block))
        paired == blocksAreMatchedPair(blocks)
    IN  /\ per_channel_buffer' =
               [per_channel_buffer EXCEPT ![b] = IF paired THEN <<>> ELSE blocks]
        /\ bearing' = IF paired /\ plausible THEN extractMeasurements(blocks)
                      ELSE NoBearing

NoBlock ==
    /\ bearing' = NoBearing
    /\ UNCHANGED per_channel_buffer

ResetMeasurements ==
    /\ per_channel_buffer' = [b \in Station |-> <<>>]
    /\ bearing' = NoBearing

====
