---- MODULE ProtocolDecoder ----
(***************************************************************************)
(* What the LighthouseProtocolDecoder does with a data frame of good       *)
(* padding (dataframeCallback, sweepCallback, measurementCallback): the    *)
(* sweep and measurement processors in a chain of callbacks, and the slow  *)
(* bits of each station picked out of the same frames for its OOTX         *)
(* decoder.  The framing in front of it is module FrameSync, the OOTX      *)
(* decoder behind it module OotxFrameDecoder.                              *)
(***************************************************************************)
EXTENDS SweepProcessor, MeasurementProcessor

CONSTANTS
    kDeckLighthouseMaxNBs,      \* 4 in the code
    kMinTicksBetweenSlowBits,   \* 354800 ticks in the code
    NoBit                       \* the call gave no slow bit to an OOTX decoder

ASSUME DecoderAssumption ==
    /\ kDeckLighthouseMaxNBs \in Nat
    /\ kMinTicksBetweenSlowBits \in Nat
    /\ 2 * kMinTicksBetweenSlowBits < CounterSize

VARIABLES
    ootx_decoders,     \* the slots that hold an OOTX decoder
    prev_timestamp0,   \* the last zero crossing of each slot
    slow_bit           \* <<slot, bit>> given to an OOTX decoder by the call, or NoBit

slowBitVars == <<ootx_decoders, prev_timestamp0, slow_bit>>

protocolVars == <<block_frames, sweep, per_channel_buffer, bearing,
                  ootx_decoders, prev_timestamp0, slow_bit>>

\* The arrays of the decoder are indexed from 0.
Slot == 0 .. kDeckLighthouseMaxNBs - 1

ProtocolInit ==
    /\ SweepInit
    /\ MeasurementInit
    /\ ootx_decoders = {}
    /\ prev_timestamp0 = [b \in Slot |-> 0]
    /\ slow_bit = NoBit

CarriesSlowBit(frame) ==
    /\ validNpoly(frame)
    /\ baseStationId(frame) < kDeckLighthouseMaxNBs
    /\ hasOffset(frame)

\* Mutant of SlowBits: a new decoder's previous crossing is left as it was.
SlowBitsUninitialised(frame) ==
    IF CarriesSlowBit(frame)
    THEN LET b    == baseStationId(frame)
             zero == rotorZero(frame)
         IN  /\ ootx_decoders' = ootx_decoders \cup {b}
             /\ prev_timestamp0' = [prev_timestamp0 EXCEPT ![b] = zero]
             /\ slow_bit' = IF timestampAbsDiffLargerThan(zero, prev_timestamp0[b],
                                                          kMinTicksBetweenSlowBits)
                            THEN <<b, slowBit(frame)>> ELSE NoBit
    ELSE /\ slow_bit' = NoBit
         /\ UNCHANGED <<ootx_decoders, prev_timestamp0>>

\* A station's bit changes once per rotation and both its sweeps carry it: the
\* bit counts when the rotor's zero crossing is a new one.  The frame that makes
\* the decoder is compared with itself, so its bit never counts.
SlowBits(frame) ==
    IF CarriesSlowBit(frame)
    THEN LET b    == baseStationId(frame)
             zero == rotorZero(frame)
             prev == IF b \in ootx_decoders THEN prev_timestamp0[b] ELSE zero
         IN  /\ ootx_decoders' = ootx_decoders \cup {b}
             /\ prev_timestamp0' = [prev_timestamp0 EXCEPT ![b] = zero]
             /\ slow_bit' = IF timestampAbsDiffLargerThan(zero, prev, kMinTicksBetweenSlowBits)
                            THEN <<b, slowBit(frame)>> ELSE NoBit
    ELSE /\ slow_bit' = NoBit
         /\ UNCHANGED <<ootx_decoders, prev_timestamp0>>

\* dataframeCallback: the sweep processor, through its callback the measurement
\* processor, then the slow bit.
DataFrameReceived(received, plausible) ==
    /\ ProcessFrame(received)
    /\ IF sweep' # NoSweep THEN ProcessBlock(sweep', plausible) ELSE NoBlock
    /\ SlowBits(received)

ResetProtocol ==
    /\ ResetSweeps
    /\ ResetMeasurements
    /\ ootx_decoders' = {}
    /\ prev_timestamp0' = [b \in Slot |-> 0]
    /\ slow_bit' = NoBit

ProtocolTypeOK ==
    /\ SweepTypeOK
    /\ \A b \in Station : Len(per_channel_buffer[b]) <= 2
    /\ \A b \in Station : \A i \in DOMAIN per_channel_buffer[b] :
          per_channel_buffer[b][i] \in SweepBlock /\ per_channel_buffer[b][i].base_station_id = b
    /\ ootx_decoders \subseteq Slot
    /\ prev_timestamp0 \in [Slot -> Timestamp]
    /\ slow_bit \in (Slot \X {0, 1}) \cup {NoBit}

====
