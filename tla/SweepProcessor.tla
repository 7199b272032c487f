---- MODULE SweepProcessor ----
(***************************************************************************)
(* SweepProcessor (sweep_processor.cpp): collects the frames of one sweep  *)
(* of a station's light plane over the sensors of the deck, and hands the  *)
(* complete sweep to its callback.                                         *)
(***************************************************************************)
EXTENDS DataFrameContents, FiniteSets

CONSTANTS
    kMaxTimestampDiffForSweep,  \* 10000 ticks in the code
    NoFrame,                    \* no frame of this sensor is stored
    NoSweep                     \* the call made no callback

ASSUME SweepAssumption ==
    /\ kMaxTimestampDiffForSweep \in Nat
    /\ 2 * kMaxTimestampDiffForSweep < CounterSize
    /\ NoFrame \notin DataFrame
    /\ IsFiniteSet(Sensor)

VARIABLES
    block_frames,   \* the map from sensor to its latest frame
    sweep           \* the argument of the callback the last call made, or NoSweep

sweepVars == <<block_frames, sweep>>

NoFrames == [s \in Sensor |-> NoFrame]

SweepInit ==
    /\ block_frames = NoFrames
    /\ sweep = NoSweep

Present(frames) == {s \in Sensor : frames[s] # NoFrame}

\* Mutant of Refresh: the comparison without the limit added first, which a
\* frame out of order passes on one side only.
RefreshOneSided(frames, frame) ==
    [s \in Sensor |->
        IF s = frame.sid THEN frame
        ELSE IF /\ frames[s] # NoFrame
                /\ timestampDiff(frame.timestamp, frames[s].timestamp)
                       > 2 * kMaxTimestampDiffForSweep
             THEN NoFrame
             ELSE frames[s]]

\* Mutant of Refresh: no frame is ever too far.
RefreshKeepingAll(frames, frame) == [frames EXCEPT ![frame.sid] = frame]

\* The buffer after the new frame replaced its sensor's and the frames too far
\* from it, on either side, were erased.
Refresh(frames, frame) ==
    [s \in Sensor |->
        IF s = frame.sid THEN frame
        ELSE IF /\ frames[s] # NoFrame
                /\ timestampAbsDiffLargerThan(frame.timestamp, frames[s].timestamp,
                                              kMaxTimestampDiffForSweep)
             THEN NoFrame
             ELSE frames[s]]

validateSweep(frames) ==
    /\ Present(frames) = Sensor
    /\ LET valid == {s \in Sensor : validNpoly(frames[s])}
       IN  /\ valid # {}
           /\ \A s, t \in valid : baseStationId(frames[s]) = baseStationId(frames[t])
    /\ \E s \in Sensor : \A t \in Sensor : hasOffset(frames[t]) <=> t = s

\* Mutant of completeBlockInformation: the operands of the difference swapped.
completeBlockSwapped(frames) ==
    LET reference == CHOOSE s \in Sensor : hasOffset(frames[s])
        identified == CHOOSE s \in Sensor : validNpoly(frames[s])
    IN  [base_station_id |-> baseStationId(frames[identified]),
         timestamp       |-> frames[reference].timestamp,
         timestamp0      |-> rotorZero(frames[reference]),
         sensors         |-> [s \in Sensor |->
             timestampSum(frames[reference].sync_offset,
                          timestampDiff(frames[reference].timestamp,
                                        frames[s].timestamp))]]

\* The sweep of a validated buffer: every sensor's offset is counted from the
\* zero crossing the reference sensor measured.
completeBlockInformation(frames) ==
    LET reference == CHOOSE s \in Sensor : hasOffset(frames[s])
        identified == CHOOSE s \in Sensor : validNpoly(frames[s])
        normalized(s) ==
            IF hasOffset(frames[s]) THEN frames[s].sync_offset
            ELSE timestampSum(frames[reference].sync_offset,
                              timestampDiff(frames[s].timestamp,
                                            frames[reference].timestamp))
    IN  [base_station_id |-> baseStationId(frames[identified]),
         timestamp       |-> frames[reference].timestamp,
         timestamp0      |-> rotorZero(frames[reference]),
         sensors         |-> [s \in Sensor |-> normalized(s)]]

----------------------------------------------------------------------------
\* processFrame when the callback, if there is one to make, returns.
ProcessFrame(frame) ==
    LET frames == Refresh(block_frames, frame)
    IN  IF validateSweep(frames)
        THEN /\ sweep' = completeBlockInformation(frames)
             /\ block_frames' = NoFrames
        ELSE /\ sweep' = NoSweep
             /\ block_frames' = frames

\* processFrame when the callback throws: the exception leaves before the
\* buffer is cleared, so the frames of the reported sweep stay in it.
ProcessFrameThrowing(frame) ==
    LET frames == Refresh(block_frames, frame)
    IN  /\ validateSweep(frames)
        /\ sweep' = completeBlockInformation(frames)
        /\ block_frames' = frames

ResetSweeps ==
    /\ block_frames' = NoFrames
    /\ sweep' = NoSweep

SweepNext ==
    \/ \E frame \in DataFrame : ProcessFrame(frame) \/ ProcessFrameThrowing(frame)
    \/ ResetSweeps

SweepSpec == SweepInit /\ [][SweepNext]_sweepVars

----------------------------------------------------------------------------
SweepBlock == [base_station_id : 1 .. 16, timestamp : Timestamp,
               timestamp0 : Timestamp, sensors : [Sensor -> Timestamp]]

\* The type invariant.
SweepTypeOK ==
    /\ block_frames \in [Sensor -> DataFrame \cup {NoFrame}]
    /\ \A s \in Present(block_frames) : block_frames[s].sid = s
    /\ sweep \in SweepBlock \cup {NoSweep}

\* Any two frames in the buffer lie within the window of each other, although
\* processFrame compares the stored frames with the newest one only and never
\* with each other: no out of order arrival leaves a pair that the window, one
\* way or the other round the counter, would have told apart.
FramesShareWindow ==
    \A s, t \in Present(block_frames) :
        CircularDistance(block_frames[s].timestamp, block_frames[t].timestamp)
            <= kMaxTimestampDiffForSweep

====
