---- MODULE SweepAssembly ----
(***************************************************************************)
(* What the SweepProcessor promises, stated over the frames received since *)
(* the last sweep and without a buffer: a sweep is made of the newest      *)
(* frame of every sensor, each within the window of every frame that came  *)
(* after it, and it is reported by the call that completes it.             *)
(***************************************************************************)
EXTENDS DataFrameContents, Sequences, FiniteSets

CONSTANTS kMaxTimestampDiffForSweep, NoSweep

VARIABLES
    received,   \* the frames since the last sweep, in the order received
    sweep       \* the sweep the last call reported, or NoSweep

assemblyVars == <<received, sweep>>

Init ==
    /\ received = <<>>
    /\ sweep = NoSweep

\* Position i of the frames holds the newest frame of its sensor, and no later
\* frame is too far from it.
Current(frames, i) ==
    \A j \in i + 1 .. Len(frames) :
        /\ frames[j].sid # frames[i].sid
        /\ CircularDistance(frames[j].timestamp, frames[i].timestamp)
               <= kMaxTimestampDiffForSweep

CurrentFrames(frames) == {frames[i] : i \in {k \in 1 .. Len(frames) : Current(frames, k)}}

\* One frame of each sensor, of one station as far as they say, and one of them
\* measured the offset to the rotor's zero crossing.
IsSweep(S) ==
    /\ {f.sid : f \in S} = Sensor
    /\ Cardinality({baseStationId(f) : f \in {g \in S : validNpoly(g)}}) = 1
    /\ Cardinality({f \in S : hasOffset(f)}) = 1

\* The offset of every sensor is the time from one zero crossing of the rotor
\* to the pulse at that sensor.
SweepOf(S) ==
    LET reference == CHOOSE f \in S : hasOffset(f)
        pulse(s)  == (CHOOSE f \in S : f.sid = s).timestamp
    IN  [base_station_id |-> CHOOSE b \in 1 .. 16 :
                                \E f \in S : validNpoly(f) /\ baseStationId(f) = b,
         timestamp       |-> reference.timestamp,
         timestamp0      |-> rotorZero(reference),
         sensors         |-> [s \in Sensor |->
                                timestampDiff(pulse(s), rotorZero(reference))]]

Receive(frame) ==
    LET frames == Append(received, frame)
    IN  \/ /\ received' = <<>>
           /\ IsSweep(CurrentFrames(frames))
           /\ sweep' = SweepOf(CurrentFrames(frames))
        \/ /\ received' = frames
           /\ ~ IsSweep(CurrentFrames(frames))
           /\ sweep' = NoSweep

Restart ==
    /\ received' = <<>>
    /\ sweep' = NoSweep

Next ==
    \/ Restart
    \/ \E frame \in DataFrame : Receive(frame)

Spec == Init /\ [][Next]_assemblyVars

====
