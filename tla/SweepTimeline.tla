---- MODULE SweepTimeline ----
(***************************************************************************)
(* The SweepProcessor fed by a deck in real time.  The deck stamps each    *)
(* pulse with its 24-bit counter; frames of different sensors may reach    *)
(* the processor out of order, and occlusions leave gaps between frames.   *)
(* The true times are history: the code sees only the wrapped stamps.      *)
(***************************************************************************)
EXTENDS SweepProcessor, Sequences

CONSTANTS
    Delay,        \* how much later, or earlier (out of order), than the newest
                  \* pulse so far the next one to arrive happened
    MaxTime,      \* bound: time at which the run ends
    MaxReceived   \* bound: frames without a sweep, before the run ends

\* A delay is a number of ticks, and no sweep is the null that stands for none.
ASSUME DelayAssumption ==
    /\ Delay \subseteq Int
    /\ NoSweep \notin SweepBlock

\* No silence of the deck's pulses lasts a lap of its counter, less the window:
\* 0.7 s in the code, which has no other clock to tell a pulse from one a lap ago.
ASSUME SilenceAssumption ==
    \A d, e \in Delay \cup {0} : d - e + 2 * kMaxTimestampDiffForSweep < CounterSize

VARIABLES
    newest,     \* the true time of the newest pulse, in ticks
    pulse,      \* the true time of the last received pulse of each sensor
    received    \* the frames since the last sweep

timelineVars == <<block_frames, sweep, newest, pulse, received>>

TimelineInit ==
    /\ SweepInit
    /\ newest = CounterSize
    /\ pulse = [s \in Sensor |-> 0]
    /\ received = <<>>

FrameAt(time, s, poly, offset) ==
    [sid |-> s, npoly |-> poly, sync_offset |-> offset,
     timestamp |-> time % CounterSize]

Receive(delay, s, poly, offset) ==
    LET time  == newest + delay
        frame == FrameAt(time, s, poly, offset)
    IN  /\ time <= MaxTime
        /\ Len(received) < MaxReceived
        /\ ProcessFrame(frame)
        /\ newest' = IF delay > 0 THEN time ELSE newest
        /\ pulse' = [pulse EXCEPT ![s] = time]
        /\ received' = IF sweep' = NoSweep THEN Append(received, frame) ELSE <<>>

Restart ==
    /\ ResetSweeps
    /\ received' = <<>>
    /\ UNCHANGED <<newest, pulse>>

TimelineNext ==
    \/ \E delay \in Delay, s \in Sensor, poly \in Npoly, offset \in SyncOffset :
            Receive(delay, s, poly, offset)
    \/ Restart

TimelineSpec == TimelineInit /\ [][TimelineNext]_timelineVars

----------------------------------------------------------------------------
\* The buffer with its erasures, replacements and early exits reports the same
\* sweeps, at the same calls and with the same offsets, as the definition over
\* everything received (module SweepAssembly).
Assembly == INSTANCE SweepAssembly

ImplementsAssembly == Assembly!Spec

\* A reported sweep is one sweep of one light plane: the pulses of its frames
\* happened within the window of each other in true time, not only on the
\* counter's circle.  The comment at sweep_processor.cpp:37 promises it.
SweepsAreSimultaneous ==
    [][sweep' # NoSweep =>
          \A s, t \in Sensor : pulse'[s] - pulse'[t] <= kMaxTimestampDiffForSweep]_timelineVars

====
