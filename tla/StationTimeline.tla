---- MODULE StationTimeline ----
(***************************************************************************)
(* The protocol decoder under the light of several stations.  The rotor of *)
(* a station crosses zero once per period; in each rotation two light      *)
(* planes pass the deck and hit its sensors one after the other.  Any      *)
(* pulse may be occluded, unidentified, or lack the offset to the zero     *)
(* crossing.  Stations and deck are outside src/: they are modelled from   *)
(* what the decoder relies on.                                             *)
(***************************************************************************)
EXTENDS ProtocolDecoder

CONSTANTS
    Period,      \* ticks per rotation of each station
    Phase,       \* its first zero crossing
    Offset(_, _, _, _),   \* ticks from the zero crossing to a pulse, by station,
                          \* rotation, beam and sensor
    PowerUp,     \* the counter's value at time 0
    Rotations,   \* bound: how many rotations of each station pass the deck
    Unidentified \* the npoly of a pulse whose station is unknown

Pulse == UNION {[station : {b}, rotation : 0 .. Rotations[b] - 1, beam : {1, 2},
                 sid : Sensor] : b \in Station}

OffsetOf(p) == Offset(p.station, p.rotation, p.beam, p.sid)

TimeOf(p) == Phase[p.station] + p.rotation * Period[p.station] + OffsetOf(p)

\* The station's slow bit changes with the rotation.
BitOf(p) == p.rotation % 2

\* What the deck's counter shows at a pulse, and at a zero crossing.
StampOf(p) == (PowerUp + TimeOf(p)) % CounterSize
ZeroOf(b, rotation) == (PowerUp + Phase[b] + rotation * Period[b]) % CounterSize

Near(p, q) ==
    /\ TimeOf(p) - TimeOf(q) <= kMaxTimestampDiffForSweep
    /\ TimeOf(q) - TimeOf(p) <= kMaxTimestampDiffForSweep

NoneYet == [station |-> 0, rotation |-> 0, beam |-> 0]
SweepId(p) == [station |-> p.station, rotation |-> p.rotation, beam |-> p.beam]

ASSUME TimelineAssumption ==
    /\ Period \in [Station -> Nat \ {0}]
    /\ Phase \in [Station -> Nat] /\ Rotations \in [Station -> Nat] /\ PowerUp \in Nat
    /\ \A p \in Pulse : OffsetOf(p) \in SyncOffset \ {0} /\ OffsetOf(p) < Period[p.station]
    /\ 0 \in SyncOffset
    /\ \A p \in Pulse : 2 * (p.station - 1) + BitOf(p) \in Npoly
    /\ Unidentified \in Npoly /\ Unidentified >= 32
    /\ NoSweep \notin SweepBlock /\ NoBit \notin Slot \X {0, 1}

\* A light plane takes no longer than the window to pass the deck, its station's
\* next one comes later than that, and the first beam comes first.
ASSUME LightPlanesAssumption ==
    \A p, q \in Pulse : p.station = q.station =>
        /\ SweepId(p) = SweepId(q) <=> Near(p, q)
        /\ p.rotation = q.rotation /\ p.beam < q.beam => TimeOf(p) < TimeOf(q)

VARIABLES
    coming,      \* the pulses still to come
    latest,      \* history: the time of the last pulse stored with the sweep processor
    reported,    \* history: the rotation of the last sweep kept for each station
    measured,    \* history: the last rotation of each station whose offset was seen
    intact,      \* history: the sweep being received without a flaw, and its sensors
    whole        \* history: the last flawless sweep of each station

timelineVars == <<block_frames, sweep, per_channel_buffer, bearing, ootx_decoders,
                  prev_timestamp0, slow_bit, coming, latest, reported, measured, intact,
                  whole>>

NoneIntact == [id |-> NoneYet, sensors |-> {}, offsets |-> 0]

TimelineInit ==
    /\ ProtocolInit
    /\ coming = Pulse
    /\ latest = 0
    /\ reported = [b \in Station |-> -1]
    /\ measured = [b \in Station |-> -1]
    /\ intact = NoneIntact
    /\ whole = [b \in Station |-> NoneYet]

\* Pulses of two stations close in time are told apart by their polynomial: one
\* is left unidentified only where no other station's light is near.
Alone(p) == \A q \in Pulse : q.station # p.station => ~ Near(p, q)

\* The decoder is not called.
Occluded(p) ==
    /\ coming' = coming \ {p}
    /\ intact' = NoneIntact
    /\ sweep' = NoSweep /\ bearing' = NoBearing /\ slow_bit' = NoBit
    /\ UNCHANGED <<block_frames, per_channel_buffer, ootx_decoders, prev_timestamp0,
                   latest, reported, measured, whole>>

FrameOf(p, identified, withOffset) ==
    [sid         |-> p.sid,
     npoly       |-> IF identified THEN 2 * (p.station - 1) + BitOf(p) ELSE Unidentified,
     sync_offset |-> IF withOffset THEN OffsetOf(p) ELSE 0,
     timestamp   |-> StampOf(p)]

Extend(p, identified, withOffset) ==
    LET before == IF intact.id = SweepId(p) THEN intact
                  ELSE [NoneIntact EXCEPT !.id = SweepId(p)]
    IN  IF identified
        THEN [before EXCEPT !.sensors = @ \cup {p.sid},
                            !.offsets = @ + (IF withOffset THEN 1 ELSE 0)]
        ELSE NoneIntact

\* An earlier rotation of a station whose zero crossing looks like that of another:
\* they are a whole number of laps of the counter apart, or nearly.
LookAlike(b, rotation, earlier, limit) ==
    /\ earlier \notin {-1, rotation}
    /\ CircularDistance(ZeroOf(b, rotation), ZeroOf(b, earlier)) <= limit

\* The code has no other clock than the counter and forgets nothing as time goes
\* by: no silence lasts a lap while a sweep is being assembled, and no station
\* shows again, after laps of hiding, exactly where it was last seen.
InTouch(p, frame) ==
    /\ block_frames # NoFrames =>
          TimeOf(p) - latest + 2 * kMaxTimestampDiffForSweep < CounterSize
    /\ sweep' # NoSweep =>
          ~ LookAlike(p.station, p.rotation, reported[p.station], MaxTimestamp0Diff)
    /\ CarriesSlowBit(frame) =>
          ~ LookAlike(p.station, p.rotation, measured[p.station], kMinTicksBetweenSlowBits)

IsWhole(run) == run.sensors = Sensor /\ run.offsets = 1

\* Angles that are not plausible can only be those of a sweep.
Received(p, identified, withOffset, plausible) ==
    LET frame == FrameOf(p, identified, withOffset)
    IN  /\ identified \/ Alone(p)
        /\ DataFrameReceived(frame, plausible)
        /\ plausible \/ sweep' # NoSweep
        /\ InTouch(p, frame)
        /\ coming' = coming \ {p}
        /\ latest' = IF block_frames' = NoFrames THEN 0 ELSE TimeOf(p)
        /\ reported' = [reported EXCEPT ![p.station] =
                            IF per_channel_buffer'[p.station] = <<>> THEN -1
                            ELSE IF sweep' # NoSweep THEN p.rotation ELSE @]
        /\ measured' = [measured EXCEPT ![p.station] =
                            IF CarriesSlowBit(frame) THEN p.rotation ELSE @]
        /\ intact' = Extend(p, identified, withOffset)
        /\ whole' = [whole EXCEPT ![p.station] =
                         IF IsWhole(intact') THEN SweepId(p) ELSE @]

Restart ==
    /\ ResetProtocol
    /\ measured' = [b \in Station |-> -1]
    /\ intact' = NoneIntact
    /\ whole' = [b \in Station |-> NoneYet]
    /\ latest' = 0
    /\ reported' = [b \in Station |-> -1]
    /\ UNCHANGED coming

TimelineNext ==
    \/ \E p \in coming :
          /\ \A q \in coming : TimeOf(p) <= TimeOf(q)
          /\ \/ Occluded(p)
             \/ \E identified, withOffset, plausible \in BOOLEAN :
                   Received(p, identified, withOffset, plausible)
    \/ Restart

TimelineSpec == TimelineInit /\ [][TimelineNext]_timelineVars

----------------------------------------------------------------------------
\* A bearing is made of one rotation of one station: its first offsets are those
\* of the rotation's first beam at every sensor, its second offsets those of the
\* second beam, although only zero crossings are compared and any pulse of any
\* sweep may have been lost, and other stations' sweeps come in between.
BearingsAreOneRotation ==
    [][bearing' # NoBearing =>
          \E p \in coming \ coming' :
             /\ bearing'.base_station_id = p.station
             /\ p.beam = 2
             /\ \A s \in Sensor :
                   /\ bearing'.offset_0[s] = Offset(p.station, p.rotation, 1, s)
                   /\ bearing'.offset_1[s] = Offset(p.station, p.rotation, 2, s)]_timelineVars

\* And none is missed: when both sweeps of a rotation were received flawlessly,
\* the second one takes the pair out of the buffer, to be reported if its angles
\* are plausible, whatever was left in the buffers before.
WholeRotationsReported ==
    [][\A b \in Station :
          /\ whole'[b].beam = 2 /\ whole[b].beam = 1
          /\ whole'[b].rotation = whole[b].rotation
          => per_channel_buffer'[b] = <<>>]_timelineVars

\* The OOTX decoder of a station gets one bit for each rotation whose offset was
\* seen, except the first: never the bit of one rotation twice, although both its
\* sweeps carry it.
OneSlowBitPerRotation ==
    [][\A b \in Station \cap Slot :
          (\E bit \in {0, 1} : slow_bit' = <<b, bit>>)
             <=> /\ measured[b] # -1
                 /\ measured'[b] \notin {-1, measured[b]}]_timelineVars

====
