---- MODULE StationTimelineProofs ----
(***************************************************************************)
(* Theorems about the decoder under the light of several stations, for any *)
(* stations, rotors, sensors and offsets, and any occlusions, unidentified *)
(* pulses, missing offsets and restarts.                                   *)
(***************************************************************************)
EXTENDS StationTimeline, SweepProcessorProofs

\* The pulse of the same sweep at another sensor.
PulseAt(p, s) == [station |-> p.station, rotation |-> p.rotation, beam |-> p.beam, sid |-> s]

LEMMA RotorTypes ==
    /\ Period \in [Station -> Nat \ {0}] /\ Phase \in [Station -> Nat]
    /\ Rotations \in [Station -> Nat] /\ PowerUp \in Nat
BY TimelineAssumption, Zenon

LEMMA PulseType ==
    ASSUME NEW p \in Pulse
    PROVE  /\ p.station \in Station /\ p.station \in 1 .. 16
           /\ p.rotation \in 0 .. Rotations[p.station] - 1 /\ p.rotation \in Nat
           /\ p.beam \in {1, 2} /\ p.sid \in Sensor
           /\ p = PulseAt(p, p.sid)
           /\ OffsetOf(p) \in Timestamp /\ OffsetOf(p) # 0 /\ OffsetOf(p) < Period[p.station]
           /\ TimeOf(p) \in Nat /\ StampOf(p) \in Timestamp
           /\ BitOf(p) \in {0, 1}
<1>1. PICK b \in Station : p \in [station : {b}, rotation : 0 .. Rotations[b] - 1,
                                  beam : {1, 2}, sid : Sensor]
  BY DEF Pulse
<1>2. /\ p.station \in Station /\ p.rotation \in 0 .. Rotations[p.station] - 1
      /\ p.beam \in {1, 2} /\ p.sid \in Sensor
      /\ p = PulseAt(p, p.sid)
  BY <1>1 DEF PulseAt
<1>3. /\ Rotations[p.station] \in Nat /\ Period[p.station] \in Nat /\ Phase[p.station] \in Nat
      /\ PowerUp \in Nat
  <2>1. PICK c \in Station : c = p.station
    BY <1>2
  <2>2. Rotations[c] \in Nat /\ Period[c] \in Nat /\ Phase[c] \in Nat /\ PowerUp \in Nat
    BY RotorTypes
  <2> QED BY <2>1, <2>2
<1>4. p.station \in 1 .. 16 /\ p.rotation \in Nat
  <2>1. p.station \in 1 .. 16
    BY <1>2, MeasurementAssumption
  <2>2. p.rotation \in Nat
    BY <1>2, <1>3
  <2> QED BY <2>1, <2>2
<1>5. OffsetOf(p) \in Timestamp /\ OffsetOf(p) # 0 /\ OffsetOf(p) < Period[p.station]
  BY TimelineAssumption, FrameAssumption
<1>6. OffsetOf(p) \in Nat
  BY <1>5, CounterSizeAssumption DEF Timestamp
<1>7. TimeOf(p) \in Nat
  BY <1>3, <1>4, <1>6 DEF TimeOf
<1>8. StampOf(p) \in Timestamp
  BY <1>3, <1>7, CounterSizeAssumption DEF StampOf, Timestamp
<1>9. BitOf(p) \in {0, 1}
  BY <1>4 DEF BitOf
<1> QED BY <1>2, <1>4, <1>5, <1>7, <1>8, <1>9

LEMMA ZeroType ==
    ASSUME NEW b \in Station, NEW r \in Nat
    PROVE  ZeroOf(b, r) \in Timestamp
<1>1. Period[b] \in Nat /\ Phase[b] \in Nat /\ PowerUp \in Nat
  BY RotorTypes
<1>2. PowerUp + Phase[b] + r * Period[b] \in Nat
  BY <1>1
<1> QED BY <1>2, CounterSizeAssumption DEF ZeroOf, Timestamp

\* The pulses of one sweep differ in their sensor.
LEMMA PulseAtType ==
    ASSUME NEW p \in Pulse, NEW s \in Sensor
    PROVE  /\ PulseAt(p, s) \in Pulse
           /\ SweepId(PulseAt(p, s)) = SweepId(p)
<1>1. PulseAt(p, s) \in [station : {p.station}, rotation : 0 .. Rotations[p.station] - 1,
                         beam : {1, 2}, sid : Sensor]
  BY PulseType DEF PulseAt
<1>2. p.station \in Station
  BY PulseType
<1> QED BY <1>1, <1>2 DEF Pulse, PulseAt, SweepId

LEMMA SameSweepPulse ==
    ASSUME NEW p \in Pulse, NEW q \in Pulse, SweepId(p) = SweepId(q)
    PROVE  /\ p.station = q.station /\ p.rotation = q.rotation /\ p.beam = q.beam
           /\ q = PulseAt(p, q.sid)
<1>1. p.station = q.station /\ p.rotation = q.rotation /\ p.beam = q.beam
  BY DEF SweepId
<1> QED BY <1>1, PulseType DEF PulseAt

----------------------------------------------------------------------------
\* Some ticks later the counter is as many ticks further.
LEMMA StampLater ==
    ASSUME NEW x \in Nat, NEW o \in Timestamp
    PROVE  /\ timestampDiff((x + o) % CounterSize, x % CounterSize) = o
           /\ timestampDiff((x + o) % CounterSize, o) = x % CounterSize
<1>0. CounterSize \in Nat \ {0} /\ o \in 0 .. CounterSize - 1
  BY CounterSizeAssumption DEF Timestamp
<1>1. PICK p \in Int : x + o = CounterSize * p + ((x + o) % CounterSize)
  <2>1. x + o \in Int
    BY <1>0
  <2> QED BY <2>1, Laps
<1>2. PICK q \in Int : x = CounterSize * q + (x % CounterSize)
  <2>1. x \in Int
    OBVIOUS
  <2> QED BY <2>1, Laps
<1>3. PICK u, v \in Timestamp : u = (x + o) % CounterSize /\ v = x % CounterSize
  BY <1>0 DEF Timestamp
<1>4. u \in 0 .. CounterSize - 1 /\ v \in 0 .. CounterSize - 1
  BY <1>3 DEF Timestamp
<1>5. PICK n \in Int : n = CounterSize * (p - q)
  BY <1>0
<1>6. o = n + (u - v)
  <2>1. PICK y, z \in Int : y = CounterSize * p /\ z = CounterSize * q
    BY <1>0
  <2>2. n = y - z
    BY <1>0, <1>5, <2>1
  <2>3. x + o = y + u /\ x = z + v
    BY <1>1, <1>2, <1>3, <2>1
  <2> QED BY <1>0, <1>4, <2>2, <2>3
<1>7. n < 2 * CounterSize /\ - (2 * CounterSize) < n
  BY <1>0, <1>4, <1>6
<1>8. n \in {- CounterSize, 0, CounterSize}
  BY <1>0, <1>5, <1>7, AtMostOneLap
<1>9. /\ timestampDiff(u, v) = IF v <= u THEN u - v ELSE u - v + CounterSize
      /\ timestampDiff(u, o) = IF o <= u THEN u - o ELSE u - o + CounterSize
  BY <1>3, DiffByOrder
<1>10. timestampDiff(u, v) = o /\ timestampDiff(u, o) = v
  BY <1>0, <1>4, <1>6, <1>8, <1>9
<1> QED BY <1>3, <1>10

\* Times close to each other have stamps close to each other.
LEMMA CloseTimesHaveCloseStamps ==
    ASSUME NEW x \in Nat, NEW y \in Nat, NEW limit \in Nat, 2 * limit < CounterSize,
           x - y <= limit, y - x <= limit
    PROVE  CircularDistance(x % CounterSize, y % CounterSize) <= limit
<1>0. CounterSize \in Nat \ {0}
  BY CounterSizeAssumption
<1>3. x % CounterSize \in Timestamp /\ y % CounterSize \in Timestamp
  BY <1>0 DEF Timestamp
<1>1. CASE y <= x
  <2>1. PICK o \in Timestamp : o = x - y
    BY <1>0, <1>1 DEF Timestamp
  <2>2. x = y + o /\ o <= limit /\ o \in Nat
    BY <1>0, <1>1, <2>1
  <2>3. timestampDiff(x % CounterSize, y % CounterSize) = o
    BY <2>2, StampLater
  <2>4. timestampDiff(y % CounterSize, x % CounterSize) \in Int
    BY <1>3, DiffType, <1>0 DEF Timestamp
  <2> QED BY <2>2, <2>3, <2>4 DEF CircularDistance
<1>2. CASE ~ (y <= x)
  <2>1. PICK o \in Timestamp : o = y - x
    BY <1>0, <1>2 DEF Timestamp
  <2>2. y = x + o /\ o <= limit /\ o \in Nat
    BY <1>0, <1>2, <2>1
  <2>3. timestampDiff(y % CounterSize, x % CounterSize) = o
    BY <2>2, StampLater
  <2>4. timestampDiff(x % CounterSize, y % CounterSize) \in Int
    BY <1>3, DiffType, <1>0 DEF Timestamp
  <2> QED BY <2>2, <2>3, <2>4 DEF CircularDistance
<1> QED BY <1>1, <1>2

\* What the environment may not do, it could do only after nearly a lap: the zero
\* crossings of rotations less than that apart never look alike, as long as the
\* limit of the comparison is shorter than a rotation.
THEOREM RotationsOfALapDiffer ==
    ASSUME NEW b \in Station, NEW r \in Nat, NEW q \in Nat, q < r,
           NEW limit \in Nat, limit < Period[b],
           (r - q) * Period[b] + limit < CounterSize
    PROVE  ~ LookAlike(b, r, q, limit) /\ ~ LookAlike(b, q, r, limit)
<1>1. PICK per, phase \in Nat : per = Period[b] /\ phase = Phase[b]
  BY RotorTypes
<1>2. PICK k \in Nat : r = q + 1 + k
  <2>1. r - q - 1 \in Nat /\ r = q + 1 + (r - q - 1)
    OBVIOUS
  <2> QED BY <2>1
<1>3. PICK y, z, d \in Nat : y = q * per /\ z = k * per /\ d = per + z
  OBVIOUS
<1>4. r * per = y + d /\ (r - q) * per = d
  <2>1. (q + 1 + k) * per = q * per + per + k * per /\ (1 + k) * per = per + k * per
    OBVIOUS
  <2>2. r - q = 1 + k
    BY <1>2
  <2> QED BY <1>2, <1>3, <2>1, <2>2
<1>5. PICK x \in Nat : x = PowerUp + phase + y
  BY RotorTypes
<1>6. CounterSize \in Nat \ {0} /\ limit < d /\ d + limit < CounterSize
  BY <1>1, <1>3, <1>4, CounterSizeAssumption
<1>7. d \in Timestamp
  BY <1>6 DEF Timestamp
<1>8. ZeroOf(b, q) = x % CounterSize /\ ZeroOf(b, r) = (x + d) % CounterSize
  <2>1. PowerUp + phase + (y + d) = x + d
    BY <1>5, RotorTypes
  <2> QED BY <1>1, <1>3, <1>4, <1>5, <2>1 DEF ZeroOf
<1>9. PICK u, v \in Timestamp : u = ZeroOf(b, r) /\ v = ZeroOf(b, q)
  BY ZeroType
<1>10. timestampDiff(u, v) = d
  BY <1>7, <1>8, <1>9, StampLater
<1>11. timestampDiff(v, u) = CounterSize - d
  <2>1. /\ timestampDiff(u, v) = IF v <= u THEN u - v ELSE u - v + CounterSize
        /\ timestampDiff(v, u) = IF u <= v THEN v - u ELSE v - u + CounterSize
    BY <1>9, DiffByOrder
  <2>2. u \in 0 .. CounterSize - 1 /\ v \in 0 .. CounterSize - 1
    BY <1>9 DEF Timestamp
  <2> QED BY <1>6, <1>10, <2>1, <2>2
<1>12. ~ (CircularDistance(u, v) <= limit) /\ ~ (CircularDistance(v, u) <= limit)
  BY <1>6, <1>10, <1>11 DEF CircularDistance
<1> QED BY <1>9, <1>12 DEF LookAlike

\* A pulse's stamp and its offset to the zero crossing give the zero crossing, and
\* the zero crossing gives the offset.
LEMMA ZeroOfPulse ==
    ASSUME NEW p \in Pulse
    PROVE  /\ timestampDiff(StampOf(p), OffsetOf(p)) = ZeroOf(p.station, p.rotation)
           /\ timestampDiff(StampOf(p), ZeroOf(p.station, p.rotation)) = OffsetOf(p)
<1>1. /\ Period[p.station] \in Nat /\ Phase[p.station] \in Nat /\ PowerUp \in Nat
      /\ p.rotation \in Nat /\ OffsetOf(p) \in Timestamp
  BY PulseType, RotorTypes
<1>2. PICK x \in Nat : x = PowerUp + Phase[p.station] + p.rotation * Period[p.station]
  BY <1>1
<1>3. PICK y \in Nat : y = p.rotation * Period[p.station]
  BY <1>1
<1>4. PowerUp + (Phase[p.station] + y + OffsetOf(p)) = PowerUp + Phase[p.station] + y + OffsetOf(p)
  BY <1>1, <1>3, CounterSizeAssumption DEF Timestamp
<1>5. StampOf(p) = (x + OffsetOf(p)) % CounterSize
  BY <1>2, <1>3, <1>4 DEF StampOf, TimeOf
<1>6. ZeroOf(p.station, p.rotation) = x % CounterSize
  BY <1>2 DEF ZeroOf
<1> QED BY <1>1, <1>5, <1>6, StampLater

\* What the decoder reads in the frame of a pulse.
LEMMA FrameOfPulse ==
    ASSUME NEW p \in Pulse, NEW identified \in BOOLEAN, NEW withOffset \in BOOLEAN,
           NEW f, f = FrameOf(p, identified, withOffset)
    PROVE  /\ f \in DataFrame /\ f.sid = p.sid /\ f.timestamp = StampOf(p)
           /\ validNpoly(f) <=> identified
           /\ identified => baseStationId(f) = p.station /\ slowBit(f) \in {0, 1}
           /\ hasOffset(f) <=> withOffset
           /\ withOffset => f.sync_offset = OffsetOf(p)
                            /\ rotorZero(f) = ZeroOf(p.station, p.rotation)
<1> DEFINE n == 2 * (p.station - 1) + BitOf(p)
<1>1. /\ f.sid = p.sid /\ f.timestamp = StampOf(p)
      /\ identified => f.npoly = n
      /\ ~ identified => f.npoly = Unidentified
      /\ withOffset => f.sync_offset = OffsetOf(p)
      /\ ~ withOffset => f.sync_offset = 0
  BY DEF FrameOf
<1>2. /\ p.sid \in Sensor /\ StampOf(p) \in Timestamp
      /\ OffsetOf(p) \in SyncOffset /\ OffsetOf(p) # 0 /\ 0 \in SyncOffset
      /\ n \in Npoly /\ Unidentified \in Npoly /\ Unidentified >= 32
  BY PulseType, TimelineAssumption
<1>3. n < 32 /\ n \div 2 + 1 = p.station /\ n % 2 \in {0, 1}
  <2>1. p.station \in 1 .. 16 /\ BitOf(p) \in {0, 1}
    BY PulseType
  <2> QED BY <2>1
<1>4. Unidentified \in 0 .. 63
  BY <1>2, FrameAssumption
<1>5. f \in DataFrame
  <2>1. f.npoly \in Npoly /\ f.sync_offset \in SyncOffset
    BY <1>1, <1>2
  <2>2. f = [sid |-> f.sid, npoly |-> f.npoly, sync_offset |-> f.sync_offset,
             timestamp |-> f.timestamp]
    BY DEF FrameOf
  <2> QED BY <1>1, <1>2, <2>1, <2>2 DEF DataFrame
<1> HIDE DEF n
<1>6. validNpoly(f) <=> identified
  <2>1. CASE identified
    BY <1>1, <1>3, <2>1 DEF validNpoly
  <2>2. CASE ~ identified
    BY <1>1, <1>2, <1>4, <2>2 DEF validNpoly
  <2> QED BY <2>1, <2>2
<1>7. identified => baseStationId(f) = p.station /\ slowBit(f) \in {0, 1}
  BY <1>1, <1>3 DEF baseStationId, slowBit
<1>8. hasOffset(f) <=> withOffset
  BY <1>1, <1>2 DEF hasOffset
<1>9. withOffset => rotorZero(f) = ZeroOf(p.station, p.rotation)
  BY <1>1, ZeroOfPulse DEF rotorZero
<1> QED BY <1>1, <1>5, <1>6, <1>7, <1>8, <1>9

----------------------------------------------------------------------------
\* A frame the decoder may have been given for a pulse.
IsFrameOf(f, p) ==
    \E identified, withOffset \in BOOLEAN :
        /\ identified \/ Alone(p)
        /\ f = FrameOf(p, identified, withOffset)

\* Every frame stored is one of a pulse among those given.
StoredPulses(frames, pulses) ==
    \A s \in Present(frames) : \E p \in pulses : p.sid = s /\ IsFrameOf(frames[s], p)

\* The sweep a pulse belongs to, as the sweep processor is to report it.
IsBlockOf(block, p) ==
    /\ block \in SweepBlock
    /\ block.base_station_id = p.station
    /\ block.timestamp0 = ZeroOf(p.station, p.rotation)
    /\ \A s \in Sensor : block.sensors[s] = Offset(p.station, p.rotation, p.beam, s)

\* All frames of a validated buffer are of one sweep: frames of a known station
\* are of that one, and the others come when no other station's light is near.
LEMMA ValidIsOneSweep ==
    ASSUME NEW frames, validateSweep(frames),
           NEW pulses, pulses \subseteq Pulse, \A r, t \in pulses : Near(r, t),
           StoredPulses(frames, pulses),
           NEW p \in pulses, IsFrameOf(frames[p.sid], p),
           NEW q \in pulses, IsFrameOf(frames[q.sid], q)
    PROVE  SweepId(p) = SweepId(q)
<1>1. Present(frames) = Sensor
  BY DEF validateSweep
<1>2. ASSUME NEW r \in pulses, IsFrameOf(frames[r.sid], r)
      PROVE  /\ ~ validNpoly(frames[r.sid]) => Alone(r)
             /\ validNpoly(frames[r.sid]) => baseStationId(frames[r.sid]) = r.station
  <2>1. PICK identified \in BOOLEAN, withOffset \in BOOLEAN :
            /\ identified \/ Alone(r)
            /\ frames[r.sid] = FrameOf(r, identified, withOffset)
    BY <1>2 DEF IsFrameOf
  <2>2. PICK f : f = frames[r.sid]
    OBVIOUS
  <2>3. /\ validNpoly(f) <=> identified
        /\ identified => baseStationId(f) = r.station
    BY <2>1, <2>2, FrameOfPulse
  <2> QED BY <2>1, <2>2, <2>3
<1>4. PICK known \in Sensor : validNpoly(frames[known])
  BY DEF validateSweep
<1>5. PICK k \in pulses : k.sid = known /\ IsFrameOf(frames[known], k)
  BY <1>1, <1>4 DEF StoredPulses
<1>6. ASSUME NEW r \in pulses, IsFrameOf(frames[r.sid], r)
      PROVE  r.station = k.station
  <2>1. CASE validNpoly(frames[r.sid])
    <3>1. baseStationId(frames[r.sid]) = baseStationId(frames[known])
      <4>1. r.sid \in Sensor
        BY PulseType
      <4> QED BY <1>4, <2>1, <4>1 DEF validateSweep
    <3>2. /\ baseStationId(frames[r.sid]) = r.station
          /\ baseStationId(frames[known]) = k.station
      BY <1>2, <1>4, <1>5, <1>6, <2>1
    <3> QED BY <3>1, <3>2
  <2>2. CASE ~ validNpoly(frames[r.sid])
    <3>1. Alone(r)
      BY <1>2, <1>6, <2>2
    <3>2. Near(r, k)
      BY <1>5, <1>6
    <3> QED BY <3>1, <3>2 DEF Alone
  <2> QED BY <2>1, <2>2
<1>7. p.station = q.station /\ Near(p, q)
  BY <1>6
<1> QED BY <1>7, LightPlanesAssumption

\* And the sweep it is reported as is the one of its frames.
LEMMA ValidGivesItsSweep ==
    ASSUME NEW frames, BufferTypeOK(frames), validateSweep(frames),
           NEW pulses, pulses \subseteq Pulse, \A r, t \in pulses : Near(r, t),
           StoredPulses(frames, pulses),
           NEW p \in pulses, IsFrameOf(frames[p.sid], p)
    PROVE  /\ IsBlockOf(completeBlockInformation(frames), p)
           /\ \A s \in Sensor : PulseAt(p, s) \in pulses
<1> DEFINE reference == CHOOSE s \in Sensor : hasOffset(frames[s])
           identified == CHOOSE s \in Sensor : validNpoly(frames[s])
           zero == ZeroOf(p.station, p.rotation)
           block == completeBlockInformation(frames)
<1>1. Present(frames) = Sensor
  BY DEF validateSweep
<1>2. \A s \in Sensor : \E r \in pulses : r.sid = s /\ IsFrameOf(frames[s], r)
  BY <1>1 DEF StoredPulses
<1>3. ASSUME NEW s \in Sensor
      PROVE  PulseAt(p, s) \in pulses /\ IsFrameOf(frames[s], PulseAt(p, s))
  <2>1. PICK r \in pulses : r.sid = s /\ IsFrameOf(frames[s], r)
    BY <1>2
  <2>3. SweepId(p) = SweepId(r)
    BY <2>1, ValidIsOneSweep
  <2>4. r = PulseAt(p, s)
    BY <2>1, <2>3, SameSweepPulse
  <2> QED BY <2>1, <2>4
<1>4. ASSUME NEW s \in Sensor
      PROVE  /\ frames[s].timestamp = StampOf(PulseAt(p, s))
             /\ frames[s].timestamp \in Timestamp
             /\ validNpoly(frames[s]) => baseStationId(frames[s]) = p.station
             /\ hasOffset(frames[s]) =>
                    /\ frames[s].sync_offset = Offset(p.station, p.rotation, p.beam, s)
                    /\ rotorZero(frames[s]) = zero
             /\ timestampDiff(frames[s].timestamp, zero)
                    = Offset(p.station, p.rotation, p.beam, s)
             /\ frames[s].sync_offset \in Timestamp
  <2>1. PICK r : r = PulseAt(p, s)
    OBVIOUS
  <2>2. r \in Pulse /\ IsFrameOf(frames[s], r)
    BY <1>3, <2>1
  <2>3. PICK i \in BOOLEAN, w \in BOOLEAN : frames[s] = FrameOf(r, i, w)
    BY <2>2 DEF IsFrameOf
  <2>4. PICK f : f = frames[s]
    OBVIOUS
  <2>5. /\ f \in DataFrame /\ f.timestamp = StampOf(r)
        /\ validNpoly(f) <=> i
        /\ i => baseStationId(f) = r.station
        /\ hasOffset(f) <=> w
        /\ w => f.sync_offset = OffsetOf(r) /\ rotorZero(f) = ZeroOf(r.station, r.rotation)
    BY <2>2, <2>3, <2>4, FrameOfPulse
  <2>6. r.station = p.station /\ r.rotation = p.rotation /\ r.beam = p.beam /\ r.sid = s
    BY <2>1 DEF PulseAt
  <2>7. OffsetOf(r) = Offset(p.station, p.rotation, p.beam, s)
    BY <2>6 DEF OffsetOf
  <2>8. timestampDiff(f.timestamp, zero) = OffsetOf(r)
    BY <2>2, <2>5, <2>6, ZeroOfPulse
  <2>9. f.timestamp \in Timestamp /\ f.sync_offset \in Timestamp
    BY <2>5, FrameAssumption DEF DataFrame
  <2> QED BY <2>1, <2>4, <2>5, <2>6, <2>7, <2>8, <2>9
<1>5. /\ reference \in Sensor /\ hasOffset(frames[reference])
      /\ identified \in Sensor /\ validNpoly(frames[identified])
  BY DEF validateSweep
<1> HIDE DEF reference, identified
<1>6. ASSUME NEW s \in Sensor
      PROVE  (IF hasOffset(frames[s]) THEN frames[s].sync_offset
              ELSE timestampSum(frames[reference].sync_offset,
                                timestampDiff(frames[s].timestamp,
                                              frames[reference].timestamp)))
               = Offset(p.station, p.rotation, p.beam, s)
  <2>1. timestampSum(frames[reference].sync_offset,
                     timestampDiff(frames[s].timestamp, frames[reference].timestamp))
          = timestampDiff(frames[s].timestamp,
                          timestampDiff(frames[reference].timestamp,
                                        frames[reference].sync_offset))
    BY <1>4, <1>5, OffsetFromRotorZero
  <2>2. timestampDiff(frames[reference].timestamp, frames[reference].sync_offset) = zero
    BY <1>4, <1>5 DEF rotorZero
  <2> QED BY <1>4, <2>1, <2>2
<1>7. block = [base_station_id |-> baseStationId(frames[identified]),
               timestamp |-> frames[reference].timestamp,
               timestamp0 |-> rotorZero(frames[reference]),
               sensors |-> [s \in Sensor |->
                    IF hasOffset(frames[s]) THEN frames[s].sync_offset
                    ELSE timestampSum(frames[reference].sync_offset,
                                      timestampDiff(frames[s].timestamp,
                                                    frames[reference].timestamp))]]
  BY DEF completeBlockInformation, reference, identified
<1>8. block \in SweepBlock
  BY SweepType
<1>9. /\ block.base_station_id = p.station
      /\ block.timestamp0 = zero
      /\ \A s \in Sensor : block.sensors[s] = Offset(p.station, p.rotation, p.beam, s)
  <2> HIDE DEF block
  <2>1. block.base_station_id = baseStationId(frames[identified])
    BY <1>7
  <2>2. block.timestamp0 = rotorZero(frames[reference])
    BY <1>7
  <2>3. \A s \in Sensor : block.sensors[s] = Offset(p.station, p.rotation, p.beam, s)
    BY <1>6, <1>7
  <2> QED BY <1>4, <1>5, <2>1, <2>2, <2>3
<1> QED BY <1>3, <1>8, <1>9 DEF IsBlockOf

----------------------------------------------------------------------------
\* The deque of a station after a sweep was pushed: it ends with that sweep,
\* before which comes the one that was last.
LEMMA LastTwoBlocks ==
    ASSUME NEW S, NEW old \in Seq(S), Len(old) <= 2, NEW x \in S,
           NEW blocks, blocks = LastTwo(Append(old, x))
    PROVE  /\ blocks \in Seq(S) /\ Len(blocks) \in {1, 2}
           /\ blocks[Len(blocks)] = x
           /\ Len(blocks) = 2 <=> Len(old) # 0
           /\ Len(blocks) = 2 => blocks[1] = old[Len(old)]
<1> DEFINE all == Append(old, x)
<1>1. /\ all \in Seq(S) /\ Len(all) = Len(old) + 1 /\ all[Len(old) + 1] = x
      /\ \A i \in 1 .. Len(old) : all[i] = old[i]
  OBVIOUS
<1>2. Len(old) \in {0, 1, 2}
  <2>1. PICK n \in Nat : n = Len(old)
    OBVIOUS
  <2>2. n \in {0, 1, 2}
    <3>1. n <= 2
      BY <2>1
    <3> QED BY <3>1
  <2> QED BY <2>1, <2>2
<1> HIDE DEF all
<1>3. CASE Len(old) = 2
  <2>1. blocks = Tail(all) /\ Len(all) = 3
    BY <1>1, <1>3 DEF LastTwo, all
  <2>2. /\ Len(blocks) = 2 /\ blocks \in Seq(S)
        /\ blocks[1] = all[2] /\ blocks[2] = all[3]
    <3>1. PICK three \in Seq(S) : three = all
      BY <1>1
    <3>2. Len(three) = 3 /\ three # <<>>
      BY <2>1, <3>1
    <3>3. /\ Tail(three) \in Seq(S) /\ Len(Tail(three)) = 2
          /\ Tail(three)[1] = three[2] /\ Tail(three)[2] = three[3]
      BY <3>2
    <3> QED BY <2>1, <3>1, <3>3
  <2> QED BY <1>1, <1>3, <2>2
<1>4. CASE Len(old) # 2
  <2>1. blocks = all
    BY <1>1, <1>2, <1>4 DEF LastTwo, all
  <2> QED BY <1>1, <1>2, <1>4, <2>1
<1> QED BY <1>3, <1>4

\* A distance of nothing is not larger than any limit.
LEMMA NoDifference ==
    ASSUME NEW t \in Timestamp, NEW limit \in Nat, 2 * limit < CounterSize
    PROVE  ~ timestampAbsDiffLargerThan(t, t, limit)
<1>1. CircularDistance(t, t) = 0
  BY DistanceToItself
<1> QED BY <1>1, ComparisonIsDistance

\* The pulses that are over.
Arrived == Pulse \ coming

TimeOrder ==
    /\ coming \subseteq Pulse
    /\ \A p \in Arrived, q \in coming : TimeOf(p) <= TimeOf(q)

\* The pulses that happened within the window before a time, and are over.
Recent(time, pulses) ==
    {q \in pulses : TimeOf(q) <= time /\ time - TimeOf(q) <= kMaxTimestampDiffForSweep}

FramesOK ==
    /\ BufferTypeOK(block_frames)
    /\ latest \in Nat
    /\ StoredPulses(block_frames, Recent(latest, Arrived))
    /\ sweep \in SweepBlock \cup {NoSweep}

\* A deque of at most two sweeps of a station, all of whose pulses are over.
BlocksOK(blocks, b, pulses) ==
    /\ blocks \in Seq(SweepBlock)
    /\ Len(blocks) <= 2
    /\ \A i \in 1 .. Len(blocks) : \E p \in Pulse :
          /\ p.station = b /\ IsBlockOf(blocks[i], p)
          /\ \A s \in Sensor : PulseAt(p, s) \in pulses

\* The last of the sweeps is of this rotation.
EndsWith(blocks, b, rotation, pulses) ==
    Len(blocks) # 0 =>
        \E p \in Pulse :
           /\ p.station = b /\ p.rotation = rotation /\ IsBlockOf(blocks[Len(blocks)], p)
           /\ \A s \in Sensor : PulseAt(p, s) \in pulses

PairsOK ==
    /\ per_channel_buffer \in [Station -> Seq(SweepBlock)]
    /\ reported \in [Station -> Int]
    /\ \A b \in Station :
          /\ BlocksOK(per_channel_buffer[b], b, Arrived)
          /\ EndsWith(per_channel_buffer[b], b, reported[b], Arrived)

\* The previous zero crossing of a slot is that of the last rotation measured.
CrossingsOK ==
    /\ ootx_decoders \subseteq Slot
    /\ prev_timestamp0 \in [Slot -> Timestamp]
    /\ slow_bit \in (Slot \X {0, 1}) \cup {NoBit}
    /\ measured \in [Station -> Int]
    /\ \A b \in Station \cap Slot :
          /\ b \in ootx_decoders <=> measured[b] # -1
          /\ measured[b] # -1 =>
                /\ measured[b] \in 0 .. Rotations[b] - 1
                /\ prev_timestamp0[b] = ZeroOf(b, measured[b])

StationInv == TimeOrder /\ FramesOK /\ PairsOK /\ CrossingsOK

\* A sweep whose pulses are over pairs with that of a pulse just coming when they
\* are of one rotation, and then they are its first and its second.
LEMMA PairIsOneRotation ==
    ASSUME TimeOrder, NEW p \in coming, NEW q \in Pulse, q.station = p.station,
           \A s \in Sensor : PulseAt(q, s) \in Arrived,
           ~ LookAlike(p.station, p.rotation, q.rotation, MaxTimestamp0Diff),
           NEW new, IsBlockOf(new, p), NEW old, IsBlockOf(old, q)
    PROVE  /\ ~ timestampAbsDiffLargerThan(new.timestamp0, old.timestamp0, MaxTimestamp0Diff)
                 <=> q.rotation = p.rotation
           /\ q.rotation = p.rotation => q.beam = 1 /\ p.beam = 2
<1>1. /\ p \in Pulse /\ p.station \in Station /\ p.sid \in Sensor /\ p = PulseAt(p, p.sid)
      /\ p.rotation \in 0 .. Rotations[p.station] - 1 /\ p.rotation \in Nat
      /\ q.rotation \in 0 .. Rotations[p.station] - 1 /\ q.rotation \in Nat
      /\ p.beam \in {1, 2} /\ q.beam \in {1, 2}
  BY PulseType DEF TimeOrder
<1>2. /\ new.timestamp0 = ZeroOf(p.station, p.rotation) /\ new.timestamp0 \in Timestamp
      /\ old.timestamp0 = ZeroOf(p.station, q.rotation) /\ old.timestamp0 \in Timestamp
  BY <1>1, ZeroType DEF IsBlockOf
<1>3. MaxTimestamp0Diff \in Nat /\ 2 * MaxTimestamp0Diff < CounterSize
  BY MeasurementAssumption
<1>4. ASSUME q.rotation # p.rotation
      PROVE  timestampAbsDiffLargerThan(new.timestamp0, old.timestamp0, MaxTimestamp0Diff)
  <2>1. q.rotation # -1
    BY <1>1
  <2>2. ~ (CircularDistance(new.timestamp0, old.timestamp0) <= MaxTimestamp0Diff)
    BY <1>2, <1>4, <2>1 DEF LookAlike
  <2>3. CircularDistance(new.timestamp0, old.timestamp0) \in Int
    BY <1>2, DiffType, CounterSizeAssumption DEF CircularDistance, Timestamp
  <2>4. CircularDistance(new.timestamp0, old.timestamp0) > MaxTimestamp0Diff
    BY <1>3, <2>2, <2>3
  <2> QED BY <1>2, <1>3, <2>4, ComparisonIsDistance
<1>5. ASSUME q.rotation = p.rotation
      PROVE  ~ timestampAbsDiffLargerThan(new.timestamp0, old.timestamp0, MaxTimestamp0Diff)
  BY <1>2, <1>3, <1>5, NoDifference
<1>6. ASSUME q.rotation = p.rotation
      PROVE  q.beam = 1 /\ p.beam = 2
  <2>1. PICK r : r = PulseAt(q, p.sid)
    OBVIOUS
  <2>2. r \in Arrived /\ r \in Pulse /\ r \notin coming
    BY <1>1, <2>1 DEF Arrived
  <2>3. /\ r.station = p.station /\ r.rotation = p.rotation /\ r.beam = q.beam
    BY <1>6, <2>1 DEF PulseAt
  <2>4. q.beam # p.beam
    <3>1. ASSUME q.beam = p.beam
          PROVE  r = p
      BY <1>1, <1>6, <2>1, <3>1 DEF PulseAt
    <3> QED BY <2>2, <3>1
  <2>5. ~ (p.beam = 1 /\ q.beam = 2)
    <3>1. SUFFICES ASSUME p.beam = 1, q.beam = 2
                   PROVE  FALSE
      OBVIOUS
    <3>2. TimeOf(p) < TimeOf(r)
      <4>1. p.beam < r.beam
        BY <2>3, <3>1
      <4> QED BY <1>1, <2>2, <2>3, <4>1, LightPlanesAssumption
    <3>3. TimeOf(r) <= TimeOf(p)
      BY <2>2 DEF TimeOrder
    <3>4. TimeOf(r) \in Nat /\ TimeOf(p) \in Nat
      BY <1>1, <2>2, PulseType
    <3> QED BY <3>2, <3>3, <3>4
  <2> QED BY <1>1, <2>4, <2>5
<1> QED BY <1>4, <1>5, <1>6

\* What the measurement processor does with the sweep of the pulse just coming.
LEMMA ProcessedBlock ==
    ASSUME TimeOrder, PairsOK, NEW p \in coming, NEW block, IsBlockOf(block, p),
           \A s \in Sensor : PulseAt(p, s) \in Arrived \cup {p},
           ~ LookAlike(p.station, p.rotation, reported[p.station], MaxTimestamp0Diff),
           NEW plausible \in BOOLEAN, ProcessBlock(block, plausible)
    PROVE  /\ per_channel_buffer' \in [Station -> Seq(SweepBlock)]
           /\ \A b \in Station : BlocksOK(per_channel_buffer'[b], b, Arrived \cup {p})
           /\ EndsWith(per_channel_buffer'[p.station], p.station, p.rotation,
                       Arrived \cup {p})
           /\ \A b \in Station \ {p.station} : per_channel_buffer'[b] = per_channel_buffer[b]
           /\ bearing' # NoBearing =>
                 /\ bearing'.base_station_id = p.station
                 /\ p.beam = 2
                 /\ \A s \in Sensor :
                       /\ bearing'.offset_0[s] = Offset(p.station, p.rotation, 1, s)
                       /\ bearing'.offset_1[s] = Offset(p.station, p.rotation, 2, s)
           /\ p.beam = 1 =>
                 LET blocks == per_channel_buffer'[p.station]
                 IN  Len(blocks) # 0 /\ IsBlockOf(blocks[Len(blocks)], p)
           /\ LET blocks == per_channel_buffer[p.station]
              IN  /\ Len(blocks) # 0
                  /\ blocks[Len(blocks)].timestamp0 = ZeroOf(p.station, p.rotation)
                  => per_channel_buffer'[p.station] = <<>>
<1> DEFINE b == p.station
           old == per_channel_buffer[b]
           blocks == LastTwo(Append(old, block))
           paired == blocksAreMatchedPair(blocks)
<1>1. /\ p \in Pulse /\ b \in Station /\ p.beam \in {1, 2} /\ p.rotation \in Nat
  BY PulseType DEF TimeOrder
<1>2. block \in SweepBlock /\ block.base_station_id = b
  BY DEF IsBlockOf
<1>3. old \in Seq(SweepBlock) /\ Len(old) <= 2 /\ Len(old) \in Nat
  BY <1>1 DEF PairsOK, BlocksOK
<1>4. /\ blocks \in Seq(SweepBlock) /\ Len(blocks) \in {1, 2}
      /\ blocks[Len(blocks)] = block
      /\ Len(blocks) = 2 <=> Len(old) # 0
      /\ Len(blocks) = 2 => blocks[1] = old[Len(old)]
  <2> HIDE DEF blocks, old, b
  <2>1. PICK more : more = blocks
    OBVIOUS
  <2>2. more = LastTwo(Append(old, block))
    BY <2>1 DEF blocks
  <2> QED BY <1>2, <1>3, <2>1, <2>2, LastTwoBlocks
<1>5. /\ per_channel_buffer' = [per_channel_buffer EXCEPT ![b] = IF paired THEN <<>> ELSE blocks]
      /\ bearing' = IF paired /\ plausible THEN extractMeasurements(blocks) ELSE NoBearing
  BY <1>2 DEF ProcessBlock
<1>6. per_channel_buffer \in [Station -> Seq(SweepBlock)]
  BY DEF PairsOK
<1> HIDE DEF blocks, paired
<1>7. /\ per_channel_buffer' \in [Station -> Seq(SweepBlock)]
      /\ per_channel_buffer'[b] = IF paired THEN <<>> ELSE blocks
      /\ \A c \in Station \ {b} : per_channel_buffer'[c] = per_channel_buffer[c]
  <2>1. (IF paired THEN <<>> ELSE blocks) \in Seq(SweepBlock)
    BY <1>4
  <2> QED BY <1>1, <1>5, <1>6, <2>1
<1>8. ASSUME Len(old) # 0
      PROVE  \E q \in Pulse :
                /\ q.station = b /\ IsBlockOf(old[Len(old)], q)
                /\ ~ LookAlike(b, p.rotation, q.rotation, MaxTimestamp0Diff)
                /\ \A s \in Sensor : PulseAt(q, s) \in Arrived
  BY <1>1, <1>3, <1>8 DEF PairsOK, EndsWith
<1>9. paired <=> /\ Len(old) # 0
                 /\ ~ timestampAbsDiffLargerThan(block.timestamp0, old[Len(old)].timestamp0,
                                                 MaxTimestamp0Diff)
  BY <1>4 DEF paired, blocksAreMatchedPair
<1>10. \A c \in Station : BlocksOK(per_channel_buffer'[c], c, Arrived \cup {p})
  <2>1. ASSUME NEW c \in Station, c # b
        PROVE  BlocksOK(per_channel_buffer'[c], c, Arrived \cup {p})
    <3>1. per_channel_buffer'[c] = per_channel_buffer[c]
      BY <1>7, <2>1
    <3>2. BlocksOK(per_channel_buffer[c], c, Arrived)
      BY DEF PairsOK
    <3> QED BY <3>1, <3>2 DEF BlocksOK
  <2>2. BlocksOK(<<>>, b, Arrived \cup {p})
    BY DEF BlocksOK
  <2>3. BlocksOK(blocks, b, Arrived \cup {p})
    <3>1. ASSUME NEW i \in 1 .. Len(blocks)
          PROVE  \E q \in Pulse :
                    /\ q.station = b /\ IsBlockOf(blocks[i], q)
                    /\ \A s \in Sensor : PulseAt(q, s) \in Arrived \cup {p}
      <4>1. CASE i = Len(blocks)
        BY <1>1, <1>4, <4>1
      <4>2. CASE i # Len(blocks)
        <5>1. i = 1 /\ Len(blocks) = 2
          BY <1>4, <4>2
        <5>2. blocks[i] = old[Len(old)] /\ Len(old) # 0
          BY <1>4, <5>1
        <5> QED BY <1>8, <5>2
      <4> QED BY <4>1, <4>2
    <3>2. Len(blocks) <= 2
      BY <1>4
    <3> QED BY <1>4, <3>1, <3>2 DEF BlocksOK
  <2> QED BY <1>7, <2>1, <2>2, <2>3
<1>11. ASSUME bearing' # NoBearing
       PROVE  /\ bearing'.base_station_id = b
              /\ p.beam = 2
              /\ \A s \in Sensor :
                    /\ bearing'.offset_0[s] = Offset(b, p.rotation, 1, s)
                    /\ bearing'.offset_1[s] = Offset(b, p.rotation, 2, s)
  <2>1. paired /\ bearing' = extractMeasurements(blocks)
    BY <1>5, <1>11
  <2>2. Len(old) # 0 /\ Len(blocks) = 2 /\ blocks[1] = old[Len(old)] /\ blocks[2] = block
    BY <1>4, <1>9, <2>1
  <2>3. PICK q \in Pulse : /\ q.station = b /\ IsBlockOf(old[Len(old)], q)
                          /\ ~ LookAlike(b, p.rotation, q.rotation, MaxTimestamp0Diff)
                          /\ \A s \in Sensor : PulseAt(q, s) \in Arrived
    BY <1>8, <2>2
  <2>4. q.rotation = p.rotation /\ q.beam = 1 /\ p.beam = 2
    BY <1>9, <2>1, <2>3, PairIsOneRotation
  <2>5. /\ bearing'.base_station_id = blocks[2].base_station_id
        /\ bearing'.offset_0 = blocks[1].sensors /\ bearing'.offset_1 = blocks[2].sensors
    BY <2>1 DEF extractMeasurements
  <2>6. \A s \in Sensor : bearing'.offset_0[s] = Offset(b, p.rotation, 1, s)
    BY <2>2, <2>3, <2>4, <2>5 DEF IsBlockOf
  <2>7. \A s \in Sensor : bearing'.offset_1[s] = Offset(b, p.rotation, 2, s)
    BY <2>2, <2>4, <2>5 DEF IsBlockOf
  <2> QED BY <1>2, <2>2, <2>4, <2>5, <2>6, <2>7
<1>12. ASSUME p.beam = 1
       PROVE  /\ Len(per_channel_buffer'[b]) # 0
              /\ IsBlockOf(per_channel_buffer'[b][Len(per_channel_buffer'[b])], p)
  <2>1. ~ paired
    <3>1. SUFFICES ASSUME paired
                   PROVE  FALSE
      OBVIOUS
    <3>2. PICK q \in Pulse : /\ q.station = b /\ IsBlockOf(old[Len(old)], q)
                            /\ ~ LookAlike(b, p.rotation, q.rotation, MaxTimestamp0Diff)
                            /\ \A s \in Sensor : PulseAt(q, s) \in Arrived
      BY <1>8, <1>9, <3>1
    <3>3. q.rotation = p.rotation /\ p.beam = 2
      BY <1>9, <3>1, <3>2, PairIsOneRotation
    <3> QED BY <1>12, <3>3
  <2>2. per_channel_buffer'[b] = blocks
    BY <1>7, <2>1
  <2>3. Len(blocks) # 0
    <3>1. PICK n \in {1, 2} : n = Len(blocks)
      BY <1>4
    <3>2. n # 0
      BY <3>1
    <3> QED BY <3>1, <3>2
  <2>4. IsBlockOf(blocks[Len(blocks)], p)
    BY <1>4, Zenon
  <2> QED BY <2>2, <2>3, <2>4
<1>13. ASSUME Len(old) # 0, old[Len(old)].timestamp0 = ZeroOf(b, p.rotation)
       PROVE  per_channel_buffer'[b] = <<>>
  <2>1. block.timestamp0 = ZeroOf(b, p.rotation) /\ ZeroOf(b, p.rotation) \in Timestamp
    BY <1>1, ZeroType DEF IsBlockOf
  <2>2. ~ timestampAbsDiffLargerThan(block.timestamp0, old[Len(old)].timestamp0,
                                     MaxTimestamp0Diff)
    BY <1>13, <2>1, NoDifference, MeasurementAssumption
  <2> QED BY <1>7, <1>9, <1>13, <2>2
<1>14. EndsWith(per_channel_buffer'[b], b, p.rotation, Arrived \cup {p})
  <2>1. EndsWith(<<>>, b, p.rotation, Arrived \cup {p})
    BY DEF EndsWith
  <2>2. EndsWith(blocks, b, p.rotation, Arrived \cup {p})
    BY <1>1, <1>4 DEF EndsWith
  <2> QED BY <1>7, <2>1, <2>2
<1> QED BY <1>7, <1>10, <1>11, <1>12, <1>13, <1>14

----------------------------------------------------------------------------
\* The earliest pulse still to come is over.
LEMMA TimePasses ==
    ASSUME TimeOrder, NEW p \in coming, \A q \in coming : TimeOf(p) <= TimeOf(q),
           coming' = coming \ {p}
    PROVE  TimeOrder' /\ Arrived' = Arrived \cup {p} /\ p \in Pulse /\ p \notin Arrived
<1>1. p \in Pulse /\ coming \subseteq Pulse
  BY DEF TimeOrder
<1>2. Arrived' = Arrived \cup {p} /\ p \notin Arrived
  BY <1>1 DEF Arrived
<1>3. \A r \in Arrived \cup {p}, q \in coming \ {p} : TimeOf(r) <= TimeOf(q)
  BY DEF TimeOrder
<1> QED BY <1>1, <1>2, <1>3 DEF TimeOrder

\* Recent pulses are close to each other.
LEMMA RecentAreNear ==
    ASSUME NEW pulses, pulses \subseteq Pulse, NEW time \in Nat,
           NEW p \in Recent(time, pulses), NEW q \in Recent(time, pulses)
    PROVE  Near(p, q)
<1>1. p \in Pulse /\ q \in Pulse
  BY DEF Recent
<1>2. TimeOf(p) \in Nat /\ TimeOf(q) \in Nat /\ kMaxTimestampDiffForSweep \in Nat
  BY <1>1, PulseType, SweepAssumption
<1> QED BY <1>2 DEF Recent, Near

\* Of the frames stored before, those stay that happened within the window before
\* the pulse just coming: the counter shows it, for no lap has passed since.
LEMMA KeptIsRecent ==
    ASSUME FramesOK, TimeOrder, NEW p \in coming, block_frames # NoFrames,
           TimeOf(p) - latest + 2 * kMaxTimestampDiffForSweep < CounterSize,
           NEW s \in Present(block_frames),
           ~ timestampAbsDiffLargerThan(StampOf(p), block_frames[s].timestamp,
                                        kMaxTimestampDiffForSweep)
    PROVE  \E q \in Recent(TimeOf(p), Arrived) : q.sid = s /\ IsFrameOf(block_frames[s], q)
<1> DEFINE K == kMaxTimestampDiffForSweep
<1>1. PICK q \in Recent(latest, Arrived) : q.sid = s /\ IsFrameOf(block_frames[s], q)
  BY DEF FramesOK, StoredPulses
<1>2. /\ q \in Arrived /\ q \in Pulse /\ p \in Pulse
      /\ TimeOf(q) <= latest /\ latest - TimeOf(q) <= K
  BY <1>1 DEF Recent, Arrived, TimeOrder
<1>3. TimeOf(q) <= TimeOf(p)
  BY <1>2 DEF TimeOrder
<1>4. /\ TimeOf(p) \in Nat /\ TimeOf(q) \in Nat /\ PowerUp \in Nat /\ latest \in Nat
      /\ K \in Nat /\ 2 * K < CounterSize /\ CounterSize \in Nat
      /\ StampOf(p) \in Timestamp /\ StampOf(q) \in Timestamp
  BY <1>2, PulseType, RotorTypes, SweepAssumption, CounterSizeAssumption DEF FramesOK
<1>5. PICK identified \in BOOLEAN, withOffset \in BOOLEAN :
          block_frames[s] = FrameOf(q, identified, withOffset)
  BY <1>1 DEF IsFrameOf
<1>6. block_frames[s].timestamp = StampOf(q)
  BY <1>5 DEF FrameOf
<1>7. CircularDistance(StampOf(p), StampOf(q)) <= K
  <2>1. ~ (CircularDistance(StampOf(p), StampOf(q)) > K)
    BY <1>4, <1>6, ComparisonIsDistance
  <2>2. CircularDistance(StampOf(p), StampOf(q)) \in Int
    BY <1>4, DiffType, CounterSizeAssumption DEF CircularDistance, Timestamp
  <2> QED BY <1>4, <2>1, <2>2
<1>8. PICK a, b \in Nat : a = PowerUp + TimeOf(p) /\ b = PowerUp + TimeOf(q)
  BY <1>4
<1>9. a - b = TimeOf(p) - TimeOf(q) /\ b - a = TimeOf(q) - TimeOf(p)
  BY <1>4, <1>8
<1>10. a - b < CounterSize - K /\ b - a < CounterSize - K
  <2>1. TimeOf(p) - TimeOf(q) < CounterSize - K
    BY <1>2, <1>4
  <2>2. TimeOf(q) - TimeOf(p) < CounterSize - K
    BY <1>3, <1>4
  <2> QED BY <1>9, <2>1, <2>2
<1>11. CircularDistance(a % CounterSize, b % CounterSize) <= K
  BY <1>7, <1>8 DEF StampOf
<1>12. a - b <= K
  <2>1. a \in Int /\ b \in Int /\ K \in Nat
    BY <1>4, <1>8
  <2> HIDE DEF K
  <2> QED BY <1>10, <1>11, <2>1, CloseStampsAreClose
<1>13. TimeOf(p) - TimeOf(q) <= K
  BY <1>9, <1>12
<1> QED BY <1>1, <1>2, <1>3, <1>13 DEF Recent

\* What is stored with the frame of the pulse just coming.
LEMMA StoredWithFrame ==
    ASSUME FramesOK, TimeOrder, NEW p \in coming,
           block_frames # NoFrames =>
               TimeOf(p) - latest + 2 * kMaxTimestampDiffForSweep < CounterSize,
           NEW identified \in BOOLEAN, NEW withOffset \in BOOLEAN, identified \/ Alone(p),
           NEW frames, frames = Refresh(block_frames, FrameOf(p, identified, withOffset))
    PROVE  /\ BufferTypeOK(frames) /\ frames # NoFrames
           /\ StoredPulses(frames, Recent(TimeOf(p), Arrived \cup {p}))
           /\ p \in Recent(TimeOf(p), Arrived \cup {p})
           /\ IsFrameOf(frames[p.sid], p)
<1>0. p \in Pulse
  BY DEF TimeOrder
<1>1. PICK f : f = FrameOf(p, identified, withOffset)
  OBVIOUS
<1>2. f \in DataFrame /\ f.sid = p.sid /\ p.sid \in Sensor /\ f.timestamp = StampOf(p)
  BY <1>0, <1>1, FrameOfPulse, PulseType
<1>3. BufferTypeOK(frames)
  BY <1>1, <1>2, RefreshType DEF FramesOK
<1>4. frames[p.sid] = f
  BY <1>1, <1>2 DEF Refresh
<1>5. IsFrameOf(f, p)
  BY <1>1 DEF IsFrameOf
<1>6. p \in Recent(TimeOf(p), Arrived \cup {p})
  <2>1. TimeOf(p) \in Nat /\ kMaxTimestampDiffForSweep \in Nat
    BY <1>0, PulseType, SweepAssumption
  <2>2. TimeOf(p) <= TimeOf(p) /\ TimeOf(p) - TimeOf(p) <= kMaxTimestampDiffForSweep
    BY <2>1
  <2> QED BY <2>2 DEF Recent
<1>7. ASSUME NEW s \in Present(frames)
      PROVE  \E q \in Recent(TimeOf(p), Arrived \cup {p}) : q.sid = s /\ IsFrameOf(frames[s], q)
  <2>1. CASE s = p.sid
    BY <1>4, <1>5, <1>6, <2>1
  <2>2. CASE s # p.sid
    <3>1. s \in Sensor /\ frames[s] # NoFrame
      BY DEF Present
    <3>2. /\ frames[s] = block_frames[s] /\ s \in Present(block_frames)
          /\ ~ timestampAbsDiffLargerThan(f.timestamp, block_frames[s].timestamp,
                                          kMaxTimestampDiffForSweep)
      BY <1>1, <1>2, <2>2, <3>1 DEF Refresh, Present
    <3>3. block_frames # NoFrames
      BY <3>1, <3>2 DEF NoFrames
    <3>4. PICK q \in Recent(TimeOf(p), Arrived) : q.sid = s /\ IsFrameOf(block_frames[s], q)
      BY <1>2, <3>2, <3>3, KeptIsRecent
    <3>5. q \in Recent(TimeOf(p), Arrived \cup {p})
      BY DEF Recent
    <3> QED BY <3>2, <3>4, <3>5
  <2> QED BY <2>1, <2>2
<1>8. frames # NoFrames
  BY <1>2, <1>4, SweepAssumption DEF NoFrames
<1> QED BY <1>3, <1>4, <1>5, <1>6, <1>7, <1>8 DEF StoredPulses

\* The sweep processor given the frame of the pulse just coming: it reports the
\* sweep of that pulse, all of which is over then, or stores the frame.
LEMMA ReceivedFrames ==
    ASSUME FramesOK, TimeOrder, NEW p \in coming,
           NEW identified \in BOOLEAN, NEW withOffset \in BOOLEAN,
           NEW plausible \in BOOLEAN, Received(p, identified, withOffset, plausible),
           Arrived' = Arrived \cup {p},
           NEW frames, frames = Refresh(block_frames, FrameOf(p, identified, withOffset))
    PROVE  /\ FramesOK'
           /\ \/ /\ validateSweep(frames)
                 /\ IsBlockOf(sweep', p) /\ block_frames' = NoFrames
                 /\ \A s \in Sensor : PulseAt(p, s) \in Arrived \cup {p}
                 /\ ~ LookAlike(p.station, p.rotation, reported[p.station], MaxTimestamp0Diff)
                 /\ ProcessBlock(sweep', plausible)
                 /\ sweep' # NoSweep
              \/ /\ ~ validateSweep(frames)
                 /\ sweep' = NoSweep /\ block_frames' = frames
                 /\ bearing' = NoBearing /\ UNCHANGED per_channel_buffer
<1> DEFINE pulses == Recent(TimeOf(p), Arrived \cup {p})
<1>1. p \in Pulse /\ pulses \subseteq Pulse /\ TimeOf(p) \in Nat
      /\ \A q \in pulses : q \in Arrived \cup {p}
  BY PulseType DEF TimeOrder, Arrived, Recent
<1>2. /\ identified \/ Alone(p)
      /\ block_frames # NoFrames =>
            TimeOf(p) - latest + 2 * kMaxTimestampDiffForSweep < CounterSize
      /\ sweep' # NoSweep =>
            ~ LookAlike(p.station, p.rotation, reported[p.station], MaxTimestamp0Diff)
      /\ latest' = IF block_frames' = NoFrames THEN 0 ELSE TimeOf(p)
  BY DEF Received, InTouch
<1>3. /\ BufferTypeOK(frames) /\ frames # NoFrames
      /\ StoredPulses(frames, pulses) /\ p \in pulses
      /\ IsFrameOf(frames[p.sid], p)
  BY <1>2, StoredWithFrame
<1>4. /\ ProcessFrame(FrameOf(p, identified, withOffset))
      /\ IF sweep' # NoSweep THEN ProcessBlock(sweep', plausible) ELSE NoBlock
  BY DEF Received, DataFrameReceived
<1>5. CASE validateSweep(frames)
  <2>1. sweep' = completeBlockInformation(frames) /\ block_frames' = NoFrames
    BY <1>4, <1>5 DEF ProcessFrame
  <2>2. \A q, r \in pulses : Near(q, r)
    <3>1. Arrived \cup {p} \subseteq Pulse
      BY <1>1 DEF Arrived
    <3> QED BY <1>1, <3>1, RecentAreNear
  <2> HIDE DEF pulses
  <2>3. /\ IsBlockOf(completeBlockInformation(frames), p)
        /\ \A s \in Sensor : PulseAt(p, s) \in pulses
    BY <1>1, <1>3, <1>5, <2>2, ValidGivesItsSweep
  <2>4. sweep' \in SweepBlock /\ sweep' # NoSweep
    BY <2>1, <2>3, TimelineAssumption DEF IsBlockOf
  <2>5. latest' = 0
    BY <1>2, <2>1
  <2>6. FramesOK'
    BY <2>1, <2>4, <2>5 DEF FramesOK, BufferTypeOK, StoredPulses, NoFrames, Present
  <2> QED BY <1>1, <1>2, <1>4, <1>5, <2>1, <2>3, <2>4, <2>6
<1>6. CASE ~ validateSweep(frames)
  <2>1. sweep' = NoSweep /\ block_frames' = frames
    BY <1>4, <1>6 DEF ProcessFrame
  <2>2. latest' = TimeOf(p)
    BY <1>2, <1>3, <2>1
  <2>3. Recent(latest, Arrived)' = pulses
    BY <2>2 DEF Recent, TimeOf, OffsetOf
  <2>4. FramesOK'
    BY <1>1, <1>3, <2>1, <2>2, <2>3 DEF FramesOK, BufferTypeOK, StoredPulses, Present
  <2> QED BY <1>4, <1>6, <2>1, <2>4 DEF NoBlock
<1> QED BY <1>5, <1>6

\* The pairs of a station, and the bearing its second sweep gives.
LEMMA ReceivedPairs ==
    ASSUME FramesOK, TimeOrder, PairsOK, NEW p \in coming,
           NEW identified \in BOOLEAN, NEW withOffset \in BOOLEAN,
           NEW plausible \in BOOLEAN, Received(p, identified, withOffset, plausible),
           Arrived' = Arrived \cup {p}
    PROVE  /\ PairsOK'
           /\ bearing' # NoBearing =>
                 /\ bearing'.base_station_id = p.station
                 /\ p.beam = 2
                 /\ \A s \in Sensor :
                       /\ bearing'.offset_0[s] = Offset(p.station, p.rotation, 1, s)
                       /\ bearing'.offset_1[s] = Offset(p.station, p.rotation, 2, s)
<1>1. PICK frames : frames = Refresh(block_frames, FrameOf(p, identified, withOffset))
  OBVIOUS
<1>2. reported' = [reported EXCEPT ![p.station] =
                       IF per_channel_buffer'[p.station] = <<>> THEN -1
                       ELSE IF sweep' # NoSweep THEN p.rotation ELSE @]
  BY DEF Received
<1>3. /\ p.station \in Station /\ p.rotation \in Int /\ reported \in [Station -> Int]
      /\ \A b \in Station : /\ BlocksOK(per_channel_buffer[b], b, Arrived)
                          /\ EndsWith(per_channel_buffer[b], b, reported[b], Arrived)
  BY PulseType DEF PairsOK, TimeOrder
<1>4. reported' \in [Station -> Int]
  BY <1>2, <1>3
<1>5. \A b \in Station \ {p.station} : reported'[b] = reported[b]
  BY <1>2, <1>3
<1>6. ASSUME NEW b \in Station
      PROVE  /\ BlocksOK(per_channel_buffer[b], b, Arrived \cup {p})
             /\ EndsWith(per_channel_buffer[b], b, reported[b], Arrived \cup {p})
  BY <1>3 DEF BlocksOK, EndsWith
<1>7. \A b \in Station : \A r : EndsWith(<<>>, b, r, Arrived \cup {p})
  BY DEF EndsWith
<1>8. CASE validateSweep(frames)
  <2>1. PICK block : block = sweep'
    OBVIOUS
  <2>2. /\ IsBlockOf(block, p) /\ ProcessBlock(block, plausible) /\ block # NoSweep
        /\ ~ LookAlike(p.station, p.rotation, reported[p.station], MaxTimestamp0Diff)
        /\ \A s \in Sensor : PulseAt(p, s) \in Arrived \cup {p}
    BY <1>1, <1>8, <2>1, ReceivedFrames
  <2>3. /\ per_channel_buffer' \in [Station -> Seq(SweepBlock)]
        /\ \A b \in Station : BlocksOK(per_channel_buffer'[b], b, Arrived \cup {p})
        /\ EndsWith(per_channel_buffer'[p.station], p.station, p.rotation, Arrived \cup {p})
        /\ \A b \in Station \ {p.station} : per_channel_buffer'[b] = per_channel_buffer[b]
        /\ bearing' # NoBearing =>
              /\ bearing'.base_station_id = p.station
              /\ p.beam = 2
              /\ \A s \in Sensor :
                    /\ bearing'.offset_0[s] = Offset(p.station, p.rotation, 1, s)
                    /\ bearing'.offset_1[s] = Offset(p.station, p.rotation, 2, s)
    BY <2>2, ProcessedBlock
  <2>4. ASSUME NEW b \in Station
        PROVE  EndsWith(per_channel_buffer'[b], b, reported'[b], Arrived \cup {p})
    <3>1. CASE b # p.station
      BY <1>5, <1>6, <2>3, <3>1
    <3>2. CASE b = p.station /\ per_channel_buffer'[b] = <<>>
      BY <1>7, <3>2
    <3>3. CASE b = p.station /\ per_channel_buffer'[b] # <<>>
      <4>1. reported'[b] = p.rotation
        BY <1>2, <1>3, <2>1, <2>2, <3>3
      <4> QED BY <2>3, <3>3, <4>1
    <3> QED BY <3>1, <3>2, <3>3
  <2> QED BY <1>4, <2>3, <2>4 DEF PairsOK
<1>9. CASE ~ validateSweep(frames)
  <2>1. bearing' = NoBearing /\ per_channel_buffer' = per_channel_buffer /\ sweep' = NoSweep
    BY <1>1, <1>9, ReceivedFrames
  <2>2. ASSUME NEW b \in Station
        PROVE  EndsWith(per_channel_buffer'[b], b, reported'[b], Arrived \cup {p})
    <3>1. CASE b # p.station
      BY <1>5, <1>6, <2>1, <3>1
    <3>2. CASE b = p.station /\ per_channel_buffer'[b] = <<>>
      BY <1>7, <3>2
    <3>3. CASE b = p.station /\ per_channel_buffer'[b] # <<>>
      <4>1. reported'[b] = reported[b]
        BY <1>2, <1>3, <2>1, <3>3
      <4> QED BY <1>6, <2>1, <4>1
    <3> QED BY <3>1, <3>2, <3>3
  <2> QED BY <1>4, <1>6, <2>1, <2>2 DEF PairsOK
<1> QED BY <1>8, <1>9

\* The slow bit: the zero crossing of a rotation is told apart from that of any
\* other, and equals itself in whichever sweep it is measured.
LEMMA ReceivedSlowBit ==
    ASSUME CrossingsOK, TimeOrder, NEW p \in coming,
           NEW identified \in BOOLEAN, NEW withOffset \in BOOLEAN,
           NEW plausible \in BOOLEAN, Received(p, identified, withOffset, plausible)
    PROVE  /\ CrossingsOK'
           /\ \A b \in Station \cap Slot :
                 (\E bit \in {0, 1} : slow_bit' = <<b, bit>>)
                    <=> /\ measured[b] # -1
                        /\ measured'[b] \notin {-1, measured[b]}
<1> DEFINE b == p.station
           zero == ZeroOf(p.station, p.rotation)
<1>1. PICK f : f = FrameOf(p, identified, withOffset)
  OBVIOUS
<1>2. /\ p \in Pulse /\ b \in Station
      /\ p.rotation \in 0 .. Rotations[b] - 1 /\ p.rotation \in Nat
      /\ zero \in Timestamp
  BY PulseType, ZeroType DEF TimeOrder
<1>3. /\ validNpoly(f) <=> identified
      /\ identified => baseStationId(f) = b /\ slowBit(f) \in {0, 1}
      /\ hasOffset(f) <=> withOffset
      /\ withOffset => rotorZero(f) = zero
  BY <1>1, <1>2, FrameOfPulse
<1>4. SlowBits(f)
  BY <1>1 DEF Received, DataFrameReceived
<1>5. measured' = [measured EXCEPT ![b] = IF CarriesSlowBit(f) THEN p.rotation ELSE @]
  BY <1>1 DEF Received
<1>6. /\ ootx_decoders \subseteq Slot
      /\ prev_timestamp0 \in [Slot -> Timestamp]
      /\ measured \in [Station -> Int]
  BY DEF CrossingsOK
<1> HIDE DEF zero
<1>7. CASE ~ CarriesSlowBit(f)
  <2>1. slow_bit' = NoBit /\ ootx_decoders' = ootx_decoders /\ prev_timestamp0' = prev_timestamp0
    BY <1>4, <1>7 DEF SlowBits
  <2>2. measured' = measured
    BY <1>5, <1>6, <1>7
  <2>3. CrossingsOK'
    BY <2>1, <2>2 DEF CrossingsOK
  <2>4. ASSUME NEW c \in Station \cap Slot, NEW bit \in {0, 1}
        PROVE  slow_bit' # <<c, bit>>
    BY <2>1, TimelineAssumption
  <2> QED BY <2>2, <2>3, <2>4
<1>8. CASE CarriesSlowBit(f)
  <2> DEFINE prev == IF b \in ootx_decoders THEN prev_timestamp0[b] ELSE zero
             bit == slowBit(f)
  <2>1. /\ identified /\ withOffset /\ b < kDeckLighthouseMaxNBs
        /\ baseStationId(f) = b /\ rotorZero(f) = zero /\ bit \in {0, 1}
    BY <1>3, <1>8 DEF CarriesSlowBit
  <2>2. b \in Slot
    <3>1. PICK c \in 1 .. 16 : c = b
      BY <1>2, MeasurementAssumption
    <3>2. c < kDeckLighthouseMaxNBs /\ kDeckLighthouseMaxNBs \in Nat
      BY <2>1, <3>1, DecoderAssumption
    <3>3. c \in Slot
      BY <3>2 DEF Slot
    <3> QED BY <3>1, <3>3
  <2> HIDE DEF b, bit
  <2>3. /\ ootx_decoders' = ootx_decoders \cup {b}
        /\ prev_timestamp0' = [prev_timestamp0 EXCEPT ![b] = zero]
        /\ slow_bit' = IF timestampAbsDiffLargerThan(zero, prev, kMinTicksBetweenSlowBits)
                       THEN <<b, bit>> ELSE NoBit
    BY <1>4, <1>8, <2>1 DEF SlowBits, bit
  <2>4. measured' = [measured EXCEPT ![b] = p.rotation]
    BY <1>5, <1>8
  <2>5. /\ b \in ootx_decoders <=> measured[b] # -1
        /\ measured[b] # -1 =>
              /\ measured[b] \in 0 .. Rotations[b] - 1
              /\ prev_timestamp0[b] = ZeroOf(b, measured[b])
    BY <1>2, <2>2 DEF CrossingsOK
  <2>6. kMinTicksBetweenSlowBits \in Nat /\ 2 * kMinTicksBetweenSlowBits < CounterSize
    BY DecoderAssumption
  <2>7. timestampAbsDiffLargerThan(zero, prev, kMinTicksBetweenSlowBits)
          <=> measured[b] # -1 /\ measured[b] # p.rotation
    <3>1. CASE measured[b] = -1 \/ measured[b] = p.rotation
      <4>1. prev = zero
        BY <2>5, <3>1 DEF zero, b
      <4> QED BY <1>2, <2>6, <3>1, <4>1, NoDifference
    <3>2. CASE measured[b] # -1 /\ measured[b] # p.rotation
      <4>1. PICK r \in 0 .. Rotations[b] - 1 : r = measured[b] /\ r \in Nat
        BY <2>5, <3>2
      <4>2. prev = ZeroOf(b, r) /\ prev \in Timestamp
        BY <1>6, <2>2, <2>5, <3>2, <4>1
      <4>3. CircularDistance(zero, ZeroOf(b, r)) > kMinTicksBetweenSlowBits
        <5>1. ~ LookAlike(b, p.rotation, measured[b], kMinTicksBetweenSlowBits)
          BY <1>1, <1>8 DEF Received, InTouch, b
        <5>2. ~ (CircularDistance(zero, ZeroOf(b, r)) <= kMinTicksBetweenSlowBits)
          BY <3>2, <4>1, <5>1 DEF LookAlike, zero, b
        <5>3. CircularDistance(zero, ZeroOf(b, r)) \in Int
          BY <1>2, <4>2, DiffType, CounterSizeAssumption DEF CircularDistance, Timestamp
        <5> QED BY <2>6, <5>2, <5>3
      <4> QED BY <1>2, <2>6, <3>2, <4>2, <4>3, ComparisonIsDistance
    <3> QED BY <3>1, <3>2
  <2> HIDE DEF prev
  <2>8. p.rotation \in Int /\ p.rotation # -1
    BY <1>2
  <2>9. CrossingsOK'
    <3>1. ootx_decoders' \subseteq Slot /\ prev_timestamp0' \in [Slot -> Timestamp]
      BY <1>2, <1>6, <2>2, <2>3
    <3>2. slow_bit' \in (Slot \X {0, 1}) \cup {NoBit}
      BY <2>1, <2>2, <2>3
    <3>3. measured' \in [Station -> Int]
      BY <1>6, <2>4, <2>8
    <3>4. ASSUME NEW c \in Station \cap Slot
          PROVE  /\ c \in ootx_decoders' <=> measured'[c] # -1
                 /\ measured'[c] # -1 =>
                       /\ measured'[c] \in 0 .. Rotations[c] - 1
                       /\ prev_timestamp0'[c] = ZeroOf(c, measured'[c])
      <4>1. CASE c = b
        <5>1. measured'[c] = p.rotation /\ prev_timestamp0'[c] = zero /\ c \in ootx_decoders'
          BY <1>2, <1>6, <2>2, <2>3, <2>4, <4>1 DEF b
        <5> QED BY <1>2, <2>8, <4>1, <5>1 DEF zero, b
      <4>2. CASE c # b
        <5>1. /\ measured'[c] = measured[c] /\ prev_timestamp0'[c] = prev_timestamp0[c]
              /\ c \in ootx_decoders' <=> c \in ootx_decoders
          BY <1>6, <2>3, <2>4, <4>2
        <5> QED BY <5>1 DEF CrossingsOK
      <4> QED BY <4>1, <4>2
    <3> QED BY <3>1, <3>2, <3>3, <3>4 DEF CrossingsOK
  <2>10. ASSUME NEW c \in Station \cap Slot
         PROVE  (\E x \in {0, 1} : slow_bit' = <<c, x>>)
                   <=> measured[c] # -1 /\ measured'[c] \notin {-1, measured[c]}
    <3>1. CASE c # b
      <4>1. measured'[c] = measured[c]
        BY <1>6, <2>4, <3>1
      <4>2. ASSUME NEW x \in {0, 1}
            PROVE  slow_bit' # <<c, x>>
        <5>1. NoBit # <<c, x>>
          BY TimelineAssumption
        <5>2. <<b, bit>> # <<c, x>>
          BY <3>1
        <5> QED BY <2>3, <5>1, <5>2
      <4> QED BY <4>1, <4>2
    <3>2. CASE c = b
      <4>1. measured'[c] = p.rotation
        BY <1>2, <1>6, <2>4, <3>2 DEF b
      <4>2. CASE timestampAbsDiffLargerThan(zero, prev, kMinTicksBetweenSlowBits)
        BY <2>1, <2>3, <2>7, <2>8, <3>2, <4>1, <4>2
      <4>3. CASE ~ timestampAbsDiffLargerThan(zero, prev, kMinTicksBetweenSlowBits)
        <5>1. slow_bit' = NoBit
          BY <2>3, <4>3
        <5>2. \A x \in {0, 1} : NoBit # <<c, x>>
          BY TimelineAssumption
        <5>3. measured[c] = -1 \/ measured[c] = p.rotation
          BY <2>7, <3>2, <4>3
        <5> QED BY <4>1, <5>1, <5>2, <5>3
      <4> QED BY <4>2, <4>3
    <3> QED BY <3>1, <3>2
  <2> QED BY <2>9, <2>10
<1> QED BY <1>7, <1>8

----------------------------------------------------------------------------
\* What a decoder that is not called, or is reset, leaves true.
LEMMA NothingReceived ==
    ASSUME StationInv, NEW p \in coming, \A q \in coming : TimeOf(p) <= TimeOf(q), Occluded(p)
    PROVE  StationInv'
<1>1. TimeOrder' /\ Arrived' = Arrived \cup {p}
  BY TimePasses DEF StationInv, Occluded
<1>2. /\ block_frames' = block_frames /\ sweep' = NoSweep
      /\ per_channel_buffer' = per_channel_buffer
      /\ ootx_decoders' = ootx_decoders /\ prev_timestamp0' = prev_timestamp0
      /\ slow_bit' = NoBit /\ measured' = measured
      /\ latest' = latest /\ reported' = reported
  BY DEF Occluded
<1>3. FramesOK'
  BY <1>1, <1>2 DEF StationInv, FramesOK, BufferTypeOK, StoredPulses, Present, Recent
<1>4. PairsOK'
  <2>1. \A b \in Station : /\ BlocksOK(per_channel_buffer[b], b, Arrived \cup {p})
                          /\ EndsWith(per_channel_buffer[b], b, reported[b], Arrived \cup {p})
    BY DEF StationInv, PairsOK, BlocksOK, EndsWith
  <2> QED BY <1>1, <1>2, <2>1 DEF StationInv, PairsOK
<1>5. CrossingsOK'
  BY <1>2 DEF StationInv, CrossingsOK
<1> QED BY <1>1, <1>3, <1>4, <1>5 DEF StationInv

\* The state after a reset, and at the start.
Cleared ==
    /\ block_frames = NoFrames /\ sweep = NoSweep
    /\ per_channel_buffer = [b \in Station |-> <<>>]
    /\ ootx_decoders = {} /\ prev_timestamp0 = [b \in Slot |-> 0] /\ slow_bit = NoBit
    /\ measured = [b \in Station |-> -1]
    /\ latest = 0 /\ reported = [b \in Station |-> -1]

LEMMA ClearedIsOK ==
    ASSUME TimeOrder, Cleared
    PROVE  StationInv
<1>1. FramesOK
  BY DEF Cleared, FramesOK, BufferTypeOK, StoredPulses, NoFrames, Present
<1>2. PairsOK
  <2>1. per_channel_buffer \in [Station -> Seq(SweepBlock)] /\ reported \in [Station -> Int]
    BY DEF Cleared
  <2>2. ASSUME NEW b \in Station
        PROVE  /\ BlocksOK(per_channel_buffer[b], b, Arrived)
               /\ EndsWith(per_channel_buffer[b], b, reported[b], Arrived)
    <3>1. per_channel_buffer[b] = <<>>
      BY DEF Cleared
    <3> QED BY <3>1 DEF BlocksOK, EndsWith
  <2> QED BY <2>1, <2>2 DEF PairsOK
<1>3. CrossingsOK
  <2>1. 0 \in Timestamp
    BY CounterSizeAssumption DEF Timestamp
  <2>2. \A b \in Station : measured[b] = -1
    BY DEF Cleared
  <2> QED BY <2>1, <2>2 DEF Cleared, CrossingsOK
<1> QED BY <1>1, <1>2, <1>3 DEF StationInv

LEMMA RestartClears ==
    ASSUME StationInv, Restart
    PROVE  StationInv'
<1>1. TimeOrder'
  BY DEF Restart, StationInv, TimeOrder, Arrived
<1>2. Cleared'
  BY DEF Restart, ResetProtocol, ResetSweeps, ResetMeasurements, Cleared
<1>3. (TimeOrder /\ Cleared => StationInv)'
  BY ClearedIsOK, PTL
<1> QED BY <1>1, <1>2, <1>3

LEMMA PulseReceived ==
    ASSUME StationInv, NEW p \in coming, \A q \in coming : TimeOf(p) <= TimeOf(q),
           NEW identified \in BOOLEAN, NEW withOffset \in BOOLEAN,
           NEW plausible \in BOOLEAN, Received(p, identified, withOffset, plausible)
    PROVE  StationInv'
<1>1. coming' = coming \ {p}
  BY DEF Received
<1>2. TimeOrder' /\ Arrived' = Arrived \cup {p}
  BY <1>1, TimePasses DEF StationInv
<1>3. PICK frames : frames = Refresh(block_frames, FrameOf(p, identified, withOffset))
  OBVIOUS
<1>4. FramesOK'
  BY <1>2, <1>3, ReceivedFrames DEF StationInv
<1>5. PairsOK'
  BY <1>2, ReceivedPairs DEF StationInv
<1>6. CrossingsOK'
  BY ReceivedSlowBit DEF StationInv
<1> QED BY <1>2, <1>4, <1>5, <1>6 DEF StationInv

LEMMA StationInvHolds == TimelineSpec => []StationInv
<1>1. TimelineInit => StationInv
  <2> SUFFICES ASSUME TimelineInit
               PROVE  StationInv
    OBVIOUS
  <2>1. TimeOrder
    BY DEF TimelineInit, TimeOrder, Arrived
  <2>2. Cleared
    BY DEF TimelineInit, ProtocolInit, SweepInit, MeasurementInit, Cleared
  <2> QED BY <2>1, <2>2, ClearedIsOK
<1>2. StationInv /\ [TimelineNext]_timelineVars => StationInv'
  <2> SUFFICES ASSUME StationInv, [TimelineNext]_timelineVars
               PROVE  StationInv'
    OBVIOUS
  <2>1. CASE UNCHANGED timelineVars
    BY <2>1
    DEF timelineVars, StationInv, TimeOrder, Arrived, FramesOK, BufferTypeOK, Recent,
        StoredPulses, Present, PairsOK, CrossingsOK
  <2> QED BY <2>1, NothingReceived, RestartClears, PulseReceived DEF TimelineNext
<1> QED BY <1>1, <1>2, PTL DEF TimelineSpec

----------------------------------------------------------------------------
\* Type correctness of the whole decoder: among the rest, a station's deque holds
\* at most two sweeps, both of that station.
THEOREM ProtocolTypeCorrect == TimelineSpec => []ProtocolTypeOK
<1>1. StationInv => ProtocolTypeOK
  <2> SUFFICES ASSUME StationInv
               PROVE  ProtocolTypeOK
    OBVIOUS
  <2>1. SweepTypeOK
    BY DEF StationInv, FramesOK, BufferTypeOK, SweepTypeOK
  <2>2. ASSUME NEW b \in Station
        PROVE  /\ Len(per_channel_buffer[b]) <= 2
               /\ \A i \in DOMAIN per_channel_buffer[b] :
                     /\ per_channel_buffer[b][i] \in SweepBlock
                     /\ per_channel_buffer[b][i].base_station_id = b
    <3>1. BlocksOK(per_channel_buffer[b], b, Arrived)
      BY DEF StationInv, PairsOK
    <3>2. DOMAIN per_channel_buffer[b] = 1 .. Len(per_channel_buffer[b])
      BY <3>1 DEF BlocksOK
    <3> QED BY <3>1, <3>2 DEF BlocksOK, IsBlockOf
  <2> QED BY <2>1, <2>2 DEF ProtocolTypeOK, StationInv, CrossingsOK
<1> QED BY <1>1, StationInvHolds, PTL

\* A bearing is made of one rotation of one station, its first beam first.
THEOREM BearingOfOneRotation == TimelineSpec => BearingsAreOneRotation
<1>1. StationInv /\ [TimelineNext]_timelineVars =>
        [bearing' # NoBearing =>
            \E p \in coming \ coming' :
               /\ bearing'.base_station_id = p.station
               /\ p.beam = 2
               /\ \A s \in Sensor :
                     /\ bearing'.offset_0[s] = Offset(p.station, p.rotation, 1, s)
                     /\ bearing'.offset_1[s] = Offset(p.station, p.rotation, 2, s)]_timelineVars
  <2> SUFFICES ASSUME StationInv, TimelineNext, bearing' # NoBearing
               PROVE  \E p \in coming \ coming' :
                         /\ bearing'.base_station_id = p.station
                         /\ p.beam = 2
                         /\ \A s \in Sensor :
                               /\ bearing'.offset_0[s] = Offset(p.station, p.rotation, 1, s)
                               /\ bearing'.offset_1[s] = Offset(p.station, p.rotation, 2, s)
    OBVIOUS
  <2>1. PICK p \in coming, identified \in BOOLEAN, withOffset \in BOOLEAN, plausible \in BOOLEAN :
            /\ \A q \in coming : TimeOf(p) <= TimeOf(q)
            /\ Received(p, identified, withOffset, plausible)
    BY DEF TimelineNext, Occluded, Restart, ResetProtocol, ResetMeasurements
  <2>2. coming' = coming \ {p}
    BY <2>1 DEF Received
  <2>3. Arrived' = Arrived \cup {p}
    BY <2>1, <2>2, TimePasses DEF StationInv
  <2>4. /\ bearing'.base_station_id = p.station
        /\ p.beam = 2
        /\ \A s \in Sensor :
              /\ bearing'.offset_0[s] = Offset(p.station, p.rotation, 1, s)
              /\ bearing'.offset_1[s] = Offset(p.station, p.rotation, 2, s)
    BY <2>1, <2>3, ReceivedPairs DEF StationInv
  <2>5. p \in coming \ coming'
    BY <2>2
  <2> QED BY <2>4, <2>5
<1> QED BY <1>1, StationInvHolds, PTL DEF TimelineSpec, BearingsAreOneRotation

\* A station's OOTX decoder gets one bit of each rotation it measures, except the
\* first, and never the bit of one rotation twice.
THEOREM SlowBitOncePerRotation == TimelineSpec => OneSlowBitPerRotation
<1>1. StationInv /\ [TimelineNext]_timelineVars =>
        [\A b \in Station \cap Slot :
            (\E bit \in {0, 1} : slow_bit' = <<b, bit>>)
               <=> /\ measured[b] # -1
                   /\ measured'[b] \notin {-1, measured[b]}]_timelineVars
  <2> SUFFICES ASSUME StationInv, TimelineNext, NEW b \in Station \cap Slot
               PROVE  (\E bit \in {0, 1} : slow_bit' = <<b, bit>>)
                         <=> /\ measured[b] # -1
                             /\ measured'[b] \notin {-1, measured[b]}
    OBVIOUS
  <2>1. ASSUME slow_bit' = NoBit, measured'[b] \in {-1, measured[b]}
        PROVE  (\E bit \in {0, 1} : slow_bit' = <<b, bit>>)
                  <=> /\ measured[b] # -1
                      /\ measured'[b] \notin {-1, measured[b]}
    BY <2>1, TimelineAssumption
  <2>2. ASSUME NEW p \in coming, Occluded(p)
        PROVE  slow_bit' = NoBit /\ measured'[b] \in {-1, measured[b]}
    BY <2>2 DEF Occluded
  <2>3. ASSUME Restart
        PROVE  slow_bit' = NoBit /\ measured'[b] \in {-1, measured[b]}
    BY <2>3 DEF Restart, ResetProtocol
  <2>4. ASSUME NEW p \in coming, NEW identified \in BOOLEAN, NEW withOffset \in BOOLEAN,
               NEW plausible \in BOOLEAN, Received(p, identified, withOffset, plausible)
        PROVE  (\E bit \in {0, 1} : slow_bit' = <<b, bit>>)
                  <=> /\ measured[b] # -1
                      /\ measured'[b] \notin {-1, measured[b]}
    BY <2>4, ReceivedSlowBit DEF StationInv
  <2> QED BY <2>1, <2>2, <2>3, <2>4 DEF TimelineNext
<1> QED BY <1>1, StationInvHolds, PTL DEF TimelineSpec, OneSlowBitPerRotation

----------------------------------------------------------------------------
\* The rotations of a station follow each other.
LEMMA RotationsInOrder ==
    ASSUME NEW p \in Pulse, NEW q \in Pulse, p.station = q.station, p.rotation < q.rotation
    PROVE  TimeOf(p) < TimeOf(q)
<1>1. PICK b \in Station : b = p.station /\ b = q.station
  BY PulseType
<1>2. PICK per, phase \in Nat : per = Period[b] /\ phase = Phase[b]
  BY RotorTypes
<1>3. PICK m, n \in Nat : m = p.rotation /\ n = q.rotation /\ m < n
  BY PulseType
<1>4. PICK u, v \in Nat : u = OffsetOf(p) /\ v = OffsetOf(q) /\ u < per
  BY <1>1, <1>2, PulseType, CounterSizeAssumption DEF Timestamp
<1>5. TimeOf(p) = phase + m * per + u /\ TimeOf(q) = phase + n * per + v
  BY <1>1, <1>2, <1>3, <1>4 DEF TimeOf
<1>6. PICK k \in Nat : n = m + 1 + k
  <2>1. n - m - 1 \in Nat /\ n = m + 1 + (n - m - 1)
    BY <1>3
  <2> QED BY <2>1
<1>7. PICK x, y \in Nat : x = m * per /\ y = k * per
  OBVIOUS
<1>8. n * per = x + per + y
  <2>1. (m + 1 + k) * per = m * per + per + k * per
    OBVIOUS
  <2> QED BY <1>6, <1>7, <2>1
<1> QED BY <1>4, <1>5, <1>7, <1>8

Ids == [station : Nat, rotation : Nat, beam : Nat]

LEMMA SweepIdType ==
    ASSUME NEW p \in Pulse
    PROVE  SweepId(p) \in Ids /\ SweepId(p) # NoneYet
<1>1. p.station \in Nat \ {0} /\ p.rotation \in Nat /\ p.beam \in Nat
  <2>1. p.station \in 1 .. 16 /\ p.rotation \in Nat /\ p.beam \in {1, 2}
    BY PulseType
  <2> QED BY <2>1
<1>2. SweepId(p).station = p.station /\ NoneYet.station = 0
  BY DEF SweepId, NoneYet
<1> QED BY <1>1, <1>2 DEF SweepId, Ids

\* The frames of a sweep without a flaw so far, and how many carry the offset, as
\* far as a count of one.
RunStored(frames, run, p, pulses) ==
    /\ \A s \in run.sensors :
          /\ PulseAt(p, s) \in pulses
          /\ \E withOffset \in BOOLEAN : frames[s] = FrameOf(PulseAt(p, s), TRUE, withOffset)
    /\ run.offsets = 0 => \A s \in run.sensors : ~ hasOffset(frames[s])
    /\ run.offsets = 1 =>
          \E s \in run.sensors : \A t \in run.sensors : hasOffset(frames[t]) <=> t = s

RunType == [id : Ids, sensors : SUBSET Sensor, offsets : Nat]

\* A sweep without a flaw so far is stored as long as more of it is to come.
IntactOK ==
    /\ intact \in RunType
    /\ \A p \in coming : SweepId(p) = intact.id =>
          RunStored(block_frames, intact, p, Arrived)

\* A first sweep without a flaw stays last in its station's deque as long as the
\* second one of its rotation is to come.
WholeOK ==
    /\ whole \in [Station -> Ids]
    /\ \A b \in Station : whole[b].beam = 1 =>
          /\ \A s \in Sensor :
                [station |-> b, rotation |-> whole[b].rotation, beam |-> 1, sid |-> s] \in Arrived
          /\ \A p \in coming :
                p.station = b /\ p.rotation = whole[b].rotation /\ p.beam = 2 =>
                   LET blocks == per_channel_buffer[b]
                   IN  /\ Len(blocks) # 0
                       /\ blocks[Len(blocks)].timestamp0 = ZeroOf(b, p.rotation)

\* An identified frame of the pulse just coming prolongs the run of its sweep.
LEMMA RunProlonged ==
    ASSUME StationInv, IntactOK, NEW p \in coming, NEW withOffset \in BOOLEAN,
           NEW frames, frames = Refresh(block_frames, FrameOf(p, TRUE, withOffset)),
           NEW run, run = Extend(p, TRUE, withOffset)
    PROVE  /\ run \in RunType /\ run.id = SweepId(p)
           /\ RunStored(frames, run, p, Arrived \cup {p})
<1> DEFINE before == IF intact.id = SweepId(p) THEN intact
                     ELSE [NoneIntact EXCEPT !.id = SweepId(p)]
<1>1. PICK f : f = FrameOf(p, TRUE, withOffset)
  OBVIOUS
<1>2. p \in Pulse /\ p.sid \in Sensor /\ SweepId(p) \in Ids /\ p = PulseAt(p, p.sid) /\ p \notin Arrived
  BY PulseType, SweepIdType DEF StationInv, TimeOrder, Arrived
<1>3. f \in DataFrame /\ f.sid = p.sid /\ f.timestamp = StampOf(p) /\ (hasOffset(f) <=> withOffset)
  BY <1>1, <1>2, FrameOfPulse
<1>4. before \in RunType /\ before.id = SweepId(p)
  <2>1. CASE intact.id = SweepId(p)
    BY <2>1 DEF IntactOK
  <2>2. CASE intact.id # SweepId(p)
    <3>1. before = [id |-> SweepId(p), sensors |-> {}, offsets |-> 0]
      BY <2>2 DEF NoneIntact
    <3> QED BY <1>2, <3>1 DEF RunType
  <2> QED BY <2>1, <2>2
<1>5. RunStored(block_frames, before, p, Arrived)
  <2>1. CASE intact.id = SweepId(p)
    BY <2>1 DEF IntactOK
  <2>2. CASE intact.id # SweepId(p)
    <3>1. before = [id |-> SweepId(p), sensors |-> {}, offsets |-> 0]
      BY <2>2 DEF NoneIntact
    <3>2. before.sensors = {} /\ before.offsets = 0
      BY <3>1
    <3> HIDE DEF before
    <3> QED BY <3>2 DEF RunStored
  <2> QED BY <2>1, <2>2
<1>6. run = [before EXCEPT !.sensors = @ \cup {p.sid},
                           !.offsets = @ + (IF withOffset THEN 1 ELSE 0)]
  BY DEF Extend
<1> HIDE DEF before
<1>7. /\ before.sensors \subseteq Sensor /\ before.offsets \in Nat
      /\ run.id = SweepId(p)
      /\ run.sensors = before.sensors \cup {p.sid}
      /\ run.offsets = before.offsets + (IF withOffset THEN 1 ELSE 0)
      /\ run \in RunType
  <2>1. PICK S \in SUBSET Sensor, n \in Nat :
            before = [id |-> SweepId(p), sensors |-> S, offsets |-> n]
    BY <1>4 DEF RunType
  <2>2. PICK m \in Nat : m = n + (IF withOffset THEN 1 ELSE 0)
    OBVIOUS
  <2>3. PICK T \in SUBSET Sensor : T = S \cup {p.sid}
    BY <1>2
  <2>4. run = [id |-> SweepId(p), sensors |-> T, offsets |-> m]
    BY <1>6, <2>1, <2>2, <2>3
  <2>5. before.sensors = S /\ before.offsets = n
    BY <2>1
  <2>6. run.id = SweepId(p) /\ run.sensors = T /\ run.offsets = m
    <3>1. PICK i \in Ids : i = SweepId(p)
      BY <1>2
    <3>2. PICK same : same = [id |-> i, sensors |-> T, offsets |-> m]
      OBVIOUS
    <3>3. same.id = i /\ same.sensors = T /\ same.offsets = m
      BY <3>2
    <3>4. run = same
      BY <2>4, <3>1, <3>2, Zenon
    <3> QED BY <3>1, <3>3, <3>4
  <2>7. run \in RunType
    <3>1. PICK i \in Ids : i = SweepId(p)
      BY <1>2
    <3>2. [id |-> i, sensors |-> T, offsets |-> m] \in RunType
      BY DEF RunType
    <3> QED BY <2>4, <3>1, <3>2, Zenon
  <2> QED BY <2>2, <2>5, <2>6, <2>7, <2>3
<1>8. p.sid \notin before.sensors
  BY <1>2, <1>5 DEF RunStored
<1>9. frames[p.sid] = f
  BY <1>1, <1>2, <1>3 DEF Refresh
<1>10. ASSUME NEW s \in before.sensors
       PROVE  /\ frames[s] = block_frames[s]
              /\ PulseAt(p, s) \in Arrived
              /\ \E w \in BOOLEAN : frames[s] = FrameOf(PulseAt(p, s), TRUE, w)
  <2>1. s \in Sensor /\ s # p.sid
    BY <1>7, <1>8
  <2>2. PICK q : q = PulseAt(p, s)
    OBVIOUS
  <2>3. q \in Arrived /\ q \in Pulse /\ SweepId(q) = SweepId(p) /\ q.station = p.station
    BY <1>2, <1>5, <2>1, <2>2, PulseAtType DEF RunStored, Arrived, PulseAt
  <2>4. PICK w \in BOOLEAN : block_frames[s] = FrameOf(q, TRUE, w)
    BY <1>5, <2>2 DEF RunStored
  <2>5. PICK g : g = block_frames[s]
    OBVIOUS
  <2>6. g \in DataFrame /\ g.timestamp = StampOf(q) /\ g # NoFrame
    <3>1. g \in DataFrame /\ g.timestamp = StampOf(q)
      <4>1. g = FrameOf(q, TRUE, w) /\ TRUE \in BOOLEAN
        BY <2>4, <2>5
      <4>2. q \in Pulse
        BY <2>3
      <4> QED BY ONLY <4>1, <4>2, w \in BOOLEAN, FrameOfPulse, Zenon
    <3>2. NoFrame \notin DataFrame
      BY SweepAssumption
    <3> QED BY <3>1, <3>2
  <2>7. Near(p, q)
    BY <1>2, <2>3, LightPlanesAssumption
  <2>8. CircularDistance(StampOf(p), StampOf(q)) <= kMaxTimestampDiffForSweep
    <3>1. PICK x, y \in Nat : x = PowerUp + TimeOf(p) /\ y = PowerUp + TimeOf(q)
      BY <1>2, <2>3, PulseType, RotorTypes
    <3>2. TimeOf(p) \in Nat /\ TimeOf(q) \in Nat /\ PowerUp \in Nat
          /\ kMaxTimestampDiffForSweep \in Nat /\ 2 * kMaxTimestampDiffForSweep < CounterSize
      BY <1>2, <2>3, PulseType, RotorTypes, SweepAssumption
    <3>3. x - y <= kMaxTimestampDiffForSweep /\ y - x <= kMaxTimestampDiffForSweep
      BY <2>7, <3>1, <3>2 DEF Near
    <3> QED BY <3>1, <3>2, <3>3, CloseTimesHaveCloseStamps DEF StampOf
  <2>9. StampOf(p) \in Timestamp /\ StampOf(q) \in Timestamp
    BY <1>2, <2>3, PulseType
  <2>10. ~ timestampAbsDiffLargerThan(f.timestamp, g.timestamp, kMaxTimestampDiffForSweep)
    <3>1. CircularDistance(StampOf(p), StampOf(q)) \in Int
      BY <2>9, DiffType, CounterSizeAssumption DEF CircularDistance, Timestamp
    <3> QED BY <1>3, <2>6, <2>8, <2>9, <3>1, ComparisonIsDistance, SweepAssumption
  <2>11. frames[s] = block_frames[s]
    BY <1>1, <1>3, <2>1, <2>5, <2>10 DEF Refresh
  <2> QED BY <2>2, <2>3, <2>4, <2>11
<1>11. ASSUME NEW s \in run.sensors
       PROVE  /\ PulseAt(p, s) \in Arrived \cup {p}
              /\ \E w \in BOOLEAN : frames[s] = FrameOf(PulseAt(p, s), TRUE, w)
  <2>1. CASE s = p.sid
    BY <1>1, <1>2, <1>9, <2>1
  <2>2. CASE s # p.sid
    BY <1>7, <1>10, <2>2
  <2> QED BY <2>1, <2>2
<1>12. /\ run.offsets = 0 => before.offsets = 0 /\ ~ withOffset
       /\ run.offsets = 1 => \/ withOffset /\ before.offsets = 0
                             \/ ~ withOffset /\ before.offsets = 1
  <2>1. PICK m, n \in Nat : m = run.offsets /\ n = before.offsets
    BY <1>7 DEF RunType
  <2>2. m = n + (IF withOffset THEN 1 ELSE 0)
    BY <1>7, <2>1
  <2>3. CASE withOffset
    <3>1. m = n + 1
      BY <2>2, <2>3
    <3>2. m # 0 /\ (m = 1 => n = 0)
      BY <3>1
    <3> QED BY <2>1, <2>3, <3>2
  <2>4. CASE ~ withOffset
    <3>1. m = n
      BY <2>2, <2>4
    <3> QED BY <2>1, <2>4, <3>1
  <2> QED BY <2>3, <2>4
<1>13. ASSUME run.offsets = 0
       PROVE  \A s \in run.sensors : ~ hasOffset(frames[s])
  <2>1. before.offsets = 0 /\ ~ withOffset
    BY <1>13, <1>12
  <2>2. \A s \in before.sensors : ~ hasOffset(block_frames[s])
    BY <1>5, <2>1 DEF RunStored
  <2>3. ASSUME NEW s \in run.sensors
        PROVE  ~ hasOffset(frames[s])
    <3>1. CASE s = p.sid
      BY <1>3, <1>9, <2>1, <3>1
    <3>2. CASE s # p.sid
      BY <1>7, <1>10, <2>2, <3>2
    <3> QED BY <3>1, <3>2
  <2> QED BY <2>3
<1>14. ASSUME run.offsets = 1
       PROVE  \E s \in run.sensors : \A t \in run.sensors : hasOffset(frames[t]) <=> t = s
  <2>1. CASE withOffset
    <3>1. before.offsets = 0
      BY <1>14, <1>12, <2>1
    <3>2. \A t \in before.sensors : ~ hasOffset(frames[t])
      BY <1>5, <1>10, <3>1 DEF RunStored
    <3>3. hasOffset(frames[p.sid])
      BY <1>3, <1>9, <2>1
    <3>4. \A t \in run.sensors : hasOffset(frames[t]) <=> t = p.sid
      BY <1>7, <3>2, <3>3
    <3> QED BY <1>7, <3>4
  <2>2. CASE ~ withOffset
    <3>1. before.offsets = 1
      BY <1>14, <1>12, <2>2
    <3>2. PICK s \in before.sensors :
              \A t \in before.sensors : hasOffset(block_frames[t]) <=> t = s
      BY <1>5, <3>1 DEF RunStored
    <3>3. ~ hasOffset(frames[p.sid])
      BY <1>3, <1>9, <2>2
    <3>4. ASSUME NEW t \in run.sensors
          PROVE  hasOffset(frames[t]) <=> t = s
      <4>1. CASE t = p.sid
        <5>1. t # s
          BY <1>8, <3>2, <4>1
        <5> QED BY <3>3, <4>1, <5>1
      <4>2. CASE t # p.sid
        <5>1. t \in before.sensors
          BY <1>7, <4>2
        <5>2. frames[t] = block_frames[t]
          BY <1>10, <5>1
        <5> QED BY <3>2, <5>1, <5>2
      <4> QED BY <4>1, <4>2
    <3>5. s \in run.sensors
      BY <1>7, <3>2
    <3> QED BY <3>4, <3>5
  <2> QED BY <2>1, <2>2
<1> QED BY <1>7, <1>11, <1>13, <1>14 DEF RunStored

\* When the run is whole, the buffer passes validateSweep.
LEMMA WholeRunIsValid ==
    ASSUME NEW p \in Pulse, NEW frames, NEW run, IsWhole(run),
           NEW pulses, RunStored(frames, run, p, pulses)
    PROVE  validateSweep(frames)
<1>1. run.sensors = Sensor /\ run.offsets = 1
  BY DEF IsWhole
<1>2. ASSUME NEW s \in Sensor
      PROVE  frames[s] # NoFrame /\ validNpoly(frames[s]) /\ baseStationId(frames[s]) = p.station
  <2>1. PICK w \in BOOLEAN : frames[s] = FrameOf(PulseAt(p, s), TRUE, w)
    BY <1>1 DEF RunStored
  <2>2. PICK q \in Pulse : q = PulseAt(p, s) /\ q.station = p.station
    BY PulseAtType DEF PulseAt
  <2>3. PICK f : f = frames[s]
    OBVIOUS
  <2>4. f \in DataFrame /\ validNpoly(f) /\ baseStationId(f) = q.station
    <3>1. f = FrameOf(q, TRUE, w) /\ TRUE \in BOOLEAN
      BY <2>1, <2>2, <2>3
    <3>2. f \in DataFrame /\ (validNpoly(f) <=> TRUE) /\ (TRUE => baseStationId(f) = q.station)
      BY ONLY q \in Pulse, w \in BOOLEAN, <3>1, FrameOfPulse, Zenon
    <3> QED BY <3>2, Zenon
  <2> QED BY <2>2, <2>3, <2>4, SweepAssumption
<1>3. \E s \in Sensor : \A t \in Sensor : hasOffset(frames[t]) <=> t = s
  BY <1>1 DEF RunStored
<1>4. Present(frames) = Sensor
  BY <1>2 DEF Present
<1>5. p.sid \in Sensor
  BY PulseType
<1>6. {s \in Sensor : validNpoly(frames[s])} # {}
  BY <1>2, <1>5
<1> QED BY <1>2, <1>3, <1>4, <1>6 DEF validateSweep

\* As long as more of the sweep of the pulse just coming is to come, it is not
\* reported.
LEMMA MoreToCome ==
    ASSUME StationInv, NEW p \in coming, \A q \in coming : TimeOf(p) <= TimeOf(q),
           NEW identified \in BOOLEAN, NEW withOffset \in BOOLEAN,
           NEW plausible \in BOOLEAN, Received(p, identified, withOffset, plausible),
           NEW q \in coming', SweepId(q) = SweepId(p)
    PROVE  /\ block_frames' = Refresh(block_frames, FrameOf(p, identified, withOffset))
           /\ per_channel_buffer' = per_channel_buffer
<1>1. coming' = coming \ {p}
  BY DEF Received
<1>2. Arrived' = Arrived \cup {p} /\ p \in Pulse
  BY <1>1, TimePasses DEF StationInv
<1>3. PICK frames : frames = Refresh(block_frames, FrameOf(p, identified, withOffset))
  OBVIOUS
<1>4. q \in Pulse /\ q \notin Arrived \cup {p} /\ q.sid \in Sensor
  BY <1>1, PulseType DEF StationInv, TimeOrder, Arrived
<1>5. q = PulseAt(p, q.sid)
  BY <1>2, <1>4, SameSweepPulse
<1>6. ~ (\A s \in Sensor : PulseAt(p, s) \in Arrived \cup {p})
  BY <1>4, <1>5
<1> QED BY <1>2, <1>3, <1>6, ReceivedFrames DEF StationInv

\* The history of the sweep being received follows the buffer.
LEMMA IntactStep ==
    ASSUME StationInv, IntactOK, NEW p \in coming, \A q \in coming : TimeOf(p) <= TimeOf(q),
           NEW identified \in BOOLEAN, NEW withOffset \in BOOLEAN,
           NEW plausible \in BOOLEAN, Received(p, identified, withOffset, plausible)
    PROVE  IntactOK'
<1>1. coming' = coming \ {p} /\ intact' = Extend(p, identified, withOffset)
  BY DEF Received
<1>2. Arrived' = Arrived \cup {p} /\ TimeOrder'
  BY <1>1, TimePasses DEF StationInv
<1>3. CASE identified
  <2>1. PICK frames : frames = Refresh(block_frames, FrameOf(p, TRUE, withOffset))
    OBVIOUS
  <2>2. PICK run : run = Extend(p, TRUE, withOffset)
    OBVIOUS
  <2>3. identified = TRUE
    BY <1>3
  <2>4. intact' = run
    BY <1>1, <2>2, <2>3
  <2>5. /\ run \in RunType /\ run.id = SweepId(p)
        /\ RunStored(frames, run, p, Arrived \cup {p})
    BY <2>1, <2>2, RunProlonged
  <2>6. ASSUME NEW q \in coming', SweepId(q) = run.id
        PROVE  RunStored(block_frames', run, q, Arrived \cup {p})
    <3>1. SweepId(q) = SweepId(p) /\ p \in Pulse /\ q \in Pulse
      BY <1>1, <2>5, <2>6 DEF StationInv, TimeOrder
    <3>2. block_frames' = frames
      BY <2>1, <2>3, <3>1, MoreToCome
    <3>3. \A s \in Sensor : PulseAt(q, s) = PulseAt(p, s)
      BY <3>1, SameSweepPulse DEF PulseAt
    <3>4. run.sensors \subseteq Sensor
      BY <2>5 DEF RunType
    <3> QED BY <2>5, <3>2, <3>3, <3>4 DEF RunStored
  <2> QED BY <1>2, <2>4, <2>5, <2>6 DEF IntactOK
<1>4. CASE ~ identified
  <2>1. intact' = NoneIntact
    BY <1>1, <1>4 DEF Extend
  <2>2. NoneIntact \in RunType /\ NoneIntact.id = NoneYet
    BY DEF NoneIntact, NoneYet, RunType, Ids
  <2>3. \A q \in coming' : SweepId(q) # NoneYet
    BY <1>2, SweepIdType DEF TimeOrder
  <2> QED BY <2>1, <2>2, <2>3 DEF IntactOK
<1> QED BY <1>3, <1>4

\* The history of the last sweeps without a flaw follows the deques, and the second
\* of a rotation takes the pair out.
LEMMA WholeStep ==
    ASSUME StationInv, IntactOK, WholeOK,
           NEW p \in coming, \A q \in coming : TimeOf(p) <= TimeOf(q),
           NEW identified \in BOOLEAN, NEW withOffset \in BOOLEAN,
           NEW plausible \in BOOLEAN, Received(p, identified, withOffset, plausible)
    PROVE  /\ WholeOK'
           /\ \A b \in Station :
                 /\ whole'[b].beam = 2 /\ whole[b].beam = 1
                 /\ whole'[b].rotation = whole[b].rotation
                 => per_channel_buffer'[b] = <<>>
<1> DEFINE c == p.station
<1>1. /\ coming' = coming \ {p} /\ intact' = Extend(p, identified, withOffset)
      /\ whole' = [whole EXCEPT ![c] = IF IsWhole(intact') THEN SweepId(p) ELSE @]
  BY DEF Received
<1>2. /\ Arrived' = Arrived \cup {p} /\ p \in Pulse /\ p \notin Arrived
      /\ Arrived \subseteq Pulse /\ coming \subseteq Pulse
  BY <1>1, TimePasses DEF StationInv, TimeOrder, Arrived
<1>3. /\ c \in Station /\ p.beam \in {1, 2} /\ p.sid \in Sensor /\ p = PulseAt(p, p.sid)
      /\ SweepId(p) \in Ids /\ p.rotation \in Nat
      /\ SweepId(p).beam = p.beam /\ SweepId(p).rotation = p.rotation
  BY <1>2, PulseType, SweepIdType DEF SweepId
<1>4. PICK frames : frames = Refresh(block_frames, FrameOf(p, identified, withOffset))
  OBVIOUS
<1>5. \A b \in Station \ {c} : per_channel_buffer'[b] = per_channel_buffer[b]
  <2>1. CASE validateSweep(frames)
    <3>1. PICK block : block = sweep'
      OBVIOUS
    <3>2. /\ IsBlockOf(block, p) /\ ProcessBlock(block, plausible)
          /\ ~ LookAlike(p.station, p.rotation, reported[p.station], MaxTimestamp0Diff)
          /\ \A s \in Sensor : PulseAt(p, s) \in Arrived \cup {p}
      BY <1>2, <1>4, <2>1, <3>1, ReceivedFrames DEF StationInv
    <3> QED BY <3>2, ProcessedBlock DEF StationInv
  <2>2. CASE ~ validateSweep(frames)
    BY <1>2, <1>4, <2>2, ReceivedFrames DEF StationInv
  <2> QED BY <2>1, <2>2
<1>6. whole \in [Station -> Ids] /\ whole' \in [Station -> Ids]
  BY <1>1, <1>3 DEF WholeOK
<1>7. \A b \in Station \ {c} : whole'[b] = whole[b]
  BY <1>1, <1>6
<1>8. ASSUME NEW b \in Station, b # c, whole[b].beam = 1
      PROVE  /\ \A s \in Sensor :
                   [station |-> b, rotation |-> whole[b].rotation, beam |-> 1, sid |-> s]
                       \in Arrived \cup {p}
             /\ \A q \in coming' :
                   q.station = b /\ q.rotation = whole[b].rotation /\ q.beam = 2 =>
                      /\ Len(per_channel_buffer'[b]) # 0
                      /\ per_channel_buffer'[b][Len(per_channel_buffer'[b])].timestamp0
                             = ZeroOf(b, q.rotation)
  BY <1>1, <1>5, <1>8 DEF WholeOK
<1>9. CASE ~ IsWhole(intact')
  <2>1. whole' = whole
    BY <1>1, <1>6, <1>9
  <2>2. ASSUME whole[c].beam = 1
        PROVE  /\ \A s \in Sensor :
                     [station |-> c, rotation |-> whole[c].rotation, beam |-> 1, sid |-> s]
                         \in Arrived \cup {p}
               /\ \A q \in coming' :
                     q.station = c /\ q.rotation = whole[c].rotation /\ q.beam = 2 =>
                        /\ Len(per_channel_buffer'[c]) # 0
                        /\ per_channel_buffer'[c][Len(per_channel_buffer'[c])].timestamp0
                               = ZeroOf(c, q.rotation)
    <3>1. \A s \in Sensor :
             [station |-> c, rotation |-> whole[c].rotation, beam |-> 1, sid |-> s] \in Arrived
      BY <1>3, <2>2 DEF WholeOK
    <3>2. ASSUME NEW q \in coming',
                 q.station = c, q.rotation = whole[c].rotation, q.beam = 2
          PROVE  /\ Len(per_channel_buffer'[c]) # 0
                 /\ per_channel_buffer'[c][Len(per_channel_buffer'[c])].timestamp0
                        = ZeroOf(c, q.rotation)
      <4>1. q \in coming /\ q \in Pulse /\ q.rotation \in Nat
        BY <1>1, <1>2, PulseType
      <4>2. PICK first : first = [station |-> c, rotation |-> whole[c].rotation,
                                  beam |-> 1, sid |-> p.sid]
        OBVIOUS
      <4>3. /\ first \in Arrived /\ first \in Pulse
            /\ first.station = c /\ first.rotation = q.rotation /\ first.beam = 1
        BY <1>2, <1>3, <3>1, <3>2, <4>2
      <4>4. /\ TimeOf(p) \in Nat /\ TimeOf(q) \in Nat /\ TimeOf(first) \in Nat
            /\ TimeOf(first) <= TimeOf(p) /\ TimeOf(p) <= TimeOf(q)
        BY <1>2, <4>1, <4>3, PulseType DEF StationInv, TimeOrder
      <4>5. ~ (p.rotation < q.rotation)
        <5>1. p.rotation < q.rotation => TimeOf(p) < TimeOf(first)
          BY <1>2, <4>3, RotationsInOrder
        <5> QED BY <4>4, <5>1
      <4>6. ~ (q.rotation < p.rotation)
        <5>1. q.rotation < p.rotation => TimeOf(q) < TimeOf(p)
          BY <1>2, <3>2, <4>1, RotationsInOrder
        <5> QED BY <4>4, <5>1
      <4>7. p.rotation = q.rotation
        BY <1>3, <4>1, <4>5, <4>6
      <4>8. p.beam = 2
        <5>1. SUFFICES ASSUME p.beam = 1
                       PROVE  FALSE
          BY <1>3
        <5>2. p = first
          BY <1>3, <3>2, <4>2, <4>7, <5>1 DEF PulseAt
        <5> QED BY <1>2, <4>3, <5>2
      <4>9. SweepId(q) = SweepId(p)
        BY <3>2, <4>7, <4>8 DEF SweepId
      <4>10. per_channel_buffer' = per_channel_buffer
        BY <4>9, MoreToCome
      <4> QED BY <1>3, <2>2, <3>2, <4>1, <4>10 DEF WholeOK
    <3> QED BY <3>1, <3>2
  <2>3. WholeOK'
    BY <1>2, <1>6, <1>8, <2>1, <2>2 DEF WholeOK
  <2> QED BY <2>1, <2>3
<1>10. CASE IsWhole(intact')
  <2>1. identified = TRUE
    <3>1. SUFFICES ASSUME ~ identified
                   PROVE  FALSE
      OBVIOUS
    <3>2. intact' = NoneIntact
      BY <1>1, <3>1 DEF Extend
    <3>3. NoneIntact.offsets = 0
      BY DEF NoneIntact
    <3> QED BY <1>10, <3>2, <3>3 DEF IsWhole
  <2>2. PICK run : run = Extend(p, TRUE, withOffset)
    OBVIOUS
  <2>3. IsWhole(run)
    BY <1>1, <1>10, <2>1, <2>2
  <2>4. RunStored(frames, run, p, Arrived \cup {p})
    BY <1>4, <2>1, <2>2, RunProlonged
  <2>5. validateSweep(frames)
    BY <1>2, <2>3, <2>4, WholeRunIsValid
  <2>6. PICK block : block = sweep'
    OBVIOUS
  <2>7. /\ IsBlockOf(block, p) /\ ProcessBlock(block, plausible)
        /\ ~ LookAlike(p.station, p.rotation, reported[p.station], MaxTimestamp0Diff)
        /\ \A s \in Sensor : PulseAt(p, s) \in Arrived \cup {p}
    BY <1>2, <1>4, <2>5, <2>6, ReceivedFrames DEF StationInv
  <2>8. /\ p.beam = 1 =>
              /\ Len(per_channel_buffer'[c]) # 0
              /\ IsBlockOf(per_channel_buffer'[c][Len(per_channel_buffer'[c])], p)
        /\ /\ Len(per_channel_buffer[c]) # 0
           /\ per_channel_buffer[c][Len(per_channel_buffer[c])].timestamp0
                  = ZeroOf(c, p.rotation)
           => per_channel_buffer'[c] = <<>>
    BY <2>7, ProcessedBlock DEF StationInv
  <2>9. whole'[c] = SweepId(p)
    BY <1>1, <1>3, <1>6, <1>10
  <2>10. ASSUME whole'[c].beam = 1
         PROVE  /\ \A s \in Sensor :
                      [station |-> c, rotation |-> whole'[c].rotation, beam |-> 1, sid |-> s]
                          \in Arrived \cup {p}
                /\ \A q \in coming' :
                      q.station = c /\ q.rotation = whole'[c].rotation /\ q.beam = 2 =>
                         /\ Len(per_channel_buffer'[c]) # 0
                         /\ per_channel_buffer'[c][Len(per_channel_buffer'[c])].timestamp0
                                = ZeroOf(c, q.rotation)
    <3>1. p.beam = 1 /\ whole'[c].rotation = p.rotation
      BY <1>3, <2>9, <2>10
    <3>2. \A s \in Sensor :
             PulseAt(p, s) = [station |-> c, rotation |-> whole'[c].rotation,
                              beam |-> 1, sid |-> s]
      BY <3>1 DEF PulseAt
    <3>3. /\ Len(per_channel_buffer'[c]) # 0
          /\ per_channel_buffer'[c][Len(per_channel_buffer'[c])].timestamp0
                 = ZeroOf(c, p.rotation)
      BY <2>8, <3>1 DEF IsBlockOf
    <3> QED BY <2>7, <3>1, <3>2, <3>3
  <2>11. WholeOK'
    <3>1. ASSUME NEW b \in Station, whole'[b].beam = 1
          PROVE  /\ \A s \in Sensor :
                       [station |-> b, rotation |-> whole'[b].rotation, beam |-> 1, sid |-> s]
                           \in Arrived \cup {p}
                 /\ \A q \in coming' :
                       q.station = b /\ q.rotation = whole'[b].rotation /\ q.beam = 2 =>
                          /\ Len(per_channel_buffer'[b]) # 0
                          /\ per_channel_buffer'[b][Len(per_channel_buffer'[b])].timestamp0
                                 = ZeroOf(b, q.rotation)
      <4>1. CASE b = c
        BY <2>10, <3>1, <4>1
      <4>2. CASE b # c
        <5>1. whole'[b] = whole[b] /\ whole[b].beam = 1
          BY <1>7, <3>1, <4>2
        <5> QED BY <1>8, <4>2, <5>1
      <4> QED BY <4>1, <4>2
    <3> QED BY <1>2, <1>6, <3>1 DEF WholeOK
  <2>12. ASSUME NEW b \in Station, whole'[b].beam = 2, whole[b].beam = 1,
                whole'[b].rotation = whole[b].rotation
         PROVE  per_channel_buffer'[b] = <<>>
    <3>1. b = c
      BY <1>7, <2>12
    <3>2. p.beam = 2 /\ p.rotation = whole[c].rotation
      BY <1>3, <2>9, <2>12, <3>1
    <3>3. /\ Len(per_channel_buffer[c]) # 0
          /\ per_channel_buffer[c][Len(per_channel_buffer[c])].timestamp0
                 = ZeroOf(c, p.rotation)
      BY <1>3, <2>12, <3>1, <3>2 DEF WholeOK
    <3> QED BY <2>8, <3>1, <3>3
  <2> QED BY <2>11, <2>12
<1> QED BY <1>9, <1>10

HistoryInv == StationInv /\ IntactOK /\ WholeOK

LEMMA NoneYetIsOK ==
    /\ NoneYet \in Ids /\ NoneYet.beam = 0
    /\ NoneIntact \in RunType /\ NoneIntact.id = NoneYet
BY DEF NoneIntact, NoneYet, RunType, Ids

LEMMA HistoryInvHolds == TimelineSpec => []HistoryInv
<1>1. TimelineInit => StationInv /\ IntactOK /\ WholeOK
  <2> SUFFICES ASSUME TimelineInit
               PROVE  StationInv /\ IntactOK /\ WholeOK
    OBVIOUS
  <2>1. coming = Pulse /\ intact = NoneIntact /\ whole = [b \in Station |-> NoneYet]
    BY DEF TimelineInit
  <2>2. TimeOrder
    BY <2>1 DEF TimeOrder, Arrived
  <2>3. Cleared
    BY DEF TimelineInit, ProtocolInit, SweepInit, MeasurementInit, Cleared
  <2>4. StationInv
    BY <2>2, <2>3, ClearedIsOK
  <2>5. IntactOK
    BY <2>1, NoneYetIsOK, SweepIdType DEF IntactOK
  <2>6. WholeOK
    BY <2>1, NoneYetIsOK DEF WholeOK
  <2> QED BY <2>4, <2>5, <2>6
<1>2. HistoryInv /\ [TimelineNext]_timelineVars => HistoryInv'
  <2> SUFFICES ASSUME HistoryInv, [TimelineNext]_timelineVars
               PROVE  HistoryInv'
    OBVIOUS
  <2>1. StationInv /\ IntactOK /\ WholeOK
    BY DEF HistoryInv
  <2>2. CASE UNCHANGED timelineVars
    <3>1. StationInv'
      BY <2>1, <2>2
      DEF timelineVars, StationInv, TimeOrder, Arrived, FramesOK, BufferTypeOK, Recent,
          StoredPulses, Present, PairsOK, CrossingsOK
    <3>2. IntactOK' /\ WholeOK'
      BY <2>1, <2>2 DEF timelineVars, IntactOK, WholeOK, Arrived
    <3> QED BY <3>1, <3>2 DEF HistoryInv
  <2>3. ASSUME NEW p \in coming, \A q \in coming : TimeOf(p) <= TimeOf(q), Occluded(p)
        PROVE  HistoryInv'
    <3>1. /\ coming' = coming \ {p} /\ intact' = NoneIntact /\ whole' = whole
          /\ per_channel_buffer' = per_channel_buffer
      BY <2>3 DEF Occluded
    <3>2. Arrived' = Arrived \cup {p} /\ TimeOrder'
      BY <2>1, <2>3, <3>1, TimePasses DEF StationInv
    <3>3. IntactOK'
      <4>1. \A q \in coming' : SweepId(q) # NoneYet
        BY <3>2, SweepIdType DEF TimeOrder
      <4> QED BY <3>1, <4>1, NoneYetIsOK DEF IntactOK
    <3>4. WholeOK'
      BY <2>1, <3>1, <3>2 DEF WholeOK
    <3> QED BY <2>1, <2>3, <3>3, <3>4, NothingReceived DEF HistoryInv
  <2>4. CASE Restart
    <3>1. /\ coming' = coming /\ intact' = NoneIntact
          /\ whole' = [b \in Station |-> NoneYet]
      BY <2>4 DEF Restart
    <3>2. StationInv'
      BY <2>1, <2>4, RestartClears
    <3>3. IntactOK'
      <4>1. \A q \in coming' : SweepId(q) # NoneYet
        BY <3>2, SweepIdType DEF StationInv, TimeOrder
      <4> QED BY <3>1, <4>1, NoneYetIsOK DEF IntactOK
    <3>4. WholeOK'
      BY <3>1, NoneYetIsOK DEF WholeOK
    <3> QED BY <3>2, <3>3, <3>4 DEF HistoryInv
  <2>5. ASSUME NEW p \in coming, \A q \in coming : TimeOf(p) <= TimeOf(q),
               NEW identified \in BOOLEAN, NEW withOffset \in BOOLEAN,
               NEW plausible \in BOOLEAN, Received(p, identified, withOffset, plausible)
        PROVE  HistoryInv'
    <3>1. StationInv'
      BY <2>1, <2>5, PulseReceived
    <3>2. IntactOK'
      BY <2>1, <2>5, IntactStep
    <3>3. WholeOK'
      BY <2>1, <2>5, WholeStep
    <3> QED BY <3>1, <3>2, <3>3 DEF HistoryInv
  <2> QED BY <2>2, <2>3, <2>4, <2>5 DEF TimelineNext
<1> QED BY <1>1, <1>2, PTL DEF TimelineSpec, HistoryInv

\* No rotation received without a flaw is missed, whatever was left in the buffers
\* before and whatever came from other stations in between.
THEOREM WholeRotationsPaired == TimelineSpec => WholeRotationsReported
<1>1. HistoryInv /\ [TimelineNext]_timelineVars =>
        [\A b \in Station :
            /\ whole'[b].beam = 2 /\ whole[b].beam = 1
            /\ whole'[b].rotation = whole[b].rotation
            => per_channel_buffer'[b] = <<>>]_timelineVars
  <2> SUFFICES ASSUME StationInv, IntactOK, WholeOK, TimelineNext, NEW b \in Station,
                      whole'[b].beam = 2, whole[b].beam = 1,
                      whole'[b].rotation = whole[b].rotation
               PROVE  per_channel_buffer'[b] = <<>>
    BY DEF HistoryInv
  <2>1. ASSUME NEW p \in coming, Occluded(p)
        PROVE  FALSE
    BY <2>1 DEF Occluded
  <2>2. ~ Restart
    BY NoneYetIsOK DEF Restart
  <2> QED BY <2>1, <2>2, WholeStep DEF TimelineNext
<1> QED BY <1>1, HistoryInvHolds, PTL DEF TimelineSpec, WholeRotationsReported

====
