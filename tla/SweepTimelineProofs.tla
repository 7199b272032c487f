---- MODULE SweepTimelineProofs ----
(***************************************************************************)
(* Theorems about the SweepProcessor on the deck's timeline, for any set   *)
(* of sensors, any counter size and any window below half of it: what the  *)
(* buffer reports is what the definition over everything received says.    *)
(***************************************************************************)
EXTENDS SweepTimeline, SweepProcessorProofs, FiniteSetTheorems

\* The operators the abstract specification shares with the processor.
LEMMA SameOperators ==
    /\ Assembly!DataFrame = DataFrame
    /\ \A a, b : Assembly!timestampDiff(a, b) = timestampDiff(a, b)
    /\ \A a, b : Assembly!CircularDistance(a, b) = CircularDistance(a, b)
    /\ \A f : Assembly!validNpoly(f) <=> validNpoly(f)
    /\ \A f : Assembly!hasOffset(f) <=> hasOffset(f)
    /\ \A f : Assembly!baseStationId(f) = baseStationId(f)
    /\ \A f : Assembly!rotorZero(f) = rotorZero(f)
    /\ \A S : Assembly!Cardinality(S) = Cardinality(S)
<1>1. Assembly!DataFrame = DataFrame
  BY DEF Assembly!DataFrame, DataFrame, Assembly!Timestamp, Timestamp
<1>2. \A a, b : Assembly!timestampDiff(a, b) = timestampDiff(a, b)
  BY DEF Assembly!timestampDiff, timestampDiff
<1>3. \A a, b : Assembly!CircularDistance(a, b) = CircularDistance(a, b)
  BY <1>2 DEF Assembly!CircularDistance, CircularDistance
<1>4. \A f : Assembly!validNpoly(f) <=> validNpoly(f)
  BY DEF Assembly!validNpoly, validNpoly
<1>5. \A f : Assembly!hasOffset(f) <=> hasOffset(f)
  BY DEF Assembly!hasOffset, hasOffset
<1>6. \A f : Assembly!baseStationId(f) = baseStationId(f)
  BY DEF Assembly!baseStationId, baseStationId
<1>7. \A f : Assembly!rotorZero(f) = rotorZero(f)
  BY <1>2 DEF Assembly!rotorZero, rotorZero
<1>8. \A S : Assembly!Cardinality(S) = Cardinality(S)
  BY Zenon DEF Assembly!Cardinality, Cardinality
<1> QED BY <1>1, <1>2, <1>3, <1>4, <1>5, <1>6, <1>7, <1>8

\* The frames in a buffer.
Stored(frames) == {frames[s] : s \in Present(frames)}

\* A frame that arrives is current, and so is every earlier one that was, unless
\* the new one is of its sensor or too far from it.
LEMMA CurrentAfterAppend ==
    ASSUME NEW frames \in Seq(DataFrame), NEW frame \in DataFrame
    PROVE  Assembly!CurrentFrames(Append(frames, frame))
             = {frame} \cup
               {f \in Assembly!CurrentFrames(frames) :
                   /\ frame.sid # f.sid
                   /\ CircularDistance(frame.timestamp, f.timestamp)
                          <= kMaxTimestampDiffForSweep}
<1> DEFINE after == Append(frames, frame)
           n == Len(frames)
           Near(f) == /\ frame.sid # f.sid
                      /\ CircularDistance(frame.timestamp, f.timestamp)
                             <= kMaxTimestampDiffForSweep
<1>1. /\ n \in Nat /\ Len(after) = n + 1 /\ after[n + 1] = frame
      /\ \A i \in 1 .. n : after[i] = frames[i]
  OBVIOUS
<1> HIDE DEF after, n
<1>2. Assembly!Current(after, n + 1)
  <2>1. (n + 1) + 1 .. Len(after) = {}
    BY <1>1
  <2> QED BY <2>1 DEF Assembly!Current
<1>3. ASSUME NEW i \in 1 .. n
      PROVE  Assembly!Current(after, i) <=> Assembly!Current(frames, i) /\ Near(frames[i])
  <2> DEFINE Ok(f, g) == /\ g.sid # f.sid
                         /\ CircularDistance(g.timestamp, f.timestamp)
                                <= kMaxTimestampDiffForSweep
  <2>1. Assembly!Current(after, i) <=> \A j \in i + 1 .. n + 1 : Ok(after[i], after[j])
    BY <1>1, SameOperators DEF Assembly!Current
  <2>2. Assembly!Current(frames, i) <=> \A j \in i + 1 .. n : Ok(frames[i], frames[j])
    BY <1>1, SameOperators DEF Assembly!Current, n
  <2>3. i + 1 .. n + 1 = (i + 1 .. n) \cup {n + 1}
    BY <1>1
  <2>4. \A j \in i + 1 .. n : after[j] = frames[j]
    BY <1>1
  <2>5. after[i] = frames[i] /\ after[n + 1] = frame
    BY <1>1
  <2>6. Near(frames[i]) <=> Ok(frames[i], frame)
    OBVIOUS
  <2> HIDE DEF Ok, Near
  <2> QED BY <2>1, <2>2, <2>3, <2>4, <2>5, <2>6, Zenon
<1> HIDE DEF Near
<1>4. ASSUME NEW f
      PROVE  f \in Assembly!CurrentFrames(after)
                <=> f = frame \/ (f \in Assembly!CurrentFrames(frames) /\ Near(f))
  <2>1. f \in Assembly!CurrentFrames(after)
          <=> \E i \in 1 .. n + 1 : Assembly!Current(after, i) /\ f = after[i]
    BY <1>1 DEF Assembly!CurrentFrames
  <2>2. f \in Assembly!CurrentFrames(frames)
          <=> \E i \in 1 .. n : Assembly!Current(frames, i) /\ f = frames[i]
    BY DEF Assembly!CurrentFrames, n
  <2>3. 1 .. n + 1 = (1 .. n) \cup {n + 1}
    BY <1>1
  <2> QED BY <1>1, <1>2, <1>3, <2>1, <2>2, <2>3, Zenon
<1> QED BY <1>4 DEF Near, after

\* What is left in the buffer once it has taken the frame.
LEMMA StoredAfterRefresh ==
    ASSUME NEW frames, BufferTypeOK(frames), NEW frame \in DataFrame
    PROVE  Stored(Refresh(frames, frame))
             = {frame} \cup
               {f \in Stored(frames) :
                   /\ frame.sid # f.sid
                   /\ CircularDistance(frame.timestamp, f.timestamp)
                          <= kMaxTimestampDiffForSweep}
<1> DEFINE after == Refresh(frames, frame)
<1>1. frame.sid \in Sensor /\ frame.timestamp \in Timestamp /\ frame # NoFrame
  BY SweepAssumption DEF DataFrame
<1>2. after[frame.sid] = frame
  BY <1>1 DEF Refresh
<1>3. ASSUME NEW s \in Sensor, s # frame.sid
      PROVE  /\ s \in Present(after) <=>
                  /\ s \in Present(frames)
                  /\ CircularDistance(frame.timestamp, frames[s].timestamp)
                         <= kMaxTimestampDiffForSweep
             /\ s \in Present(after) => after[s] = frames[s]
  <2>1. CASE frames[s] = NoFrame
    BY <1>3, <2>1 DEF Refresh, Present
  <2>2. CASE frames[s] # NoFrame
    <3>1. frames[s] \in DataFrame /\ frames[s].timestamp \in Timestamp
      BY <2>2 DEF BufferTypeOK, DataFrame
    <3>2. timestampAbsDiffLargerThan(frame.timestamp, frames[s].timestamp,
                                     kMaxTimestampDiffForSweep)
            <=> CircularDistance(frame.timestamp, frames[s].timestamp)
                    > kMaxTimestampDiffForSweep
      BY <1>1, <3>1, ComparisonIsDistance, SweepAssumption
    <3>3. CircularDistance(frame.timestamp, frames[s].timestamp) \in Int
      <4>1. /\ timestampDiff(frame.timestamp, frames[s].timestamp) \in Timestamp
            /\ timestampDiff(frames[s].timestamp, frame.timestamp) \in Timestamp
        BY <1>1, <3>1, DiffType
      <4> QED BY <4>1, CounterSizeAssumption DEF CircularDistance, Timestamp
    <3>4. CircularDistance(frame.timestamp, frames[s].timestamp)
              <= kMaxTimestampDiffForSweep
            <=> ~ timestampAbsDiffLargerThan(frame.timestamp, frames[s].timestamp,
                                             kMaxTimestampDiffForSweep)
      BY <3>2, <3>3, SweepAssumption
    <3>5. after[s] = IF timestampAbsDiffLargerThan(frame.timestamp, frames[s].timestamp,
                                                   kMaxTimestampDiffForSweep)
                     THEN NoFrame ELSE frames[s]
      BY <1>3, <2>2 DEF Refresh
    <3> QED BY <2>2, <3>4, <3>5 DEF Present
  <2> QED BY <2>1, <2>2
<1>4. \A s \in Present(frames) : s \in Sensor /\ frames[s].sid = s
  BY DEF BufferTypeOK, Present
<1>5. Present(after) \subseteq Sensor /\ frame.sid \in Present(after)
  BY <1>1, <1>2 DEF Present
<1> HIDE DEF after
<1>6. ASSUME NEW f
      PROVE  f \in Stored(after) <=>
                \/ f = frame
                \/ /\ f \in Stored(frames) /\ frame.sid # f.sid
                   /\ CircularDistance(frame.timestamp, f.timestamp)
                          <= kMaxTimestampDiffForSweep
  <2>1. ASSUME f \in Stored(after), f # frame
        PROVE  /\ f \in Stored(frames) /\ frame.sid # f.sid
               /\ CircularDistance(frame.timestamp, f.timestamp)
                      <= kMaxTimestampDiffForSweep
    <3>1. PICK s \in Present(after) : f = after[s]
      BY <2>1 DEF Stored
    <3>2. s \in Sensor /\ s # frame.sid
      BY <1>2, <1>5, <2>1, <3>1
    <3> QED BY <1>3, <1>4, <3>1, <3>2 DEF Stored
  <2>2. ASSUME f \in Stored(frames), frame.sid # f.sid,
               CircularDistance(frame.timestamp, f.timestamp) <= kMaxTimestampDiffForSweep
        PROVE  f \in Stored(after)
    <3>1. PICK s \in Present(frames) : f = frames[s]
      BY <2>2 DEF Stored
    <3> QED BY <1>3, <1>4, <2>2, <3>1 DEF Stored
  <2>3. frame \in Stored(after)
    BY <1>2, <1>5 DEF Stored
  <2> QED BY <2>1, <2>2, <2>3
<1> QED BY <1>6 DEF after

----------------------------------------------------------------------------
\* The image of a finite set is finite.
LEMMA ImageFinite ==
    ASSUME NEW V, IsFiniteSet(V), NEW h, h = [v \in V |-> h[v]]
    PROVE  IsFiniteSet({h[v] : v \in V})
<1> DEFINE T == {h[v] : v \in V}
<1>1. h \in Surjection(V, T)
  BY DEF Surjection
<1> QED BY <1>1, FS_Surjection

\* A set whose elements are the values of an operator over a finite set, here
\* given by the function h, has one element when there is a value and no other.
LEMMA ImageIsOne ==
    ASSUME NEW V, IsFiniteSet(V), NEW h, h = [v \in V |-> h[v]]
    PROVE  Cardinality({h[v] : v \in V}) = 1
             <=> V # {} /\ \A v, w \in V : h[v] = h[w]
<1> DEFINE T == {h[v] : v \in V}
<1>1. IsFiniteSet(T)
  BY ImageFinite
<1>2. Cardinality(T) = 1 <=> \E x : T = {x}
  BY <1>1, FS_Singleton
<1>3. (\E x : T = {x}) <=> V # {} /\ \A v, w \in V : h[v] = h[w]
  <2>1. ASSUME NEW x, T = {x}
        PROVE  V # {} /\ \A v, w \in V : h[v] = h[w]
    BY <2>1, Zenon
  <2>2. ASSUME V # {}, \A v, w \in V : h[v] = h[w]
        PROVE  \E x : T = {x}
    <3>1. PICK v \in V : TRUE
      BY <2>2
    <3>2. T = {h[v]}
      BY <2>2, <3>1
    <3> QED BY <3>2
  <2> QED BY <2>1, <2>2
<1> QED BY <1>2, <1>3

\* A full buffer: one frame of each sensor, filed under it.
LEMMA FullBuffer ==
    ASSUME NEW frames, BufferTypeOK(frames), Present(frames) = Sensor
    PROVE  /\ Stored(frames) = {frames[s] : s \in Sensor}
           /\ \A s \in Sensor : frames[s] \in DataFrame /\ frames[s].sid = s
           /\ \A s, t \in Sensor : frames[s] = frames[t] => s = t
<1>1. Stored(frames) = {frames[s] : s \in Sensor}
  BY DEF Stored
<1>2. \A s \in Sensor : frames[s] \in DataFrame /\ frames[s].sid = s
  BY DEF BufferTypeOK, Present
<1> QED BY <1>1, <1>2

\* validateSweep accepts a buffer exactly when the frames in it are a sweep.
LEMMA ValidIsSweep ==
    ASSUME NEW frames, BufferTypeOK(frames)
    PROVE  validateSweep(frames) <=> Assembly!IsSweep(Stored(frames))
<1> DEFINE S == Stored(frames)
           V == {s \in Sensor : validNpoly(frames[s])}
           H == {s \in Sensor : hasOffset(frames[s])}
<1>1. {f.sid : f \in S} = Present(frames)
  BY DEF Stored, BufferTypeOK, Present
<1>2. CASE Present(frames) # Sensor
  BY <1>1, <1>2 DEF validateSweep, Assembly!IsSweep
<1>3. CASE Present(frames) = Sensor
  <2>1. /\ S = {frames[s] : s \in Sensor}
        /\ \A s \in Sensor : frames[s] \in DataFrame /\ frames[s].sid = s
        /\ \A s, t \in Sensor : frames[s] = frames[t] => s = t
    BY <1>3, FullBuffer
  <2>2. IsFiniteSet(V) /\ IsFiniteSet(H)
    BY SweepAssumption, FS_Subset
  <2> HIDE DEF S
  <2>3. Cardinality({Assembly!baseStationId(f) : f \in {g \in S : Assembly!validNpoly(g)}}) = 1
          <=> V # {} /\ \A s, t \in V : baseStationId(frames[s]) = baseStationId(frames[t])
    <3> DEFINE h == [s \in V |-> baseStationId(frames[s])]
    <3>1. {Assembly!baseStationId(f) : f \in {g \in S : Assembly!validNpoly(g)}}
            = {baseStationId(f) : f \in {g \in S : validNpoly(g)}}
      BY SameOperators, Zenon
    <3>2. {baseStationId(f) : f \in {g \in S : validNpoly(g)}} = {h[s] : s \in V}
      <4>1. \A s \in V : h[s] = baseStationId(frames[s])
        OBVIOUS
      <4>2. {g \in S : validNpoly(g)} = {frames[s] : s \in V}
        BY <2>1
      <4>3. {baseStationId(f) : f \in {frames[s] : s \in V}} = {baseStationId(frames[s]) : s \in V}
        BY Zenon
      <4> HIDE DEF h, V
      <4>4. {baseStationId(frames[s]) : s \in V} = {h[s] : s \in V}
        BY <4>1
      <4> QED BY <4>2, <4>3, <4>4, Zenon
    <3>3. \A s, t \in V : h[s] = h[t] <=> baseStationId(frames[s]) = baseStationId(frames[t])
      OBVIOUS
    <3>4. h = [v \in V |-> h[v]]
      OBVIOUS
    <3> HIDE DEF h, V
    <3>5. Cardinality({h[s] : s \in V}) = 1 <=> V # {} /\ \A s, t \in V : h[s] = h[t]
      BY <2>2, <3>4, ImageIsOne
    <3> QED BY <3>1, <3>2, <3>3, <3>5, Zenon
  <2>4. Cardinality({f \in S : Assembly!hasOffset(f)}) = 1
          <=> \E s \in Sensor : \A t \in Sensor : hasOffset(frames[t]) <=> t = s
    <3> DEFINE h == [s \in H |-> frames[s]]
    <3>1. {f \in S : Assembly!hasOffset(f)} = {h[s] : s \in H}
      <4>1. \A s \in H : h[s] = frames[s]
        OBVIOUS
      <4>2. {f \in S : hasOffset(f)} = {frames[s] : s \in H}
        BY <2>1
      <4>3. {f \in S : Assembly!hasOffset(f)} = {f \in S : hasOffset(f)}
        BY SameOperators, Zenon
      <4> HIDE DEF h, H
      <4> QED BY <4>1, <4>2, <4>3, Zenon
    <3>2. \A s, t \in H : h[s] = h[t] <=> s = t
      BY <2>1
    <3>3. h = [v \in H |-> h[v]]
      OBVIOUS
    <3>4. \A t \in Sensor : t \in H <=> hasOffset(frames[t])
      OBVIOUS
    <3>5. H \subseteq Sensor
      OBVIOUS
    <3> HIDE DEF h, H
    <3>6. Cardinality({h[s] : s \in H}) = 1 <=> H # {} /\ \A s, t \in H : h[s] = h[t]
      BY <2>2, <3>3, ImageIsOne
    <3>7. (H # {} /\ \A s, t \in H : s = t) <=> \E s \in Sensor : \A t \in Sensor : t \in H <=> t = s
      BY <3>5
    <3>8. (\A s, t \in H : h[s] = h[t]) <=> \A s, t \in H : s = t
      BY <3>2
    <3> QED BY <3>1, <3>4, <3>6, <3>7, <3>8, Zenon
  <2>5. validateSweep(frames) <=>
          /\ V # {} /\ \A s, t \in V : baseStationId(frames[s]) = baseStationId(frames[t])
          /\ \E s \in Sensor : \A t \in Sensor : hasOffset(frames[t]) <=> t = s
    BY <1>3, Zenon DEF validateSweep
  <2>6. Assembly!IsSweep(S) <=>
          /\ Cardinality({Assembly!baseStationId(f) : f \in {g \in S : Assembly!validNpoly(g)}}) = 1
          /\ Cardinality({f \in S : Assembly!hasOffset(f)}) = 1
    <3>1. {f.sid : f \in S} = Sensor
      BY <1>1, <1>3 DEF S
    <3> QED BY <3>1, SameOperators DEF Assembly!IsSweep
  <2> HIDE DEF V
  <2> QED BY <2>3, <2>4, <2>5, <2>6, Zenon DEF S
<1> QED BY <1>2, <1>3

\* The sweep built from the buffer is the one its frames define.
LEMMA SweepIsSweepOf ==
    ASSUME NEW frames, BufferTypeOK(frames), validateSweep(frames)
    PROVE  completeBlockInformation(frames) = Assembly!SweepOf(Stored(frames))
<1> DEFINE S == Stored(frames)
           ref == CHOOSE s \in Sensor : hasOffset(frames[s])
           known == CHOOSE s \in Sensor : validNpoly(frames[s])
           reference == CHOOSE f \in S : Assembly!hasOffset(f)
           station == CHOOSE b \in 1 .. 16 :
                          \E f \in S : Assembly!validNpoly(f) /\ Assembly!baseStationId(f) = b
           offset(s) == IF hasOffset(frames[s]) THEN frames[s].sync_offset
                        ELSE timestampSum(frames[ref].sync_offset,
                                          timestampDiff(frames[s].timestamp,
                                                        frames[ref].timestamp))
<1>1. /\ S = {frames[s] : s \in Sensor}
      /\ \A s \in Sensor : frames[s] \in DataFrame /\ frames[s].sid = s
      /\ \A s, t \in Sensor : frames[s] = frames[t] => s = t
  BY FullBuffer DEF validateSweep
<1>2. /\ \E s \in Sensor : validNpoly(frames[s])
      /\ \A s, t \in Sensor : validNpoly(frames[s]) /\ validNpoly(frames[t])
                                 => baseStationId(frames[s]) = baseStationId(frames[t])
      /\ \E s \in Sensor : \A t \in Sensor : hasOffset(frames[t]) <=> t = s
  BY DEF validateSweep
<1>3. /\ ref \in Sensor /\ hasOffset(frames[ref])
      /\ \A t \in Sensor : hasOffset(frames[t]) => t = ref
  BY <1>2, Zenon
<1>4. known \in Sensor /\ validNpoly(frames[known])
  BY <1>2, Zenon
<1> HIDE DEF S, ref, known
<1>5. reference = frames[ref]
  <2>1. frames[ref] \in S /\ Assembly!hasOffset(frames[ref])
    BY <1>1, <1>3, SameOperators
  <2>2. \A f \in S : Assembly!hasOffset(f) => f = frames[ref]
    BY <1>1, <1>3, SameOperators, Zenon
  <2> QED BY <2>1, <2>2, Zenon
<1>6. station = baseStationId(frames[known])
  <2>1. baseStationId(frames[known]) \in 1 .. 16
    <3>1. frames[known].npoly \in 0 .. 63
      BY <1>1, <1>4, FrameAssumption DEF DataFrame
    <3>2. frames[known].npoly < 32
      BY <1>4 DEF validNpoly
    <3> QED BY <3>1, <3>2 DEF baseStationId
  <2>2. frames[known] \in S /\ Assembly!validNpoly(frames[known])
        /\ Assembly!baseStationId(frames[known]) = baseStationId(frames[known])
    BY <1>1, <1>4, SameOperators
  <2>3. ASSUME NEW f \in S, Assembly!validNpoly(f)
        PROVE  Assembly!baseStationId(f) = baseStationId(frames[known])
    <3>1. PICK t \in Sensor : f = frames[t]
      BY <1>1
    <3>2. validNpoly(frames[t])
      BY <2>3, <3>1, SameOperators
    <3> QED BY <1>2, <1>4, <3>1, <3>2, SameOperators
  <2> QED BY <2>1, <2>2, <2>3, Zenon
<1>7. ASSUME NEW s \in Sensor
      PROVE  (CHOOSE f \in S : f.sid = s) = frames[s]
  <2>1. frames[s] \in S /\ frames[s].sid = s
    BY <1>1
  <2>2. ASSUME NEW f \in S, f.sid = s
        PROVE  f = frames[s]
    <3>1. PICK t \in Sensor : f = frames[t]
      BY <1>1
    <3> QED BY <1>1, <2>2, <3>1
  <2> QED BY <2>1, <2>2, Zenon
<1>8. ASSUME NEW s \in Sensor
      PROVE  offset(s) = timestampDiff(frames[s].timestamp, rotorZero(frames[ref]))
  <2>1. /\ frames[s].timestamp \in Timestamp /\ frames[ref].timestamp \in Timestamp
        /\ frames[ref].sync_offset \in Timestamp
    BY <1>1, <1>3, FrameAssumption DEF DataFrame
  <2>2. timestampSum(frames[ref].sync_offset,
                     timestampDiff(frames[s].timestamp, frames[ref].timestamp))
          = timestampDiff(frames[s].timestamp, rotorZero(frames[ref]))
    BY <2>1, OffsetFromRotorZero DEF rotorZero
  <2>3. CASE hasOffset(frames[s])
    <3>1. s = ref
      BY <1>3, <2>3
    <3>2. timestampDiff(frames[ref].timestamp, frames[ref].timestamp) = 0
      BY <2>1, DiffByOrder, CounterSizeAssumption DEF Timestamp
    <3>3. timestampSum(frames[ref].sync_offset, 0) = frames[ref].sync_offset
      BY <2>1, CounterSizeAssumption DEF timestampSum, Timestamp
    <3> QED BY <2>2, <2>3, <3>1, <3>2, <3>3
  <2>4. CASE ~ hasOffset(frames[s])
    BY <2>2, <2>4
  <2> QED BY <2>3, <2>4
<1>9. [s \in Sensor |-> offset(s)]
        = [s \in Sensor |-> Assembly!timestampDiff((CHOOSE f \in S : f.sid = s).timestamp,
                                                   Assembly!rotorZero(reference))]
  <2>1. \A s \in Sensor :
            offset(s) = Assembly!timestampDiff((CHOOSE f \in S : f.sid = s).timestamp,
                                               Assembly!rotorZero(reference))
    BY <1>5, <1>7, <1>8, SameOperators
  <2> HIDE DEF offset, reference
  <2> QED BY <2>1, Zenon
<1>10. Assembly!rotorZero(reference) = rotorZero(frames[ref])
  BY <1>5, SameOperators
<1>11. completeBlockInformation(frames)
         = [base_station_id |-> station, timestamp |-> reference.timestamp,
            timestamp0 |-> Assembly!rotorZero(reference),
            sensors |-> [s \in Sensor |-> offset(s)]]
  BY <1>5, <1>6, <1>10 DEF completeBlockInformation, ref, known
<1> HIDE DEF offset, reference, station
<1>12. Assembly!SweepOf(S)
         = [base_station_id |-> station, timestamp |-> reference.timestamp,
            timestamp0 |-> Assembly!rotorZero(reference),
            sensors |-> [s \in Sensor |-> offset(s)]]
  BY <1>9 DEF Assembly!SweepOf, reference, station
<1> QED BY <1>11, <1>12 DEF S

----------------------------------------------------------------------------
\* The buffer holds the current frames of those received.
BufferIsCurrent == Assembly!CurrentFrames(received) = Stored(block_frames)

TimelineInv ==
    /\ SweepTypeOK
    /\ received \in Seq(DataFrame)
    /\ newest \in Int /\ pulse \in [Sensor -> Int]
    /\ BufferIsCurrent

\* No frame received, no frame stored.
LEMMA NothingReceived ==
    /\ Assembly!CurrentFrames(<<>>) = Stored(NoFrames)
    /\ BufferTypeOK(NoFrames)
<1>1. Stored(NoFrames) = {}
  BY DEF Stored, NoFrames, Present
<1>2. Assembly!CurrentFrames(<<>>) = {}
  BY DEF Assembly!CurrentFrames
<1> QED BY <1>1, <1>2 DEF BufferTypeOK, NoFrames, Present

\* The frame the deck makes of a pulse.
LEMMA FrameAtType ==
    ASSUME NEW time \in Int, NEW s \in Sensor, NEW poly \in Npoly, NEW offset \in SyncOffset
    PROVE  FrameAt(time, s, poly, offset) \in DataFrame
<1>1. time % CounterSize \in Timestamp
  BY CounterSizeAssumption DEF Timestamp
<1> QED BY <1>1 DEF FrameAt, DataFrame

\* A call with a frame is a step of the abstract specification, and keeps the
\* buffer what that specification says is current.
LEMMA ReceiveIsAssembly ==
    ASSUME TimelineInv, NEW delay \in Delay, NEW s \in Sensor, NEW poly \in Npoly,
           NEW offset \in SyncOffset, Receive(delay, s, poly, offset)
    PROVE  Assembly!Next /\ TimelineInv'
<1> DEFINE time == newest + delay
           frame == FrameAt(time, s, poly, offset)
           frames == Refresh(block_frames, frame)
           more == Append(received, frame)
<1>1. time \in Int
  BY DelayAssumption DEF TimelineInv
<1>2. frame \in DataFrame
  BY <1>1, FrameAtType
<1> HIDE DEF frame
<1>3. BufferTypeOK(block_frames) /\ received \in Seq(DataFrame) /\ BufferIsCurrent
  BY DEF TimelineInv, SweepTypeOK, BufferTypeOK
<1>4. BufferTypeOK(frames)
  BY <1>2, <1>3, RefreshType
<1>5. Assembly!CurrentFrames(more) = Stored(frames)
  <2>1. Assembly!CurrentFrames(received) = Stored(block_frames)
    BY <1>3 DEF BufferIsCurrent
  <2>2. Assembly!CurrentFrames(more)
          = {frame} \cup
            {f \in Assembly!CurrentFrames(received) :
                /\ frame.sid # f.sid
                /\ CircularDistance(frame.timestamp, f.timestamp)
                       <= kMaxTimestampDiffForSweep}
    BY <1>2, <1>3, CurrentAfterAppend
  <2>3. Stored(frames)
          = {frame} \cup
            {f \in Stored(block_frames) :
                /\ frame.sid # f.sid
                /\ CircularDistance(frame.timestamp, f.timestamp)
                       <= kMaxTimestampDiffForSweep}
    BY <1>2, <1>3, StoredAfterRefresh
  <2> QED BY <2>1, <2>2, <2>3, Zenon
<1>6. more \in Seq(DataFrame)
  BY <1>2, <1>3
<1>7. /\ ProcessFrame(frame)
      /\ newest' = IF delay > 0 THEN time ELSE newest
      /\ pulse' = [pulse EXCEPT ![s] = time]
      /\ received' = IF sweep' = NoSweep THEN more ELSE <<>>
  BY DEF Receive, frame
<1>8. newest' \in Int /\ pulse' \in [Sensor -> Int]
  BY <1>1, <1>7 DEF TimelineInv
<1> HIDE DEF frames, more
<1>9. CASE validateSweep(frames)
  <2>1. sweep' = completeBlockInformation(frames) /\ block_frames' = NoFrames
    BY <1>7, <1>9 DEF ProcessFrame, frames
  <2>2. sweep' \in SweepBlock /\ sweep' # NoSweep
    BY <1>4, <1>9, <2>1, SweepType, DelayAssumption
  <2>3. received' = <<>>
    BY <1>7, <2>2
  <2>4. Assembly!IsSweep(Assembly!CurrentFrames(more))
        /\ sweep' = Assembly!SweepOf(Assembly!CurrentFrames(more))
    BY <1>4, <1>5, <1>9, <2>1, ValidIsSweep, SweepIsSweepOf
  <2>5. Assembly!Receive(frame)
    BY <2>3, <2>4 DEF Assembly!Receive, more
  <2>6. SweepTypeOK' /\ BufferIsCurrent'
    BY <2>1, <2>2, <2>3, NothingReceived
    DEF SweepTypeOK, BufferTypeOK, Present, BufferIsCurrent, Stored
  <2>7. received' \in Seq(DataFrame)
    BY <2>3
  <2> QED BY <1>2, <1>8, <2>5, <2>6, <2>7, SameOperators DEF Assembly!Next, TimelineInv
<1>10. CASE ~ validateSweep(frames)
  <2>1. sweep' = NoSweep /\ block_frames' = frames
    BY <1>7, <1>10 DEF ProcessFrame, frames
  <2>2. received' = more
    BY <1>7, <2>1
  <2>3. ~ Assembly!IsSweep(Assembly!CurrentFrames(more))
    BY <1>4, <1>5, <1>10, ValidIsSweep
  <2>4. Assembly!Receive(frame)
    BY <2>1, <2>2, <2>3 DEF Assembly!Receive, more
  <2>5. SweepTypeOK' /\ BufferIsCurrent'
    BY <1>4, <1>5, <2>1, <2>2
    DEF SweepTypeOK, BufferTypeOK, Present, BufferIsCurrent, Stored
  <2> QED BY <1>2, <1>6, <1>8, <2>2, <2>4, <2>5, SameOperators DEF Assembly!Next, TimelineInv
<1> QED BY <1>9, <1>10

\* So is a reset, of either specification.
LEMMA RestartIsAssembly ==
    ASSUME TimelineInv, Restart
    PROVE  Assembly!Next /\ TimelineInv'
<1>1. /\ block_frames' = NoFrames /\ sweep' = NoSweep /\ received' = <<>>
      /\ newest' = newest /\ pulse' = pulse
  BY DEF Restart, ResetSweeps
<1>2. SweepTypeOK' /\ BufferIsCurrent'
  BY <1>1, NothingReceived
  DEF SweepTypeOK, BufferTypeOK, Present, BufferIsCurrent, Stored
<1>3. received' \in Seq(DataFrame)
  BY <1>1
<1> QED BY <1>1, <1>2, <1>3 DEF TimelineInv, Assembly!Next, Assembly!Restart

LEMMA TimelineInvHolds == TimelineSpec => []TimelineInv
<1>1. TimelineInit => TimelineInv
  <2> SUFFICES ASSUME TimelineInit
               PROVE  TimelineInv
    OBVIOUS
  <2>1. /\ block_frames = NoFrames /\ sweep = NoSweep /\ received = <<>>
        /\ newest = CounterSize /\ pulse = [s \in Sensor |-> 0]
    BY DEF TimelineInit, SweepInit
  <2>2. newest \in Int /\ pulse \in [Sensor -> Int] /\ received \in Seq(DataFrame)
    BY <2>1, CounterSizeAssumption
  <2> QED
    BY <2>1, <2>2, NothingReceived DEF TimelineInv, SweepTypeOK, BufferTypeOK, BufferIsCurrent
<1>2. TimelineInv /\ [TimelineNext]_timelineVars => TimelineInv'
  <2> SUFFICES ASSUME TimelineInv, [TimelineNext]_timelineVars
               PROVE  TimelineInv'
    OBVIOUS
  <2>1. CASE UNCHANGED timelineVars
    BY <2>1 DEF timelineVars, TimelineInv, SweepTypeOK, Present, BufferIsCurrent, Stored
  <2> QED BY <2>1, ReceiveIsAssembly, RestartIsAssembly DEF TimelineNext
<1> QED BY <1>1, <1>2, PTL DEF TimelineSpec

\* On the deck's timeline the buffer files every frame under its own sensor, and
\* a reported sweep has a channel and times the later stages can use.
THEOREM TimelineTypeCorrect == TimelineSpec => []SweepTypeOK
<1>1. TimelineInv => SweepTypeOK
  BY DEF TimelineInv
<1> QED BY <1>1, TimelineInvHolds, PTL

\* The frames in the buffer are close to each other pairwise.
THEOREM TimelineWindowShared == TimelineSpec => []FramesShareWindow
<1>1. TimelineInit => FramesShareWindow
  BY DEF TimelineInit, SweepInit, FramesShareWindow, NoFrames, Present
<1>2. /\ TimelineInv /\ FramesShareWindow /\ [TimelineNext]_timelineVars
      => FramesShareWindow'
  <2> SUFFICES ASSUME TimelineInv, FramesShareWindow, [TimelineNext]_timelineVars
               PROVE  FramesShareWindow'
    OBVIOUS
  <2>1. BufferTypeOK(block_frames) /\ SharesWindow(block_frames)
    BY DEF TimelineInv, SweepTypeOK, BufferTypeOK, FramesShareWindow, SharesWindow
  <2>2. ASSUME block_frames' = NoFrames
        PROVE  FramesShareWindow'
    BY <2>2 DEF FramesShareWindow, NoFrames, Present
  <2>3. ASSUME NEW delay \in Delay, NEW s \in Sensor, NEW poly \in Npoly,
               NEW offset \in SyncOffset, Receive(delay, s, poly, offset)
        PROVE  FramesShareWindow'
    <3>1. PICK frame \in DataFrame : ProcessFrame(frame)
      BY <2>3, FrameAtType, DelayAssumption DEF TimelineInv, Receive
    <3>2. SharesWindow(Refresh(block_frames, frame))
      BY <2>1, RefreshSharesWindow
    <3>3. block_frames' = NoFrames \/ block_frames' = Refresh(block_frames, frame)
      BY <3>1 DEF ProcessFrame
    <3> QED BY <2>2, <3>2, <3>3 DEF FramesShareWindow, SharesWindow, Present
  <2>4. CASE Restart
    BY <2>2, <2>4 DEF Restart, ResetSweeps
  <2>5. CASE UNCHANGED timelineVars
    BY <2>5 DEF timelineVars, FramesShareWindow, Present
  <2> QED BY <2>3, <2>4, <2>5 DEF TimelineNext
<1> QED BY <1>1, <1>2, TimelineInvHolds, PTL DEF TimelineSpec

\* The processor, with its buffer, erasures and early returns, implements the
\* definition over everything received: the same sweeps, at the same calls.
THEOREM ProcessorImplementsAssembly == TimelineSpec => ImplementsAssembly
<1>1. TimelineInit => Assembly!Init
  BY DEF TimelineInit, SweepInit, Assembly!Init
<1>2. TimelineInv /\ [TimelineNext]_timelineVars => [Assembly!Next]_(Assembly!assemblyVars)
  <2> SUFFICES ASSUME TimelineInv, [TimelineNext]_timelineVars
               PROVE  [Assembly!Next]_(Assembly!assemblyVars)
    OBVIOUS
  <2>1. CASE UNCHANGED timelineVars
    BY <2>1 DEF timelineVars, Assembly!assemblyVars
  <2> QED BY <2>1, ReceiveIsAssembly, RestartIsAssembly DEF TimelineNext
<1> QED
  BY <1>1, <1>2, TimelineInvHolds, PTL DEF TimelineSpec, ImplementsAssembly, Assembly!Spec

----------------------------------------------------------------------------
\* The stored frames carry the stamps of their true times, which are within the
\* window of each other, and one of them is the frame that arrived last, not far
\* from the newest.
StoredTimes ==
    /\ \A s \in Present(block_frames) : block_frames[s].timestamp = pulse[s] % CounterSize
    /\ \A s, t \in Present(block_frames) : pulse[s] - pulse[t] <= kMaxTimestampDiffForSweep
    /\ Present(block_frames) # {} =>
         \E e \in Delay \cup {0} : \E s \in Present(block_frames) : pulse[s] = newest + e

\* Whatever stays in the buffer with a new frame happened within the window of it,
\* and of each other, in true time.
LEMMA RefreshedTimes ==
    ASSUME TimelineInv, StoredTimes, NEW delay \in Delay, NEW s \in Sensor,
           NEW poly \in Npoly, NEW offset \in SyncOffset,
           Receive(delay, s, poly, offset),
           NEW frames, frames = Refresh(block_frames, FrameAt(newest + delay, s, poly, offset))
    PROVE  /\ pulse' = [pulse EXCEPT ![s] = newest + delay]
           /\ \A t \in Present(frames) : frames[t].timestamp = pulse'[t] % CounterSize
           /\ \A t, u \in Present(frames) : pulse'[t] - pulse'[u] <= kMaxTimestampDiffForSweep
           /\ s \in Present(frames)
<1> DEFINE time == newest + delay
           frame == FrameAt(time, s, poly, offset)
           K == kMaxTimestampDiffForSweep
<1>1. /\ newest \in Int /\ pulse \in [Sensor -> Int] /\ delay \in Int /\ time \in Int
      /\ K \in Nat /\ BufferTypeOK(block_frames)
  BY DelayAssumption, SweepAssumption DEF TimelineInv, SweepTypeOK, BufferTypeOK
<1>2. frame \in DataFrame /\ frame.sid = s /\ frame.timestamp = time % CounterSize
  <2>1. frame \in DataFrame
    BY <1>1, FrameAtType
  <2> QED BY <2>1 DEF FrameAt
<1>3. pulse' = [pulse EXCEPT ![s] = time]
  BY DEF Receive
<1>4. pulse'[s] = time /\ \A t \in Sensor : t # s => pulse'[t] = pulse[t]
  BY <1>1, <1>3
<1> HIDE DEF frame
<1>5. frames = Refresh(block_frames, frame)
  BY DEF frame
<1>6. frames[s] = frame /\ s \in Present(frames)
  BY <1>2, <1>5, SweepAssumption DEF Refresh, Present
<1>7. ASSUME NEW t \in Present(frames), t # s
      PROVE  /\ t \in Sensor /\ t \in Present(block_frames) /\ frames[t] = block_frames[t]
             /\ time - pulse[t] <= K /\ pulse[t] - time <= K
  <2>1. t \in Sensor /\ t \in Present(block_frames) /\ frames[t] = block_frames[t]
        /\ ~ timestampAbsDiffLargerThan(frame.timestamp, block_frames[t].timestamp, K)
    BY <1>2, <1>5, <1>7 DEF Refresh, Present
  <2>2. /\ block_frames[t].timestamp = pulse[t] % CounterSize
        /\ \A u, v \in Present(block_frames) : pulse[u] - pulse[v] <= K
        /\ \E e \in Delay \cup {0} : \E u \in Present(block_frames) : pulse[u] = newest + e
    BY <2>1 DEF StoredTimes
  <2>3. PICK e \in Delay \cup {0}, u \in Present(block_frames) : pulse[u] = newest + e
    BY <2>2
  <2>4. /\ delay - e + 2 * K < CounterSize
        /\ e - delay + 2 * K < CounterSize
    BY SilenceAssumption
  <2>5. /\ e \in Int /\ pulse[t] \in Int /\ pulse[u] \in Int
        /\ CounterSize \in Nat \ {0}
    BY <1>1, <2>1, DelayAssumption, CounterSizeAssumption DEF Present
  <2>6. pulse[u] - pulse[t] <= K /\ pulse[t] - pulse[u] <= K
    BY <2>1, <2>2
  <2>7. time - pulse[t] < CounterSize - K /\ pulse[t] - time < CounterSize - K
    BY <1>1, <2>3, <2>4, <2>5, <2>6
  <2>8. /\ frame.timestamp \in Timestamp /\ block_frames[t].timestamp \in Timestamp
    BY <1>1, <1>2, <2>1 DEF BufferTypeOK, DataFrame, Present
  <2>9. CircularDistance(frame.timestamp, block_frames[t].timestamp) <= K
    <3>1. ~ (CircularDistance(frame.timestamp, block_frames[t].timestamp) > K)
      BY <1>1, <2>1, <2>8, ComparisonIsDistance, SweepAssumption
    <3>2. /\ timestampDiff(frame.timestamp, block_frames[t].timestamp) \in Timestamp
          /\ timestampDiff(block_frames[t].timestamp, frame.timestamp) \in Timestamp
      BY <2>8, DiffType
    <3>3. CircularDistance(frame.timestamp, block_frames[t].timestamp) \in Int
      BY <3>2, CounterSizeAssumption DEF CircularDistance, Timestamp
    <3> QED BY <1>1, <3>1, <3>3
  <2>10. CircularDistance(time % CounterSize, pulse[t] % CounterSize) <= K
    BY <1>2, <2>2, <2>9
  <2>11. time - pulse[t] <= K /\ pulse[t] - time <= K
    BY <1>1, <2>5, <2>7, <2>10, CloseStampsAreClose
  <2> QED BY <2>1, <2>11
<1>8. \A t \in Present(frames) : frames[t].timestamp = pulse'[t] % CounterSize
  BY <1>2, <1>4, <1>6, <1>7 DEF StoredTimes
<1>9. ASSUME NEW t \in Present(frames), NEW u \in Present(frames)
      PROVE  pulse'[t] - pulse'[u] <= K
  <2>1. CASE t = s /\ u = s
    BY <1>1, <1>4, <2>1
  <2>2. CASE t = s /\ u # s
    BY <1>4, <1>7, <2>2
  <2>3. CASE t # s /\ u = s
    BY <1>4, <1>7, <2>3
  <2>4. CASE t # s /\ u # s
    BY <1>4, <1>7, <2>4 DEF StoredTimes
  <2> QED BY <2>1, <2>2, <2>3, <2>4
<1> QED BY <1>3, <1>6, <1>8, <1>9

LEMMA StoredTimesHold == TimelineSpec => []StoredTimes
<1>1. TimelineInit => StoredTimes
  BY DEF TimelineInit, SweepInit, StoredTimes, NoFrames, Present
<1>2. TimelineInv /\ StoredTimes /\ [TimelineNext]_timelineVars => StoredTimes'
  <2> SUFFICES ASSUME TimelineInv, StoredTimes, [TimelineNext]_timelineVars
               PROVE  StoredTimes'
    OBVIOUS
  <2>1. ASSUME block_frames' = NoFrames
        PROVE  StoredTimes'
    BY <2>1 DEF StoredTimes, NoFrames, Present
  <2>2. ASSUME NEW delay \in Delay, NEW s \in Sensor, NEW poly \in Npoly,
               NEW offset \in SyncOffset, Receive(delay, s, poly, offset)
        PROVE  StoredTimes'
    <3>1. PICK frames : frames = Refresh(block_frames,
                                         FrameAt(newest + delay, s, poly, offset))
      OBVIOUS
    <3>2. block_frames' = NoFrames \/ block_frames' = frames
      BY <2>2, <3>1 DEF Receive, ProcessFrame
    <3>3. /\ pulse' = [pulse EXCEPT ![s] = newest + delay]
          /\ \A t \in Present(frames) : frames[t].timestamp = pulse'[t] % CounterSize
          /\ \A t, u \in Present(frames) :
                pulse'[t] - pulse'[u] <= kMaxTimestampDiffForSweep
          /\ s \in Present(frames)
      BY <2>2, <3>1, RefreshedTimes
    <3>4. \E e \in Delay \cup {0} : pulse'[s] = newest' + e
      <4>1. /\ newest \in Int /\ delay \in Int /\ pulse \in [Sensor -> Int]
            /\ newest' = IF delay > 0 THEN newest + delay ELSE newest
        BY <2>2, DelayAssumption DEF TimelineInv, Receive
      <4>2. pulse'[s] = newest + delay
        BY <3>3, <4>1
      <4>3. CASE delay > 0
        BY <4>1, <4>2, <4>3
      <4>4. CASE ~ (delay > 0)
        BY <4>1, <4>2, <4>4
      <4> QED BY <4>3, <4>4
    <3>5. CASE block_frames' = frames
      <4>1. Present(block_frames)' = Present(frames)
        BY <3>5 DEF Present
      <4> QED BY <3>3, <3>4, <3>5, <4>1 DEF StoredTimes
    <3> QED BY <2>1, <3>2, <3>5
  <2>3. CASE Restart
    BY <2>1, <2>3 DEF Restart, ResetSweeps
  <2>4. CASE UNCHANGED timelineVars
    BY <2>4 DEF timelineVars, StoredTimes, Present
  <2> QED BY <2>2, <2>3, <2>4 DEF TimelineNext
<1> QED BY <1>1, <1>2, TimelineInvHolds, PTL DEF TimelineSpec

\* The pulses of a reported sweep happened within the window of each other in
\* true time, which the processor never sees.
THEOREM SweepsOfOnePlane == TimelineSpec => SweepsAreSimultaneous
<1>1. TimelineInv /\ StoredTimes /\ [TimelineNext]_timelineVars =>
        [sweep' # NoSweep =>
            \A s, t \in Sensor :
                pulse'[s] - pulse'[t] <= kMaxTimestampDiffForSweep]_timelineVars
  <2> SUFFICES ASSUME TimelineInv, StoredTimes, TimelineNext, sweep' # NoSweep,
                      NEW t \in Sensor, NEW u \in Sensor
               PROVE  pulse'[t] - pulse'[u] <= kMaxTimestampDiffForSweep
    OBVIOUS
  <2>1. PICK delay \in Delay, s \in Sensor, poly \in Npoly, offset \in SyncOffset :
            Receive(delay, s, poly, offset)
    BY DEF TimelineNext, Restart, ResetSweeps
  <2>2. PICK frames : frames = Refresh(block_frames, FrameAt(newest + delay, s, poly, offset))
    OBVIOUS
  <2>3. Present(frames) = Sensor
    BY <2>1, <2>2 DEF Receive, ProcessFrame, validateSweep
  <2> QED BY <2>1, <2>2, <2>3, RefreshedTimes
<1> QED
  BY <1>1, TimelineInvHolds, StoredTimesHold, PTL DEF TimelineSpec, SweepsAreSimultaneous

====
