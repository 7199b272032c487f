---- MODULE SweepProcessorProofs ----
(***************************************************************************)
(* Theorems about the SweepProcessor, for any set of sensors, any counter  *)
(* size and any window below half of it, and any sequence of calls, the    *)
(* ones whose callback throws included.                                    *)
(***************************************************************************)
EXTENDS SweepProcessor, TLAPS

\* Reducing a number below twice or three times the counter's size: what the
\* remainder is in each of the three laps.
LEMMA RemainderByLap ==
    ASSUME NEW m \in Nat \ {0}, NEW x \in 0 .. m - 1
    PROVE  /\ x % m = x
           /\ (x + m) % m = x
           /\ (x + 2 * m) % m = x
<1>1. x % m = x
  OBVIOUS
<1>2. (x + m) % m = x
  OBVIOUS
<1>3. (x + 2 * m) % m = x
  OBVIOUS
<1> QED BY <1>1, <1>2, <1>3

\* The masked difference, without the mask: the way forward from b to a.
LEMMA DiffByOrder ==
    ASSUME NEW a \in Timestamp, NEW b \in Timestamp
    PROVE  timestampDiff(a, b) = IF b <= a THEN a - b ELSE a - b + CounterSize
<1>1. CASE b <= a
  <2>1. a - b \in 0 .. CounterSize - 1
    BY <1>1, CounterSizeAssumption DEF Timestamp
  <2>2. ((a - b) + CounterSize) % CounterSize = a - b
    BY <2>1, CounterSizeAssumption, RemainderByLap
  <2> QED BY <1>1, <2>2, CounterSizeAssumption DEF Timestamp, timestampDiff
<1>2. CASE ~ (b <= a)
  <2>1. a - b + CounterSize \in 0 .. CounterSize - 1
    BY <1>2, CounterSizeAssumption DEF Timestamp
  <2>2. (a - b + CounterSize) % CounterSize = a - b + CounterSize
    BY <2>1, CounterSizeAssumption, RemainderByLap
  <2> QED BY <1>2, <2>2, CounterSizeAssumption DEF Timestamp, timestampDiff
<1> QED BY <1>1, <1>2

\* timestampDiff and timestampSum give timestamps.
LEMMA DiffType ==
    ASSUME NEW a \in Timestamp, NEW b \in Timestamp
    PROVE  /\ timestampDiff(a, b) \in Timestamp
           /\ timestampSum(a, b) \in Timestamp
<1>1. timestampDiff(a, b) \in Timestamp
  BY DiffByOrder, CounterSizeAssumption DEF Timestamp
<1>2. timestampSum(a, b) \in Timestamp
  BY CounterSizeAssumption DEF Timestamp, timestampSum
<1> QED BY <1>1, <1>2

\* The sum, without the mask.
LEMMA SumByOrder ==
    ASSUME NEW a \in Timestamp, NEW b \in Timestamp
    PROVE  timestampSum(a, b) = IF a + b < CounterSize THEN a + b
                                ELSE a + b - CounterSize
<1>1. CASE a + b < CounterSize
  BY <1>1, RemainderByLap, CounterSizeAssumption DEF Timestamp, timestampSum
<1>2. CASE ~ (a + b < CounterSize)
  <2>1. a + b - CounterSize \in 0 .. CounterSize - 1
    BY <1>2, CounterSizeAssumption DEF Timestamp
  <2>2. ((a + b - CounterSize) + CounterSize) % CounterSize = a + b - CounterSize
    BY <2>1, CounterSizeAssumption, RemainderByLap
  <2> QED BY <1>2, <2>2, CounterSizeAssumption DEF Timestamp, timestampSum
<1> QED BY <1>1, <1>2

\* The two ways round between two timestamps are equally short.
LEMMA DistanceSymmetric ==
    ASSUME NEW a \in Timestamp, NEW b \in Timestamp
    PROVE  CircularDistance(a, b) = CircularDistance(b, a)
<1>1. timestampDiff(a, b) \in Int /\ timestampDiff(b, a) \in Int
  BY DiffType, CounterSizeAssumption DEF Timestamp
<1> QED BY <1>1 DEF CircularDistance

\* A timestamp is at no distance from itself.
LEMMA DistanceToItself ==
    ASSUME NEW a \in Timestamp
    PROVE  CircularDistance(a, a) = 0
BY DiffByOrder DEF CircularDistance, Timestamp

\* timestampAbsDiffLargerThan, which adds the limit to one side and compares
\* once, decides whether the shorter arc is longer than the limit, for every
\* limit below half the counter.
THEOREM ComparisonIsDistance ==
    ASSUME NEW a \in Timestamp, NEW b \in Timestamp, NEW limit \in Nat,
           2 * limit < CounterSize
    PROVE  timestampAbsDiffLargerThan(a, b, limit) <=> CircularDistance(a, b) > limit
<1> DEFINE sum == a + limit - b
<1>0. /\ a \in Nat /\ b \in Nat /\ a < CounterSize /\ b < CounterSize
      /\ CounterSize \in Nat \ {0} /\ sum \in Int
  BY CounterSizeAssumption DEF Timestamp
<1>1. timestampDiff(a, b) = IF b <= a THEN a - b ELSE a - b + CounterSize
  BY DiffByOrder
<1>2. timestampDiff(b, a) = IF a <= b THEN b - a ELSE b - a + CounterSize
  BY DiffByOrder
<1>3. CASE sum < 0
  <2>1. sum + CounterSize \in 0 .. CounterSize - 1
    BY <1>0, <1>3
  <2>2. timestampDiff(a + limit, b) = sum + CounterSize
    BY <2>1, <1>0, RemainderByLap, SMTT(20) DEF timestampDiff
  <2> QED
    BY <1>0, <1>1, <1>2, <1>3, <2>2 DEF timestampAbsDiffLargerThan, CircularDistance
<1>4. CASE sum \in 0 .. CounterSize - 1
  <2>1. timestampDiff(a + limit, b) = (sum + CounterSize) % CounterSize
    BY <1>0 DEF timestampDiff
  <2>2. timestampDiff(a + limit, b) = sum
    BY <2>1, <1>0, <1>4, RemainderByLap
  <2> QED
    BY <1>0, <1>1, <1>2, <1>4, <2>2 DEF timestampAbsDiffLargerThan, CircularDistance
<1>5. CASE sum >= CounterSize
  <2>1. sum - CounterSize \in 0 .. CounterSize - 1
    BY <1>0, <1>5
  <2>2. timestampDiff(a + limit, b) = ((sum - CounterSize) + 2 * CounterSize) % CounterSize
    BY <1>0 DEF timestampDiff
  <2>3. timestampDiff(a + limit, b) = sum - CounterSize
    BY <2>1, <2>2, <1>0, RemainderByLap
  <2> QED
    BY <1>0, <1>1, <1>2, <1>5, <2>3 DEF timestampAbsDiffLargerThan, CircularDistance
<1> QED BY <1>0, <1>3, <1>4, <1>5

\* Adding the offset of a reference pulse to the time from that pulse to
\* another is the time to the other from the zero crossing the reference
\* measured, whatever wraps on the way.
THEOREM OffsetFromRotorZero ==
    ASSUME NEW time \in Timestamp, NEW reference \in Timestamp, NEW offset \in Timestamp
    PROVE  timestampSum(offset, timestampDiff(time, reference))
             = timestampDiff(time, timestampDiff(reference, offset))
<1> DEFINE since == timestampDiff(time, reference)
           zero  == timestampDiff(reference, offset)
<1>1. since \in Timestamp /\ zero \in Timestamp
  BY DiffType
<1>2. since = IF reference <= time THEN time - reference
              ELSE time - reference + CounterSize
  BY DiffByOrder
<1>3. zero = IF offset <= reference THEN reference - offset
             ELSE reference - offset + CounterSize
  BY DiffByOrder
<1> HIDE DEF since, zero
<1>4. timestampSum(offset, since) = IF offset + since < CounterSize THEN offset + since
                                    ELSE offset + since - CounterSize
  BY <1>1, SumByOrder
<1>5. timestampDiff(time, zero) = IF zero <= time THEN time - zero
                                  ELSE time - zero + CounterSize
  BY <1>1, DiffByOrder
<1>6. timestampSum(offset, since) = timestampDiff(time, zero)
  BY <1>1, <1>2, <1>3, <1>4, <1>5, CounterSizeAssumption DEF Timestamp
<1> QED BY <1>6 DEF since, zero

\* Quotient and remainder by the counter's size.
LEMMA Laps ==
    ASSUME NEW a \in Int
    PROVE  \E q \in Int : a = CounterSize * q + (a % CounterSize)
<1>1. a = CounterSize * (a \div CounterSize) + (a % CounterSize)
  BY CounterSizeAssumption
<1>2. a \div CounterSize \in Int
  BY CounterSizeAssumption
<1> QED BY <1>1, <1>2

\* A multiple of the counter's size that is less than two of it.
LEMMA AtMostOneLap ==
    ASSUME NEW m \in Nat \ {0}, NEW q \in Int, m * q < 2 * m, - (2 * m) < m * q
    PROVE  m * q \in {- m, 0, m}
<1>1. q < 2
  <2>1. SUFFICES ASSUME q >= 2
                 PROVE  m * q >= 2 * m
    OBVIOUS
  <2>2. PICK k \in Nat : q = 2 + k
    BY <2>1
  <2>3. m * k >= 0
    OBVIOUS
  <2>4. m * q = 2 * m + m * k
    BY <2>2
  <2> QED BY <2>3, <2>4
<1>2. q > -2
  <2>1. SUFFICES ASSUME q <= -2
                 PROVE  m * q <= - (2 * m)
    OBVIOUS
  <2>2. PICK k \in Nat : q = - 2 - k
    BY <2>1
  <2>3. m * k >= 0
    OBVIOUS
  <2>4. m * q = - (2 * m) - m * k
    BY <2>2
  <2> QED BY <2>3, <2>4
<1>3. q \in {-1, 0, 1}
  BY <1>1, <1>2
<1> QED BY <1>3

\* Two true times less than a lap apart, less the limit: when their stamps are
\* within the limit on the counter's circle, so are the times.
LEMMA CloseStampsAreClose ==
    ASSUME NEW a \in Int, NEW b \in Int, NEW limit \in Nat,
           a - b < CounterSize - limit, b - a < CounterSize - limit,
           CircularDistance(a % CounterSize, b % CounterSize) <= limit
    PROVE  a - b <= limit /\ b - a <= limit
<1>0. CounterSize \in Nat \ {0}
  BY CounterSizeAssumption
<1>1. PICK p \in Int : a = CounterSize * p + (a % CounterSize)
  BY Laps
<1>2. PICK q \in Int : b = CounterSize * q + (b % CounterSize)
  BY Laps
<1>3. PICK x, y \in Timestamp : x = a % CounterSize /\ y = b % CounterSize
  BY <1>0 DEF Timestamp
<1>4. x \in 0 .. CounterSize - 1 /\ y \in 0 .. CounterSize - 1
  BY <1>3 DEF Timestamp
<1>5. PICK n \in Int : n = CounterSize * (p - q)
  BY <1>0
<1>6. a - b = n + (x - y)
  <2>1. PICK u, v \in Int : u = CounterSize * p /\ v = CounterSize * q
    BY <1>0
  <2>2. n = u - v
    BY <1>0, <1>5, <2>1
  <2>3. a = u + x /\ b = v + y
    BY <1>1, <1>2, <1>3, <2>1
  <2> QED BY <1>4, <2>2, <2>3
<1>7. n < 2 * CounterSize /\ - (2 * CounterSize) < n
  BY <1>0, <1>4, <1>6
<1>8. n \in {- CounterSize, 0, CounterSize}
  BY <1>0, <1>5, <1>7, AtMostOneLap
<1>9. /\ timestampDiff(x, y) = IF y <= x THEN x - y ELSE x - y + CounterSize
      /\ timestampDiff(y, x) = IF x <= y THEN y - x ELSE y - x + CounterSize
  BY <1>3, DiffByOrder
<1>10. timestampDiff(x, y) <= limit \/ timestampDiff(y, x) <= limit
  BY <1>3 DEF CircularDistance
<1> QED BY <1>0, <1>4, <1>6, <1>8, <1>9, <1>10

----------------------------------------------------------------------------
\* The buffer's part of the type invariant.
BufferTypeOK(frames) ==
    /\ frames \in [Sensor -> DataFrame \cup {NoFrame}]
    /\ \A s \in Present(frames) : frames[s].sid = s

SharesWindow(frames) ==
    \A s, t \in Present(frames) :
        CircularDistance(frames[s].timestamp, frames[t].timestamp)
            <= kMaxTimestampDiffForSweep

\* Storing a frame and erasing the far ones keeps the buffer well formed.
LEMMA RefreshType ==
    ASSUME NEW frames, BufferTypeOK(frames), NEW frame \in DataFrame
    PROVE  BufferTypeOK(Refresh(frames, frame))
BY DEF BufferTypeOK, Refresh, Present, DataFrame

\* Storing a frame and erasing those far from it leaves frames that are close
\* to each other pairwise.
LEMMA RefreshSharesWindow ==
    ASSUME NEW frames, BufferTypeOK(frames), SharesWindow(frames),
           NEW frame \in DataFrame
    PROVE  SharesWindow(Refresh(frames, frame))
<1> DEFINE after == Refresh(frames, frame)
<1>1. SUFFICES ASSUME NEW s \in Present(after), NEW t \in Present(after)
               PROVE  CircularDistance(after[s].timestamp, after[t].timestamp)
                          <= kMaxTimestampDiffForSweep
  BY DEF SharesWindow
<1>2. BufferTypeOK(after)
  BY RefreshType
<1>3. /\ s \in Sensor /\ after[s] \in DataFrame /\ after[s].timestamp \in Timestamp
      /\ t \in Sensor /\ after[t] \in DataFrame /\ after[t].timestamp \in Timestamp
  BY <1>2 DEF BufferTypeOK, Present, DataFrame
<1>4. ASSUME NEW u \in Present(after), u # frame.sid
      PROVE  /\ after[u] = frames[u] /\ u \in Present(frames)
             /\ frames[u].timestamp \in Timestamp
             /\ CircularDistance(frame.timestamp, frames[u].timestamp)
                    <= kMaxTimestampDiffForSweep
  <2>1. /\ after[u] = frames[u] /\ u \in Present(frames)
        /\ ~ timestampAbsDiffLargerThan(frame.timestamp, frames[u].timestamp,
                                        kMaxTimestampDiffForSweep)
    BY <1>4 DEF Refresh, Present
  <2>2. frame.timestamp \in Timestamp /\ frames[u].timestamp \in Timestamp
    BY <2>1 DEF BufferTypeOK, Present, DataFrame
  <2>3. CircularDistance(frame.timestamp, frames[u].timestamp) \in Int
    BY <2>2, DiffType, CounterSizeAssumption DEF CircularDistance, Timestamp
  <2> QED BY <2>1, <2>2, <2>3, ComparisonIsDistance, SweepAssumption
<1>5. frame.timestamp \in Timestamp
  BY DEF DataFrame
<1>6. CASE s = frame.sid /\ t = frame.sid
  <2>1. after[s].timestamp = after[t].timestamp
    BY <1>6
  <2> QED BY <1>3, <2>1, DistanceToItself, SweepAssumption
<1>7. CASE s = frame.sid /\ t # frame.sid
  <2>1. after[s] = frame
    BY <1>3, <1>7 DEF Refresh
  <2> QED BY <1>4, <1>7, <2>1
<1>8. CASE s # frame.sid /\ t = frame.sid
  <2>1. after[t] = frame
    BY <1>3, <1>8 DEF Refresh
  <2> QED BY <1>4, <1>5, <1>8, <2>1, DistanceSymmetric
<1>9. CASE s # frame.sid /\ t # frame.sid
  BY <1>4, <1>9 DEF SharesWindow
<1> QED BY <1>6, <1>7, <1>8, <1>9

\* A validated buffer gives a sweep whose station is one of the sixteen
\* channels (so the lookup of its rotor period cannot fail) and whose times
\* fit the counter.
LEMMA SweepType ==
    ASSUME NEW frames, BufferTypeOK(frames), validateSweep(frames)
    PROVE  completeBlockInformation(frames) \in SweepBlock
<1> DEFINE reference == CHOOSE s \in Sensor : hasOffset(frames[s])
           identified == CHOOSE s \in Sensor : validNpoly(frames[s])
<1>1. reference \in Sensor /\ identified \in Sensor /\ validNpoly(frames[identified])
  BY DEF validateSweep
<1>2. \A s \in Sensor : frames[s] \in DataFrame
  BY DEF BufferTypeOK, validateSweep, Present
<1> HIDE DEF reference, identified
<1>3. baseStationId(frames[identified]) \in 1 .. 16
  <2>1. frames[identified].npoly \in 0 .. 63
    BY <1>1, <1>2, FrameAssumption DEF DataFrame
  <2>2. frames[identified].npoly < 32
    BY <1>1 DEF validNpoly
  <2> QED BY <2>1, <2>2 DEF baseStationId
<1>4. /\ frames[reference].timestamp \in Timestamp
      /\ frames[reference].sync_offset \in Timestamp
  BY <1>1, <1>2, FrameAssumption DEF DataFrame
<1>5. rotorZero(frames[reference]) \in Timestamp
  BY <1>4, DiffType DEF rotorZero
<1>6. ASSUME NEW s \in Sensor
      PROVE  (IF hasOffset(frames[s]) THEN frames[s].sync_offset
              ELSE timestampSum(frames[reference].sync_offset,
                                timestampDiff(frames[s].timestamp,
                                              frames[reference].timestamp)))
                \in Timestamp
  BY <1>2, <1>4, DiffType, FrameAssumption DEF DataFrame
<1> QED
  BY <1>3, <1>4, <1>5, <1>6 DEF completeBlockInformation, SweepBlock, reference, identified

----------------------------------------------------------------------------
\* Type correctness: the buffer files every frame under its own sensor, and a
\* reported sweep has a channel and times the later stages can use.
THEOREM SweepTypeCorrect == SweepSpec => []SweepTypeOK
<1>1. SweepInit => SweepTypeOK
  BY DEF SweepInit, SweepTypeOK, NoFrames, Present
<1>2. SweepTypeOK /\ [SweepNext]_sweepVars => SweepTypeOK'
  <2> SUFFICES ASSUME SweepTypeOK, [SweepNext]_sweepVars
               PROVE  SweepTypeOK'
    OBVIOUS
  <2>1. BufferTypeOK(block_frames)
    BY DEF SweepTypeOK, BufferTypeOK
  <2>2. BufferTypeOK(NoFrames)
    BY DEF BufferTypeOK, NoFrames, Present
  <2>3. ASSUME NEW frame \in DataFrame, ProcessFrame(frame)
        PROVE  SweepTypeOK'
    <3> DEFINE frames == Refresh(block_frames, frame)
    <3>1. BufferTypeOK(frames)
      BY <2>1, RefreshType
    <3> HIDE DEF frames
    <3>2. CASE validateSweep(frames)
      <4>1. sweep' \in SweepBlock /\ block_frames' = NoFrames
        BY <2>3, <3>1, <3>2, SweepType DEF ProcessFrame, frames
      <4> QED BY <4>1, <2>2 DEF SweepTypeOK, BufferTypeOK, Present
    <3>3. CASE ~ validateSweep(frames)
      <4>1. sweep' = NoSweep /\ block_frames' = frames
        BY <2>3, <3>3 DEF ProcessFrame, frames
      <4> QED BY <4>1, <3>1 DEF SweepTypeOK, BufferTypeOK, Present
    <3> QED BY <3>2, <3>3
  <2>4. ASSUME NEW frame \in DataFrame, ProcessFrameThrowing(frame)
        PROVE  SweepTypeOK'
    <3> DEFINE frames == Refresh(block_frames, frame)
    <3>1. BufferTypeOK(frames)
      BY <2>1, RefreshType
    <3> HIDE DEF frames
    <3>2. sweep' \in SweepBlock /\ block_frames' = frames
      BY <2>4, <3>1, SweepType DEF ProcessFrameThrowing, frames
    <3> QED BY <3>1, <3>2 DEF SweepTypeOK, BufferTypeOK, Present
  <2>5. CASE ResetSweeps
    BY <2>5, <2>2 DEF ResetSweeps, SweepTypeOK, BufferTypeOK, Present
  <2>6. CASE UNCHANGED sweepVars
    BY <2>6 DEF sweepVars, SweepTypeOK, Present
  <2> QED BY <2>3, <2>4, <2>5, <2>6 DEF SweepNext
<1> QED BY <1>1, <1>2, PTL DEF SweepSpec

\* The window is shared pairwise: processFrame compares only with the newest
\* frame, and that is enough for every pair of frames in the buffer.
THEOREM SweepWindowShared == SweepSpec => []FramesShareWindow
<1>1. SweepInit => FramesShareWindow
  BY DEF SweepInit, FramesShareWindow, NoFrames, Present
<1>2. SweepTypeOK /\ FramesShareWindow /\ [SweepNext]_sweepVars => FramesShareWindow'
  <2> SUFFICES ASSUME SweepTypeOK, FramesShareWindow, [SweepNext]_sweepVars
               PROVE  FramesShareWindow'
    OBVIOUS
  <2>1. BufferTypeOK(block_frames) /\ SharesWindow(block_frames)
    BY DEF SweepTypeOK, BufferTypeOK, FramesShareWindow, SharesWindow
  <2>2. ASSUME block_frames' = NoFrames
        PROVE  FramesShareWindow'
    BY <2>2 DEF FramesShareWindow, NoFrames, Present
  <2>3. ASSUME NEW frame \in DataFrame, block_frames' = Refresh(block_frames, frame)
        PROVE  FramesShareWindow'
    <3>1. SharesWindow(Refresh(block_frames, frame))
      BY <2>1, RefreshSharesWindow
    <3> QED BY <3>1, <2>3 DEF FramesShareWindow, SharesWindow, Present
  <2>4. ASSUME NEW frame \in DataFrame, ProcessFrame(frame)
        PROVE  FramesShareWindow'
    BY <2>2, <2>3, <2>4 DEF ProcessFrame
  <2>5. ASSUME NEW frame \in DataFrame, ProcessFrameThrowing(frame)
        PROVE  FramesShareWindow'
    BY <2>3, <2>5 DEF ProcessFrameThrowing
  <2>6. CASE ResetSweeps
    BY <2>2, <2>6 DEF ResetSweeps
  <2>7. CASE UNCHANGED sweepVars
    BY <2>7 DEF sweepVars, FramesShareWindow, Present
  <2> QED BY <2>4, <2>5, <2>6, <2>7 DEF SweepNext
<1> QED BY <1>1, <1>2, SweepTypeCorrect, PTL DEF SweepSpec

====
