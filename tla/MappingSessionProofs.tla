---- MODULE MappingSessionProofs ----
(***************************************************************************)
(* Theorems about a mapping session, for any stations, times and numbers   *)
(* of presses, moves, misses and restarts: what the mapper keeps belongs   *)
(* together, its message about an update is true, a still deck is sampled  *)
(* and located where it is, and the localization node uses one map.        *)
(***************************************************************************)
EXTENDS MappingSession, SequenceTheorems, WellFoundedInduction, TLAPS

InOrder(buffer) ==
    \A i, j \in 1 .. Len(buffer) : i <= j => buffer[i].timestamp <= buffer[j].timestamp

\* Some measurement that is not too old is the first one.
LEMMA FirstRecent ==
    ASSUME NEW recent \in SUBSET Nat, recent # {}
    PROVE  \E i \in recent : \A j \in recent : i <= j
<1>1. \E i \in recent : \A j \in recent : ~ (<<j, i>> \in OpToRel(<, Nat))
  BY NatLessThanWellFounded, WFMin
<1>2. PICK i \in recent : \A j \in recent : ~ (<<j, i>> \in OpToRel(<, Nat))
  BY <1>1
<1>3. \A j \in recent : ~ (j < i)
  BY <1>2 DEF OpToRel
<1> QED
  BY <1>3

\* The buffer keeps its end, from a measurement on that is not too old.
LEMMA DropOlderIsSuffix ==
    ASSUME NEW S, NEW buffer \in Seq(S), NEW cutoff
    PROVE  LET kept == DropOlder(buffer, cutoff)
           IN  /\ kept \in Seq(S)
               /\ \E k \in 0 .. Len(buffer) :
                     /\ Len(kept) = Len(buffer) - k
                     /\ \A i \in 1 .. Len(kept) : kept[i] = buffer[i + k]
               /\ Len(kept) > 0 => kept[1].timestamp >= cutoff
<1> DEFINE recent == {i \in 1 .. Len(buffer) : buffer[i].timestamp >= cutoff}
           first  == CHOOSE i \in recent : \A j \in recent : i <= j
           kept   == DropOlder(buffer, cutoff)
<1>1. CASE recent = {}
  <2>1. kept = <<>>
    BY <1>1 DEF DropOlder
  <2>2. Len(buffer) \in 0 .. Len(buffer) /\ Len(kept) = Len(buffer) - Len(buffer)
    BY <2>1
  <2>3. Len(kept) = 0 /\ kept \in Seq(S)
    BY <2>1
  <2> QED
    BY <2>2, <2>3
<1>2. CASE recent # {}
  <2>1. first \in recent
    <3>1. recent \in SUBSET Nat
      OBVIOUS
    <3>2. \E i \in recent : \A j \in recent : i <= j
      BY <1>2, <3>1, FirstRecent
    <3> QED
      BY <3>2
  <2> HIDE DEF first
  <2>2. first \in 1 .. Len(buffer) /\ buffer[first].timestamp >= cutoff
    BY <2>1
  <2>3. kept = SubSeq(buffer, first, Len(buffer))
    BY <1>2 DEF DropOlder, first
  <2>4. /\ kept \in Seq(S)
        /\ Len(kept) = Len(buffer) - first + 1
        /\ \A i \in 1 .. Len(kept) : kept[i] = buffer[first + i - 1]
    BY <2>2, <2>3, SubSeqProperties
  <2>5. first - 1 \in 0 .. Len(buffer) /\ Len(kept) = Len(buffer) - (first - 1)
    BY <2>2, <2>4
  <2>6. \A i \in 1 .. Len(kept) : kept[i] = buffer[i + (first - 1)]
    BY <2>2, <2>4
  <2>7. kept[1] = buffer[first]
    BY <2>2, <2>4
  <2> QED
    BY <2>2, <2>4, <2>5, <2>6, <2>7
<1> QED
  BY <1>1, <1>2

\* A buffer in order stays in order, and no measurement in it is too old: popping
\* from the front is enough.
LEMMA DropOlderInOrder ==
    ASSUME NEW S, \A s \in S : s.timestamp \in Nat,
           NEW buffer \in Seq(S), InOrder(buffer), NEW cutoff \in Int
    PROVE  LET kept == DropOlder(buffer, cutoff)
           IN  /\ InOrder(kept)
               /\ \A i \in 1 .. Len(kept) :
                     /\ kept[i].timestamp >= cutoff
                     /\ \E j \in 1 .. Len(buffer) : kept[i] = buffer[j]
<1> DEFINE kept == DropOlder(buffer, cutoff)
<1>1. kept \in Seq(S) /\ (Len(kept) > 0 => kept[1].timestamp >= cutoff)
  BY DropOlderIsSuffix
<1>2. PICK k \in 0 .. Len(buffer) :
          /\ Len(kept) = Len(buffer) - k
          /\ \A i \in 1 .. Len(kept) : kept[i] = buffer[i + k]
  BY DropOlderIsSuffix
<1> HIDE DEF kept
<1>3. ASSUME NEW i \in 1 .. Len(kept), NEW j \in 1 .. Len(kept), i <= j
      PROVE  kept[i].timestamp <= kept[j].timestamp
  <2>1. i + k \in 1 .. Len(buffer) /\ j + k \in 1 .. Len(buffer) /\ i + k <= j + k
    BY <1>1, <1>2, <1>3
  <2>2. buffer[i + k].timestamp <= buffer[j + k].timestamp
    BY <2>1 DEF InOrder
  <2> QED
    BY <1>2, <2>2
<1>4. ASSUME NEW i \in 1 .. Len(kept)
      PROVE  /\ kept[i].timestamp >= cutoff
             /\ \E j \in 1 .. Len(buffer) : kept[i] = buffer[j]
  <2>1. kept[1].timestamp <= kept[i].timestamp
    BY <1>1, <1>3
  <2>2. kept[1].timestamp \in Nat /\ kept[i].timestamp \in Nat
    BY <1>1
  <2>3. kept[i].timestamp >= cutoff
    BY <1>1, <2>1, <2>2
  <2>4. i + k \in 1 .. Len(buffer)
    BY <1>1, <1>2
  <2> QED
    BY <1>2, <2>3, <2>4
<1>5. InOrder(kept)
  BY <1>3 DEF InOrder
<1> QED
  BY <1>4, <1>5 DEF kept

\* A measurement newer than all others goes to the end of a buffer in order.
LEMMA AppendInOrder ==
    ASSUME NEW S, NEW buffer \in Seq(S), NEW s \in S, InOrder(buffer),
           \A i \in 1 .. Len(buffer) : buffer[i].timestamp <= s.timestamp,
           s.timestamp \in Nat
    PROVE  InOrder(Append(buffer, s))
BY DEF InOrder

----------------------------------------------------------------------------
\* The deck was moved last at some time before now.
WorldOK ==
    /\ now \in Nat /\ moved \in Nat /\ moved <= now
    /\ place \in 0 .. MaxMoves

\* A buffer of measurements in the order of their stamps; those made after the deck
\* was moved show its place.
Follows(buffer, time, move, where) ==
    /\ buffer \in Seq(Measurement)
    /\ InOrder(buffer)
    /\ \A i \in 1 .. Len(buffer) :
          /\ buffer[i].timestamp <= time
          /\ buffer[i].timestamp > move => buffer[i].angles = where

BuffersOK ==
    /\ Follows(sample_queue, now, moved, place)
    /\ Follows(sample_buffer, now, moved, place)

\* The maps, and the calls that carry them.
Maps == UNION {[B -> SUBSET LighthouseSample] : B \in SUBSET Station}

Call == [call : Nat, poses : Maps]

\* The calls on their way were sent after those taken, in the order of their
\* numbers; answers are to calls taken; and only the last call is pending.
CallsOK ==
    /\ calls_sent \in Nat /\ applied \in 0 .. calls_sent
    /\ requests \in Seq(Call)
    /\ \A i \in 1 .. Len(requests) :
          requests[i].call > applied /\ requests[i].call <= calls_sent
    /\ \A i, j \in 1 .. Len(requests) : i < j => requests[i].call < requests[j].call
    /\ responses \cup answered \subseteq 1 .. applied
    /\ pending_future \in {calls_sent, NoFuture}
    /\ pending_future # NoFuture => calls_sent > 0

\* Every map in the system is in one frame.
FramesOK ==
    /\ \A map \in map_files : IsMap(map) /\ OneFrame(map)
    /\ \A i \in 1 .. Len(requests) : OneFrame(requests[i].poses)
    /\ LocalizesInOneFrame

SessionInv ==
    /\ WorldOK /\ BuffersOK /\ CallsOK /\ FramesOK /\ OkMeansUpdated
    /\ MapperTypeOK /\ PoseIdsUnused /\ SolutionOfSamples /\ ShownPoseOfSolution

----------------------------------------------------------------------------
\* Lemmas about the operators of the mapper.

LEMMA Definitions ==
    /\ \A m \in Measurement : m.timestamp \in Nat
    /\ IsMap(NoResult) /\ OneFrame(NoResult) /\ DOMAIN NoResult = {}
    /\ \A map : IsMap(map) <=> map \in Maps
<1>1. \A m \in Measurement : m.timestamp \in Nat
  BY DEF Measurement
<1>2. IsMap(NoResult) /\ OneFrame(NoResult) /\ DOMAIN NoResult = {}
  BY DEF IsMap, OneFrame, NoResult
<1>3. ASSUME NEW map, IsMap(map)
      PROVE  map \in Maps
  BY <1>3 DEF IsMap, Maps
<1>4. ASSUME NEW map \in Maps
      PROVE  IsMap(map)
  <2>1. PICK B \in SUBSET Station : map \in [B -> SUBSET LighthouseSample]
    BY DEF Maps
  <2> QED
    BY <2>1 DEF IsMap
<1> QED
  BY <1>1, <1>2, <1>3, <1>4

\* A buffer that follows the deck still does when it was pruned, and then holds
\* nothing older than buffer_duration.
LEMMA PrunedFollows ==
    ASSUME NEW queue, NEW time \in Nat, NEW move, NEW where,
           Follows(queue, time, move, where), NEW cutoff \in Int
    PROVE  /\ Follows(DropOlder(queue, cutoff), time, move, where)
           /\ \A i \in 1 .. Len(DropOlder(queue, cutoff)) :
                 DropOlder(queue, cutoff)[i].timestamp >= cutoff
<1> DEFINE kept == DropOlder(queue, cutoff)
<1>1. queue \in Seq(Measurement) /\ InOrder(queue)
  BY DEF Follows
<1>2. \A m \in Measurement : m.timestamp \in Nat
  BY Definitions
<1>3. kept \in Seq(Measurement)
  BY <1>1, DropOlderIsSuffix
<1>4. /\ InOrder(kept)
      /\ \A i \in 1 .. Len(kept) :
            /\ kept[i].timestamp >= cutoff
            /\ \E j \in 1 .. Len(queue) : kept[i] = queue[j]
  BY <1>1, <1>2, DropOlderInOrder
<1> HIDE DEF kept
<1>5. \A i \in 1 .. Len(kept) :
          kept[i].timestamp <= time /\ (kept[i].timestamp > move => kept[i].angles = where)
  BY <1>4 DEF Follows
<1> QED
  BY <1>3, <1>4, <1>5 DEF Follows, kept

LEMMA StampsAreNat ==
    ASSUME NEW buffer, NEW time, NEW move, NEW where, Follows(buffer, time, move, where)
    PROVE  \A i \in 1 .. Len(buffer) : buffer[i].timestamp \in Nat
<1>1. buffer \in Seq(Measurement)
  BY DEF Follows
<1>2. \A i \in 1 .. Len(buffer) : buffer[i] \in Measurement
  BY <1>1
<1> QED
  BY <1>2, Definitions

\* A measurement of this moment goes to the end of a buffer that follows the deck.
LEMMA AppendFollows ==
    ASSUME NEW queue, NEW time \in Nat, NEW move \in Nat, NEW where,
           Follows(queue, time, move, where),
           NEW m \in Measurement, m.timestamp = time, m.angles = where
    PROVE  Follows(Append(queue, m), time, move, where)
<1> DEFINE after == Append(queue, m)
<1>1. queue \in Seq(Measurement) /\ after \in Seq(Measurement)
  BY DEF Follows
<1>2. \A i \in 1 .. Len(queue) : queue[i].timestamp <= m.timestamp
  BY DEF Follows
<1>3. InOrder(after)
  BY <1>1, <1>2, AppendInOrder DEF Follows
<1>4. ASSUME NEW i \in 1 .. Len(after)
      PROVE  after[i].timestamp <= time /\ (after[i].timestamp > move => after[i].angles = where)
  BY <1>1 DEF Follows
<1> QED
  BY <1>1, <1>3, <1>4 DEF Follows

\* The latest measurement of a station in the buffer is one of the buffer.
LEMMA LatestInQueue ==
    ASSUME NEW queue \in Seq(Measurement), NEW b \in InBuffer(queue)
    PROVE  \E i \in 1 .. Len(queue) : Latest(queue, b) = queue[i]
<1> DEFINE readings == ReadingsOf(queue, b)
           after    == {Len(queue) - i : i \in readings}
<1>1. readings \subseteq 1 .. Len(queue) /\ readings # {}
  BY DEF InBuffer, ReadingsOf
<1>2. after \in SUBSET Nat /\ after # {}
  BY <1>1
<1>3. PICK n \in after : \A k \in after : n <= k
  BY <1>2, FirstRecent
<1>4. PICK last \in readings : n = Len(queue) - last
  BY <1>3
<1>5. \A j \in readings : j <= last
  <2> TAKE j \in readings
  <2>1. n <= Len(queue) - j
    BY <1>3
  <2> QED
    BY <1>1, <1>4, <2>1
<1>6. (CHOOSE i \in readings : \A j \in readings : j <= i) \in readings
  BY <1>5
<1> QED
  BY <1>1, <1>6 DEF Latest

\* What a press of Sample adds: summaries with its id and angles from the buffer.
LEMMA SummariesOfQueue ==
    ASSUME NEW queue \in Seq(Measurement), NEW id \in Nat, NEW s \in Summaries(queue, id)
    PROVE  /\ s \in LighthouseSample
           /\ s.deck_pose_id = id
           /\ \E i \in 1 .. Len(queue) : s.angles = queue[i].angles
<1>1. PICK b \in InBuffer(queue) :
          s = [station_id |-> b, deck_pose_id |-> id, angles |-> Latest(queue, b).angles]
  BY DEF Summaries
<1>2. PICK i \in 1 .. Len(queue) : Latest(queue, b) = queue[i]
  BY LatestInQueue
<1>3. b \in Station /\ queue[i] \in Measurement
  BY DEF InBuffer
<1>4. queue[i].angles \in Angles
  BY <1>3 DEF Measurement
<1> QED
  BY <1>1, <1>2, <1>3, <1>4 DEF LighthouseSample

----------------------------------------------------------------------------
\* The invariant holds at the start.

LEMMA SessionStarts == SessionInit => SessionInv
<1> SUFFICES ASSUME SessionInit
             PROVE  SessionInv
  OBVIOUS
<1> USE DEF SessionInit, MapperInit
<1>1. PICK map \in InitialMaps :
          map_files = {map} /\ station_poses = Entries(map) /\ IsMap(map) /\ OneFrame(map)
  BY SessionAssumption
<1>2. WorldOK
  BY SessionAssumption DEF WorldOK
<1>3. BuffersOK
  BY DEF BuffersOK, Follows, InOrder
<1>4. CallsOK
  BY DEF CallsOK
<1>5. LocalizesInOneFrame
  BY <1>1 DEF LocalizesInOneFrame, Entries, OneFrame
<1>6. FramesOK
  BY <1>1, <1>5 DEF FramesOK
<1>7. MapperTypeOK
  <2>1. IsMap(station_geometry_result)
    BY Definitions
  <2>2. sample_queue \in Seq(Measurement) /\ samples_taken \subseteq LighthouseSample
    OBVIOUS
  <2>3. in_timer \in BOOLEAN
    OBVIOUS
  <2>4. next_deck_pose_id \in Nat /\ calls_sent \in Nat
    OBVIOUS
  <2> QED
    BY <2>1, <2>2, <2>3, <2>4, Zenon DEF MapperTypeOK
<1>8. OkMeansUpdated /\ PoseIdsUnused /\ ShownPoseOfSolution
  BY DEF OkMeansUpdated, PoseIdsUnused, ShownPoseOfSolution
<1>9. SolutionOfSamples
  BY Definitions DEF SolutionOfSamples
<1> QED
  BY <1>2, <1>3, <1>4, <1>6, <1>7, <1>8, <1>9 DEF SessionInv

----------------------------------------------------------------------------
\* The deck, and the buffers that follow it.

\* A step either leaves the deck and the clock alone, or it is the clock's or the
\* deck's and leaves the nodes' data alone.
LEMMA DeckSteps ==
    ASSUME SessionNext
    PROVE  \/ UNCHANGED <<now, place, moved>>
           \/ Tick /\ UNCHANGED <<sample_queue, sample_buffer, samples_taken>>
           \/ Move /\ UNCHANGED <<sample_queue, sample_buffer, samples_taken>>
<1>1. CASE Tick
  BY <1>1 DEF Tick, MapperIdle, LocalizationIdle
<1>2. CASE Move
  BY <1>2 DEF Move, MapperIdle, LocalizationIdle
<1>3. ASSUME NEW b \in Station,
             MeasuredByMapper(b) \/ MeasuredByLocalization(b) \/ MeasuredByBoth(b)
      PROVE  UNCHANGED <<now, place, moved>>
  BY <1>3 DEF MeasuredByMapper, MeasuredByLocalization, MeasuredByBoth, Measure
<1>4. CASE TimerBegins \/ TimerEnds
  BY <1>4 DEF TimerBegins, TimerEnds, MapperStep, worldVars
<1>5. CASE PressSample \/ PressSolve \/ PressSave \/ PressUpdate \/ PressClear
  BY <1>5 DEF PressSample, PressSolve, PressSave, PressUpdate, PressClear, MapperStep, worldVars
<1>6. CASE Serve \/ TakeAnswer \/ Crash \/ Restart
  BY <1>6 DEF Serve, TakeAnswer, Crash, Restart, worldVars
<1> QED
  BY <1>1, <1>2, <1>3, <1>4, <1>5, <1>6 DEF SessionNext

LEMMA WorldStep ==
    ASSUME WorldOK, SessionNext
    PROVE  WorldOK'
<1>1. CASE UNCHANGED <<now, place, moved>>
  BY <1>1 DEF WorldOK
<1>2. CASE Tick
  BY <1>2 DEF Tick, WorldOK
<1>3. CASE Move
  BY <1>3, SessionAssumption DEF Move, WorldOK
<1> QED
  BY <1>1, <1>2, <1>3, DeckSteps

\* The measurement of this moment.
LEMMA ReadingFits ==
    ASSUME WorldOK, NEW b \in Station
    PROVE  /\ Reading(b) \in Measurement
           /\ Reading(b).timestamp = now /\ Reading(b).angles = place
<1>1. place \in Angles /\ now \in Nat
  BY SessionAssumption DEF WorldOK
<1> QED
  BY <1>1 DEF Reading, Measurement

LEMMA MapperBufferStep ==
    ASSUME WorldOK, Follows(sample_queue, now, moved, place),
           NEW b \in Station, MapperLighthouseCallback(Reading(b), now)
    PROVE  Follows(sample_queue', now, moved, place)
<1>1. Follows(Append(sample_queue, Reading(b)), now, moved, place)
  BY ReadingFits, AppendFollows DEF WorldOK
<1>2. now - buffer_duration \in Int
  BY MapperAssumption DEF WorldOK
<1>3. Follows(Pruned(Append(sample_queue, Reading(b)), now), now, moved, place)
  BY <1>1, <1>2, PrunedFollows DEF Pruned, WorldOK
<1> QED
  BY <1>3 DEF MapperLighthouseCallback

LEMMA LocalizationBufferStep ==
    ASSUME WorldOK, Follows(sample_buffer, now, moved, place),
           NEW b \in Station, Localizes(b)
    PROVE  /\ Follows(sample_buffer', now, moved, place)
           /\ deck_pose' # NoDeckPose /\ now - moved > time_tolerance =>
                 \A s \in deck_pose'.samples : s.angles = place
<1>1. CASE LighthouseCallbackUnconfigured
  BY <1>1 DEF LighthouseCallbackUnconfigured, LocalizationIdle
<1>2. ASSUME NEW solves \in BOOLEAN, LighthouseCallback(Reading(b), solves)
      PROVE  /\ Follows(sample_buffer', now, moved, place)
             /\ deck_pose' # NoDeckPose /\ now - moved > time_tolerance =>
                   \A s \in deck_pose'.samples : s.angles = place
  <2> DEFINE cutoff == now - time_tolerance
             buffer == DropOlder(Append(sample_buffer, Reading(b)), cutoff)
  <2>1. Reading(b).timestamp = now /\ cutoff \in Int
    BY ReadingFits, LocalizationAssumption DEF WorldOK
  <2>2. Follows(Append(sample_buffer, Reading(b)), now, moved, place)
    BY ReadingFits, AppendFollows DEF WorldOK
  <2>3. /\ Follows(buffer, now, moved, place)
        /\ \A i \in 1 .. Len(buffer) : buffer[i].timestamp >= cutoff
    BY <2>1, <2>2, PrunedFollows DEF WorldOK
  <2>4. sample_buffer' = buffer
    BY <1>2, <2>1 DEF LighthouseCallback
  <2>5. deck_pose' # NoDeckPose =>
            \A s \in deck_pose'.samples : \E i \in 1 .. Len(buffer) : s = buffer[i]
    BY <1>2, <2>1 DEF LighthouseCallback, SolveDeckPose, KnownSamples
  <2> HIDE DEF buffer
  <2>6. ASSUME NEW i \in 1 .. Len(buffer), now - moved > time_tolerance
        PROVE  buffer[i].angles = place
    <3>1. buffer[i] \in Measurement
      BY <2>3 DEF Follows
    <3>2. buffer[i].timestamp \in Nat /\ buffer[i].timestamp >= now - time_tolerance
      BY <2>3, <3>1 DEF Measurement
    <3>3. buffer[i].timestamp > moved
      BY <2>6, <3>2, LocalizationAssumption DEF WorldOK
    <3> QED
      BY <2>3, <3>3 DEF Follows
  <2> QED
    BY <2>3, <2>4, <2>5, <2>6
<1> QED
  BY <1>1, <1>2 DEF Localizes

LEMMA BuffersStep ==
    ASSUME WorldOK, BuffersOK, SessionNext
    PROVE  BuffersOK'
<1> USE DEF BuffersOK
<1>0. now - buffer_duration \in Int /\ now \in Nat
  BY MapperAssumption DEF WorldOK
<1>1. CASE Tick
  <2>1. now' = now + 1 /\ UNCHANGED <<place, moved, sample_queue, sample_buffer>>
    BY <1>1 DEF Tick, MapperIdle, LocalizationIdle
  <2>2. ASSUME NEW buffer, Follows(buffer, now, moved, place)
        PROVE  Follows(buffer, now + 1, moved, place)
    <3>1. \A i \in 1 .. Len(buffer) : buffer[i].timestamp \in Nat
      BY <2>2, StampsAreNat
    <3> QED
      BY <2>2, <3>1, <1>0 DEF Follows
  <2> QED
    BY <2>1, <2>2
<1>2. CASE Move
  <2>1. moved' = now /\ UNCHANGED <<now, sample_queue, sample_buffer>>
    BY <1>2 DEF Move, MapperIdle, LocalizationIdle
  <2>2. ASSUME NEW buffer, Follows(buffer, now, moved, place)
        PROVE  Follows(buffer, now, now, place')
    <3>1. \A i \in 1 .. Len(buffer) : buffer[i].timestamp \in Nat
      BY <2>2, StampsAreNat
    <3> QED
      BY <2>2, <3>1, <1>0 DEF Follows
  <2> QED
    BY <2>1, <2>2
<1>3. ASSUME UNCHANGED <<now, place, moved>>
      PROVE  BuffersOK'
  <2> USE <1>3
  <2>1. ASSUME NEW b \in Station, MeasuredByMapper(b)
        PROVE  BuffersOK'
    BY <2>1, MapperBufferStep DEF MeasuredByMapper, LocalizationIdle
  <2>2. ASSUME NEW b \in Station, MeasuredByLocalization(b)
        PROVE  BuffersOK'
    BY <2>2, LocalizationBufferStep DEF MeasuredByLocalization, MapperIdle
  <2>3. ASSUME NEW b \in Station, MeasuredByBoth(b)
        PROVE  BuffersOK'
    BY <2>3, MapperBufferStep, LocalizationBufferStep DEF MeasuredByBoth
  <2>4. Follows(Pruned(sample_queue, now), now, moved, place)
    BY <1>0, PrunedFollows DEF Pruned
  <2>5. CASE TimerBegins
    BY <2>4, <2>5 DEF TimerBegins, BeginTimer, MapperStep, LocalizationIdle
  <2>6. CASE PressSample
    BY <2>4, <2>6 DEF PressSample, Sample, MapperStep, LocalizationIdle
  <2>7. CASE TimerEnds
    BY <2>4, <2>7 DEF TimerEnds, EndTimer, MapperStep, LocalizationIdle
  <2>8. CASE PressSolve \/ PressSave \/ PressUpdate
    BY <2>8 DEF PressSolve, Solve, PressSave, PressUpdate, SendStationPoses, MapperIdle,
                MapperStep, LocalizationIdle
  <2>9. Follows(<<>>, now, moved, place)
    BY DEF Follows, InOrder
  <2>10. CASE PressClear
    BY <2>9, <2>10 DEF PressClear, ClearSamples, MapperStep, LocalizationIdle
  <2>11. CASE Serve
    BY <2>11 DEF Serve, SetStationPoses, MapperIdle
  <2>12. CASE TakeAnswer \/ Crash
    BY <2>12 DEF TakeAnswer, Crash, MapperIdle, LocalizationIdle
  <2>13. CASE Restart
    BY <2>9, <2>13 DEF Restart, StartLocalization, MapperIdle
  <2> QED
    BY <1>1, <1>2, <2>1, <2>2, <2>3, <2>5, <2>6, <2>7, <2>8, <2>10, <2>11, <2>12, <2>13
       DEF SessionNext
<1> QED
  BY <1>1, <1>2, <1>3, DeckSteps

----------------------------------------------------------------------------
\* The calls and their answers.

\* The steps that the calls are concerned with; in the others nothing is shown.
LEMMA CallSteps ==
    ASSUME SessionNext
    PROVE  \/ TimerBegins \/ PressUpdate \/ Serve \/ TakeAnswer \/ Crash \/ Restart
           \/ UNCHANGED <<serviceVars, calls_sent, pending_future>> /\ answer' = NoAnswer
<1>1. CASE Tick \/ Move
  BY <1>1 DEF Tick, Move, MapperIdle
<1>2. ASSUME NEW b \in Station,
             MeasuredByMapper(b) \/ MeasuredByLocalization(b) \/ MeasuredByBoth(b)
      PROVE  UNCHANGED <<serviceVars, calls_sent, pending_future>> /\ answer' = NoAnswer
  BY <1>2 DEF MeasuredByMapper, MeasuredByLocalization, MeasuredByBoth, Measure,
              MapperIdle, MapperLighthouseCallback
<1>3. CASE PressSample \/ PressSolve \/ PressSave \/ PressClear \/ TimerEnds
  BY <1>3 DEF PressSample, Sample, PressSolve, Solve, PressSave, PressClear, ClearSamples,
              TimerEnds, EndTimer, MapperIdle
<1> QED
  BY <1>1, <1>2, <1>3 DEF SessionNext

LEMMA CallNumbers ==
    ASSUME CallsOK
    PROVE  \A i \in 1 .. Len(requests) : requests[i].call \in Nat
<1>1. requests \in Seq(Call)
  BY DEF CallsOK
<1>2. \A i \in 1 .. Len(requests) : requests[i] \in Call
  BY <1>1
<1> QED
  BY <1>2 DEF Call

LEMMA CallsStep ==
    ASSUME CallsOK, MapperTypeOK, SessionNext
    PROVE  CallsOK'
<1> USE DEF CallsOK
<1>1. CASE TimerBegins
  BY <1>1 DEF TimerBegins, BeginTimer, serviceVars
<1>2. CASE PressUpdate
  <2> DEFINE request == [call |-> calls_sent + 1, poses |-> station_geometry_result]
  <2>1. /\ calls_sent' = calls_sent + 1 /\ pending_future' = calls_sent + 1
        /\ requests' = Append(requests, request)
        /\ UNCHANGED <<responses, answered, applied>>
    BY <1>2 DEF PressUpdate, SendStationPoses
  <2>2. request \in Call
    BY Definitions DEF MapperTypeOK, Call
  <2>3. requests' \in Seq(Call)
    BY <2>1, <2>2
  <2>4. \A i \in 1 .. Len(requests) : requests[i].call \in Nat
    BY CallNumbers
  <2>5. /\ Len(requests') = Len(requests) + 1
        /\ \A i \in 1 .. Len(requests) : requests'[i] = requests[i]
        /\ requests'[Len(requests) + 1].call = calls_sent + 1
    BY <2>1, <2>2
  <2>6. \A i \in 1 .. Len(requests') :
            requests'[i].call > applied /\ requests'[i].call <= calls_sent + 1
    BY <2>4, <2>5
  <2>7. \A i, j \in 1 .. Len(requests') : i < j => requests'[i].call < requests'[j].call
    BY <2>4, <2>5
  <2> QED
    BY <2>1, <2>3, <2>6, <2>7
<1>3. CASE Serve
  <2>1. /\ requests # <<>>
        /\ requests' = Tail(requests) /\ applied' = requests[1].call
        /\ responses' = responses \cup {requests[1].call}
        /\ UNCHANGED <<answered, calls_sent, pending_future>>
    BY <1>3 DEF Serve, MapperIdle
  <2>2. /\ requests' \in Seq(Call) /\ Len(requests') = Len(requests) - 1
        /\ \A i \in 1 .. Len(requests') : requests'[i] = requests[i + 1]
    BY <2>1
  <2>3. \A i \in 1 .. Len(requests) : requests[i].call \in Nat
    BY CallNumbers
  <2>4. 1 \in 1 .. Len(requests)
    BY <2>1
  <2>5. applied' \in 0 .. calls_sent /\ applied' > applied
    BY <2>1, <2>3, <2>4
  <2>6. \A i \in 1 .. Len(requests') : i + 1 \in 1 .. Len(requests)
    BY <2>2
  <2>7. \A i \in 1 .. Len(requests') :
            requests'[i].call > applied' /\ requests'[i].call <= calls_sent
    BY <2>1, <2>2, <2>4, <2>6
  <2>8. \A i, j \in 1 .. Len(requests') : i < j => requests'[i].call < requests'[j].call
    <3> TAKE i, j \in 1 .. Len(requests')
    <3>1. /\ i + 1 \in 1 .. Len(requests) /\ j + 1 \in 1 .. Len(requests)
          /\ i < j => i + 1 < j + 1
      BY <2>2, <2>6
    <3> QED
      BY <2>2, <3>1
  <2>9. (responses \cup answered)' \subseteq 1 .. applied'
    BY <2>1, <2>5
  <2> QED
    BY <2>1, <2>2, <2>5, <2>7, <2>8, <2>9
<1>4. CASE TakeAnswer
  BY <1>4 DEF TakeAnswer, MapperIdle
<1>5. CASE Crash
  <2>1. /\ requests' = <<>> /\ responses' \subseteq responses
        /\ UNCHANGED <<answered, applied, calls_sent, pending_future>>
    BY <1>5 DEF Crash, MapperIdle
  <2> QED
    BY <2>1
<1>6. CASE Restart
  BY <1>6 DEF Restart, MapperIdle
<1>7. CASE UNCHANGED <<serviceVars, calls_sent, pending_future>>
  BY <1>7 DEF serviceVars
<1> QED
  BY <1>1, <1>2, <1>3, <1>4, <1>5, <1>6, <1>7, CallSteps

\* What the timer shows is the answer to the call that is pending, the last one.
LEMMA AnswersStep ==
    ASSUME CallsOK, SessionNext
    PROVE  OkMeansUpdated'
<1>1. CASE TimerBegins
  <2>1. /\ answer' # NoAnswer => answer' = pending_future /\ pending_future \in answered
        /\ UNCHANGED <<applied, calls_sent>>
    BY <1>1 DEF TimerBegins, BeginTimer, serviceVars
  <2>2. pending_future \in answered => pending_future = calls_sent /\ pending_future <= applied
    BY MapperAssumption DEF CallsOK
  <2> QED
    BY <2>1, <2>2 DEF OkMeansUpdated
<1>2. CASE answer' = NoAnswer
  BY <1>2 DEF OkMeansUpdated
<1>3. CASE PressUpdate \/ Serve \/ TakeAnswer \/ Crash \/ Restart
  <2>1. answer' = NoAnswer
    BY <1>3 DEF PressUpdate, SendStationPoses, Serve, TakeAnswer, Crash, Restart, MapperIdle
  <2> QED
    BY <2>1, <1>2
<1> QED
  BY <1>1, <1>2, <1>3, CallSteps

----------------------------------------------------------------------------
\* What the mapper keeps.

\* The handlers of the mapper, and the steps in which it does nothing.
LEMMA MapperSteps ==
    ASSUME SessionNext
    PROVE  \/ MapperIdle
           \/ \E b \in Station : MapperLighthouseCallback(Reading(b), now)
           \/ BeginTimer(now, answered)
           \/ Sample(now)
           \/ \E solves \in BOOLEAN : Solve(solves)
           \/ SendStationPoses
           \/ ClearSamples
           \/ EndTimer(now)
<1>1. CASE Tick \/ Move \/ Serve \/ TakeAnswer \/ Crash \/ Restart
  BY <1>1 DEF Tick, Move, Serve, TakeAnswer, Crash, Restart
<1>2. ASSUME NEW b \in Station, MeasuredByMapper(b) \/ MeasuredByBoth(b)
      PROVE  MapperLighthouseCallback(Reading(b), now)
  BY <1>2 DEF MeasuredByMapper, MeasuredByBoth
<1>3. ASSUME NEW b \in Station, MeasuredByLocalization(b)
      PROVE  MapperIdle
  BY <1>3 DEF MeasuredByLocalization
<1>4. CASE TimerBegins \/ TimerEnds
  BY <1>4 DEF TimerBegins, TimerEnds
<1>5. CASE PressSample \/ PressSolve \/ PressSave \/ PressUpdate \/ PressClear
  BY <1>5 DEF PressSample, PressSolve, PressSave, PressUpdate, PressClear
<1> QED
  BY <1>1, <1>2, <1>3, <1>4, <1>5 DEF SessionNext

\* The samples a press takes, from a buffer that follows the deck.
LEMMA SampleStep ==
    ASSUME WorldOK, BuffersOK, MapperTypeOK, Sample(now),
           NEW s \in samples_taken' \ samples_taken
    PROVE  /\ s \in LighthouseSample
           /\ s.deck_pose_id = next_deck_pose_id
           /\ next_deck_pose_id' = next_deck_pose_id + 1
           /\ now - moved > buffer_duration => s.angles = place
<1> DEFINE cutoff == now - buffer_duration
           queue  == DropOlder(sample_queue, cutoff)
<1>1. cutoff \in Int
  BY MapperAssumption DEF WorldOK
<1>2. /\ Follows(queue, now, moved, place)
      /\ \A i \in 1 .. Len(queue) : queue[i].timestamp >= cutoff
  BY <1>1, PrunedFollows DEF BuffersOK, WorldOK
<1>3. s \in Summaries(queue, next_deck_pose_id) /\ next_deck_pose_id' = next_deck_pose_id + 1
  BY DEF Sample, Pruned
<1> HIDE DEF queue
<1>4. queue \in Seq(Measurement) /\ next_deck_pose_id \in Nat
  BY <1>2 DEF Follows, MapperTypeOK
<1>5. PICK i \in 1 .. Len(queue) : s.angles = queue[i].angles
  BY <1>3, <1>4, SummariesOfQueue
<1>6. ASSUME now - moved > buffer_duration
      PROVE  s.angles = place
  <2>1. queue[i].timestamp \in Nat /\ queue[i].timestamp >= now - buffer_duration
    BY <1>2, StampsAreNat
  <2>2. queue[i].timestamp > moved
    BY <1>6, <2>1, MapperAssumption DEF WorldOK
  <2> QED
    BY <1>2, <1>5, <2>2 DEF Follows
<1> QED
  BY <1>3, <1>4, <1>6, SummariesOfQueue

\* The pose that the timer shows at its end.
LEMMA ShownPoseStep ==
    ASSUME WorldOK, BuffersOK, EndTimer(now), current_deck_pose' # NoShownPose
    PROVE  /\ current_deck_pose'.angles \in Angles
           /\ \E b \in DOMAIN station_geometry_result :
                 station_geometry_result[b] = current_deck_pose'.pose
<1> DEFINE queue == Pruned(sample_queue, now)
<1>1. queue \in Seq(Measurement)
  <2>1. now - buffer_duration \in Int
    BY MapperAssumption DEF WorldOK
  <2>2. Follows(queue, now, moved, place)
    BY <2>1, PrunedFollows DEF Pruned, BuffersOK, WorldOK
  <2> QED
    BY <2>2 DEF Follows
<1>2. PICK b \in MostRecent(queue) \cap DOMAIN station_geometry_result :
          current_deck_pose' = [angles |-> Latest(queue, b).angles,
                                pose   |-> station_geometry_result[b]]
  BY DEF EndTimer, ShownPoses
<1> HIDE DEF queue
<1>3. PICK i \in 1 .. Len(queue) : Latest(queue, b) = queue[i]
  BY <1>1, LatestInQueue DEF MostRecent
<1>4. queue[i] \in Measurement
  BY <1>1
<1>5. queue[i].angles \in Angles
  BY <1>4 DEF Measurement
<1> QED
  BY <1>2, <1>3, <1>5

LEMMA MapperTypeStep ==
    ASSUME WorldOK, BuffersOK, CallsOK, MapperTypeOK, SessionNext, BuffersOK', CallsOK'
    PROVE  MapperTypeOK'
<1>1. sample_queue' \in Seq(Measurement)
  BY DEF BuffersOK, Follows
<1>2. (samples_taken \subseteq LighthouseSample /\ next_deck_pose_id \in Nat)'
  <2>1. CASE Sample(now)
    <3>1. samples_taken' \subseteq LighthouseSample
      BY <2>1, SampleStep DEF MapperTypeOK
    <3>2. next_deck_pose_id' \in {next_deck_pose_id, next_deck_pose_id + 1}
      BY <2>1 DEF Sample
    <3> QED
      BY <3>1, <3>2 DEF MapperTypeOK
  <2>2. CASE ClearSamples
    BY <2>2 DEF ClearSamples
  <2>3. CASE UNCHANGED <<samples_taken, next_deck_pose_id>>
    BY <2>3 DEF MapperTypeOK
  <2> QED
    BY <2>1, <2>2, <2>3, MapperSteps
       DEF MapperIdle, MapperLighthouseCallback, BeginTimer, Solve, SendStationPoses, EndTimer
<1>3. IsMap(station_geometry_result')
  <2>1. ASSUME NEW solves \in BOOLEAN, Solve(solves)
        PROVE  IsMap(station_geometry_result')
    <3>1. station_geometry_result' \in {Solution(samples_taken), station_geometry_result}
      BY <2>1 DEF Solve
    <3>2. IsMap(Solution(samples_taken))
      BY DEF IsMap, Solution, MapperTypeOK, LighthouseSample
    <3> QED
      BY <3>1, <3>2 DEF MapperTypeOK
  <2>2. CASE ClearSamples
    BY <2>2, Definitions DEF ClearSamples
  <2>3. CASE UNCHANGED station_geometry_result
    BY <2>3 DEF MapperTypeOK
  <2> QED
    BY <2>1, <2>2, <2>3, MapperSteps
       DEF MapperIdle, MapperLighthouseCallback, BeginTimer, Sample, SendStationPoses, EndTimer
<1>4. (current_deck_pose # NoShownPose => current_deck_pose.angles \in Angles)'
  <2>1. CASE EndTimer(now)
    BY <2>1, ShownPoseStep
  <2>2. CASE ClearSamples
    BY <2>2 DEF ClearSamples
  <2>3. CASE UNCHANGED current_deck_pose
    BY <2>3 DEF MapperTypeOK
  <2> QED
    BY <2>1, <2>2, <2>3, MapperSteps
       DEF MapperIdle, MapperLighthouseCallback, BeginTimer, Sample, Solve, SendStationPoses
<1>5. (calls_sent \in Nat /\ pending_future \in (1 .. calls_sent) \cup {NoFuture})'
  BY DEF CallsOK
<1>6. (answer \in (1 .. calls_sent) \cup {NoAnswer})'
  <2>1. CASE BeginTimer(now, answered)
    <3>1. answer' = NoAnswer \/ answer' \in answered
      BY <2>1 DEF BeginTimer
    <3>2. calls_sent' = calls_sent
      BY <2>1 DEF BeginTimer
    <3> QED
      BY <3>1, <3>2 DEF CallsOK
  <2>2. CASE answer' = NoAnswer
    BY <2>2
  <2> QED
    BY <2>1, <2>2, MapperSteps
       DEF MapperIdle, MapperLighthouseCallback, Sample, Solve, SendStationPoses, ClearSamples,
           EndTimer
<1>7. (in_timer \in BOOLEAN)'
  <2>1. in_timer' \in {in_timer, TRUE, FALSE}
    BY MapperSteps
       DEF MapperIdle, MapperLighthouseCallback, BeginTimer, Sample, Solve, SendStationPoses,
           ClearSamples, EndTimer
  <2> QED
    BY <2>1 DEF MapperTypeOK
<1> QED
  BY <1>1, <1>2, <1>3, <1>4, <1>5, <1>6, <1>7 DEF MapperTypeOK

LEMMA PoseIdsStep ==
    ASSUME WorldOK, BuffersOK, MapperTypeOK, PoseIdsUnused, SessionNext
    PROVE  PoseIdsUnused'
<1>1. \A s \in samples_taken : s.deck_pose_id \in Nat
  BY DEF MapperTypeOK, LighthouseSample
<1>2. CASE Sample(now)
  <2> SUFFICES ASSUME NEW s \in samples_taken'
               PROVE  s.deck_pose_id < next_deck_pose_id'
    BY DEF PoseIdsUnused
  <2>1. next_deck_pose_id \in Nat
    BY DEF MapperTypeOK
  <2>2. CASE s \in samples_taken
    <3>1. next_deck_pose_id' \in {next_deck_pose_id, next_deck_pose_id + 1}
      BY <1>2 DEF Sample
    <3> QED
      BY <1>1, <2>1, <2>2, <3>1 DEF PoseIdsUnused
  <2>3. CASE s \notin samples_taken
    BY <1>2, <2>1, <2>3, SampleStep
  <2> QED
    BY <2>2, <2>3
<1>3. CASE ClearSamples
  BY <1>3 DEF ClearSamples, PoseIdsUnused
<1>4. CASE UNCHANGED <<samples_taken, next_deck_pose_id>>
  BY <1>4 DEF PoseIdsUnused
<1> QED
  BY <1>2, <1>3, <1>4, MapperSteps
     DEF MapperIdle, MapperLighthouseCallback, BeginTimer, Solve, SendStationPoses, EndTimer

LEMMA SolutionStep ==
    ASSUME SolutionOfSamples, SessionNext
    PROVE  SolutionOfSamples'
<1> USE DEF SolutionOfSamples, OneFrame
<1>1. CASE Sample(now)
  <2>1. samples_taken \subseteq samples_taken' /\ UNCHANGED station_geometry_result
    BY <1>1 DEF Sample
  <2> QED
    BY <2>1
<1>2. ASSUME NEW solves \in BOOLEAN, Solve(solves)
      PROVE  SolutionOfSamples'
  <2>1. station_geometry_result' \in {Solution(samples_taken), station_geometry_result}
    BY <1>2 DEF Solve
  <2>2. samples_taken' = samples_taken
    BY <1>2 DEF Solve
  <2> QED
    BY <2>1, <2>2 DEF Solution
<1>3. CASE ClearSamples
  BY <1>3, Definitions DEF ClearSamples
<1>4. CASE UNCHANGED <<samples_taken, station_geometry_result>>
  BY <1>4
<1> QED
  BY <1>1, <1>2, <1>3, <1>4, MapperSteps
     DEF MapperIdle, MapperLighthouseCallback, BeginTimer, SendStationPoses, EndTimer

LEMMA ShownStep ==
    ASSUME WorldOK, BuffersOK, ShownPoseOfSolution, SessionNext
    PROVE  ShownPoseOfSolution'
<1>1. CASE EndTimer(now)
  <2>1. station_geometry_result' = station_geometry_result
    BY <1>1 DEF EndTimer
  <2> QED
    BY <1>1, <2>1, ShownPoseStep DEF ShownPoseOfSolution
<1>3. CASE UNCHANGED <<in_timer, current_deck_pose, station_geometry_result>>
  BY <1>3 DEF ShownPoseOfSolution
<1>4. CASE BeginTimer(now, answered) \/ Sample(now) \/ SendStationPoses \/ ClearSamples
           \/ \E solves \in BOOLEAN : Solve(solves)
  BY <1>4 DEF BeginTimer, Sample, SendStationPoses, ClearSamples, Solve, ShownPoseOfSolution
<1> QED
  BY <1>1, <1>3, <1>4, MapperSteps DEF MapperIdle, MapperLighthouseCallback

----------------------------------------------------------------------------
\* The maps: the mapper's, the file's, those on their way, the localization node's.

LEMMA EntriesInOneFrame ==
    ASSUME NEW map, OneFrame(map), NEW p \in Entries(map), NEW q \in Entries(map)
    PROVE  p.pose = q.pose
BY DEF OneFrame, Entries

\* A file holds some of the lines of one solution.
LEMMA CutMaps ==
    ASSUME NEW map, IsMap(map), OneFrame(map),
           NEW saved \in save_stations_map(map), NEW file \in saved
    PROVE  IsMap(file) /\ OneFrame(file)
<1>1. PICK B \in SUBSET DOMAIN map : file = [b \in B |-> map[b]]
  BY DEF save_stations_map
<1>2. DOMAIN file = B /\ \A b \in B : file[b] = map[b]
  BY <1>1
<1>3. \A b \in B : map[b] \in SUBSET LighthouseSample
  BY DEF IsMap
<1>4. file \in [B -> SUBSET LighthouseSample]
  BY <1>1, <1>3
<1>5. IsMap(file)
  BY <1>2, <1>4 DEF IsMap
<1>6. OneFrame(file)
  BY <1>2 DEF OneFrame
<1> QED
  BY <1>5, <1>6

LEMMA FramesStep ==
    ASSUME CallsOK, FramesOK, MapperTypeOK, SolutionOfSamples, SessionNext
    PROVE  FramesOK'
<1> USE DEF FramesOK
<1>1. IsMap(station_geometry_result) /\ OneFrame(station_geometry_result)
  BY DEF MapperTypeOK, SolutionOfSamples
<1>2. (\A map \in map_files : IsMap(map) /\ OneFrame(map))'
  <2>1. CASE PressSave
    <3>1. PICK saved \in save_stations_map(station_geometry_result) :
              map_files' = map_files \cup saved
      BY <2>1 DEF PressSave
    <3>2. \A map \in saved : IsMap(map) /\ OneFrame(map)
      BY <1>1, CutMaps
    <3> QED
      BY <3>1, <3>2
  <2>2. CASE UNCHANGED map_files
    BY <2>2
  <2>3. PressSave \/ UNCHANGED map_files
    BY DEF SessionNext, Tick, Move, MeasuredByMapper, MeasuredByLocalization,
           MeasuredByBoth, Measure, TimerBegins, TimerEnds, PressSample, PressSolve,
           PressUpdate, PressClear, Serve, TakeAnswer, Crash, Restart
  <2> QED
    BY <2>1, <2>2, <2>3
<1>3. (\A i \in 1 .. Len(requests) : OneFrame(requests[i].poses))'
  <2>1. requests \in Seq(Call)
    BY DEF CallsOK
  <2>2. CASE PressUpdate
    <3> DEFINE request == [call |-> calls_sent', poses |-> station_geometry_result]
    <3>1. requests' = Append(requests, request)
      BY <2>2 DEF PressUpdate
    <3>2. OneFrame(request.poses)
      BY <1>1
    <3> HIDE DEF request
    <3>3. \A i \in 1 .. Len(requests') : i \in 1 .. Len(requests) \/ requests'[i] = request
      BY <2>1, <3>1
    <3>4. \A i \in 1 .. Len(requests) : requests'[i] = requests[i]
      BY <2>1, <3>1
    <3> QED
      BY <3>2, <3>3, <3>4
  <2>3. CASE Serve
    <3>1. requests # <<>> /\ requests' = Tail(requests)
      BY <2>3 DEF Serve
    <3>2. \A i \in 1 .. Len(requests') :
              i + 1 \in 1 .. Len(requests) /\ requests'[i] = requests[i + 1]
      BY <2>1, <3>1
    <3> QED
      BY <3>2
  <2>4. CASE Crash
    BY <2>4 DEF Crash
  <2>5. CASE UNCHANGED requests
    BY <2>5
  <2> QED
    BY <2>2, <2>3, <2>4, <2>5, CallSteps DEF TimerBegins, TakeAnswer, Restart, serviceVars
<1>4. LocalizesInOneFrame'
  <2>1. CASE Serve
    <3>1. requests \in Seq(Call) /\ requests # <<>>
      BY <2>1 DEF CallsOK, Serve
    <3>2. 1 \in 1 .. Len(requests) /\ station_poses' = Entries(requests[1].poses)
      BY <2>1, <3>1 DEF Serve, SetStationPoses
    <3> QED
      BY <3>2, EntriesInOneFrame DEF LocalizesInOneFrame
  <2>2. CASE Restart
    <3>1. PICK map \in {NoResult} \cup map_files : station_poses' = Entries(map)
      BY <2>2 DEF Restart, load_stations_map, StartLocalization
    <3>2. OneFrame(map)
      BY Definitions
    <3> QED
      BY <3>1, <3>2, EntriesInOneFrame DEF LocalizesInOneFrame
  <2>3. CASE UNCHANGED station_poses
    BY <2>3 DEF LocalizesInOneFrame
  <2>4. Serve \/ Restart \/ UNCHANGED station_poses
    BY DEF SessionNext, Tick, Move, MeasuredByMapper, MeasuredByLocalization,
           MeasuredByBoth, Localizes, LighthouseCallback, LighthouseCallbackUnconfigured,
           LocalizationIdle, TimerBegins, TimerEnds, PressSample, PressSolve, PressSave,
           PressUpdate, PressClear, MapperStep, TakeAnswer, Crash
  <2> QED
    BY <2>1, <2>2, <2>3, <2>4
<1> QED
  BY <1>2, <1>3, <1>4

----------------------------------------------------------------------------
LEMMA SessionInvariant == SessionSpec => []SessionInv
<1>1. SessionInit => SessionInv
  BY SessionStarts
<1>2. SessionInv /\ [SessionNext]_sessionVars => SessionInv'
  <2> SUFFICES ASSUME SessionInv, [SessionNext]_sessionVars
               PROVE  SessionInv'
    OBVIOUS
  <2>1. CASE SessionNext
    <3> USE <2>1 DEF SessionInv
    <3>1. WorldOK' /\ BuffersOK'
      BY WorldStep, BuffersStep
    <3>2. CallsOK' /\ OkMeansUpdated'
      BY CallsStep, AnswersStep
    <3>3. MapperTypeOK'
      BY <3>1, <3>2, MapperTypeStep
    <3>4. PoseIdsUnused' /\ SolutionOfSamples' /\ ShownPoseOfSolution'
      BY PoseIdsStep, SolutionStep, ShownStep
    <3>5. FramesOK'
      BY FramesStep
    <3> QED
      BY <3>1, <3>2, <3>3, <3>4, <3>5
  <2>2. CASE UNCHANGED sessionVars
    BY <2>2 DEF sessionVars, SessionInv, WorldOK, BuffersOK, CallsOK, FramesOK,
                LocalizesInOneFrame, OkMeansUpdated, MapperTypeOK, PoseIdsUnused,
                SolutionOfSamples, ShownPoseOfSolution
  <2> QED
    BY <2>1, <2>2
<1> QED
  BY <1>1, <1>2, PTL DEF SessionSpec

\* The mapper's types: among them, that the pending call is one that was sent, and
\* that a solution and the samples are of the stations.
THEOREM MapperTypeCorrect == SessionSpec => []MapperTypeOK
BY SessionInvariant, PTL DEF SessionInv

\* No sample in the list bears the id that the next press gives, in spite of Clear's
\* reset: two presses whose samples are in the list together never share an id
\* (get_next_deck_pose_id).
THEOREM PoseIdsNeverShared == SessionSpec => []PoseIdsUnused
BY SessionInvariant, PTL DEF SessionInv

\* The solution that is shown, saved and sent is of samples in the list.
THEOREM SolutionIsOfSamples == SessionSpec => []SolutionOfSamples
BY SessionInvariant, PTL DEF SessionInv

\* Between two handlers the deck's pose shown is one in the solution shown.
THEOREM ShownPoseIsOfSolution == SessionSpec => []ShownPoseOfSolution
BY SessionInvariant, PTL DEF SessionInv

\* "Localization node updated" is only shown when the last update sent was taken,
\* whatever calls a crash of the localization node loses.
THEOREM UpdateMessageIsTrue == SessionSpec => []OkMeansUpdated
BY SessionInvariant, PTL DEF SessionInv

\* The localization node never has the stations of two maps.
THEOREM OneMapAtATime == SessionSpec => []LocalizesInOneFrame
BY SessionInvariant, PTL DEF SessionInv, FramesOK

\* A deck that has been still for longer than the buffer goes back is sampled where
\* it is, however the measurements, the timer and the presses fall.
THEOREM StillDeckIsSampled == SessionSpec => StillDeckSampled
<1>1. ASSUME SessionInv, [SessionNext]_sessionVars
      PROVE  [now - moved > buffer_duration =>
                 \A s \in samples_taken' \ samples_taken : s.angles = place]_sessionVars
  <2>1. CASE SessionNext
    <3>1. Sample(now) \/ samples_taken' \subseteq samples_taken
      BY <2>1, MapperSteps
         DEF MapperIdle, MapperLighthouseCallback, BeginTimer, Solve, SendStationPoses,
             ClearSamples, EndTimer
    <3> QED
      BY <1>1, <3>1, SampleStep DEF SessionInv
  <2>2. CASE UNCHANGED sessionVars
    BY <2>2
  <2> QED
    BY <1>1, <2>1, <2>2
<1> QED
  BY <1>1, SessionInvariant, PTL DEF SessionSpec, StillDeckSampled

\* A pose that the localization node publishes for a deck still for longer than the
\* tolerance is of the place where the deck is.
THEOREM StillDeckIsLocated == SessionSpec => StillDeckLocated
<1>1. ASSUME SessionInv, [SessionNext]_sessionVars
      PROVE  [deck_pose' # NoDeckPose /\ now - moved > time_tolerance =>
                 \A s \in deck_pose'.samples : s.angles = place]_sessionVars
  <2>1. CASE SessionNext
    <3>1. (\E b \in Station : Localizes(b)) \/ deck_pose' = NoDeckPose
      BY <2>1
         DEF SessionNext, Tick, Move, MeasuredByMapper, MeasuredByLocalization,
             MeasuredByBoth, LocalizationIdle, TimerBegins, TimerEnds, PressSample,
             PressSolve, PressSave, PressUpdate, PressClear, MapperStep, Serve,
             SetStationPoses, TakeAnswer, Crash, Restart, StartLocalization
    <3> QED
      BY <1>1, <3>1, LocalizationBufferStep DEF SessionInv, BuffersOK
  <2>2. CASE UNCHANGED sessionVars
    BY <2>2
  <2> QED
    BY <1>1, <2>1, <2>2
<1> QED
  BY <1>1, SessionInvariant, PTL DEF SessionSpec, StillDeckLocated

====
