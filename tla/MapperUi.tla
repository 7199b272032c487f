---- MODULE MapperUi ----
(***************************************************************************)
(* MapperUiNode (mapper_ui_node.cpp) on its ROS thread: the buffer of      *)
(* recent measurements, the samples the operator takes of it, the station  *)
(* geometry solved from them, and the call that sends it to the            *)
(* localization node.  timer_callback runs the queued commands between its *)
(* first step, BeginTimer, and its last, EndTimer; module MapperThreads    *)
(* has the queue and its threads.  The solvers are taken as the samples    *)
(* that enter them: the pose of a station is the set of samples it was     *)
(* solved from, in whose first deck pose the map has its origin.           *)
(***************************************************************************)
EXTENDS StampedBuffer, FiniteSets

CONSTANTS
    Station,
    Angles,                    \* what the sensors can measure
    buffer_duration,           \* ticks
    min_samples_per_station,
    NoFuture,                  \* no call is pending
    NoShownPose,               \* current_deck_pose_ is empty
    NoAnswer                   \* the call showed no answer of the service

ASSUME MapperAssumption ==
    /\ buffer_duration \in Nat
    /\ min_samples_per_station \in Nat
    /\ NoFuture \notin Nat

VARIABLES
    sample_queue,              \* of [station_id, timestamp, angles]
    samples_taken,             \* of [station_id, deck_pose_id, angles]
    station_geometry_result,   \* station -> pose; without stations, no result
    current_deck_pose,         \* the pose shown
    next_deck_pose_id,
    pending_future,            \* the number of the call whose future is kept
    calls_sent,                \* how many calls async_send_request has sent
    in_timer,                  \* timer_callback is running its commands
    answer                     \* the answer that check_pending_futures showed

mapperVars == <<sample_queue, samples_taken, station_geometry_result, current_deck_pose,
                next_deck_pose_id, pending_future, calls_sent, in_timer, answer>>

NoResult == [b \in {} |-> {}]
HasResult == station_geometry_result # NoResult

MapperInit ==
    /\ sample_queue = <<>>
    /\ samples_taken = {}
    /\ station_geometry_result = NoResult
    /\ current_deck_pose = NoShownPose
    /\ next_deck_pose_id = 0
    /\ pending_future = NoFuture
    /\ calls_sent = 0
    /\ in_timer = FALSE
    /\ answer = NoAnswer

Pruned(queue, now) == DropOlder(queue, now - buffer_duration)

----------------------------------------------------------------------------
\* summarize_buffer: one summary of each station in the buffer, with its latest
\* angles.  Its spread is within max_angular_spread_ as long as its measurements
\* were made in one place.
ReadingsOf(queue, b) == {i \in 1 .. Len(queue) : queue[i].station_id = b}

Latest(queue, b) == queue[CHOOSE i \in ReadingsOf(queue, b) :
                             \A j \in ReadingsOf(queue, b) : j <= i]

InBuffer(queue) == {b \in Station : ReadingsOf(queue, b) # {}}

WithinSpread(queue, b) ==
    \A i, j \in ReadingsOf(queue, b) : queue[i].angles = queue[j].angles

is_ready_to_sample(queue) ==
    /\ InBuffer(queue) # {}
    /\ \A b \in InBuffer(queue) :
          /\ Cardinality(ReadingsOf(queue, b)) >= min_samples_per_station
          /\ WithinSpread(queue, b)

Summaries(queue, id) ==
    {[station_id |-> b, deck_pose_id |-> id, angles |-> Latest(queue, b).angles] :
        b \in InBuffer(queue)}

\* StationGeometryOptimization::solve: the stations and the deck poses, joined by
\* the samples, must be one connected graph, or the initialization throws.
Connected(samples) ==
    LET stations == {s.station_id : s \in samples}
        poses    == {s.deck_pose_id : s \in samples}
    IN  \A B \in SUBSET stations, P \in SUBSET poses :
           (\A s \in samples : s.station_id \in B <=> s.deck_pose_id \in P)
               => (B = {} /\ P = {}) \/ (B = stations /\ P = poses)

\* Mutant of Solution: the poses are filed under the deck poses' ids.
SolutionByDeckPose(samples) == [b \in {s.deck_pose_id : s \in samples} |-> samples]

Solution(samples) == [b \in {s.station_id : s \in samples} |-> samples]

----------------------------------------------------------------------------
\* The handlers.

\* A step of others, in which the node shows nothing.
MapperIdle ==
    /\ answer' = NoAnswer
    /\ UNCHANGED <<sample_queue, samples_taken, station_geometry_result, current_deck_pose,
                   next_deck_pose_id, pending_future, calls_sent, in_timer>>

MapperLighthouseCallback(msg, now) ==
    /\ ~ in_timer
    /\ sample_queue' = Pruned(Append(sample_queue, msg), now)
    /\ answer' = NoAnswer
    /\ UNCHANGED <<samples_taken, station_geometry_result, current_deck_pose,
                   next_deck_pose_id, pending_future, calls_sent, in_timer>>

\* Mutant of BeginTimer: the answered future is kept.
BeginTimerKeepingFuture(now, answered) ==
    /\ ~ in_timer
    /\ in_timer' = TRUE
    /\ sample_queue' = Pruned(sample_queue, now)
    /\ answer' = IF pending_future \in answered THEN pending_future ELSE NoAnswer
    /\ UNCHANGED <<samples_taken, station_geometry_result, current_deck_pose,
                   next_deck_pose_id, pending_future, calls_sent>>

\* The first steps of timer_callback: prune, and check_pending_futures on the
\* answers the executor has taken from the service so far.  A future that throws is
\* forgotten as well, with another message than the service's answer; the executor
\* takes answers only, so none throws here.
BeginTimer(now, answered) ==
    /\ ~ in_timer
    /\ in_timer' = TRUE
    /\ sample_queue' = Pruned(sample_queue, now)
    /\ IF pending_future \in answered
       THEN answer' = pending_future /\ pending_future' = NoFuture
       ELSE answer' = NoAnswer /\ UNCHANGED pending_future
    /\ UNCHANGED <<samples_taken, station_geometry_result, current_deck_pose,
                   next_deck_pose_id, calls_sent>>

\* on_sample_button_callback, which summarizes the buffer once more.
Sample(now) ==
    LET queue == Pruned(sample_queue, now)
    IN  /\ in_timer
        /\ sample_queue' = queue
        /\ answer' = NoAnswer
        /\ IF is_ready_to_sample(queue)
           THEN /\ samples_taken' = samples_taken \cup Summaries(queue, next_deck_pose_id)
                /\ next_deck_pose_id' = next_deck_pose_id + 1
           ELSE UNCHANGED <<samples_taken, next_deck_pose_id>>
        /\ UNCHANGED <<station_geometry_result, current_deck_pose, pending_future,
                       calls_sent, in_timer>>

\* on_solve_button_callback; whether a numerical solver throws is an input.
Solve(solves) ==
    /\ in_timer
    /\ answer' = NoAnswer
    /\ station_geometry_result' =
           IF samples_taken # {} /\ Connected(samples_taken) /\ solves
           THEN Solution(samples_taken) ELSE station_geometry_result
    /\ UNCHANGED <<sample_queue, samples_taken, current_deck_pose, next_deck_pose_id,
                   pending_future, calls_sent, in_timer>>

\* Mutant of SendStationPoses: a pending call keeps its future.
SendKeepingFuture ==
    /\ in_timer
    /\ HasResult
    /\ calls_sent' = calls_sent + 1
    /\ pending_future' = IF pending_future = NoFuture THEN calls_sent' ELSE pending_future
    /\ answer' = NoAnswer
    /\ UNCHANGED <<sample_queue, samples_taken, station_geometry_result,
                   current_deck_pose, next_deck_pose_id, in_timer>>

\* on_update_map_node_button_callback with a result and a service: a call still
\* pending is forgotten.  Without them it only shows a message.
SendStationPoses ==
    /\ in_timer
    /\ HasResult
    /\ calls_sent' = calls_sent + 1
    /\ pending_future' = calls_sent'
    /\ answer' = NoAnswer
    /\ UNCHANGED <<sample_queue, samples_taken, station_geometry_result,
                   current_deck_pose, next_deck_pose_id, in_timer>>

\* Mutant of ClearSamples: the samples stay, their ids are given again.
ClearSamplesKept ==
    /\ in_timer
    /\ sample_queue' = <<>>
    /\ station_geometry_result' = NoResult
    /\ current_deck_pose' = NoShownPose
    /\ next_deck_pose_id' = 0
    /\ answer' = NoAnswer
    /\ UNCHANGED <<samples_taken, pending_future, calls_sent, in_timer>>

\* Mutant of ClearSamples: the solution survives its samples.
ClearSolutionKept ==
    /\ in_timer
    /\ sample_queue' = <<>>
    /\ samples_taken' = {}
    /\ current_deck_pose' = NoShownPose
    /\ next_deck_pose_id' = 0
    /\ answer' = NoAnswer
    /\ UNCHANGED <<station_geometry_result, pending_future, calls_sent, in_timer>>

\* on_clear_samples_button_callback.  A pending call stays pending.
ClearSamples ==
    /\ in_timer
    /\ sample_queue' = <<>>
    /\ samples_taken' = {}
    /\ station_geometry_result' = NoResult
    /\ current_deck_pose' = NoShownPose
    /\ next_deck_pose_id' = 0
    /\ answer' = NoAnswer
    /\ UNCHANGED <<pending_future, calls_sent, in_timer>>

\* The deck's pose from the most recent station in the buffer, if the geometry has
\* a pose of it; stations with the same stamp are sorted in any order.
MostRecent(queue) ==
    {b \in InBuffer(queue) :
        \A c \in InBuffer(queue) : Latest(queue, c).timestamp <= Latest(queue, b).timestamp}

ShownPoses(queue) ==
    IF ~ HasResult \/ InBuffer(queue) = {} THEN {NoShownPose}
    ELSE {NoShownPose} \cup
         {[angles |-> Latest(queue, b).angles, pose |-> station_geometry_result[b]] :
             b \in MostRecent(queue) \cap DOMAIN station_geometry_result}

\* Mutant of EndTimer: a solver that throws leaves the pose shown before.
EndTimerStale(now) ==
    LET queue == Pruned(sample_queue, now)
    IN  /\ in_timer
        /\ in_timer' = FALSE
        /\ sample_queue' = queue
        /\ current_deck_pose' \in (ShownPoses(queue) \ {NoShownPose}) \cup {current_deck_pose}
        /\ answer' = NoAnswer
        /\ UNCHANGED <<samples_taken, station_geometry_result, next_deck_pose_id,
                       pending_future, calls_sent>>

\* The last steps of timer_callback.
EndTimer(now) ==
    LET queue == Pruned(sample_queue, now)
    IN  /\ in_timer
        /\ in_timer' = FALSE
        /\ sample_queue' = queue
        /\ current_deck_pose' \in ShownPoses(queue)
        /\ answer' = NoAnswer
        /\ UNCHANGED <<samples_taken, station_geometry_result, next_deck_pose_id,
                       pending_future, calls_sent>>

----------------------------------------------------------------------------
Measurement == [station_id : Station, timestamp : Nat, angles : Angles]
LighthouseSample == [station_id : Station, deck_pose_id : Nat, angles : Angles]

\* A map has the poses of some stations.  They are in one frame if of one solution.
IsMap(map) ==
    /\ DOMAIN map \subseteq Station
    /\ map \in [DOMAIN map -> SUBSET LighthouseSample]

OneFrame(map) == \A b, c \in DOMAIN map : map[b] = map[c]

\* The type invariant.
MapperTypeOK ==
    /\ sample_queue \in Seq(Measurement)
    /\ samples_taken \subseteq LighthouseSample
    /\ IsMap(station_geometry_result)
    /\ current_deck_pose # NoShownPose => current_deck_pose.angles \in Angles
    /\ next_deck_pose_id \in Nat
    /\ calls_sent \in Nat
    /\ pending_future \in (1 .. calls_sent) \cup {NoFuture}
    /\ answer \in (1 .. calls_sent) \cup {NoAnswer}
    /\ in_timer \in BOOLEAN

\* No sample in the list bears the id that the next press gives, though Clear starts
\* the ids again: two presses whose samples are in the list together never share an
\* id, by which the geometry takes samples for measurements from one place
\* (station_geometry_optimization.hpp:48).
PoseIdsUnused == \A s \in samples_taken : s.deck_pose_id < next_deck_pose_id

\* A solution is one of samples still in the list, all of its stations from the
\* same ones: what is saved and sent never comes from cleared samples.
SolutionOfSamples ==
    /\ OneFrame(station_geometry_result)
    /\ \A b \in DOMAIN station_geometry_result :
          station_geometry_result[b] \subseteq samples_taken

\* Between two handlers the pose shown, which is also published, is one in the
\* solution shown with it: clearing or a new solution leaves no old pose behind.
ShownPoseOfSolution ==
    ~ in_timer /\ current_deck_pose # NoShownPose =>
        \E b \in DOMAIN station_geometry_result :
            station_geometry_result[b] = current_deck_pose.pose

====
