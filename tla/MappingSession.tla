---- MODULE MappingSession ----
(***************************************************************************)
(* A mapping session: a deck that measures stations and is moved, the      *)
(* station mapper that takes samples and solves, and the localization node *)
(* that is sent the solution by a service call, or restarted with a map    *)
(* file.  Either node may miss a measurement (the topic is best-effort),   *)
(* the service takes calls in order, and a restart of the localization     *)
(* node loses the calls it has not taken.                                  *)
(***************************************************************************)
EXTENDS MapperUi, Localization

CONSTANTS
    InitialMaps,   \* the maps the localization node may start with, NoResult for none
    StartTime,     \* the clock at the start
    MaxTime,       \* bound: the clock at the end
    MaxMoves,      \* bound: times the deck is moved
    MaxPresses,    \* bound: presses of Sample, Save, Update and Clear
    MaxFiles,      \* bound: map files
    MaxMisses,     \* bound: measurements that one node misses
    MaxRestarts    \* bound: restarts of the localization node

ASSUME SessionAssumption ==
    /\ StartTime \in Nat /\ MaxTime \in Nat
    /\ MaxMoves \in Nat /\ 0 .. MaxMoves \subseteq Angles
    /\ \A map \in InitialMaps : IsMap(map) /\ OneFrame(map)

VARIABLES
    now,
    place,        \* where the deck is: how often it was moved
    moved,        \* when it was moved last
    measured,     \* the stations measured at this time
    misses,       \* how many measurements one node missed
    requests,     \* calls on their way to the localization node
    responses,    \* the calls whose answers are on their way back
    answered,     \* the calls whose answers the mapper's executor has taken
    up,           \* the localization node runs
    map_files,    \* the maps in the files, a NoResult for one without stations
    presses,      \* of Sample, Save, Update and Clear
    restarts,
    applied       \* history: the last call the localization node has taken

worldVars == <<now, place, moved, measured, misses>>
serviceVars == <<requests, responses, answered, up, restarts, applied>>
sessionVars == <<sample_queue, samples_taken, station_geometry_result, current_deck_pose,
                 next_deck_pose_id, pending_future, calls_sent, in_timer, answer,
                 station_poses, station_poses_configured, sample_buffer,
                 latest_solver_execution, deck_pose,
                 now, place, moved, measured, misses, requests, responses, answered, up, restarts,
                 applied, map_files, presses>>

SessionInit ==
    /\ MapperInit
    /\ \E map \in InitialMaps :
          /\ map_files = {map}
          /\ station_poses = Entries(map)
          /\ station_poses_configured = (map # NoResult)
    /\ sample_buffer = <<>> /\ latest_solver_execution = 0 /\ deck_pose = NoDeckPose
    /\ now = StartTime /\ place = 0 /\ moved = 0 /\ measured = {} /\ misses = 0
    /\ requests = <<>> /\ responses = {} /\ answered = {} /\ up = TRUE /\ restarts = 0 /\ applied = 0
    /\ presses = 0

----------------------------------------------------------------------------
\* The deck.

Tick ==
    /\ now < MaxTime
    /\ now' = now + 1
    /\ measured' = {}
    /\ UNCHANGED <<place, moved, misses>>
    /\ MapperIdle /\ LocalizationIdle
    /\ UNCHANGED <<serviceVars, map_files, presses>>

Move ==
    /\ place < MaxMoves
    /\ place' = place + 1
    /\ moved' = now
    /\ UNCHANGED <<now, measured, misses>>
    /\ MapperIdle /\ LocalizationIdle
    /\ UNCHANGED <<serviceVars, map_files, presses>>

Reading(b) == [station_id |-> b, timestamp |-> now, angles |-> place]

\* A station is measured, and both nodes receive the measurement.  The localization
\* node may be down, and either node may miss a measurement.
Measure(b) ==
    /\ b \notin measured
    /\ measured' = measured \cup {b}
    /\ UNCHANGED <<now, place, moved, serviceVars, map_files, presses>>

Miss ==
    /\ misses < MaxMisses
    /\ misses' = misses + 1

Localizes(b) ==
    /\ up
    /\ \/ \E solves \in BOOLEAN : LighthouseCallback(Reading(b), solves)
       \/ LighthouseCallbackUnconfigured

MeasuredByBoth(b) ==
    /\ Measure(b)
    /\ MapperLighthouseCallback(Reading(b), now)
    /\ Localizes(b)
    /\ UNCHANGED misses

MeasuredByMapper(b) ==
    /\ Measure(b)
    /\ MapperLighthouseCallback(Reading(b), now)
    /\ LocalizationIdle
    /\ IF up THEN Miss ELSE UNCHANGED misses

MeasuredByLocalization(b) ==
    /\ Measure(b)
    /\ MapperIdle
    /\ Localizes(b)
    /\ Miss

----------------------------------------------------------------------------
\* The mapper: its timer, and the commands it runs.

Press ==
    /\ presses < MaxPresses
    /\ presses' = presses + 1

MapperStep == LocalizationIdle /\ UNCHANGED worldVars

TimerBegins ==
    /\ BeginTimer(now, answered)
    /\ MapperStep
    /\ UNCHANGED <<serviceVars, map_files, presses>>

PressSample ==
    /\ Press
    /\ Sample(now)
    /\ MapperStep
    /\ UNCHANGED <<serviceVars, map_files>>

PressSolve ==
    /\ \E solves \in BOOLEAN : Solve(solves)
    /\ MapperStep
    /\ UNCHANGED <<serviceVars, map_files, presses>>

\* The files that save_stations_map may leave behind: none, when the file cannot be
\* opened, which is reported; or one with the lines of some of the map's stations.
\* The stream's buffer, which all of the lines fit, is written as the stream closes,
\* after the check for errors, so a cut file is reported as saved.
save_stations_map(map) == {{}} \cup {{[b \in B |-> map[b]]} : B \in SUBSET DOMAIN map}

\* What the localization node makes of a path and its load_stations_map: the
\* stations in one of the files, or nothing, without a file or a station in it.
load_stations_map(files) == {NoResult} \cup files

\* on_save_button_callback: writes the result, if there is one, to a file named for
\* the time.  Files are kept; one of the same second is overwritten, which leaves no
\* more to load than if it was kept.
PressSave ==
    /\ Press
    /\ in_timer
    /\ HasResult
    /\ Cardinality(map_files) < MaxFiles
    /\ \E saved \in save_stations_map(station_geometry_result) :
          map_files' = map_files \cup saved
    /\ MapperIdle /\ MapperStep
    /\ UNCHANGED serviceVars

PressUpdate ==
    /\ Press
    /\ up
    /\ SendStationPoses
    /\ requests' = Append(requests, [call |-> calls_sent', poses |-> station_geometry_result])
    /\ MapperStep
    /\ UNCHANGED <<responses, answered, up, restarts, applied, map_files>>

PressClear ==
    /\ Press
    /\ ClearSamples
    /\ MapperStep
    /\ UNCHANGED <<serviceVars, map_files>>

TimerEnds ==
    /\ EndTimer(now)
    /\ MapperStep
    /\ UNCHANGED <<serviceVars, map_files, presses>>

----------------------------------------------------------------------------
\* The localization node and its service.

Serve ==
    /\ up
    /\ requests # <<>>
    /\ SetStationPoses(Head(requests).poses)
    /\ requests' = Tail(requests)
    /\ responses' = responses \cup {Head(requests).call}
    /\ applied' = Head(requests).call
    /\ MapperIdle
    /\ UNCHANGED <<answered, up, restarts, worldVars, map_files, presses>>

\* The mapper's executor takes an answer, which makes the call's future ready.
TakeAnswer ==
    /\ ~ in_timer
    /\ \E call \in responses :
          /\ responses' = responses \ {call}
          /\ answered' = answered \cup {call}
    /\ MapperIdle /\ LocalizationIdle
    /\ UNCHANGED <<requests, up, restarts, applied, worldVars, map_files, presses>>

\* The node ends, and its answers may or may not have been sent.
Crash ==
    /\ up
    /\ restarts < MaxRestarts
    /\ up' = FALSE
    /\ restarts' = restarts + 1
    /\ requests' = <<>>
    /\ responses' \in {responses, {}}
    /\ MapperIdle /\ LocalizationIdle
    /\ UNCHANGED <<answered, applied, worldVars, map_files, presses>>

\* The node is started again, with a map file or with none.
Restart ==
    /\ ~ up
    /\ up' = TRUE
    /\ \E map \in load_stations_map(map_files) : StartLocalization(map)
    /\ MapperIdle
    /\ UNCHANGED <<requests, responses, answered, restarts, applied, worldVars, map_files, presses>>

SessionNext ==
    \/ Tick \/ Move
    \/ \E b \in Station : MeasuredByMapper(b) \/ MeasuredByLocalization(b) \/ MeasuredByBoth(b)
    \/ TimerBegins \/ TimerEnds
    \/ PressSample \/ PressSolve \/ PressSave \/ PressUpdate \/ PressClear
    \/ Serve \/ TakeAnswer \/ Crash \/ Restart

SessionSpec == SessionInit /\ [][SessionNext]_sessionVars

\* Both nodes spin: the timer is called and returns, the service takes its calls, and
\* an answer that is there between timer callbacks again and again is taken, as each
\* round of the executor serves all that is ready.  A node that crashed is restarted.
Spinning ==
    /\ WF_sessionVars(TimerBegins) /\ WF_sessionVars(TimerEnds)
    /\ WF_sessionVars(Serve) /\ SF_sessionVars(TakeAnswer) /\ WF_sessionVars(Restart)

FairSessionSpec == SessionSpec /\ Spinning

----------------------------------------------------------------------------
\* When the deck has been still for longer than the buffer goes back, every sample
\* taken is of the place where the deck is, whatever was measured while it moved.
StillDeckSampled ==
    [][now - moved > buffer_duration =>
          \A s \in samples_taken' \ samples_taken : s.angles = place]_sessionVars

\* "Localization node updated" is shown only when the localization node has taken
\* the last update sent: an earlier one's answer is never taken for it.
OkMeansUpdated == answer # NoAnswer => applied >= calls_sent

\* The last call sent is answered on the screen: only a call that the localization
\* node lost in a crash leaves its future pending for ever.
Lost(call) ==
    /\ call \notin responses \cup answered
    /\ \A i \in DOMAIN requests : requests[i].call # call

UpdatesSettle ==
    pending_future # NoFuture ~> pending_future = NoFuture \/ Lost(pending_future)

\* The localization node solves with the station poses of one solution: no update,
\* and no restart with one of the map files, whole or cut, mixes the frames of two.
LocalizesInOneFrame == \A p, q \in station_poses : p.pose = q.pose

\* When the deck has been still for longer than the tolerance, a published pose is
\* of the place where the deck is.
StillDeckLocated ==
    [][deck_pose' # NoDeckPose /\ now - moved > time_tolerance =>
          \A s \in deck_pose'.samples : s.angles = place]_sessionVars

====
