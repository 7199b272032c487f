---- MODULE Localization ----
(***************************************************************************)
(* LighthouseLocalizationNode (lighthouse_localization_node.cpp): buffers  *)
(* the measurements of the deck and, at a limited rate, solves for the     *)
(* deck's pose with the station poses it was given, by a map file when it  *)
(* starts or by its service.  The solver (deck_pose_optimization.cpp) is   *)
(* taken as the measurements and the station poses that enter it.          *)
(***************************************************************************)
EXTENDS StampedBuffer

CONSTANTS
    time_tolerance,      \* ticks
    min_solve_interval,  \* 1 / max_solver_rate_, in ticks
    NoDeckPose           \* the callback published nothing

ASSUME LocalizationAssumption ==
    /\ time_tolerance \in Nat
    /\ min_solve_interval \in Nat

VARIABLES
    station_poses,   \* of [station_id, pose]
    station_poses_configured,
    sample_buffer,
    latest_solver_execution,
    deck_pose        \* what the last step published, or NoDeckPose

localizationVars == <<station_poses, station_poses_configured, sample_buffer,
                      latest_solver_execution, deck_pose>>

\* The entries of a message or of a map: one for each station of a solution.
Entries(poses) == {[station_id |-> b, pose |-> poses[b]] : b \in DOMAIN poses}

\* The node as constructed: with the map of a file that was read, or without.
StartLocalization(map) ==
    /\ station_poses' = Entries(map)
    /\ station_poses_configured' = (DOMAIN map # {})
    /\ sample_buffer' = <<>>
    /\ latest_solver_execution' = 0
    /\ deck_pose' = NoDeckPose

\* DeckPoseOptimization::solve: measurements of stations without a pose are left
\* out, and with nothing left it throws.
KnownSamples(samples) ==
    {s \in samples : \E p \in station_poses : p.station_id = s.station_id}

SolveDeckPose(samples, stamp) ==
    [samples |-> KnownSamples(samples),
     poses   |-> {p \in station_poses : \E s \in samples : s.station_id = p.station_id},
     stamp   |-> stamp]

\* Mutant of LighthouseCallback: nothing is ever popped.
LighthouseCallbackUnpruned(msg, solves) ==
    LET buffer  == Append(sample_buffer, msg)
        samples == {buffer[i] : i \in 1 .. Len(buffer)}
    IN  /\ station_poses_configured
        /\ sample_buffer' = buffer
        /\ IF /\ msg.timestamp - latest_solver_execution >= min_solve_interval
              /\ KnownSamples(samples) # {}
              /\ solves
           THEN /\ deck_pose' = SolveDeckPose(samples, msg.timestamp)
                /\ latest_solver_execution' = msg.timestamp
           ELSE /\ deck_pose' = NoDeckPose
                /\ UNCHANGED latest_solver_execution
        /\ UNCHANGED <<station_poses, station_poses_configured>>

\* lighthouse_callback with poses configured; whether the numerical solver throws
\* on known samples is an input.  A solve that throws does not count for the rate.
LighthouseCallback(msg, solves) ==
    LET buffer  == DropOlder(Append(sample_buffer, msg), msg.timestamp - time_tolerance)
        samples == {buffer[i] : i \in 1 .. Len(buffer)}
    IN  /\ station_poses_configured
        /\ sample_buffer' = buffer
        /\ IF /\ msg.timestamp - latest_solver_execution >= min_solve_interval
              /\ KnownSamples(samples) # {}
              /\ solves
           THEN /\ deck_pose' = SolveDeckPose(samples, msg.timestamp)
                /\ latest_solver_execution' = msg.timestamp
           ELSE /\ deck_pose' = NoDeckPose
                /\ UNCHANGED latest_solver_execution
        /\ UNCHANGED <<station_poses, station_poses_configured>>

\* A step of others, in which the node publishes nothing.
LocalizationIdle ==
    /\ deck_pose' = NoDeckPose
    /\ UNCHANGED <<station_poses, station_poses_configured, sample_buffer,
                   latest_solver_execution>>

\* A measurement before any poses are configured is not even buffered.
LighthouseCallbackUnconfigured ==
    /\ ~ station_poses_configured
    /\ LocalizationIdle

\* Mutant of SetStationPoses: the poses are added to the old ones.
SetStationPosesAdding(request) ==
    /\ station_poses' = station_poses \cup Entries(request)
    /\ station_poses_configured' = (DOMAIN request # {})
    /\ deck_pose' = NoDeckPose
    /\ UNCHANGED <<sample_buffer, latest_solver_execution>>

\* set_station_poses_callback: the old poses go whatever the request holds; an
\* empty one leaves the node unconfigured and is answered with a failure.
SetStationPoses(request) ==
    /\ station_poses' = Entries(request)
    /\ station_poses_configured' = (DOMAIN request # {})
    /\ deck_pose' = NoDeckPose
    /\ UNCHANGED <<sample_buffer, latest_solver_execution>>

====
