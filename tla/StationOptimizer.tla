---- MODULE StationOptimizer ----
(***************************************************************************)
(* StationGeometryOptimization and a client of it: samples are added, some *)
(* of them throw, solve is called, and the optimizer is reset for another  *)
(* run.  solve takes its first estimates from the initializer, and indexes *)
(* the nodes for the nonlinear solver with lookups that must not fail.     *)
(***************************************************************************)
EXTENDS StationGraph

CONSTANT MaxSamples    \* bound: samples added between two resets

ASSUME OptimizerAssumption == MaxSamples \in Nat

VARIABLES
    deck_pose_data_,    \* deck pose -> the stations of its samples
    station_ids_,       \* in the order of their first samples
    stage,              \* of solve: "idle", "search", or "optimize"
    answer,             \* of the last solve: what it threw, or "solved"
    joined              \* history: the samples whose pose was solved

optimizerVars == <<graphVars, searchVars, deck_pose_data_, station_ids_, stage, answer, joined>>

OptimizerInit ==
    /\ GraphInit
    /\ deck_pose_data_ = Empty
    /\ station_ids_ = <<>>
    /\ stage = "idle"
    /\ answer = "none"
    /\ joined = {}

StationsAt(pose) == IF pose \in DOMAIN deck_pose_data_ THEN deck_pose_data_[pose] ELSE <<>>

SamplesAdded ==
    LET Count(pose) == Len(deck_pose_data_[pose])
        sum[P \in SUBSET DOMAIN deck_pose_data_] ==
            IF P = {} THEN 0
            ELSE LET pose == CHOOSE p \in P : TRUE IN Count(pose) + sum[P \ {pose}]
    IN  sum[DOMAIN deck_pose_data_]

IsKnown(station) == \E i \in DOMAIN station_ids_ : station_ids_[i] = station

\* The sample is kept first, the station last: in between the initializer may throw.
AddSample(station, pose, cost, solved) ==
    /\ stage = "idle"
    /\ SamplesAdded < MaxSamples
    /\ deck_pose_data_' = Put(deck_pose_data_, pose, Append(StationsAt(pose), station))
    /\ addSample(station, pose, cost, solved)
    /\ station_ids_' = IF solved /\ ~ IsKnown(station)
                       THEN Append(station_ids_, station) ELSE station_ids_
    /\ joined' = IF solved THEN joined \cup {[station |-> station, pose |-> pose, cost |-> cost]}
                 ELSE joined
    /\ answer' = "none"
    /\ UNCHANGED <<searchVars, stage>>

Reset ==
    /\ stage = "idle"
    /\ deck_pose_data_' = Empty
    /\ station_ids_' = <<>>
    /\ resetGraph
    /\ joined' = {}
    /\ answer' = "none"
    /\ UNCHANGED <<searchVars, stage>>

Solve ==
    /\ stage = "idle"
    /\ IF first_deck_pose_id_ = NoDeckPose
       THEN answer' = "no samples" /\ UNCHANGED <<searchVars, stage>>
       ELSE answer' = "none" /\ BeginSearch /\ stage' = "search"
    /\ UNCHANGED <<graphVars, deck_pose_data_, station_ids_, joined>>

Search ==
    /\ stage = "search"
    /\ PopNode \/ RelaxEdge
    /\ UNCHANGED <<graphVars, deck_pose_data_, station_ids_, stage, answer, joined>>

\* Mutant of EndSearch: nobody looks whether every node was reached.
EndSearchUnchecked ==
    /\ stage = "search"
    /\ SearchEnded
    /\ stage' = "optimize"
    /\ UNCHANGED <<graphVars, searchVars, deck_pose_data_, station_ids_, joined, answer>>

EndSearch ==
    /\ stage = "search"
    /\ SearchEnded
    /\ IF AllReached
       THEN stage' = "optimize" /\ UNCHANGED <<answer, searchVars>>
       ELSE stage' = "idle" /\ answer' = "not connected" /\ LeaveSearch
    /\ UNCHANGED <<graphVars, deck_pose_data_, station_ids_, joined>>

\* The estimates are indexed and refined; the solver's result is not modelled.
Optimize ==
    /\ stage = "optimize"
    /\ stage' = "idle"
    /\ answer' = "solved"
    /\ LeaveSearch
    /\ UNCHANGED <<graphVars, deck_pose_data_, station_ids_, joined>>

SolveStep == Search \/ EndSearch \/ Optimize

OptimizerNext ==
    \/ \E station \in Station, pose \in DeckPose, cost \in Cost, solved \in BOOLEAN :
          AddSample(station, pose, cost, solved)
    \/ Reset
    \/ Solve
    \/ SolveStep

\* solve runs to its end; nobody has to call it.
OptimizerSpec ==
    OptimizerInit /\ [][OptimizerNext]_optimizerVars /\ WF_optimizerVars(SolveStep)

----------------------------------------------------------------------------
Nodes == 0 .. next_unified_id_ - 1

\* The type of every variable; every id is the one of a station or of a deck pose.
GraphTypeOK ==
    /\ next_unified_id_ \in Nat
    /\ DOMAIN station_id_to_unified_id_ \subseteq Station
    /\ DOMAIN deck_pose_id_to_unified_id_ \subseteq DeckPose
    /\ \A n \in Nodes :
          \/ \E s \in DOMAIN station_id_to_unified_id_ : station_id_to_unified_id_[s] = n
          \/ \E p \in DOMAIN deck_pose_id_to_unified_id_ : deck_pose_id_to_unified_id_[p] = n
    /\ next_unified_id_ = Cardinality(DOMAIN station_id_to_unified_id_)
                              + Cardinality(DOMAIN deck_pose_id_to_unified_id_)
    /\ DOMAIN adjacency_map_ \subseteq Nodes
    /\ first_deck_pose_id_ \in DOMAIN deck_pose_id_to_unified_id_ \cup {NoDeckPose}
    /\ DOMAIN best_cost = DOMAIN pose_from_root
    /\ queue \subseteq Nat \X Nat /\ current \in Nat \X Nat /\ edges_done \in Nat
    /\ DOMAIN deck_pose_data_ \subseteq DeckPose
    /\ stage \in {"idle", "search", "optimize"}
    /\ answer \in {"none", "no samples", "not connected", "solved"}

\* solve indexes only what is there: every deck pose and every station of the samples
\* kept has its estimate and its index, although a sample whose initialization threw
\* was kept without them (StationGeometryOptimization::addSample,
\* station_geometry_optimization.cpp:37, and the lookups of solve).
OptimizesKnownNodes ==
    stage = "optimize" =>
        /\ DOMAIN deck_pose_data_ # {}
        /\ DOMAIN deck_pose_data_ \subseteq DOMAIN deck_pose_id_to_unified_id_
        /\ \A pose \in DOMAIN deck_pose_data_ :
              \A i \in DOMAIN deck_pose_data_[pose] : IsKnown(deck_pose_data_[pose][i])
        /\ \A i \in DOMAIN station_ids_ : station_ids_[i] \in DOMAIN station_id_to_unified_id_

\* A composed pose is a chain of edges from the root to its node, of a given cost.
CostUpTo(chain) ==
    LET sum[i \in 0 .. Len(chain)] == IF i = 0 THEN 0 ELSE sum[i - 1] + chain[i].cost
    IN  sum

LeadsTo(chain, node) ==
    LET at(i) == IF i = 0 THEN root_id ELSE chain[i].destination_id
    IN  at(Len(chain)) = node /\ \A i \in 1 .. Len(chain) : chain[i].source_id = at(i - 1)

StationNode(sample) == station_id_to_unified_id_[sample.station]
PoseNode(sample) == deck_pose_id_to_unified_id_[sample.pose]

IsSampled(edge) ==
    \E sample \in joined :
        /\ edge.cost = sample.cost
        /\ {edge.source_id, edge.destination_id} = {StationNode(sample), PoseNode(sample)}

\* The estimate of every node is composed along a chain of samples from the first deck
\* pose, and no chain is cheaper, as no sample would shorten the way to one of its ends
\* (StationGeometryInitialization::solve, with its stale queue entries).
PosesAlongCheapestPaths ==
    stage = "optimize" =>
        /\ \A node \in DOMAIN pose_from_root :
              LET chain == pose_from_root[node]
              IN  /\ LeadsTo(chain, node)
                  /\ \A i \in DOMAIN chain : IsSampled(chain[i])
                  /\ best_cost[node] = CostUpTo(chain)[Len(chain)]
        /\ \A sample \in joined :
              /\ best_cost[StationNode(sample)] <= best_cost[PoseNode(sample)] + sample.cost
              /\ best_cost[PoseNode(sample)] <= best_cost[StationNode(sample)] + sample.cost

\* The samples that were joined connect everything that was ever sampled.
IsConnected ==
    LET stations == UNION {{deck_pose_data_[p][i] : i \in DOMAIN deck_pose_data_[p]} :
                              p \in DOMAIN deck_pose_data_}
        poses    == DOMAIN deck_pose_data_
    IN  \A S \in SUBSET stations, P \in SUBSET poses :
           (\A sample \in joined : sample.station \in S <=> sample.pose \in P)
               => (S = {} /\ P = {}) \/ (S = stations /\ P = poses)

\* A call of solve comes to an end, and throws exactly when the samples leave a station
\* or a deck pose apart; also when the pose of a sample could not be solved
\* (station_geometry_initialization.cpp:38 and :133).
SolveAnswers ==
    /\ stage = "search" /\ IsConnected ~> answer = "solved"
    /\ stage = "search" /\ ~ IsConnected ~> answer = "not connected"

====
