---- MODULE StationGraph ----
(***************************************************************************)
(* StationGeometryInitialization: stations and deck poses are the nodes of *)
(* a graph, a sample joins two of them, and solve searches the cheapest    *)
(* way from the first deck pose to every node, composing poses as it goes. *)
(* The pose of an edge is known by its ends and its cost; a composed pose  *)
(* is the sequence of the edges it came along.                             *)
(***************************************************************************)
EXTENDS Naturals, Sequences, FiniteSets

CONSTANTS
    Station,
    DeckPose,
    Cost,          \* what calculateEdgeCost can return; smaller is closer
    NoDeckPose     \* first_deck_pose_id_ is empty

ASSUME GraphAssumption == Cost \subseteq Nat /\ NoDeckPose \notin DeckPose

VARIABLES
    next_unified_id_,
    station_id_to_unified_id_,
    deck_pose_id_to_unified_id_,
    adjacency_map_,          \* node -> its edges, in the order they were added
    first_deck_pose_id_,
    best_cost,               \* the variables of solve
    pose_from_root,
    queue,                   \* of <<cost, node>>; no pair is pushed twice
    current,                 \* the pair that was popped
    edges_done               \* how many of its edges the loop has seen

graphVars == <<next_unified_id_, station_id_to_unified_id_, deck_pose_id_to_unified_id_,
               adjacency_map_, first_deck_pose_id_>>
searchVars == <<best_cost, pose_from_root, queue, current, edges_done>>

Empty == [key \in {} |-> {}]

\* map[key] = value.
Put(map, key, value) == [k \in {key} \cup DOMAIN map |-> IF k = key THEN value ELSE map[k]]

GraphInit ==
    /\ next_unified_id_ = 0
    /\ station_id_to_unified_id_ = Empty
    /\ deck_pose_id_to_unified_id_ = Empty
    /\ adjacency_map_ = Empty
    /\ first_deck_pose_id_ = NoDeckPose
    /\ best_cost = Empty /\ pose_from_root = Empty /\ queue = {}
    /\ current = <<0, 0>> /\ edges_done = 0

\* solve returns: its variables are gone.
LeaveSearch ==
    /\ best_cost' = Empty /\ pose_from_root' = Empty /\ queue' = {}
    /\ current' = <<0, 0>> /\ edges_done' = 0

resetGraph ==
    /\ next_unified_id_' = 0
    /\ station_id_to_unified_id_' = Empty
    /\ deck_pose_id_to_unified_id_' = Empty
    /\ first_deck_pose_id_' = NoDeckPose
    /\ adjacency_map_' = Empty

----------------------------------------------------------------------------
\* addSample.

Registered(ids, key, id) == IF key \in DOMAIN ids THEN ids ELSE Put(ids, key, id)

\* Mutant of IdsAfter: the counter stays.
IdsAfterSame(ids, key, id) == id

\* getUniqueUnifiedId, called for a key that has no node yet.
IdsAfter(ids, key, id) == IF key \in DOMAIN ids THEN id ELSE id + 1

EdgesOf(graph, node) == IF node \in DOMAIN graph THEN graph[node] ELSE <<>>

addGraphEdge(graph, source, destination, cost) ==
    Put(graph, source,
        Append(EdgesOf(graph, source),
               [source_id |-> source, destination_id |-> destination, cost |-> cost]))

\* Mutant of addSample: what throws comes first.
addSampleSolvedFirst(station, pose, cost, solved) ==
    IF ~ solved THEN UNCHANGED graphVars
    ELSE LET stations == Registered(station_id_to_unified_id_, station, next_unified_id_)
             next     == IdsAfter(station_id_to_unified_id_, station, next_unified_id_)
             poses    == Registered(deck_pose_id_to_unified_id_, pose, next)
         IN  /\ station_id_to_unified_id_' = stations
             /\ deck_pose_id_to_unified_id_' = poses
             /\ next_unified_id_' = IdsAfter(deck_pose_id_to_unified_id_, pose, next)
             /\ first_deck_pose_id_' =
                    IF first_deck_pose_id_ = NoDeckPose THEN pose ELSE first_deck_pose_id_
             /\ adjacency_map_' =
                    addGraphEdge(addGraphEdge(adjacency_map_, poses[pose], stations[station], cost),
                                 stations[station], poses[pose], cost)

\* Both ids are registered before the PnP solver is called, which may throw: then
\* there is no edge.
addSample(station, pose, cost, solved) ==
    LET stations == Registered(station_id_to_unified_id_, station, next_unified_id_)
        next     == IdsAfter(station_id_to_unified_id_, station, next_unified_id_)
        poses    == Registered(deck_pose_id_to_unified_id_, pose, next)
    IN  /\ station_id_to_unified_id_' = stations
        /\ deck_pose_id_to_unified_id_' = poses
        /\ next_unified_id_' = IdsAfter(deck_pose_id_to_unified_id_, pose, next)
        /\ first_deck_pose_id_' =
               IF first_deck_pose_id_ = NoDeckPose THEN pose ELSE first_deck_pose_id_
        /\ adjacency_map_' =
               IF solved
               THEN addGraphEdge(addGraphEdge(adjacency_map_, poses[pose], stations[station], cost),
                                 stations[station], poses[pose], cost)
               ELSE adjacency_map_

----------------------------------------------------------------------------
\* solve.

root_id == deck_pose_id_to_unified_id_[first_deck_pose_id_]

\* The edges still to be seen of the node that was popped.
InLoop == edges_done < Len(EdgesOf(adjacency_map_, current[2]))

BeginSearch ==
    /\ best_cost' = Put(Empty, root_id, 0)
    /\ pose_from_root' = Put(Empty, root_id, <<>>)
    /\ queue' = {<<0, root_id>>}
    /\ current' = <<0, root_id>>
    /\ edges_done' = Len(EdgesOf(adjacency_map_, root_id))

\* The cheapest pair, the smaller node first.
IsTop(pair) ==
    \A other \in queue : pair[1] < other[1] \/ (pair[1] = other[1] /\ pair[2] <= other[2])

\* An entry whose node has got a better path since is skipped.
PopNode ==
    /\ ~ InLoop
    /\ \E pair \in queue :
          /\ IsTop(pair)
          /\ queue' = queue \ {pair}
          /\ current' = pair
          /\ edges_done' = IF pair[1] > best_cost[pair[2]]
                           THEN Len(EdgesOf(adjacency_map_, pair[2])) ELSE 0
    /\ UNCHANGED <<best_cost, pose_from_root>>

\* Mutant of IsBetter: a node keeps the first path that reaches it.
IsFirst(node, cost) == node \notin DOMAIN best_cost

IsBetter(node, cost) == node \notin DOMAIN best_cost \/ cost < best_cost[node]

RelaxEdge ==
    /\ InLoop
    /\ edges_done' = edges_done + 1
    /\ LET edge     == adjacency_map_[current[2]][edges_done + 1]
           node     == edge.destination_id
           new_cost == current[1] + edge.cost
       IN  IF IsBetter(node, new_cost)
           THEN /\ best_cost' = Put(best_cost, node, new_cost)
                /\ pose_from_root' =
                       Put(pose_from_root, node, Append(pose_from_root[current[2]], edge))
                /\ queue' = queue \cup {<<new_cost, node>>}
           ELSE UNCHANGED <<best_cost, pose_from_root, queue>>
    /\ UNCHANGED current

SearchEnded == ~ InLoop /\ queue = {}

AllReached == Cardinality(DOMAIN best_cost) = next_unified_id_

====
