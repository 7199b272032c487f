---- MODULE StationGraphProofs ----
(***************************************************************************)
(* For any stations, deck poses and costs: the ids of the graph stay       *)
(* unique, the first estimates lie along cheapest paths, and whatever      *)
(* solve looks up is there.                                                *)
(***************************************************************************)
EXTENDS StationOptimizer, FiniteSetTheorems, WellFoundedInduction, TLAPS

Edge == [source_id : Nat, destination_id : Nat, cost : Nat]

\* A map with one more entry, or another value for a key.
LEMMA OneEntry ==
    ASSUME NEW f, NEW key, NEW value
    PROVE  /\ DOMAIN Put(f, key, value) = {key} \cup DOMAIN f
           /\ Put(f, key, value)[key] = value
           /\ \A k \in DOMAIN f : k # key => Put(f, key, value)[k] = f[k]
  BY DEF Put

----------------------------------------------------------------------------
\* The ids.

IdsOK(S, P, next) ==
    /\ next \in Nat
    /\ S \in [DOMAIN S -> 0 .. next - 1] /\ P \in [DOMAIN P -> 0 .. next - 1]
    /\ \A k, l \in DOMAIN S : S[k] = S[l] => k = l
    /\ \A k, l \in DOMAIN P : P[k] = P[l] => k = l
    /\ \A k \in DOMAIN S, l \in DOMAIN P : S[k] # P[l]
    /\ \A n \in 0 .. next - 1 : (\E k \in DOMAIN S : S[k] = n) \/ (\E k \in DOMAIN P : P[k] = n)
    /\ IsFiniteSet(DOMAIN S) /\ IsFiniteSet(DOMAIN P)
    /\ next = Cardinality(DOMAIN S) + Cardinality(DOMAIN P)

LEMMA IdsSymmetric ==
    ASSUME NEW S, NEW P, NEW next, IdsOK(S, P, next)
    PROVE  IdsOK(P, S, next)
<1>1. Cardinality(DOMAIN S) \in Nat /\ Cardinality(DOMAIN P) \in Nat
  BY FS_CardinalityType DEF IdsOK
<1> QED
  BY <1>1 DEF IdsOK

\* A key that has no id gets the next one, and keeps it.
LEMMA RegisteredKeeps ==
    ASSUME NEW S, NEW key, NEW next
    PROVE  /\ DOMAIN Registered(S, key, next) = {key} \cup DOMAIN S
           /\ \A k \in DOMAIN S : Registered(S, key, next)[k] = S[k]
<1>1. CASE key \in DOMAIN S
  BY <1>1 DEF Registered
<1>2. CASE key \notin DOMAIN S
  <2>1. \A k \in DOMAIN S : k # key
    BY <1>2
  <2> QED
    BY <1>2, <2>1 DEF Registered, Put
<1> QED
  BY <1>1, <1>2

LEMMA RegisteredUnique ==
    ASSUME NEW S, NEW P, NEW next, IdsOK(S, P, next), NEW key
    PROVE  IdsOK(Registered(S, key, next), P, IdsAfter(S, key, next))
<1> DEFINE T == Registered(S, key, next)
           after == IdsAfter(S, key, next)
<1>1. CASE key \in DOMAIN S
  BY <1>1 DEF Registered, IdsAfter
<1>2. CASE key \notin DOMAIN S
  <2>1. after = next + 1 /\ next \in Nat /\ after - 1 = next /\ after \in Nat
    BY <1>2 DEF IdsAfter, IdsOK
  <2>2. /\ DOMAIN T = {key} \cup DOMAIN S
        /\ \A k \in DOMAIN S : T[k] = S[k]
        /\ T[key] = next
        /\ T = [k \in DOMAIN T |-> T[k]]
    BY <1>2, OneEntry DEF Registered, Put
  <2> HIDE DEF T, after
  <2>3. /\ \A k \in DOMAIN S : S[k] \in 0 .. next - 1
        /\ \A k \in DOMAIN P : P[k] \in 0 .. next - 1
    BY DEF IdsOK
  <2>4. T \in [DOMAIN T -> 0 .. after - 1]
    <3>1. \A k \in DOMAIN T : T[k] \in 0 .. after - 1
      BY <2>1, <2>2, <2>3
    <3> QED
      BY <2>2, <3>1
  <2>5. P \in [DOMAIN P -> 0 .. after - 1]
    BY <2>1, <2>3 DEF IdsOK
  <2>6. \A k, l \in DOMAIN T : T[k] = T[l] => k = l
    <3>1. \A k \in DOMAIN S : T[k] # next
      BY <2>1, <2>2, <2>3
    <3> QED
      BY <2>2, <3>1 DEF IdsOK
  <2>7. \A k \in DOMAIN T, l \in DOMAIN P : T[k] # P[l]
    <3>1. \A l \in DOMAIN P : P[l] # next
      BY <2>1, <2>3
    <3> QED
      BY <2>2, <3>1 DEF IdsOK
  <2>8. \A n \in 0 .. after - 1 :
           (\E k \in DOMAIN T : T[k] = n) \/ (\E k \in DOMAIN P : P[k] = n)
    <3>1. \A n \in 0 .. after - 1 : n = next \/ n \in 0 .. next - 1
      BY <2>1
    <3> QED
      BY <2>2, <3>1 DEF IdsOK
  <2>9. /\ IsFiniteSet(DOMAIN T)
        /\ Cardinality(DOMAIN T) = Cardinality(DOMAIN S) + 1
    BY <1>2, <2>2, FS_AddElement DEF IdsOK
  <2>10. after = Cardinality(DOMAIN T) + Cardinality(DOMAIN P)
    <3>1. Cardinality(DOMAIN S) \in Nat /\ Cardinality(DOMAIN P) \in Nat
      BY FS_CardinalityType DEF IdsOK
    <3>2. next = Cardinality(DOMAIN S) + Cardinality(DOMAIN P)
      BY DEF IdsOK
    <3> QED
      BY <2>1, <2>9, <3>1, <3>2
  <2>11. \A k, l \in DOMAIN P : P[k] = P[l] => k = l
    BY DEF IdsOK
  <2>12. IsFiniteSet(DOMAIN P)
    BY DEF IdsOK
  <2>13. IdsOK(T, P, after)
    BY <2>1, <2>4, <2>5, <2>6, <2>7, <2>8, <2>9, <2>10, <2>11, <2>12, Zenon DEF IdsOK
  <2> QED
    BY <2>13 DEF T, after
<1> QED
  BY <1>1, <1>2

----------------------------------------------------------------------------
\* The cost of a chain.

\* A set of naturals that is not empty has a least element.
LEMMA LeastNatural ==
    ASSUME NEW S \in SUBSET Nat, S # {}
    PROVE  \E x \in S : \A y \in S : x <= y
<1>1. PICK x \in S : \A y \in S : ~ (<<y, x>> \in OpToRel(<, Nat))
  BY NatLessThanWellFounded, WFMin
<1>2. \A y \in S : ~ (y < x)
  BY <1>1 DEF OpToRel
<1> QED
  BY <1>2

\* The function that adds up the costs exists: it does for every beginning of the chain.
LEMMA SumExists ==
    ASSUME NEW chain \in Seq(Edge)
    PROVE  \E f : f = [i \in 0 .. Len(chain) |-> IF i = 0 THEN 0 ELSE f[i - 1] + chain[i].cost]
<1> DEFINE IsSum(n, f) ==
              f = [i \in 0 .. n |-> IF i = 0 THEN 0 ELSE f[i - 1] + chain[i].cost]
           without == {n \in 0 .. Len(chain) : ~ \E f : IsSum(n, f)}
<1>1. SUFFICES ASSUME without # {} PROVE FALSE
  BY DEF IsSum
<1>2. PICK m \in without : \A n \in without : m <= n
  <2>1. without \in SUBSET Nat
    OBVIOUS
  <2> HIDE DEF without
  <2> QED
    BY <1>1, <2>1, LeastNatural
<1>3. CASE m = 0
  <2> DEFINE f == [i \in 0 .. 0 |-> 0]
  <2>1. f = [i \in 0 .. 0 |-> IF i = 0 THEN 0 ELSE f[i - 1] + chain[i].cost]
    OBVIOUS
  <2>2. IsSum(m, f)
    BY <1>3, <2>1
  <2> QED
    BY <1>2, <2>2
<1>4. CASE m # 0
  <2>1. m - 1 \in 0 .. Len(chain) /\ m \in 1 .. Len(chain) /\ ~ (m <= m - 1)
    BY <1>2, <1>4
  <2>2. PICK f : IsSum(m - 1, f)
    BY <1>2, <2>1
  <2> DEFINE g == [i \in 0 .. m |-> IF i = m THEN f[m - 1] + chain[m].cost ELSE f[i]]
  <2>3. \A i \in 0 .. m : g[i] = IF i = 0 THEN 0 ELSE g[i - 1] + chain[i].cost
    <3>1. TAKE i \in 0 .. m
    <3>2. CASE i = 0
      BY <2>1, <2>2, <3>2
    <3>3. CASE i = m
      BY <2>1, <3>3
    <3>4. CASE i # 0 /\ i # m
      <4>1. i \in 0 .. m - 1 /\ i - 1 \in 0 .. m /\ i - 1 # m /\ i \in 0 .. m
        BY <2>1, <3>4
      <4>2. f[i] = f[i - 1] + chain[i].cost
        BY <2>2, <3>4, <4>1
      <4> QED
        BY <3>4, <4>1, <4>2
    <3> QED
      BY <3>2, <3>3, <3>4
  <2>4. g = [i \in 0 .. m |-> g[i]]
    OBVIOUS
  <2> HIDE DEF g
  <2>5. IsSum(m, g)
    BY <2>3, <2>4
  <2> QED
    BY <1>2, <2>5
<1> QED
  BY <1>3, <1>4

LEMMA CostAddsUp ==
    ASSUME NEW chain \in Seq(Edge)
    PROVE  /\ CostUpTo(chain)[0] = 0
           /\ \A i \in 1 .. Len(chain) :
                 CostUpTo(chain)[i] = CostUpTo(chain)[i - 1] + chain[i].cost
<1>1. CostUpTo(chain) = [i \in 0 .. Len(chain) |->
                            IF i = 0 THEN 0 ELSE CostUpTo(chain)[i - 1] + chain[i].cost]
  BY SumExists DEF CostUpTo
<1>2. Len(chain) \in Nat
  OBVIOUS
<1> QED
  BY <1>1, <1>2

\* One more edge adds its cost.
LEMMA CostOfAppend ==
    ASSUME NEW chain \in Seq(Edge), NEW edge \in Edge
    PROVE  CostUpTo(Append(chain, edge))[Len(Append(chain, edge))]
               = CostUpTo(chain)[Len(chain)] + edge.cost
<1> DEFINE longer == Append(chain, edge)
           different == {i \in 0 .. Len(chain) : CostUpTo(longer)[i] # CostUpTo(chain)[i]}
<1>1. /\ longer \in Seq(Edge) /\ Len(chain) \in Nat /\ Len(longer) = Len(chain) + 1
      /\ \A i \in 1 .. Len(chain) : longer[i] = chain[i]
      /\ longer[Len(chain) + 1] = edge
  OBVIOUS
<1> HIDE DEF longer
<1>2. different = {}
  <2>1. SUFFICES ASSUME different # {} PROVE FALSE
    OBVIOUS
  <2>2. different \in SUBSET Nat
    BY <1>1
  <2>3. PICK m \in different : \A n \in different : m <= n
    BY <2>1, <2>2, LeastNatural
  <2>4. m # 0
    BY <1>1, <2>3, CostAddsUp
  <2>5. m \in 1 .. Len(chain) /\ m \in 1 .. Len(longer) /\ m - 1 \in 0 .. Len(chain) /\ ~ (m <= m - 1)
    BY <1>1, <2>3, <2>4
  <2>6. CostUpTo(longer)[m - 1] = CostUpTo(chain)[m - 1]
    BY <2>3, <2>5
  <2>7. CostUpTo(longer)[m] = CostUpTo(longer)[m - 1] + longer[m].cost
    BY <1>1, <2>5, CostAddsUp
  <2>8. CostUpTo(chain)[m] = CostUpTo(chain)[m - 1] + chain[m].cost
    BY <2>5, CostAddsUp
  <2>9. CostUpTo(longer)[m] = CostUpTo(chain)[m]
    BY <1>1, <2>5, <2>6, <2>7, <2>8
  <2> QED
    BY <2>3, <2>9
<1>3. CostUpTo(longer)[Len(chain)] = CostUpTo(chain)[Len(chain)]
  BY <1>1, <1>2
<1>4. CostUpTo(longer)[Len(chain) + 1] = CostUpTo(longer)[Len(chain) + 1 - 1] + longer[Len(chain) + 1].cost
  BY <1>1, CostAddsUp
<1>5. Len(chain) + 1 - 1 = Len(chain)
  BY <1>1
<1> QED
  BY <1>1, <1>3, <1>4, <1>5 DEF longer

----------------------------------------------------------------------------
\* The invariant.

IdsInv ==
    /\ IdsOK(station_id_to_unified_id_, deck_pose_id_to_unified_id_, next_unified_id_)
    /\ DOMAIN station_id_to_unified_id_ \subseteq Station
    /\ DOMAIN deck_pose_id_to_unified_id_ \subseteq DeckPose

\* What is kept of the samples, also of those that threw.
DataInv ==
    /\ deck_pose_data_ \in
          [DOMAIN deck_pose_id_to_unified_id_ -> Seq(DOMAIN station_id_to_unified_id_)]
    /\ station_ids_ \in Seq(DOMAIN station_id_to_unified_id_)
    /\ first_deck_pose_id_ \in DOMAIN deck_pose_id_to_unified_id_ \cup {NoDeckPose}

\* What an edge between two nodes of a joined sample can be.
SampledEdges == {edge \in Edge : edge.destination_id \in Nodes /\ IsSampled(edge)}

\* Every edge hangs at its source.
AtSource(graph) ==
    \A n \in DOMAIN graph : \A i \in 1 .. Len(graph[n]) : graph[n][i].source_id = n

EdgesInv ==
    /\ adjacency_map_ \in [DOMAIN adjacency_map_ -> Seq(SampledEdges)]
    /\ DOMAIN adjacency_map_ \subseteq Nodes
    /\ AtSource(adjacency_map_)

HasEdge(graph, m, n, cost) ==
    \E i \in 1 .. Len(EdgesOf(graph, m)) :
        /\ EdgesOf(graph, m)[i].destination_id = n
        /\ EdgesOf(graph, m)[i].cost = cost

JoinedInv ==
    \A sample \in joined :
        /\ sample.station \in DOMAIN station_id_to_unified_id_
        /\ sample.pose \in DOMAIN deck_pose_id_to_unified_id_
        /\ IsKnown(sample.station)
        /\ HasEdge(adjacency_map_, PoseNode(sample), StationNode(sample), sample.cost)
        /\ HasEdge(adjacency_map_, StationNode(sample), PoseNode(sample), sample.cost)

SearchTypeOK ==
    /\ best_cost \in [DOMAIN best_cost -> Nat]
    /\ pose_from_root = [n \in DOMAIN best_cost |-> pose_from_root[n]]
    /\ queue \subseteq Nat \X Nat /\ current \in Nat \X Nat /\ edges_done \in Nat
    /\ stage \in {"idle", "search", "optimize"}
    /\ answer \in {"none", "no samples", "not connected", "solved"}

GoodChain(chain, node) ==
    /\ chain \in Seq(SampledEdges)
    /\ LeadsTo(chain, node)
    /\ best_cost[node] = CostUpTo(chain)[Len(chain)]

\* An edge of a reached node is used, or will be.
Relaxed(n, i) ==
    LET edge == EdgesOf(adjacency_map_, n)[i]
    IN  \/ /\ edge.destination_id \in DOMAIN best_cost
           /\ best_cost[edge.destination_id] <= best_cost[n] + edge.cost
        \/ <<best_cost[n], n>> \in queue
        \/ n = current[2] /\ i > edges_done

Searching ==
    /\ first_deck_pose_id_ # NoDeckPose
    /\ root_id \in DOMAIN best_cost
    /\ DOMAIN best_cost \subseteq Nodes
    /\ \A n \in DOMAIN best_cost : GoodChain(pose_from_root[n], n)
    /\ \A pair \in queue : pair[2] \in DOMAIN best_cost /\ best_cost[pair[2]] <= pair[1]
    /\ current[2] \in DOMAIN best_cost
    /\ InLoop => current[1] = best_cost[current[2]]
    /\ \A n \in DOMAIN best_cost : \A i \in 1 .. Len(EdgesOf(adjacency_map_, n)) : Relaxed(n, i)

SearchInv ==
    /\ SearchTypeOK
    /\ stage # "idle" => Searching
    /\ stage = "optimize" => SearchEnded /\ AllReached

OptimizerInv == IdsInv /\ DataInv /\ EdgesInv /\ JoinedInv /\ SearchInv

----------------------------------------------------------------------------
\* Adding a sample.

\* An edge added at the end leaves the others where they are.
LEMMA AddedEdge ==
    ASSUME NEW E, NEW graph, graph \in [DOMAIN graph -> Seq(E)], AtSource(graph),
           NEW source, NEW destination, NEW cost,
           [source_id |-> source, destination_id |-> destination, cost |-> cost] \in E
    PROVE  LET longer == addGraphEdge(graph, source, destination, cost)
           IN  /\ longer \in [DOMAIN longer -> Seq(E)]
               /\ DOMAIN longer = {source} \cup DOMAIN graph
               /\ AtSource(longer)
               /\ HasEdge(longer, source, destination, cost)
               /\ \A m, n, c : HasEdge(graph, m, n, c) => HasEdge(longer, m, n, c)
<1> DEFINE edge == [source_id |-> source, destination_id |-> destination, cost |-> cost]
           old == EdgesOf(graph, source)
           longer == addGraphEdge(graph, source, destination, cost)
<1>1. longer = Put(graph, source, Append(old, edge))
  BY DEF addGraphEdge
<1>2. /\ edge \in E /\ edge.source_id = source
      /\ edge.destination_id = destination /\ edge.cost = cost
  OBVIOUS
<1>3. old \in Seq(E) /\ \A i \in 1 .. Len(old) : old[i].source_id = source
  BY DEF EdgesOf, AtSource
<1> HIDE DEF edge, old
<1>4. /\ Append(old, edge) \in Seq(E)
      /\ Len(Append(old, edge)) = Len(old) + 1 /\ Len(old) \in Nat
      /\ \A i \in 1 .. Len(old) : Append(old, edge)[i] = old[i]
      /\ Append(old, edge)[Len(old) + 1] = edge
  BY <1>2, <1>3
<1>5. /\ DOMAIN longer = {source} \cup DOMAIN graph
      /\ longer = [n \in DOMAIN longer |-> longer[n]]
      /\ \A n \in DOMAIN longer : longer[n] = IF n = source THEN Append(old, edge) ELSE graph[n]
  BY <1>1 DEF Put
<1> HIDE DEF longer
<1>6. \A n \in DOMAIN longer : longer[n] \in Seq(E)
  BY <1>4, <1>5
<1>7. longer \in [DOMAIN longer -> Seq(E)]
  BY <1>5, <1>6
<1>8. AtSource(longer)
  <2>1. SUFFICES ASSUME NEW n \in DOMAIN longer, NEW i \in 1 .. Len(longer[n])
                 PROVE  longer[n][i].source_id = n
    BY DEF AtSource
  <2>2. CASE n = source
    <3>1. longer[n] = Append(old, edge)
      BY <1>5, <2>2
    <3>2. i \in 1 .. Len(old) \/ i = Len(old) + 1
      BY <1>4, <3>1
    <3> QED
      BY <1>2, <1>3, <1>4, <2>2, <3>1, <3>2
  <2>3. CASE n # source
    BY <1>5, <2>3 DEF AtSource
  <2> QED
    BY <2>2, <2>3
<1>9. EdgesOf(longer, source) = Append(old, edge)
  BY <1>5 DEF EdgesOf
<1>10. HasEdge(longer, source, destination, cost)
  <2>1. Len(old) + 1 \in 1 .. Len(Append(old, edge))
    BY <1>4
  <2> QED
    BY <1>2, <1>4, <1>9, <2>1 DEF HasEdge
<1>11. ASSUME NEW m, NEW n, NEW c, HasEdge(graph, m, n, c)
       PROVE  HasEdge(longer, m, n, c)
  <2>1. PICK i \in 1 .. Len(EdgesOf(graph, m)) :
           EdgesOf(graph, m)[i].destination_id = n /\ EdgesOf(graph, m)[i].cost = c
    BY <1>11 DEF HasEdge
  <2>2. i \in 1 .. Len(EdgesOf(longer, m)) /\ EdgesOf(longer, m)[i] = EdgesOf(graph, m)[i]
    <3>1. CASE m = source
      BY <1>4, <1>9, <2>1, <3>1 DEF old
    <3>2. CASE m # source
      BY <1>5, <2>1, <3>2 DEF EdgesOf
    <3> QED
      BY <3>1, <3>2
  <2> QED
    BY <2>1, <2>2 DEF HasEdge
<1> QED
  BY <1>5, <1>7, <1>8, <1>10, <1>11 DEF longer

LEMMA SeqOfMore ==
    ASSUME NEW S, NEW T, S \subseteq T
    PROVE  Seq(S) \subseteq Seq(T)
  OBVIOUS

LEMMA MoreNodes ==
    ASSUME NEW m \in Nat, NEW n \in Nat, m <= n
    PROVE  0 .. m - 1 \subseteq 0 .. n - 1 /\ 0 .. n - 1 \subseteq Nat
  OBVIOUS

\* Both ids are registered, whether the pose of the sample is solved or not.
LEMMA AddSampleIds ==
    ASSUME IdsInv,
           NEW station \in Station, NEW pose \in DeckPose, NEW cost, NEW solved,
           addSample(station, pose, cost, solved)
    PROVE  /\ IdsInv'
           /\ next_unified_id_ <= next_unified_id_'
           /\ DOMAIN station_id_to_unified_id_' = {station} \cup DOMAIN station_id_to_unified_id_
           /\ DOMAIN deck_pose_id_to_unified_id_' = {pose} \cup DOMAIN deck_pose_id_to_unified_id_
           /\ \A k \in DOMAIN station_id_to_unified_id_ :
                 station_id_to_unified_id_'[k] = station_id_to_unified_id_[k]
           /\ \A k \in DOMAIN deck_pose_id_to_unified_id_ :
                 deck_pose_id_to_unified_id_'[k] = deck_pose_id_to_unified_id_[k]
<1> DEFINE S == station_id_to_unified_id_
           P == deck_pose_id_to_unified_id_
           next == IdsAfter(S, station, next_unified_id_)
<1>1. /\ S' = Registered(S, station, next_unified_id_)
      /\ P' = Registered(P, pose, next)
      /\ next_unified_id_' = IdsAfter(P, pose, next)
  BY DEF addSample
<1>2. IdsOK(S, P, next_unified_id_)
  BY DEF IdsInv
<1>3. IdsOK(S', P, next)
  BY <1>1, <1>2, RegisteredUnique
<1>4. IdsOK(P', S', next_unified_id_')
  <2> HIDE DEF S, P, next
  <2>1. IdsOK(P, S', next)
    BY <1>3, IdsSymmetric
  <2> QED
    BY <1>1, <2>1, RegisteredUnique
<1>5. IdsOK(S', P', next_unified_id_')
  BY <1>4, IdsSymmetric
<1>6. next_unified_id_ <= next_unified_id_'
  <2>1. next_unified_id_ \in Nat
    BY <1>2 DEF IdsOK
  <2>2. next \in Nat /\ next_unified_id_ <= next
    BY <2>1 DEF IdsAfter
  <2> HIDE DEF next
  <2> QED
    BY <1>1, <2>1, <2>2 DEF IdsAfter
<1> HIDE DEF next
<1>7. /\ DOMAIN S' = {station} \cup DOMAIN S
      /\ \A k \in DOMAIN S : S'[k] = S[k]
  BY <1>1, RegisteredKeeps
<1>8. /\ DOMAIN P' = {pose} \cup DOMAIN P
      /\ \A k \in DOMAIN P : P'[k] = P[k]
  BY <1>1, RegisteredKeeps
<1>9. DOMAIN S' \subseteq Station /\ DOMAIN P' \subseteq DeckPose
  BY <1>7, <1>8 DEF IdsInv
<1> QED
  BY <1>5, <1>6, <1>7, <1>8, <1>9 DEF IdsInv

LEMMA AddSampleData ==
    ASSUME OptimizerInv,
           NEW station \in Station, NEW pose \in DeckPose, NEW cost \in Cost, NEW solved \in BOOLEAN,
           AddSample(station, pose, cost, solved)
    PROVE  DataInv'
<1> DEFINE S == station_id_to_unified_id_
           P == deck_pose_id_to_unified_id_
<1>1. DOMAIN S' = {station} \cup DOMAIN S /\ DOMAIN P' = {pose} \cup DOMAIN P
  BY AddSampleIds DEF OptimizerInv, AddSample
<1>2. /\ deck_pose_data_ \in [DOMAIN P -> Seq(DOMAIN S)]
      /\ station_ids_ \in Seq(DOMAIN S)
      /\ first_deck_pose_id_ \in DOMAIN P \cup {NoDeckPose}
  BY DEF OptimizerInv, DataInv
<1>3. /\ deck_pose_data_' = Put(deck_pose_data_, pose, Append(StationsAt(pose), station))
      /\ station_ids_' = station_ids_ \/ station_ids_' = Append(station_ids_, station)
      /\ first_deck_pose_id_' = pose \/ first_deck_pose_id_' = first_deck_pose_id_
  BY DEF AddSample, addSample
<1>4. StationsAt(pose) \in Seq(DOMAIN S)
  <2>1. CASE pose \in DOMAIN deck_pose_data_
    BY <1>2, <2>1 DEF StationsAt
  <2>2. CASE pose \notin DOMAIN deck_pose_data_
    BY <2>2 DEF StationsAt
  <2> QED
    BY <2>1, <2>2
<1> HIDE DEF S, P
<1>5. Seq(DOMAIN S) \subseteq Seq(DOMAIN S') /\ station \in DOMAIN S' /\ pose \in DOMAIN P'
  BY <1>1, SeqOfMore
<1>6. Append(StationsAt(pose), station) \in Seq(DOMAIN S')
  <2>1. StationsAt(pose) \in Seq(DOMAIN S')
    BY <1>4, <1>5
  <2> QED
    BY <1>5, <2>1
<1>7. deck_pose_data_' \in [DOMAIN P' -> Seq(DOMAIN S')]
  <2>1. \A k \in DOMAIN P : deck_pose_data_[k] \in Seq(DOMAIN S')
    BY <1>2, <1>5
  <2> DEFINE stations == Append(StationsAt(pose), station)
  <2> HIDE DEF stations
  <2>2. Put(deck_pose_data_, pose, stations) \in [{pose} \cup DOMAIN P -> Seq(DOMAIN S')]
    BY <1>2, <1>6, <2>1 DEF Put, stations
  <2> QED
    BY <1>1, <1>3, <2>2 DEF stations
<1>8. station_ids_' \in Seq(DOMAIN S')
  <2>1. station_ids_ \in Seq(DOMAIN S')
    BY <1>2, <1>5
  <2> QED
    BY <1>3, <1>5, <2>1
<1>9. first_deck_pose_id_' \in DOMAIN P' \cup {NoDeckPose}
  BY <1>1, <1>2, <1>3
<1> QED
  BY <1>7, <1>8, <1>9 DEF DataInv, S, P

\* A sample that is joined already means the same nodes after another one is added.
LEMMA AddSampleEdges ==
    ASSUME OptimizerInv,
           NEW station \in Station, NEW pose \in DeckPose, NEW cost \in Cost, NEW solved \in BOOLEAN,
           AddSample(station, pose, cost, solved)
    PROVE  EdgesInv' /\ JoinedInv'
<1> DEFINE S == station_id_to_unified_id_
           P == deck_pose_id_to_unified_id_
           new == [station |-> station, pose |-> pose, cost |-> cost]
<1>1. /\ IdsInv'
      /\ next_unified_id_ <= next_unified_id_'
      /\ DOMAIN S' = {station} \cup DOMAIN S
      /\ DOMAIN P' = {pose} \cup DOMAIN P
      /\ \A k \in DOMAIN S : S'[k] = S[k]
      /\ \A k \in DOMAIN P : P'[k] = P[k]
  BY AddSampleIds DEF OptimizerInv, AddSample
<1>2. next_unified_id_ \in Nat /\ next_unified_id_' \in Nat
  BY <1>1 DEF OptimizerInv, IdsInv, IdsOK
<1>3. Nodes \subseteq Nodes' /\ Nodes' \subseteq Nat
  <2> HIDE DEF S, P, new
  <2>1. next_unified_id_ <= next_unified_id_'
    BY <1>1
  <2> QED
    BY <1>2, <2>1, MoreNodes DEF Nodes
<1>4. S'[station] \in Nodes' /\ P'[pose] \in Nodes'
  <2>1. /\ S' \in [DOMAIN S' -> 0 .. next_unified_id_' - 1]
        /\ P' \in [DOMAIN P' -> 0 .. next_unified_id_' - 1]
    BY <1>1 DEF IdsInv, IdsOK
  <2>2. station \in DOMAIN S' /\ pose \in DOMAIN P'
    BY <1>1
  <2> QED
    BY <2>1, <2>2 DEF Nodes
<1>5. joined \subseteq joined' /\ \A sample \in joined' : sample \in joined \/ sample = new
  BY DEF AddSample
<1>6. \A sample \in joined :
         /\ StationNode(sample)' = StationNode(sample) /\ PoseNode(sample)' = PoseNode(sample)
         /\ sample.station \in DOMAIN S' /\ sample.pose \in DOMAIN P'
  BY <1>1 DEF OptimizerInv, JoinedInv, StationNode, PoseNode
<1>7. SampledEdges \subseteq SampledEdges'
  <2>1. SUFFICES ASSUME NEW edge \in SampledEdges PROVE edge \in SampledEdges'
    OBVIOUS
  <2>2. edge \in Edge /\ edge.destination_id \in Nodes' /\ IsSampled(edge)
    BY <1>3 DEF SampledEdges
  <2>3. PICK sample \in joined :
           /\ edge.cost = sample.cost
           /\ {edge.source_id, edge.destination_id} = {StationNode(sample), PoseNode(sample)}
    BY <2>2 DEF IsSampled
  <2>4. IsSampled(edge)'
    BY <1>5, <1>6, <2>3 DEF IsSampled
  <2> QED
    BY <2>2, <2>4 DEF SampledEdges
<1>8. /\ adjacency_map_ \in [DOMAIN adjacency_map_ -> Seq(SampledEdges')]
      /\ DOMAIN adjacency_map_ \subseteq Nodes' /\ AtSource(adjacency_map_)
  <2>1. Seq(SampledEdges) \subseteq Seq(SampledEdges')
    BY <1>7, SeqOfMore
  <2> QED
    BY <1>3, <2>1 DEF OptimizerInv, EdgesInv
<1>9. ASSUME NEW sample \in joined
      PROVE  IsKnown(sample.station)'
  <2>1. IsKnown(sample.station)
    BY DEF OptimizerInv, JoinedInv
  <2>2. station_ids_ \in Seq(DOMAIN S)
    BY DEF OptimizerInv, DataInv
  <2>3. station_ids_' = station_ids_ \/ station_ids_' = Append(station_ids_, station)
    BY DEF AddSample
  <2> QED
    BY <2>1, <2>2, <2>3 DEF IsKnown
<1>10. CASE ~ solved
  <2>1. adjacency_map_' = adjacency_map_ /\ joined' = joined
    BY <1>10 DEF AddSample, addSample
  <2>2. EdgesInv'
    BY <1>8, <2>1 DEF EdgesInv
  <2>3. JoinedInv'
    BY <1>6, <1>9, <2>1 DEF OptimizerInv, JoinedInv
  <2> QED
    BY <2>2, <2>3
<1>11. CASE solved
  <2>0. PICK m, n : m = P'[pose] /\ n = S'[station]
    OBVIOUS
  <2> DEFINE there == [source_id |-> m, destination_id |-> n, cost |-> cost]
             back == [source_id |-> n, destination_id |-> m, cost |-> cost]
             half == addGraphEdge(adjacency_map_, m, n, cost)
  <2>1. adjacency_map_' = addGraphEdge(half, n, m, cost) /\ joined' = joined \cup {new}
    BY <1>11, <2>0 DEF AddSample, addSample
  <2>2. there \in SampledEdges' /\ back \in SampledEdges'
    <3>1. cost \in Nat
      BY GraphAssumption
    <3>2. there \in Edge /\ back \in Edge
      BY <1>3, <1>4, <2>0, <3>1 DEF Edge
    <3>3. StationNode(new)' = n /\ PoseNode(new)' = m /\ new.cost = cost /\ new \in joined'
      BY <2>0, <2>1 DEF StationNode, PoseNode
    <3>4. /\ there.cost = cost /\ there.source_id = m /\ there.destination_id = n
          /\ back.cost = cost /\ back.source_id = n /\ back.destination_id = m
      OBVIOUS
    <3> HIDE DEF there, back, new, S, P
    <3>5. IsSampled(there)'
      BY <3>3, <3>4 DEF IsSampled
    <3>6. IsSampled(back)'
      BY <3>3, <3>4 DEF IsSampled
    <3>7. there \in SampledEdges'
      BY <1>4, <2>0, <3>2, <3>4, <3>5 DEF SampledEdges
    <3>8. back \in SampledEdges'
      BY <1>4, <2>0, <3>2, <3>4, <3>6 DEF SampledEdges
    <3> QED
      BY <3>7, <3>8
  <2> HIDE DEF there, back, half
  <2>3. /\ half \in [DOMAIN half -> Seq(SampledEdges')]
        /\ DOMAIN half = {m} \cup DOMAIN adjacency_map_
        /\ AtSource(half)
        /\ HasEdge(half, m, n, cost)
        /\ \A k, l, c : HasEdge(adjacency_map_, k, l, c) => HasEdge(half, k, l, c)
    BY <1>8, <2>2, AddedEdge DEF there, half
  <2>4. /\ adjacency_map_' \in [DOMAIN adjacency_map_' -> Seq(SampledEdges')]
        /\ DOMAIN adjacency_map_' = {n} \cup DOMAIN half
        /\ AtSource(adjacency_map_')
        /\ HasEdge(adjacency_map_', n, m, cost)
        /\ \A k, l, c : HasEdge(half, k, l, c) => HasEdge(adjacency_map_', k, l, c)
    <3> DEFINE whole == addGraphEdge(half, n, m, cost)
    <3>1. /\ whole \in [DOMAIN whole -> Seq(SampledEdges')]
          /\ DOMAIN whole = {n} \cup DOMAIN half
          /\ AtSource(whole)
          /\ HasEdge(whole, n, m, cost)
          /\ \A k, l, c : HasEdge(half, k, l, c) => HasEdge(whole, k, l, c)
      BY <2>2, <2>3, AddedEdge DEF back
    <3>2. adjacency_map_' = whole
      BY <2>1
    <3> HIDE DEF whole
    <3> QED
      BY <3>1, <3>2
  <2>5. EdgesInv'
    BY <1>4, <1>8, <2>0, <2>3, <2>4 DEF EdgesInv
  <2>6. ASSUME NEW sample \in joined'
        PROVE  /\ sample.station \in DOMAIN S' /\ sample.pose \in DOMAIN P'
               /\ IsKnown(sample.station)'
               /\ HasEdge(adjacency_map_, PoseNode(sample), StationNode(sample), sample.cost)'
               /\ HasEdge(adjacency_map_, StationNode(sample), PoseNode(sample), sample.cost)'
    <3>1. CASE sample \in joined
      <4>1. /\ HasEdge(adjacency_map_, PoseNode(sample), StationNode(sample), sample.cost)
            /\ HasEdge(adjacency_map_, StationNode(sample), PoseNode(sample), sample.cost)
        BY <3>1 DEF OptimizerInv, JoinedInv
      <4>2. /\ HasEdge(adjacency_map_', PoseNode(sample), StationNode(sample), sample.cost)
            /\ HasEdge(adjacency_map_', StationNode(sample), PoseNode(sample), sample.cost)
        BY <2>3, <2>4, <4>1
      <4> QED
        BY <1>6, <1>9, <3>1, <4>2 DEF HasEdge, EdgesOf
    <3>2. CASE sample = new
      <4>1. /\ sample.station = station /\ sample.pose = pose /\ sample.cost = cost
            /\ StationNode(sample)' = n /\ PoseNode(sample)' = m
        BY <2>0, <3>2 DEF StationNode, PoseNode
      <4>2. /\ HasEdge(adjacency_map_', m, n, cost)
            /\ HasEdge(adjacency_map_', n, m, cost)
        BY <2>3, <2>4
      <4>3. IsKnown(station)'
        <5>1. station_ids_ \in Seq(DOMAIN S)
          BY DEF OptimizerInv, DataInv
        <5>2. station_ids_' = IF ~ IsKnown(station) THEN Append(station_ids_, station) ELSE station_ids_
          BY <1>11 DEF AddSample
        <5> QED
          BY <5>1, <5>2 DEF IsKnown
      <4> QED
        BY <1>1, <4>1, <4>2, <4>3 DEF HasEdge, EdgesOf
    <3> QED
      BY <1>5, <3>1, <3>2
  <2>7. JoinedInv'
    BY <2>6 DEF JoinedInv
  <2> QED
    BY <2>5, <2>7
<1> QED
  BY <1>10, <1>11

LEMMA AddSampleKeeps ==
    ASSUME OptimizerInv,
           NEW station \in Station, NEW pose \in DeckPose, NEW cost \in Cost, NEW solved \in BOOLEAN,
           AddSample(station, pose, cost, solved)
    PROVE  OptimizerInv'
<1>1. IdsInv'
  BY AddSampleIds DEF OptimizerInv, AddSample
<1>2. DataInv' /\ EdgesInv' /\ JoinedInv'
  BY AddSampleData, AddSampleEdges
<1>3. SearchInv'
  <2>1. /\ UNCHANGED searchVars
        /\ stage = "idle" /\ stage' = "idle" /\ answer' = "none"
    BY DEF AddSample
  <2>2. SearchTypeOK
    BY DEF OptimizerInv, SearchInv
  <2> QED
    BY <2>1, <2>2 DEF SearchInv, SearchTypeOK, searchVars
<1> QED
  BY <1>1, <1>2, <1>3 DEF OptimizerInv

----------------------------------------------------------------------------
\* Searching.

\* solve leaves the samples alone.
Frame == UNCHANGED <<graphVars, deck_pose_data_, station_ids_, joined>>

LEMMA FrameKeeps ==
    ASSUME IdsInv, DataInv, EdgesInv, JoinedInv, Frame
    PROVE  IdsInv' /\ DataInv' /\ EdgesInv' /\ JoinedInv'
<1>1. /\ next_unified_id_' = next_unified_id_
      /\ station_id_to_unified_id_' = station_id_to_unified_id_
      /\ deck_pose_id_to_unified_id_' = deck_pose_id_to_unified_id_
      /\ adjacency_map_' = adjacency_map_ /\ first_deck_pose_id_' = first_deck_pose_id_
      /\ deck_pose_data_' = deck_pose_data_ /\ station_ids_' = station_ids_ /\ joined' = joined
  BY DEF Frame, graphVars
<1>2. IdsInv'
  BY <1>1 DEF IdsInv, IdsOK
<1>3. DataInv'
  BY <1>1 DEF DataInv
<1>4. EdgesInv'
  BY <1>1 DEF EdgesInv, AtSource, SampledEdges, Nodes, IsSampled, StationNode, PoseNode
<1>5. JoinedInv'
  BY <1>1 DEF JoinedInv, IsKnown, HasEdge, EdgesOf, StationNode, PoseNode
<1> QED
  BY <1>2, <1>3, <1>4, <1>5

LEMMA FrameSame ==
    ASSUME Frame
    PROVE  /\ root_id' = root_id /\ Nodes' = Nodes /\ SampledEdges' = SampledEdges
           /\ \A n : EdgesOf(adjacency_map_, n)' = EdgesOf(adjacency_map_, n)
           /\ \A chain, n : LeadsTo(chain, n)' <=> LeadsTo(chain, n)
<1>1. /\ next_unified_id_' = next_unified_id_
      /\ station_id_to_unified_id_' = station_id_to_unified_id_
      /\ deck_pose_id_to_unified_id_' = deck_pose_id_to_unified_id_
      /\ adjacency_map_' = adjacency_map_ /\ first_deck_pose_id_' = first_deck_pose_id_
      /\ joined' = joined
  BY DEF Frame, graphVars
<1>2. root_id' = root_id
  BY <1>1 DEF root_id
<1>3. Nodes' = Nodes /\ SampledEdges' = SampledEdges
  BY <1>1 DEF SampledEdges, Nodes, IsSampled, StationNode, PoseNode
<1>4. \A n : EdgesOf(adjacency_map_, n)' = EdgesOf(adjacency_map_, n)
  BY <1>1 DEF EdgesOf
<1>5. \A chain, n : LeadsTo(chain, n)' <=> LeadsTo(chain, n)
  BY <1>2 DEF LeadsTo
<1> QED
  BY <1>2, <1>3, <1>4, <1>5

\* The edges of a node, and their number.
LEMMA EdgesTyped ==
    ASSUME EdgesInv, NEW n
    PROVE  /\ EdgesOf(adjacency_map_, n) \in Seq(SampledEdges)
           /\ Len(EdgesOf(adjacency_map_, n)) \in Nat
           /\ \A i \in 1 .. Len(EdgesOf(adjacency_map_, n)) :
                 EdgesOf(adjacency_map_, n)[i].source_id = n
<1>1. CASE n \in DOMAIN adjacency_map_
  BY <1>1 DEF EdgesInv, EdgesOf, AtSource
<1>2. CASE n \notin DOMAIN adjacency_map_
  BY <1>2 DEF EdgesOf
<1> QED
  BY <1>1, <1>2

\* The root is a node, and not a station's.
LEMMA RootIsPose ==
    ASSUME IdsInv, DataInv, first_deck_pose_id_ # NoDeckPose
    PROVE  /\ first_deck_pose_id_ \in DOMAIN deck_pose_id_to_unified_id_
           /\ root_id \in Nodes
  BY DEF IdsInv, IdsOK, DataInv, root_id, Nodes

LEMMA NoEdgeNoCost ==
    /\ <<>> \in Seq(SampledEdges) /\ Len(<<>>) = 0
    /\ CostUpTo(<<>>)[0] = 0
<1>1. <<>> \in Seq(Edge) /\ <<>> \in Seq(SampledEdges) /\ Len(<<>>) = 0
  OBVIOUS
<1>2. CostUpTo(<<>>)[0] = 0
  BY <1>1, CostAddsUp
<1> QED
  BY <1>1, <1>2

LEMMA SolveKeeps ==
    ASSUME OptimizerInv, Solve
    PROVE  OptimizerInv'
<1>1. Frame /\ IdsInv /\ DataInv /\ EdgesInv /\ JoinedInv /\ SearchTypeOK
  BY DEF Solve, Frame, OptimizerInv, SearchInv
<1>2. IdsInv' /\ DataInv' /\ EdgesInv' /\ JoinedInv'
  BY <1>1, FrameKeeps
<1>3. CASE first_deck_pose_id_ = NoDeckPose
  <2>1. UNCHANGED <<searchVars, stage>> /\ answer' = "no samples" /\ stage = "idle"
    BY <1>3 DEF Solve
  <2> QED
    BY <1>1, <1>2, <2>1 DEF SearchInv, SearchTypeOK, searchVars, OptimizerInv
<1>4. CASE first_deck_pose_id_ # NoDeckPose
  <2>1. BeginSearch /\ stage' = "search" /\ answer' = "none"
    BY <1>4 DEF Solve
  <2>2. root_id \in Nodes /\ Nodes \subseteq Nat
    <3>1. Nodes \subseteq Nat
      BY <1>1 DEF IdsInv, IdsOK, Nodes
    <3> QED
      BY <1>1, <1>4, <3>1, RootIsPose
  <2>3. /\ root_id' = root_id /\ Nodes' = Nodes /\ SampledEdges' = SampledEdges
        /\ \A n : EdgesOf(adjacency_map_, n)' = EdgesOf(adjacency_map_, n)
        /\ first_deck_pose_id_' = first_deck_pose_id_
    BY <1>1, FrameSame DEF Frame, graphVars
  <2>4. Len(EdgesOf(adjacency_map_, root_id)) \in Nat
    BY <1>1, EdgesTyped
  <2>5. PICK root : root = root_id
    OBVIOUS
  <2>6. /\ DOMAIN best_cost' = {root} /\ best_cost'[root] = 0
        /\ best_cost' = [n \in {root} |-> best_cost'[n]]
        /\ DOMAIN pose_from_root' = {root} /\ pose_from_root'[root] = <<>>
        /\ pose_from_root' = [n \in {root} |-> pose_from_root'[n]]
    BY <2>1, <2>5 DEF BeginSearch, Put, Empty
  <2>7. /\ queue' = {<<0, root>>} /\ current' = <<0, root>>
        /\ edges_done' = Len(EdgesOf(adjacency_map_, root))
    BY <2>1, <2>5 DEF BeginSearch
  <2>8. SearchTypeOK'
    BY <2>1, <2>2, <2>4, <2>5, <2>6, <2>7 DEF SearchTypeOK
  <2>9. GoodChain(<<>>, root)'
    <3>1. LeadsTo(<<>>, root)'
      BY <2>3, <2>5 DEF LeadsTo
    <3>2. <<>> \in Seq(SampledEdges') /\ CostUpTo(<<>>)[Len(<<>>)] = 0
      BY NoEdgeNoCost
    <3> QED
      BY <2>6, <3>1, <3>2 DEF GoodChain
  <2>10. Searching'
    <3>1. (first_deck_pose_id_ # NoDeckPose)'
      BY <1>4, <2>3
    <3>2. root_id' \in DOMAIN best_cost' /\ DOMAIN best_cost' \subseteq Nodes'
      BY <2>2, <2>3, <2>5, <2>6
    <3>3. \A n \in DOMAIN best_cost' : GoodChain(pose_from_root[n], n)'
      BY <2>6, <2>9
    <3>4. \A pair \in queue' : pair[2] \in DOMAIN best_cost' /\ best_cost'[pair[2]] <= pair[1]
      BY <2>6, <2>7
    <3>5. current'[2] \in DOMAIN best_cost' /\ (InLoop => current[1] = best_cost[current[2]])'
      BY <2>6, <2>7
    <3>6. ASSUME NEW n \in DOMAIN best_cost', NEW i
          PROVE  Relaxed(n, i)'
      BY <2>6, <2>7 DEF Relaxed
    <3> QED
      BY <3>1, <3>2, <3>3, <3>4, <3>5, <3>6 DEF Searching
  <2>11. SearchInv'
    BY <2>1, <2>8, <2>10 DEF SearchInv
  <2> QED
    BY <1>2, <2>11 DEF OptimizerInv
<1> QED
  BY <1>3, <1>4

\* A chain goes on at the node it leads to.
LEMMA ChainGrows ==
    ASSUME NEW chain \in Seq(SampledEdges), NEW edge \in SampledEdges,
           LeadsTo(chain, edge.source_id)
    PROVE  LeadsTo(Append(chain, edge), edge.destination_id)
<1> DEFINE longer == Append(chain, edge)
           at(c, i) == IF i = 0 THEN root_id ELSE c[i].destination_id
<1>1. /\ Len(chain) \in Nat /\ Len(longer) = Len(chain) + 1
      /\ \A i \in 1 .. Len(chain) : longer[i] = chain[i]
      /\ longer[Len(chain) + 1] = edge
  OBVIOUS
<1>2. /\ at(chain, Len(chain)) = edge.source_id
      /\ \A i \in 1 .. Len(chain) : chain[i].source_id = at(chain, i - 1)
  BY DEF LeadsTo
<1> HIDE DEF longer
<1>3. \A i \in 0 .. Len(chain) : at(longer, i) = at(chain, i)
  BY <1>1
<1>4. at(longer, Len(longer)) = edge.destination_id
  BY <1>1
<1>5. ASSUME NEW i \in 1 .. Len(longer)
      PROVE  longer[i].source_id = at(longer, i - 1)
  <2>1. CASE i \in 1 .. Len(chain)
    <3>1. i - 1 \in 0 .. Len(chain)
      BY <1>1, <2>1
    <3>2. at(longer, i - 1) = at(chain, i - 1) /\ longer[i] = chain[i]
      BY <1>1, <1>3, <2>1, <3>1
    <3>3. chain[i].source_id = at(chain, i - 1)
      BY <1>2, <2>1
    <3> HIDE DEF at
    <3> QED
      BY <3>2, <3>3
  <2>2. CASE i = Len(chain) + 1
    <3>1. i - 1 = Len(chain) /\ Len(chain) \in 0 .. Len(chain)
      BY <1>1, <2>2
    <3>2. at(longer, i - 1) = at(chain, Len(chain))
      BY <1>3, <3>1
    <3> HIDE DEF at
    <3> QED
      BY <1>1, <1>2, <2>2, <3>2
  <2> QED
    BY <1>1, <2>1, <2>2
<1>6. LeadsTo(longer, edge.destination_id)
  BY <1>4, <1>5 DEF LeadsTo
<1> QED
  BY <1>6 DEF longer

LEMMA PopKeeps ==
    ASSUME OptimizerInv, Frame, PopNode, stage = "search", UNCHANGED <<stage, answer>>
    PROVE  OptimizerInv'
<1>1. IdsInv /\ DataInv /\ EdgesInv /\ JoinedInv /\ SearchTypeOK /\ Searching
  BY DEF OptimizerInv, SearchInv
<1>2. IdsInv' /\ DataInv' /\ EdgesInv' /\ JoinedInv'
  BY <1>1, FrameKeeps
<1>3. /\ root_id' = root_id /\ Nodes' = Nodes /\ SampledEdges' = SampledEdges
      /\ \A n : EdgesOf(adjacency_map_, n)' = EdgesOf(adjacency_map_, n)
      /\ \A chain, n : LeadsTo(chain, n)' <=> LeadsTo(chain, n)
      /\ first_deck_pose_id_' = first_deck_pose_id_ /\ adjacency_map_' = adjacency_map_
  BY FrameSame DEF Frame, graphVars
<1>4. /\ ~ InLoop /\ best_cost' = best_cost /\ pose_from_root' = pose_from_root
      /\ stage' = stage /\ answer' = answer
  BY DEF PopNode
<1>5. PICK pair \in queue :
         /\ queue' = queue \ {pair}
         /\ current' = pair
         /\ edges_done' = IF pair[1] > best_cost[pair[2]]
                          THEN Len(EdgesOf(adjacency_map_, pair[2])) ELSE 0
  BY DEF PopNode
<1>6. /\ pair \in Nat \X Nat /\ pair = <<pair[1], pair[2]>> /\ pair[1] \in Nat
      /\ pair[2] \in DOMAIN best_cost /\ best_cost[pair[2]] <= pair[1]
      /\ best_cost[pair[2]] \in Nat
  <2>1. queue \subseteq Nat \X Nat /\ best_cost \in [DOMAIN best_cost -> Nat]
    BY <1>1 DEF SearchTypeOK
  <2>2. pair[2] \in DOMAIN best_cost /\ best_cost[pair[2]] <= pair[1]
    BY <1>1 DEF Searching
  <2>3. pair \in Nat \X Nat
    BY <2>1
  <2>4. pair = <<pair[1], pair[2]>> /\ pair[1] \in Nat
    BY <2>3
  <2> QED
    BY <2>1, <2>2, <2>3, <2>4
<1>7. Len(EdgesOf(adjacency_map_, pair[2])) \in Nat
  BY <1>1, EdgesTyped
<1>8. edges_done' \in Nat
  BY <1>5, <1>7
<1>9. SearchTypeOK'
  BY <1>1, <1>4, <1>5, <1>6, <1>8 DEF SearchTypeOK
<1>10. \A n \in DOMAIN best_cost : GoodChain(pose_from_root[n], n)'
  BY <1>1, <1>3, <1>4 DEF Searching, GoodChain
<1>11. InLoop' => current'[1] = best_cost'[current'[2]]
  <2>1. SUFFICES ASSUME InLoop' PROVE pair[1] = best_cost[pair[2]]
    BY <1>4, <1>5
  <2>2. edges_done' < Len(EdgesOf(adjacency_map_, pair[2]))
    BY <1>3, <1>5, <2>1 DEF InLoop, EdgesOf
  <2>3. ~ (pair[1] > best_cost[pair[2]])
    BY <1>5, <1>7, <2>2
  <2> QED
    BY <1>6, <2>3
<1>12. ASSUME NEW n \in DOMAIN best_cost, NEW i \in 1 .. Len(EdgesOf(adjacency_map_, n))
       PROVE  Relaxed(n, i)'
  <2> DEFINE edge == EdgesOf(adjacency_map_, n)[i]
             used == /\ edge.destination_id \in DOMAIN best_cost
                     /\ best_cost[edge.destination_id] <= best_cost[n] + edge.cost
  <2>1. Relaxed(n, i)' <=> \/ used
                           \/ <<best_cost[n], n>> \in queue'
                           \/ n = pair[2] /\ i > edges_done'
    BY <1>3, <1>4, <1>5 DEF Relaxed
  <2>2. used \/ <<best_cost[n], n>> \in queue \/ (n = current[2] /\ i > edges_done)
    BY <1>1 DEF Searching, Relaxed
  <2> HIDE DEF used, edge
  <2>3. ~ (n = current[2] /\ i > edges_done)
    <3>1. SUFFICES ASSUME n = current[2], i > edges_done PROVE FALSE
      OBVIOUS
    <3>2. Len(EdgesOf(adjacency_map_, n)) \in Nat /\ edges_done \in Nat
      BY <1>1, EdgesTyped DEF SearchTypeOK
    <3>3. ~ (edges_done < Len(EdgesOf(adjacency_map_, n)))
      BY <1>4, <3>1 DEF InLoop
    <3> QED
      BY <3>1, <3>2, <3>3
  <2>4. CASE <<best_cost[n], n>> = pair
    <3>1. n = pair[2] /\ ~ (pair[1] > best_cost[pair[2]])
      BY <1>6, <2>4
    <3>2. edges_done' = 0
      BY <1>5, <3>1
    <3> QED
      BY <2>1, <3>1, <3>2
  <2>5. CASE <<best_cost[n], n>> # pair
    BY <1>5, <2>1, <2>2, <2>3, <2>5
  <2> QED
    BY <2>4, <2>5
<1>13. Searching'
  <2>1. (first_deck_pose_id_ # NoDeckPose)' /\ root_id' \in DOMAIN best_cost'
        /\ DOMAIN best_cost' \subseteq Nodes'
    BY <1>1, <1>3, <1>4 DEF Searching
  <2>2. \A n \in DOMAIN best_cost' : GoodChain(pose_from_root[n], n)'
    BY <1>4, <1>10
  <2>3. \A p \in queue' : p[2] \in DOMAIN best_cost' /\ best_cost'[p[2]] <= p[1]
    BY <1>1, <1>4, <1>5 DEF Searching
  <2>4. current'[2] \in DOMAIN best_cost'
    BY <1>4, <1>5, <1>6
  <2>5. \A n \in DOMAIN best_cost' : \A i \in 1 .. Len(EdgesOf(adjacency_map_, n)') : Relaxed(n, i)'
    BY <1>3, <1>4, <1>12
  <2> QED
    BY <1>11, <2>1, <2>2, <2>3, <2>4, <2>5 DEF Searching
<1>14. SearchInv'
  BY <1>4, <1>9, <1>13 DEF SearchInv
<1> QED
  BY <1>2, <1>14 DEF OptimizerInv

LEMMA RelaxKeeps ==
    ASSUME OptimizerInv, Frame, RelaxEdge, stage = "search", UNCHANGED <<stage, answer>>
    PROVE  OptimizerInv'
<1>1. IdsInv /\ DataInv /\ EdgesInv /\ JoinedInv /\ SearchTypeOK /\ Searching
  BY DEF OptimizerInv, SearchInv
<1>2. IdsInv' /\ DataInv' /\ EdgesInv' /\ JoinedInv'
  BY <1>1, FrameKeeps
<1>3. /\ root_id' = root_id /\ Nodes' = Nodes /\ SampledEdges' = SampledEdges
      /\ \A n : EdgesOf(adjacency_map_, n)' = EdgesOf(adjacency_map_, n)
      /\ \A chain, n : LeadsTo(chain, n)' <=> LeadsTo(chain, n)
      /\ first_deck_pose_id_' = first_deck_pose_id_ /\ adjacency_map_' = adjacency_map_
  BY FrameSame DEF Frame, graphVars
<1>4. PICK here : here = current[2]
  OBVIOUS
<1>5. PICK edge : edge = EdgesOf(adjacency_map_, here)[edges_done + 1]
  OBVIOUS
<1>6. PICK node : node = edge.destination_id
  OBVIOUS
<1>7. PICK new_cost : new_cost = current[1] + edge.cost
  OBVIOUS
<1>8. edges_done < Len(EdgesOf(adjacency_map_, here))
  BY <1>4 DEF RelaxEdge, InLoop
<1>9. /\ edge \in SampledEdges /\ edge.source_id = here
      /\ edges_done \in Nat
      /\ edge = adjacency_map_[here][edges_done + 1]
  <2>1. /\ EdgesOf(adjacency_map_, here) \in Seq(SampledEdges)
        /\ Len(EdgesOf(adjacency_map_, here)) \in Nat
        /\ \A i \in 1 .. Len(EdgesOf(adjacency_map_, here)) :
              EdgesOf(adjacency_map_, here)[i].source_id = here
    BY <1>1, EdgesTyped
  <2>2. edges_done \in Nat /\ edges_done + 1 \in 1 .. Len(EdgesOf(adjacency_map_, here))
    <3>1. edges_done \in Nat
      BY <1>1 DEF SearchTypeOK
    <3> QED
      BY <1>8, <2>1, <3>1
  <2>3. here \in DOMAIN adjacency_map_
    BY <1>8, <2>2 DEF EdgesOf
  <2> QED
    BY <1>5, <2>1, <2>2, <2>3 DEF EdgesOf
<1>10. /\ edge \in Edge /\ edge.cost \in Nat /\ node \in Nodes /\ node \in Nat
  <2>1. edge \in Edge /\ node \in Nodes
    BY <1>6, <1>9 DEF SampledEdges
  <2> QED
    BY <1>6, <2>1 DEF Edge
<1>11. /\ here \in DOMAIN best_cost /\ current[1] = best_cost[here] /\ best_cost[here] \in Nat
       /\ new_cost = best_cost[here] + edge.cost /\ new_cost \in Nat
  <2>1. here \in DOMAIN best_cost /\ current[1] = best_cost[here]
    BY <1>1, <1>4 DEF RelaxEdge, Searching
  <2>2. best_cost[here] \in Nat
    BY <1>1, <2>1 DEF SearchTypeOK
  <2> QED
    BY <1>7, <1>10, <2>1, <2>2
<1>12. /\ edges_done' = edges_done + 1 /\ current' = current
       /\ stage' = stage /\ answer' = answer
       /\ IF IsBetter(node, new_cost)
          THEN /\ best_cost' = Put(best_cost, node, new_cost)
               /\ pose_from_root' = Put(pose_from_root, node, Append(pose_from_root[here], edge))
               /\ queue' = queue \cup {<<new_cost, node>>}
          ELSE best_cost' = best_cost /\ pose_from_root' = pose_from_root /\ queue' = queue
  BY <1>4, <1>6, <1>7, <1>9 DEF RelaxEdge
<1>13. ASSUME NEW n \in DOMAIN best_cost
       PROVE  best_cost[n] \in Nat
  BY <1>1 DEF SearchTypeOK
<1>14. CASE ~ IsBetter(node, new_cost)
  <2>1. best_cost' = best_cost /\ pose_from_root' = pose_from_root /\ queue' = queue
    BY <1>12, <1>14
  <2>2. node \in DOMAIN best_cost /\ best_cost[node] <= new_cost
    BY <1>11, <1>13, <1>14 DEF IsBetter
  <2>3. SearchTypeOK'
    <3>1. edges_done' \in Nat
      BY <1>9, <1>12
    <3> QED
      BY <1>1, <1>12, <2>1, <3>1 DEF SearchTypeOK
  <2>4. ASSUME NEW n \in DOMAIN best_cost, NEW i \in 1 .. Len(EdgesOf(adjacency_map_, n))
        PROVE  Relaxed(n, i)'
    <3> DEFINE e == EdgesOf(adjacency_map_, n)[i]
               used == /\ e.destination_id \in DOMAIN best_cost
                       /\ best_cost[e.destination_id] <= best_cost[n] + e.cost
    <3>1. Relaxed(n, i)' <=> \/ used
                             \/ <<best_cost[n], n>> \in queue
                             \/ n = here /\ i > edges_done + 1
      BY <1>3, <1>4, <1>12, <2>1 DEF Relaxed
    <3>2. used \/ <<best_cost[n], n>> \in queue \/ (n = here /\ i > edges_done)
      BY <1>1, <1>4 DEF Searching, Relaxed
    <3>3. CASE n = here /\ i = edges_done + 1
      BY <1>5, <1>6, <1>11, <2>2, <3>1, <3>3
    <3>4. CASE ~ (n = here /\ i = edges_done + 1)
      <4> HIDE DEF used
      <4>1. n = here /\ i > edges_done => i > edges_done + 1
        BY <1>9, <3>4
      <4> QED
        BY <3>1, <3>2, <4>1
    <3> QED
      BY <3>3, <3>4
  <2>5. Searching'
    <3>1. (first_deck_pose_id_ # NoDeckPose)' /\ root_id' \in DOMAIN best_cost'
          /\ DOMAIN best_cost' \subseteq Nodes'
      BY <1>1, <1>3, <2>1 DEF Searching
    <3>2. \A n \in DOMAIN best_cost' : GoodChain(pose_from_root[n], n)'
      BY <1>1, <1>3, <2>1 DEF Searching, GoodChain
    <3>3. \A p \in queue' : p[2] \in DOMAIN best_cost' /\ best_cost'[p[2]] <= p[1]
      BY <1>1, <2>1 DEF Searching
    <3>4. current'[2] \in DOMAIN best_cost' /\ current'[1] = best_cost'[current'[2]]
      BY <1>4, <1>11, <1>12, <2>1
    <3>5. \A n \in DOMAIN best_cost' : \A i \in 1 .. Len(EdgesOf(adjacency_map_, n)') : Relaxed(n, i)'
      BY <1>3, <2>1, <2>4
    <3> QED
      BY <3>1, <3>2, <3>3, <3>4, <3>5 DEF Searching
  <2>6. SearchInv'
    BY <1>12, <2>3, <2>5 DEF SearchInv
  <2> QED
    BY <1>2, <2>6 DEF OptimizerInv
<1>15. CASE IsBetter(node, new_cost)
  <2>1. /\ best_cost' = Put(best_cost, node, new_cost)
        /\ pose_from_root' = Put(pose_from_root, node, Append(pose_from_root[here], edge))
        /\ queue' = queue \cup {<<new_cost, node>>}
    BY <1>12, <1>15
  <2>2. /\ DOMAIN best_cost' = {node} \cup DOMAIN best_cost
        /\ best_cost' = [n \in DOMAIN best_cost' |-> best_cost'[n]]
        /\ best_cost'[node] = new_cost
        /\ \A n \in DOMAIN best_cost : n # node => best_cost'[n] = best_cost[n]
    BY <2>1 DEF Put
  <2>3. /\ DOMAIN pose_from_root = DOMAIN best_cost
        /\ DOMAIN pose_from_root' = DOMAIN best_cost'
        /\ pose_from_root' = [n \in DOMAIN best_cost' |-> pose_from_root'[n]]
        /\ pose_from_root'[node] = Append(pose_from_root[here], edge)
        /\ \A n \in DOMAIN best_cost : n # node => pose_from_root'[n] = pose_from_root[n]
    <3>1. DOMAIN pose_from_root = DOMAIN best_cost
      BY <1>1 DEF SearchTypeOK
    <3> QED
      BY <2>1, <2>2, <3>1 DEF Put
  <2>4. /\ \A n \in DOMAIN best_cost' : best_cost'[n] \in Nat
        /\ \A n \in DOMAIN best_cost : n \in DOMAIN best_cost' /\ best_cost'[n] <= best_cost[n]
    <3>1. node \in DOMAIN best_cost => new_cost < best_cost[node]
      BY <1>15 DEF IsBetter
    <3>2. ASSUME NEW n \in DOMAIN best_cost
          PROVE  best_cost'[n] \in Nat /\ best_cost'[n] <= best_cost[n]
      BY <1>11, <1>13, <2>2, <3>1
    <3> QED
      BY <1>11, <2>2, <3>2
  <2>5. node # here
    <3>1. here \in DOMAIN best_cost /\ (node = here => new_cost < best_cost[here])
      BY <1>11, <1>15 DEF IsBetter
    <3> QED
      BY <1>10, <1>11, <3>1
  <2>6. SearchTypeOK'
    <3>1. best_cost' \in [DOMAIN best_cost' -> Nat]
      BY <2>2, <2>4
    <3>2. queue' \subseteq Nat \X Nat
      <4>1. queue \subseteq Nat \X Nat
        BY <1>1 DEF SearchTypeOK
      <4> QED
        BY <1>10, <1>11, <2>1, <4>1
    <3>3. edges_done' \in Nat
      BY <1>9, <1>12
    <3>4. current' \in Nat \X Nat /\ stage' \in {"idle", "search", "optimize"}
          /\ answer' \in {"none", "no samples", "not connected", "solved"}
      BY <1>1, <1>12 DEF SearchTypeOK
    <3> QED
      BY <2>3, <3>1, <3>2, <3>3, <3>4 DEF SearchTypeOK
  <2>7. GoodChain(pose_from_root[node], node)'
    <3>1. PICK chain : chain = pose_from_root[here]
      OBVIOUS
    <3>2. /\ chain \in Seq(SampledEdges) /\ LeadsTo(chain, here)
          /\ best_cost[here] = CostUpTo(chain)[Len(chain)]
      BY <1>1, <1>11, <3>1 DEF Searching, GoodChain
    <3>3. chain \in Seq(Edge) /\ Append(chain, edge) \in Seq(SampledEdges)
      <4>1. SampledEdges \subseteq Edge
        BY DEF SampledEdges
      <4> QED
        BY <1>9, <3>2, <4>1
    <3>4. CostUpTo(Append(chain, edge))[Len(Append(chain, edge))] = new_cost
      BY <1>10, <1>11, <3>2, <3>3, CostOfAppend
    <3>5. LeadsTo(Append(chain, edge), node)
      BY <1>6, <1>9, <3>2, ChainGrows
    <3>6. pose_from_root'[node] = Append(chain, edge)
      BY <2>3, <3>1
    <3> QED
      BY <1>3, <2>2, <3>3, <3>4, <3>5, <3>6 DEF GoodChain
  <2>8. ASSUME NEW n \in DOMAIN best_cost'
        PROVE  GoodChain(pose_from_root[n], n)'
    <3>1. CASE n # node
      <4>1. GoodChain(pose_from_root[n], n) /\ n \in DOMAIN best_cost
        BY <1>1, <2>2, <3>1 DEF Searching
      <4> QED
        BY <1>3, <2>2, <2>3, <3>1, <4>1 DEF GoodChain
    <3> QED
      BY <2>7, <3>1
  <2>9. ASSUME NEW n \in DOMAIN best_cost', NEW i \in 1 .. Len(EdgesOf(adjacency_map_, n))
        PROVE  Relaxed(n, i)'
    <3> DEFINE e == EdgesOf(adjacency_map_, n)[i]
               used == /\ e.destination_id \in DOMAIN best_cost
                       /\ best_cost[e.destination_id] <= best_cost[n] + e.cost
               still == /\ e.destination_id \in DOMAIN best_cost'
                        /\ best_cost'[e.destination_id] <= best_cost'[n] + e.cost
    <3>1. Relaxed(n, i)' <=> \/ still
                             \/ <<best_cost'[n], n>> \in queue'
                             \/ n = here /\ i > edges_done + 1
      BY <1>3, <1>4, <1>12 DEF Relaxed
    <3>2. CASE n = node
      BY <2>1, <2>2, <3>1, <3>2
    <3>3. CASE n = here /\ i = edges_done + 1
      <4>1. e = edge /\ best_cost'[n] = best_cost[here] /\ e.destination_id = node
        BY <1>5, <1>6, <1>11, <2>2, <2>5, <3>3
      <4>2. best_cost'[node] <= best_cost'[n] + e.cost
        BY <1>10, <1>11, <2>2, <4>1
      <4> QED
        BY <2>2, <3>1, <4>1, <4>2
    <3>4. CASE n # node /\ ~ (n = here /\ i = edges_done + 1)
      <4>1. n \in DOMAIN best_cost /\ best_cost'[n] = best_cost[n]
        BY <2>2, <3>4
      <4>2. used \/ <<best_cost[n], n>> \in queue \/ (n = here /\ i > edges_done)
        BY <1>1, <1>4, <4>1 DEF Searching, Relaxed
      <4>3. e \in SampledEdges /\ e.cost \in Nat
        <5>1. e \in SampledEdges
          BY <1>1, EdgesTyped
        <5> HIDE DEF e
        <5> QED
          BY <5>1 DEF SampledEdges, Edge
      <4>4. used => still
        <5> HIDE DEF e
        <5>1. SUFFICES ASSUME used PROVE still
          OBVIOUS
        <5>2. /\ e.destination_id \in DOMAIN best_cost'
              /\ best_cost'[e.destination_id] \in Nat
              /\ best_cost'[e.destination_id] <= best_cost[e.destination_id]
              /\ best_cost[e.destination_id] \in Nat
          BY <1>13, <2>4, <5>1
        <5>3. best_cost[n] \in Nat /\ best_cost[e.destination_id] <= best_cost[n] + e.cost
          BY <1>13, <4>1, <5>1
        <5> QED
          BY <4>1, <4>3, <5>2, <5>3
      <4> HIDE DEF used, still, e
      <4>5. n = here /\ i > edges_done => i > edges_done + 1
        BY <1>9, <3>4
      <4>6. <<best_cost[n], n>> \in queue => <<best_cost'[n], n>> \in queue'
        BY <2>1, <4>1
      <4> QED
        BY <3>1, <4>2, <4>4, <4>5, <4>6
    <3> QED
      BY <3>2, <3>3, <3>4
  <2>10. Searching'
    <3>1. (first_deck_pose_id_ # NoDeckPose)' /\ root_id' \in DOMAIN best_cost'
          /\ DOMAIN best_cost' \subseteq Nodes'
      BY <1>1, <1>3, <1>10, <2>2 DEF Searching
    <3>2. ASSUME NEW p \in queue'
          PROVE  p[2] \in DOMAIN best_cost' /\ best_cost'[p[2]] <= p[1]
      <4>1. CASE p = <<new_cost, node>>
        BY <1>11, <2>2, <4>1
      <4>2. CASE p \in queue
        <5>1. /\ p[2] \in DOMAIN best_cost /\ best_cost[p[2]] <= p[1] /\ p[1] \in Nat
              /\ best_cost[p[2]] \in Nat
          BY <1>1, <4>2 DEF Searching, SearchTypeOK
        <5> QED
          BY <2>4, <5>1
      <4> QED
        BY <2>1, <4>1, <4>2
    <3>3. current'[2] \in DOMAIN best_cost' /\ current'[1] = best_cost'[current'[2]]
      BY <1>4, <1>11, <1>12, <2>2, <2>5
    <3>4. \A n \in DOMAIN best_cost' : \A i \in 1 .. Len(EdgesOf(adjacency_map_, n)') : Relaxed(n, i)'
      BY <1>3, <2>9
    <3> QED
      BY <2>8, <3>1, <3>2, <3>3, <3>4 DEF Searching
  <2>11. SearchInv'
    BY <1>12, <2>6, <2>10 DEF SearchInv
  <2> QED
    BY <1>2, <2>11 DEF OptimizerInv
<1> QED
  BY <1>14, <1>15

----------------------------------------------------------------------------
\* The other steps.

LEMMA NothingYet ==
    /\ DOMAIN Empty = {} /\ \A S : Empty \in [{} -> S]
    /\ IdsOK(Empty, Empty, 0)
<1>1. DOMAIN Empty = {} /\ \A S : Empty \in [{} -> S]
  BY DEF Empty
<1>2. IsFiniteSet({}) /\ Cardinality({}) = 0
  BY FS_EmptySet
<1> HIDE DEF Empty
<1>3. 0 .. 0 - 1 = {}
  OBVIOUS
<1>4. Empty \in [DOMAIN Empty -> 0 .. 0 - 1]
  BY <1>1
<1>5. /\ \A k, l \in DOMAIN Empty : Empty[k] = Empty[l] => k = l
      /\ \A k \in DOMAIN Empty, l \in DOMAIN Empty : Empty[k] # Empty[l]
  BY <1>1
<1>6. \A n \in 0 .. 0 - 1 :
         (\E k \in DOMAIN Empty : Empty[k] = n) \/ (\E k \in DOMAIN Empty : Empty[k] = n)
  BY <1>3
<1>7. 0 = Cardinality(DOMAIN Empty) + Cardinality(DOMAIN Empty) /\ IsFiniteSet(DOMAIN Empty)
  BY <1>1, <1>2
<1>8. IdsOK(Empty, Empty, 0)
  BY <1>4, <1>5, <1>6, <1>7 DEF IdsOK
<1> QED
  BY <1>1, <1>8

LEMMA InitHolds == OptimizerInit => OptimizerInv
<1> SUFFICES ASSUME OptimizerInit PROVE OptimizerInv
  OBVIOUS
<1>1. /\ next_unified_id_ = 0 /\ station_id_to_unified_id_ = Empty
      /\ deck_pose_id_to_unified_id_ = Empty /\ adjacency_map_ = Empty
      /\ first_deck_pose_id_ = NoDeckPose /\ best_cost = Empty /\ pose_from_root = Empty
      /\ queue = {} /\ current = <<0, 0>> /\ edges_done = 0
      /\ deck_pose_data_ = Empty /\ station_ids_ = <<>> /\ stage = "idle" /\ answer = "none"
      /\ joined = {}
  BY DEF OptimizerInit, GraphInit
<1>2. IdsInv
  BY <1>1, NothingYet DEF IdsInv
<1>3. DataInv
  BY <1>1, NothingYet DEF DataInv
<1>4. EdgesInv
  BY <1>1, NothingYet DEF EdgesInv, AtSource
<1>5. JoinedInv
  BY <1>1 DEF JoinedInv
<1>6. SearchTypeOK
  <2>1. pose_from_root = [n \in DOMAIN best_cost |-> pose_from_root[n]]
    BY <1>1 DEF Empty
  <2> QED
    BY <1>1, <2>1, NothingYet DEF SearchTypeOK
<1>7. SearchInv
  BY <1>1, <1>6 DEF SearchInv
<1> QED
  BY <1>2, <1>3, <1>4, <1>5, <1>7 DEF OptimizerInv

LEMMA ResetKeeps ==
    ASSUME OptimizerInv, Reset
    PROVE  OptimizerInv'
<1>1. /\ next_unified_id_' = 0 /\ station_id_to_unified_id_' = Empty
      /\ deck_pose_id_to_unified_id_' = Empty /\ adjacency_map_' = Empty
      /\ first_deck_pose_id_' = NoDeckPose
      /\ deck_pose_data_' = Empty /\ station_ids_' = <<>>
      /\ joined' = {} /\ answer' = "none" /\ UNCHANGED <<searchVars, stage>> /\ stage = "idle"
  BY DEF Reset, resetGraph
<1>2. IdsInv'
  BY <1>1, NothingYet DEF IdsInv
<1>3. DataInv'
  BY <1>1, NothingYet DEF DataInv
<1>4. EdgesInv'
  <2>1. /\ adjacency_map_' \in [DOMAIN adjacency_map_' -> Seq(SampledEdges')]
        /\ DOMAIN adjacency_map_' = {}
    BY <1>1, NothingYet
  <2> QED
    BY <2>1 DEF EdgesInv, AtSource
<1>5. JoinedInv'
  BY <1>1 DEF JoinedInv
<1>6. SearchInv'
  <2>1. SearchTypeOK
    BY DEF OptimizerInv, SearchInv
  <2> QED
    BY <1>1, <2>1 DEF SearchInv, SearchTypeOK, searchVars
<1> QED
  BY <1>2, <1>3, <1>4, <1>5, <1>6 DEF OptimizerInv

\* When solve returns, its variables are empty.
LEMMA LeaveTypes ==
    ASSUME LeaveSearch, stage' = "idle",
           answer' \in {"none", "no samples", "not connected", "solved"}
    PROVE  SearchInv'
<1>1. /\ best_cost' = Empty /\ pose_from_root' = Empty /\ queue' = {}
      /\ current' = <<0, 0>> /\ edges_done' = 0
  BY DEF LeaveSearch
<1>2. pose_from_root' = [n \in DOMAIN best_cost' |-> pose_from_root'[n]]
  BY <1>1 DEF Empty
<1>3. SearchTypeOK'
  BY <1>1, <1>2, NothingYet DEF SearchTypeOK
<1> QED
  BY <1>3 DEF SearchInv

LEMMA EndSearchKeeps ==
    ASSUME OptimizerInv, EndSearch
    PROVE  OptimizerInv'
<1>1. Frame
  BY DEF EndSearch, Frame
<1>2. IdsInv' /\ DataInv' /\ EdgesInv' /\ JoinedInv'
  BY <1>1, FrameKeeps DEF OptimizerInv
<1>3. CASE AllReached
  <2>1. /\ stage = "search" /\ SearchEnded /\ stage' = "optimize"
        /\ answer' = answer /\ UNCHANGED searchVars
    BY <1>3 DEF EndSearch
  <2>2. SearchTypeOK /\ Searching
    BY <2>1 DEF OptimizerInv, SearchInv
  <2>3. /\ best_cost' = best_cost /\ pose_from_root' = pose_from_root /\ queue' = queue
        /\ current' = current /\ edges_done' = edges_done
    BY <2>1 DEF searchVars
  <2>4. SearchTypeOK'
    BY <2>1, <2>2, <2>3 DEF SearchTypeOK
  <2>5. /\ root_id' = root_id /\ Nodes' = Nodes /\ SampledEdges' = SampledEdges
        /\ \A n : EdgesOf(adjacency_map_, n)' = EdgesOf(adjacency_map_, n)
        /\ \A chain, n : LeadsTo(chain, n)' <=> LeadsTo(chain, n)
        /\ first_deck_pose_id_' = first_deck_pose_id_ /\ adjacency_map_' = adjacency_map_
        /\ next_unified_id_' = next_unified_id_
    BY <1>1, FrameSame DEF Frame, graphVars
  <2>6. Searching'
    BY <2>2, <2>3, <2>5 DEF Searching, GoodChain, Relaxed, InLoop, EdgesOf
  <2>7. SearchEnded' /\ AllReached'
    BY <1>3, <2>1, <2>3, <2>5 DEF SearchEnded, AllReached, InLoop, EdgesOf
  <2>8. SearchInv'
    BY <2>4, <2>6, <2>7 DEF SearchInv
  <2> QED
    BY <1>2, <2>8 DEF OptimizerInv
<1>4. CASE ~ AllReached
  BY <1>2, <1>4, LeaveTypes DEF EndSearch, OptimizerInv
<1> QED
  BY <1>3, <1>4

LEMMA OptimizeKeeps ==
    ASSUME OptimizerInv, Optimize
    PROVE  OptimizerInv'
<1>1. Frame
  BY DEF Optimize, Frame
<1>2. IdsInv' /\ DataInv' /\ EdgesInv' /\ JoinedInv'
  BY <1>1, FrameKeeps DEF OptimizerInv
<1> QED
  BY <1>2, LeaveTypes DEF Optimize, OptimizerInv

LEMMA IdleKeeps ==
    ASSUME OptimizerInv, UNCHANGED optimizerVars
    PROVE  OptimizerInv'
<1>1. Frame /\ UNCHANGED searchVars /\ stage' = stage /\ answer' = answer
  BY DEF Frame, optimizerVars
<1>2. IdsInv' /\ DataInv' /\ EdgesInv' /\ JoinedInv'
  BY <1>1, FrameKeeps DEF OptimizerInv
<1>3. /\ best_cost' = best_cost /\ pose_from_root' = pose_from_root /\ queue' = queue
      /\ current' = current /\ edges_done' = edges_done
  BY <1>1 DEF searchVars
<1>4. /\ root_id' = root_id /\ Nodes' = Nodes /\ SampledEdges' = SampledEdges
      /\ \A n : EdgesOf(adjacency_map_, n)' = EdgesOf(adjacency_map_, n)
      /\ \A chain, n : LeadsTo(chain, n)' <=> LeadsTo(chain, n)
      /\ first_deck_pose_id_' = first_deck_pose_id_ /\ adjacency_map_' = adjacency_map_
      /\ next_unified_id_' = next_unified_id_
  BY <1>1, FrameSame DEF Frame, graphVars
<1>5. SearchTypeOK /\ SearchTypeOK'
  BY <1>1, <1>3 DEF OptimizerInv, SearchInv, SearchTypeOK
<1>6. Searching => Searching'
  BY <1>3, <1>4 DEF Searching, GoodChain, Relaxed, InLoop, EdgesOf
<1>7. SearchEnded /\ AllReached => SearchEnded' /\ AllReached'
  BY <1>3, <1>4 DEF SearchEnded, AllReached, InLoop, EdgesOf
<1>8. SearchInv'
  BY <1>1, <1>5, <1>6, <1>7 DEF OptimizerInv, SearchInv
<1> QED
  BY <1>2, <1>8 DEF OptimizerInv

LEMMA OptimizerInvHolds == OptimizerSpec => []OptimizerInv
<1>1. OptimizerInv /\ [OptimizerNext]_optimizerVars => OptimizerInv'
  <2> SUFFICES ASSUME OptimizerInv, [OptimizerNext]_optimizerVars
               PROVE  OptimizerInv'
    OBVIOUS
  <2>1. ASSUME NEW station \in Station, NEW pose \in DeckPose, NEW cost \in Cost,
               NEW solved \in BOOLEAN, AddSample(station, pose, cost, solved)
        PROVE  OptimizerInv'
    BY <2>1, AddSampleKeeps
  <2>2. CASE Reset
    BY <2>2, ResetKeeps
  <2>3. CASE Solve
    BY <2>3, SolveKeeps
  <2>4. CASE Search
    <3>1. Frame /\ stage = "search" /\ UNCHANGED <<stage, answer>> /\ (PopNode \/ RelaxEdge)
      BY <2>4 DEF Search, Frame
    <3> QED
      BY <3>1, PopKeeps, RelaxKeeps
  <2>5. CASE EndSearch
    BY <2>5, EndSearchKeeps
  <2>6. CASE Optimize
    BY <2>6, OptimizeKeeps
  <2>7. CASE UNCHANGED optimizerVars
    BY <2>7, IdleKeeps
  <2> QED
    BY <2>1, <2>2, <2>3, <2>4, <2>5, <2>6, <2>7 DEF OptimizerNext, SolveStep
<1> QED
  BY InitHolds, <1>1, PTL DEF OptimizerSpec

----------------------------------------------------------------------------
\* What follows.

\* The types, and that every unified id is the id of one station or one deck pose.
THEOREM GraphTypeCorrect == OptimizerSpec => []GraphTypeOK
<1>1. OptimizerInv => GraphTypeOK
  <2> SUFFICES ASSUME OptimizerInv PROVE GraphTypeOK
    OBVIOUS
  <2>1. IdsInv /\ DataInv /\ EdgesInv /\ SearchTypeOK
    BY DEF OptimizerInv, SearchInv
  <2>2. /\ next_unified_id_ \in Nat
        /\ DOMAIN station_id_to_unified_id_ \subseteq Station
        /\ DOMAIN deck_pose_id_to_unified_id_ \subseteq DeckPose
        /\ \A n \in Nodes :
              \/ \E s \in DOMAIN station_id_to_unified_id_ : station_id_to_unified_id_[s] = n
              \/ \E p \in DOMAIN deck_pose_id_to_unified_id_ : deck_pose_id_to_unified_id_[p] = n
        /\ next_unified_id_ = Cardinality(DOMAIN station_id_to_unified_id_)
                                  + Cardinality(DOMAIN deck_pose_id_to_unified_id_)
    BY <2>1 DEF IdsInv, IdsOK, Nodes
  <2>3. /\ first_deck_pose_id_ \in DOMAIN deck_pose_id_to_unified_id_ \cup {NoDeckPose}
        /\ DOMAIN deck_pose_data_ \subseteq DeckPose
    BY <2>1, <2>2 DEF DataInv
  <2>4. DOMAIN adjacency_map_ \subseteq Nodes
    BY <2>1 DEF EdgesInv
  <2>5. DOMAIN best_cost = DOMAIN pose_from_root
    BY <2>1 DEF SearchTypeOK
  <2> QED
    BY <2>1, <2>2, <2>3, <2>4, <2>5 DEF GraphTypeOK, SearchTypeOK
<1> QED
  BY OptimizerInvHolds, <1>1, PTL

\* When the search has ended and counted as many nodes as there are ids, it has reached
\* them all, and no edge would shorten a way.
LEMMA EverythingReached ==
    ASSUME OptimizerInv, stage = "optimize"
    PROVE  /\ DOMAIN best_cost = Nodes
           /\ \A n \in Nodes : \A i \in 1 .. Len(EdgesOf(adjacency_map_, n)) :
                 LET edge == EdgesOf(adjacency_map_, n)[i]
                 IN  best_cost[edge.destination_id] <= best_cost[n] + edge.cost
<1>1. Searching /\ SearchEnded /\ AllReached /\ SearchTypeOK /\ EdgesInv /\ IdsInv
  BY DEF OptimizerInv, SearchInv
<1>2. next_unified_id_ \in Nat /\ DOMAIN best_cost \subseteq Nodes
  BY <1>1 DEF IdsInv, IdsOK, Searching
<1>3. IsFiniteSet(Nodes) /\ Cardinality(Nodes) = next_unified_id_
  <2>1. IsFiniteSet(0 .. next_unified_id_ - 1)
    BY <1>2, FS_Interval
  <2>2. Cardinality(0 .. next_unified_id_ - 1)
            = IF 0 > next_unified_id_ - 1 THEN 0 ELSE next_unified_id_ - 1 - 0 + 1
    BY <1>2, FS_Interval
  <2> QED
    BY <1>2, <2>1, <2>2 DEF Nodes
<1>4. DOMAIN best_cost = Nodes
  <2>1. Cardinality(DOMAIN best_cost) = Cardinality(Nodes)
    BY <1>1, <1>3 DEF AllReached
  <2> QED
    BY <1>2, <1>3, <2>1, FS_Subset
<1>5. ASSUME NEW n \in Nodes, NEW i \in 1 .. Len(EdgesOf(adjacency_map_, n))
      PROVE  LET edge == EdgesOf(adjacency_map_, n)[i]
             IN  best_cost[edge.destination_id] <= best_cost[n] + edge.cost
  <2>1. Relaxed(n, i)
    BY <1>1, <1>4 DEF Searching
  <2>2. ~ (n = current[2] /\ i > edges_done)
    <3>1. SUFFICES ASSUME n = current[2], i > edges_done PROVE FALSE
      OBVIOUS
    <3>2. Len(EdgesOf(adjacency_map_, n)) \in Nat /\ edges_done \in Nat
      BY <1>1, EdgesTyped DEF SearchTypeOK
    <3>3. ~ (edges_done < Len(EdgesOf(adjacency_map_, n)))
      BY <1>1, <3>1 DEF SearchEnded, InLoop
    <3> QED
      BY <3>1, <3>2, <3>3
  <2>3. queue = {}
    BY <1>1 DEF SearchEnded
  <2> QED
    BY <2>1, <2>2, <2>3 DEF Relaxed
<1> QED
  BY <1>4, <1>5

\* The estimate of every node is composed along a chain of joined samples that starts at
\* the first deck pose, and no sample would make it cheaper: for any stations, deck
\* poses and costs, and any order of samples, failures, resets and solves.
THEOREM PosesAreCheapest == OptimizerSpec => []PosesAlongCheapestPaths
<1>1. OptimizerInv => PosesAlongCheapestPaths
  <2> SUFFICES ASSUME OptimizerInv, stage = "optimize"
               PROVE  /\ \A node \in DOMAIN pose_from_root :
                            LET chain == pose_from_root[node]
                            IN  /\ LeadsTo(chain, node)
                                /\ \A i \in DOMAIN chain : IsSampled(chain[i])
                                /\ best_cost[node] = CostUpTo(chain)[Len(chain)]
                      /\ \A sample \in joined :
                            /\ best_cost[StationNode(sample)]
                                   <= best_cost[PoseNode(sample)] + sample.cost
                            /\ best_cost[PoseNode(sample)]
                                   <= best_cost[StationNode(sample)] + sample.cost
    BY DEF PosesAlongCheapestPaths
  <2>1. Searching /\ SearchTypeOK /\ IdsInv /\ JoinedInv
    BY DEF OptimizerInv, SearchInv
  <2>2. ASSUME NEW node \in DOMAIN pose_from_root
        PROVE  LET chain == pose_from_root[node]
               IN  /\ LeadsTo(chain, node)
                   /\ \A i \in DOMAIN chain : IsSampled(chain[i])
                   /\ best_cost[node] = CostUpTo(chain)[Len(chain)]
    <3>1. GoodChain(pose_from_root[node], node)
      BY <2>1 DEF Searching, SearchTypeOK
    <3>2. \A i \in DOMAIN pose_from_root[node] : pose_from_root[node][i] \in SampledEdges
      BY <3>1 DEF GoodChain
    <3> QED
      BY <3>1, <3>2 DEF GoodChain, SampledEdges
  <2>3. ASSUME NEW sample \in joined
        PROVE  /\ best_cost[StationNode(sample)] <= best_cost[PoseNode(sample)] + sample.cost
               /\ best_cost[PoseNode(sample)] <= best_cost[StationNode(sample)] + sample.cost
    <3>1. StationNode(sample) \in Nodes /\ PoseNode(sample) \in Nodes
      BY <2>1 DEF IdsInv, IdsOK, JoinedInv, StationNode, PoseNode, Nodes
    <3>2. /\ HasEdge(adjacency_map_, PoseNode(sample), StationNode(sample), sample.cost)
          /\ HasEdge(adjacency_map_, StationNode(sample), PoseNode(sample), sample.cost)
      BY <2>1 DEF JoinedInv
    <3> QED
      BY <3>1, <3>2, EverythingReached DEF HasEdge
  <2> QED
    BY <2>2, <2>3
<1> QED
  BY OptimizerInvHolds, <1>1, PTL

\* A station that solve reached has a sample that was joined.
LEMMA ReachedIsKnown ==
    ASSUME OptimizerInv, stage = "optimize", NEW station \in DOMAIN station_id_to_unified_id_
    PROVE  IsKnown(station)
<1> DEFINE S == station_id_to_unified_id_
           P == deck_pose_id_to_unified_id_
           chain == pose_from_root[S[station]]
<1>1. Searching /\ IdsInv /\ DataInv /\ JoinedInv
  BY DEF OptimizerInv, SearchInv
<1>2. /\ S[station] \in Nodes
      /\ \A k, l \in DOMAIN S : S[k] = S[l] => k = l
      /\ \A k \in DOMAIN S, l \in DOMAIN P : S[k] # P[l]
  BY <1>1 DEF IdsInv, IdsOK, Nodes
<1>3. GoodChain(chain, S[station])
  BY <1>1, <1>2, EverythingReached DEF Searching
<1>4. S[station] # root_id
  <2>1. first_deck_pose_id_ \in DOMAIN P
    BY <1>1, RootIsPose DEF Searching
  <2> QED
    BY <1>2, <2>1 DEF root_id
<1>5. chain \in Seq(SampledEdges) /\ Len(chain) \in Nat /\ LeadsTo(chain, S[station])
  BY <1>3 DEF GoodChain
<1> HIDE DEF chain
<1>6. Len(chain) # 0 /\ chain[Len(chain)].destination_id = S[station]
  BY <1>4, <1>5 DEF LeadsTo
<1>7. IsSampled(chain[Len(chain)])
  <2>1. Len(chain) \in 1 .. Len(chain)
    BY <1>5, <1>6
  <2>2. chain[Len(chain)] \in SampledEdges
    BY <1>5, <2>1
  <2> QED
    BY <2>2 DEF SampledEdges
<1>8. PICK sample \in joined : S[station] \in {StationNode(sample), PoseNode(sample)}
  BY <1>6, <1>7 DEF IsSampled
<1>9. /\ sample.station \in DOMAIN S /\ sample.pose \in DOMAIN P
      /\ StationNode(sample) = S[sample.station] /\ PoseNode(sample) = P[sample.pose]
      /\ IsKnown(sample.station)
  BY <1>1 DEF JoinedInv, StationNode, PoseNode
<1>10. sample.station = station
  BY <1>2, <1>8, <1>9
<1> QED
  BY <1>9, <1>10

\* Whatever solve looks up is there, though samples that threw are kept in part.
THEOREM LookupsSucceed == OptimizerSpec => []OptimizesKnownNodes
<1>1. OptimizerInv => OptimizesKnownNodes
  <2> SUFFICES ASSUME OptimizerInv, stage = "optimize"
               PROVE  /\ DOMAIN deck_pose_data_ # {}
                      /\ DOMAIN deck_pose_data_ \subseteq DOMAIN deck_pose_id_to_unified_id_
                      /\ \A pose \in DOMAIN deck_pose_data_ :
                            \A i \in DOMAIN deck_pose_data_[pose] : IsKnown(deck_pose_data_[pose][i])
                      /\ \A i \in DOMAIN station_ids_ :
                            station_ids_[i] \in DOMAIN station_id_to_unified_id_
    BY DEF OptimizesKnownNodes
  <2>1. Searching /\ IdsInv /\ DataInv
    BY DEF OptimizerInv, SearchInv
  <2>2. DOMAIN deck_pose_data_ = DOMAIN deck_pose_id_to_unified_id_
    BY <2>1 DEF DataInv
  <2>3. first_deck_pose_id_ \in DOMAIN deck_pose_id_to_unified_id_
    BY <2>1, RootIsPose DEF Searching
  <2>4. ASSUME NEW pose \in DOMAIN deck_pose_data_, NEW i \in DOMAIN deck_pose_data_[pose]
        PROVE  IsKnown(deck_pose_data_[pose][i])
    <3>1. deck_pose_data_[pose] \in Seq(DOMAIN station_id_to_unified_id_)
      BY <2>1, <2>2 DEF DataInv
    <3>2. deck_pose_data_[pose][i] \in DOMAIN station_id_to_unified_id_
      BY <3>1
    <3> QED
      BY <3>2, ReachedIsKnown
  <2>5. \A i \in DOMAIN station_ids_ : station_ids_[i] \in DOMAIN station_id_to_unified_id_
    BY <2>1 DEF DataInv
  <2> QED
    BY <2>2, <2>3, <2>4, <2>5
<1> QED
  BY OptimizerInvHolds, <1>1, PTL

====
