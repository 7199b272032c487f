---- MODULE MCMappingSession ----
EXTENDS MappingSession, TLC

\* The map of an earlier session, in a frame of its own.
EarlierMap == {[b \in Station |-> {}]}

NoMap == {NoResult}

\* The stations differ by their identity only.
StationSymmetry == Permutations(Station)

====
