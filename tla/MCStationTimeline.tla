---- MODULE MCStationTimeline ----
EXTENDS StationTimeline

\* Station 3 for four rotations, which are longer than a lap of the counter, and
\* station 4, whose only rotation interleaves with the other's second; the deck
\* moves by a tick each rotation.  Of the stations that are measured, 3 is the last
\* to have one of the four slots for slow bits.
RotationsOf == [b \in Station |-> IF b = 3 THEN 4 ELSE 1]
Periods == [b \in Station |-> 20]
Phases == [b \in Station |-> IF b = 3 THEN 0 ELSE 22]
Offsets(b, rotation, beam, s) == (IF beam = 1 THEN 4 ELSE 12) + 2 * s + rotation

====
