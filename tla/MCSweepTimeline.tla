---- MODULE MCSweepTimeline ----
EXTENDS SweepTimeline, TLC

\* One tick out of order, the same tick, inside the window, and a gap.
Delays == {-1, 0, 1, 4}

\* The sensors differ by their identity only.
SensorSymmetry == Permutations(Sensor)

====
