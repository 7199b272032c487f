---- MODULE Timestamps ----
(***************************************************************************)
(* The arithmetic of the deck's free running timestamp counter             *)
(* (lighthouse_protocol_decoder/constants.hpp).  The counter has 24 bits   *)
(* and runs at 24 MHz, so it wraps every 0.7 s: every comparison of two    *)
(* timestamps is made on a circle of CounterSize points.                   *)
(***************************************************************************)
EXTENDS Integers

CONSTANT CounterSize    \* kTimestampCounterMask + 1, 2^24 in the code

ASSUME CounterSizeAssumption == CounterSize \in Nat \ {0}

Timestamp == 0 .. CounterSize - 1

\* The operands are reduced before they are subtracted, as the 32-bit sums of
\* the code wrap at a multiple of CounterSize.
timestampDiff(a, b) == (CounterSize + a - b) % CounterSize

timestampSum(a, b) == (a + b) % CounterSize

timestampAbsDiffLargerThan(a, b, limit) ==
    timestampDiff(a + limit, b) > 2 * limit

----------------------------------------------------------------------------
\* What the comparison stands for: the length of the shorter arc between two
\* points of the circle.  A reference definition, the code has no such function
\* (measurement_processor.cpp takes this minimum for its log message only).
CircularDistance(a, b) ==
    LET forward  == timestampDiff(a, b)
        backward == timestampDiff(b, a)
    IN  IF forward < backward THEN forward ELSE backward

====
