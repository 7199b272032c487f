---- MODULE StampedBuffer ----
(***************************************************************************)
(* The deques of stamped measurements that the localization node and the   *)
(* station mapper keep: measurements are pushed at the back in the order   *)
(* of their arrival, and old ones popped from the front.                   *)
(***************************************************************************)
EXTENDS Integers, Sequences

\* Mutant of DropOlder: at most one measurement is popped.
DropOneOlder(buffer, cutoff) ==
    IF buffer # <<>> /\ buffer[1].timestamp < cutoff THEN Tail(buffer) ELSE buffer

\* The buffer after measurements stamped before the cutoff were popped from its
\* front: everything from the first one that is not older.
DropOlder(buffer, cutoff) ==
    LET recent == {i \in 1 .. Len(buffer) : buffer[i].timestamp >= cutoff}
        first  == CHOOSE i \in recent : \A j \in recent : i <= j
    IN  IF recent = {} THEN <<>> ELSE SubSeq(buffer, first, Len(buffer))

====
