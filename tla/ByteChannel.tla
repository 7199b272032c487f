---- MODULE ByteChannel ----
(***************************************************************************)
(* What a serial port promises to its client, without threads, queues or   *)
(* locks.  The line delivers chunks, numbered as they arrive.  From the    *)
(* first chunk that an attached client gets it gets every chunk, once and  *)
(* in order; it gets nothing that arrived before its port was opened and   *)
(* nothing once the port is closed.                                        *)
(***************************************************************************)
EXTENDS Naturals

VARIABLES
    state,        \* "closed", "open" (no callback yet) or "attached"
    arrived,      \* the number of the last chunk that arrived
    since,        \* the last chunk that arrived before the port was opened
    delivered     \* the last chunk delivered since then, 0 if none

channelVars == <<state, arrived, since, delivered>>

Init ==
    /\ state = "closed"
    /\ arrived = 0 /\ since = 0 /\ delivered = 0

Arrive ==
    /\ arrived' = arrived + 1
    /\ UNCHANGED <<state, since, delivered>>

Open ==
    /\ state = "closed"
    /\ state' = "open"
    /\ since' = arrived
    /\ delivered' = 0
    /\ UNCHANGED arrived

Attach ==
    /\ state = "open"
    /\ state' = "attached"
    /\ UNCHANGED <<arrived, since, delivered>>

Deliver(chunk) ==
    /\ state = "attached"
    /\ delivered # 0 => chunk = delivered + 1
    /\ delivered' = chunk
    /\ UNCHANGED <<state, arrived, since>>

Close ==
    /\ state # "closed"
    /\ state' = "closed"
    /\ UNCHANGED <<arrived, since, delivered>>

Next ==
    \/ Arrive
    \/ Open
    \/ Attach
    \/ \E chunk \in since + 1 .. arrived : Deliver(chunk)
    \/ Close

Spec == Init /\ [][Next]_channelVars

====
