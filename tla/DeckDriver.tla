---- MODULE DeckDriver ----
(***************************************************************************)
(* LighthouseDeckDriverNode: its constructor starts the port, and may      *)
(* throw; its destructor closes it.  A component container may load the    *)
(* node again.                                                             *)
(***************************************************************************)
EXTENDS DeckStartup

NodeLife == {"absent", "starting", "running", "unwinding", "leaving"}

\* The constructor up to the serial port, with parameters that are valid.
ConstructNode ==
    /\ starts < MaxStarts
    /\ Enter({"absent"}, "starting", "create")
    /\ protocol_decoder_' = TRUE
    /\ starts' = starts + 1

initializeSerial ==
    /\ life = "starting"
    /\ StartupStep

NodeStarted ==
    /\ step = "done"
    /\ Enter({"starting"}, "running", "idle")
    /\ UNCHANGED <<protocol_decoder_, starts>>

\* The exception leaves the constructor: the members are destroyed from the last
\* to the first, the decoder before the port, whose destructor closes it.
NodeThrows ==
    /\ step = "throw"
    /\ Enter({"starting"}, "unwinding", "close")
    /\ protocol_decoder_' = FALSE
    /\ UNCHANGED starts

\* Mutant of DestroyNode: the port is left to its own destructor.
DestroyNodeMembers ==
    /\ Enter({"running"}, "leaving", "close")
    /\ protocol_decoder_' = FALSE
    /\ UNCHANGED starts

DestroyNode ==
    /\ Enter({"running"}, "leaving", "close")
    /\ UNCHANGED <<protocol_decoder_, starts>>

CloseNode ==
    /\ life \in {"unwinding", "leaving"}
    /\ CloseStep

NodeDestroyed ==
    /\ step = "closed"
    /\ Enter({"unwinding", "leaving"}, "absent", "idle")
    /\ protocol_decoder_' = FALSE
    /\ UNCHANGED starts

NodeStep ==
    /\ host = "node"
    /\ \/ ConstructNode \/ initializeSerial \/ NodeStarted \/ NodeThrows
       \/ DestroyNode \/ CloseNode \/ NodeDestroyed

====
