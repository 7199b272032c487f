---- MODULE SerialSession ----
(***************************************************************************)
(* A deck on a serial line, and the program that reads it: the driver node *)
(* or the hardware component, with its SerialPort and the io thread.  The  *)
(* deck sends while its port is open, and can be unplugged.                *)
(***************************************************************************)
EXTENDS DeckDriver, DeckHardware

CONSTANT MaxChunks    \* bound: chunks that the deck sends in a run

ASSUME SessionAssumption == MaxChunks \in Nat

VARIABLES
    arrived,      \* history: the last chunk that arrived
    since,        \* history: the last chunk that arrived before the port was opened
    delivered     \* history: the last chunk given to the callback since then, or 0

historyVars == <<arrived, since, delivered>>
sessionVars == <<portVars, hostVars, dataVars, historyVars>>

SessionInit ==
    /\ IsNewPort
    /\ tty = <<>> /\ hung = FALSE
    /\ host \in {"node", "hardware"}
    /\ life = "absent" /\ step = "idle"
    /\ protocol_decoder_ = FALSE
    /\ starts = 0
    /\ DataInit
    /\ arrived = 0 /\ since = 0 /\ delivered = 0

----------------------------------------------------------------------------
\* The line.  Bytes that arrive while no port is open are lost.

DeckSends ==
    /\ serial_port_ # NoPort
    /\ ~ hung
    /\ arrived < MaxChunks
    /\ arrived' = arrived + 1
    /\ tty' = Append(tty, arrived')
    /\ UNCHANGED <<serial_port_, io_thread_, ioVars, receive_callback_, mutex_, sent, hung,
                   hostVars, dataVars, since, delivered>>

\* The line is hung up with what it held; a device that comes back is another one
\* to this port.
Unplug ==
    /\ serial_port_ # NoPort
    /\ ~ hung
    /\ hung' = TRUE
    /\ tty' = <<>>
    /\ UNCHANGED <<serial_port_, io_thread_, ioVars, receive_callback_, mutex_, sent,
                   hostVars, dataVars, historyVars>>

\* The client's steps; opening the port begins the history anew.
ClientStep ==
    /\ \/ NodeStep /\ UNCHANGED dataVars
       \/ LifecycleStep
    /\ UNCHANGED arrived
    /\ IF serial_port_ = NoPort /\ serial_port_' # NoPort
       THEN since' = arrived /\ delivered' = 0
       ELSE UNCHANGED <<since, delivered>>

IoThreadStep ==
    /\ IoStep
    /\ delivered' = IF io_thread_' = "callback" THEN read_buffer_ ELSE delivered
    /\ UNCHANGED <<hostVars, dataVars, arrived, since>>

SessionNext ==
    \/ DeckSends \/ Unplug
    \/ ClientStep
    \/ IoThreadStep
    \/ DataStep /\ UNCHANGED historyVars

\* The io thread runs, it comes to the end of a chunk's bytes after finitely many
\* bearings, the reactor performs a write, and the calls that a host has begun go on.
\* Nobody has to start it, stop it, read its data, send, or unplug.
Fairness ==
    /\ WF_sessionVars(IoThreadStep)
    /\ WF_sessionVars(IoThreadStep /\ CompleteWrite)
    /\ SF_sessionVars(IoThreadStep /\ LeaveCallback)
    /\ WF_sessionVars(EndBearing /\ UNCHANGED historyVars)
    /\ WF_sessionVars(ClientStep /\ (step # "idle"))

SessionSpec == SessionInit /\ [][SessionNext]_sessionVars /\ Fairness

----------------------------------------------------------------------------
\* The type of every variable of the serial port, its host and the history.
SerialTypeOK ==
    /\ serial_port_ \in Baud \cup {NoPort}
    /\ io_thread_ \in {"none", "run", "read", "callback", "bearing", "rechain", "ended"}
    /\ stopped \in BOOLEAN
    /\ pending \in [read : 0 .. 1, write : 0 .. 1]
    /\ queue \in Seq(Reads \cup Writes)
    /\ read_buffer_ \in Nat
    /\ receive_callback_ \in BOOLEAN
    /\ mutex_ \in {Free, "client", "io"}
    /\ sent \in {"unset", "ok", "error"}
    /\ tty \in Seq(Nat) /\ hung \in BOOLEAN
    /\ host \in {"node", "hardware"} /\ life \in NodeLife \cup HardwareLife
    /\ step \in {"idle"} \cup StartupStage \cup CloseStage
    /\ protocol_decoder_ \in BOOLEAN
    /\ starts \in 0 .. MaxStarts
    /\ base_station_data_ \in [BaseStation -> [angles : Nat, timestamp : Nat]]
    /\ read_base_station_data_ \in [BaseStation -> [angles : Nat, timestamp : Nat]]
    /\ data_mutex_ \in {Free, "io"} /\ bearing_station \in BaseStation
    /\ arrived \in Nat /\ since \in Nat /\ delivered \in Nat

ReadHandled == io_thread_ \in {"read", "callback", "bearing", "rechain"}

\* Reads share one buffer, so there is never more than one on its way; and as long
\* as a port is open the chain of reads goes on, whatever errors it meets
\* (startAsyncRead, serial_port.cpp:148).
OneReadChain ==
    /\ AtMostOne(queue, Reads)
    /\ ~ (pending.read = 1 /\ Waits(queue, Reads))
    /\ ReadHandled => pending.read = 0 /\ ~ Waits(queue, Reads)
    /\ serial_port_ # NoPort => pending.read = 1 \/ Waits(queue, Reads) \/ ReadHandled

\* The io thread calls into a decoder that exists, whether the node is destroyed,
\* its constructor throws, or the component is cleaned up (receiveCallback,
\* lighthouse_deck_driver_node.cpp:192, on_cleanup and the destructors).
DecoderOutlivesCallback == io_thread_ \in {"callback", "bearing"} => protocol_decoder_

\* What the state interfaces of the component show of a station is one bearing: its
\* angles are those of its timestamp (read, lighthouse_deck_hardware.cpp:246).
SnapshotsAreWhole ==
    \A s \in BaseStation :
        read_base_station_data_[s].angles = read_base_station_data_[s].timestamp

\* The port with its thread, queue and buffer delivers what ByteChannel promises.
ChannelState ==
    IF serial_port_ = NoPort THEN "closed" ELSE IF receive_callback_ THEN "attached" ELSE "open"

Channel == INSTANCE ByteChannel WITH state <- ChannelState

ImplementsChannel == Channel!Spec

\* A start of the port comes to an end, although it waits for the io thread in send
\* (serial_port.cpp:106) and the io thread waits for the lock; the deck may be
\* unplugged meanwhile.
StartupEnds == life \in {"starting", "configuring"} ~> life \notin {"starting", "configuring"}

\* close comes back from its join (serial_port.cpp:60), also from an io thread that
\* is in the callback or that reads errors without end.
CloseReturns == step = "close" ~> step = "closed"

\* A chunk that waits in the line of a port with a callback reaches it, unless the
\* port is closed or the deck unplugged first (the read handler,
\* serial_port.cpp:156).
ArrivedIsDelivered ==
    \A chunk \in 1 .. MaxChunks :
        receive_callback_ /\ (\E i \in DOMAIN tty : tty[i] = chunk)
            ~> delivered >= chunk \/ hung \/ stopped \/ serial_port_ = NoPort

====
