---- MODULE DeckStartup ----
(***************************************************************************)
(* What the deck driver node and the ros2_control hardware component do    *)
(* alike with a SerialPort: initializeSerial and initialize_serial make    *)
(* the same calls, and both close the port when they go.  step is the next *)
(* call; "throw" stands for the exception, "done" for the return.          *)
(***************************************************************************)
EXTENDS SerialPort

CONSTANTS
    BOOTLOADER_BAUDRATE,
    Baudrate,      \* of the main firmware
    MaxStarts      \* bound: ports made in a run

ASSUME StartupAssumption ==
    {BOOTLOADER_BAUDRATE, Baudrate} \subseteq Baud /\ MaxStarts \in Nat

VARIABLES
    host,                 \* "node" or "hardware"
    life,                 \* where the host is in its life
    step,                 \* where it is in a sequence of calls on the port
    protocol_decoder_,    \* the decoder exists
    starts                \* history: ports made

hostVars == <<host, life, step, protocol_decoder_, starts>>

StartupStage ==
    {"create", "open", "opened", "break", "breaking", "enable_uart", "enabling",
     "boot_firmware", "booting", "main_baudrate", "listen", "throw", "done"}
CloseStage == {"close", "join", "closed"}

At(here, there) == step = here /\ step' = there

\* Mutant of CreatePort: the object of the last start is opened again.
ReusePort == At("create", "open") /\ UNCHANGED portVars

CreatePort == At("create", "open") /\ newSerialPort

OpenPort == At("open", "opened") /\ open(BOOTLOADER_BAUDRATE)
OpenPortFails == At("open", "throw") /\ openFails
OpenReturns == At("opened", "break") /\ unlock
BeginBreak == At("break", "breaking") /\ sendBreak
EndBreak == At("breaking", "enable_uart") /\ unlock

\* The two commands to the bootloader.  What send returns is not looked at.
SendCommand ==
    /\ At("enable_uart", "enabling") \/ At("boot_firmware", "booting")
    /\ send

CommandSent ==
    /\ At("enabling", "boot_firmware") \/ At("booting", "main_baudrate")
    /\ sendReturns

SwitchBaudrate ==
    /\ step = "main_baudrate"
    /\ \E accepted \in BOOLEAN :
           /\ setConfiguration(Baudrate, accepted)
           /\ step' = IF accepted THEN "listen" ELSE "throw"

Listen == At("listen", "done") /\ setCallback

StartupStep ==
    /\ \/ CreatePort \/ OpenPort \/ OpenPortFails \/ OpenReturns
       \/ BeginBreak \/ EndBreak \/ SendCommand \/ CommandSent
       \/ SwitchBaudrate \/ Listen
    /\ UNCHANGED <<host, life, protocol_decoder_, starts>>

\* SerialPort::close, on a port that is open or not.
BeginClose ==
    /\ step = "close"
    /\ \/ serial_port_ = NoPort /\ step' = "closed" /\ UNCHANGED portVars
       \/ serial_port_ # NoPort /\ step' = "join" /\ closeStops
    /\ UNCHANGED <<host, life, protocol_decoder_, starts>>

EndClose ==
    /\ At("join", "closed")
    /\ closeJoins
    /\ UNCHANGED <<host, life, protocol_decoder_, starts>>

CloseStep == BeginClose \/ EndClose

\* The host goes from one part of its life to the next, with a sequence of calls
\* to begin there.
Enter(from, to, first) ==
    /\ life \in from
    /\ life' = to
    /\ step' = first
    /\ UNCHANGED <<host, portVars>>

====
