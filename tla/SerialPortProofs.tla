---- MODULE SerialPortProofs ----
(***************************************************************************)
(* The serial port under its two hosts, for any number of starts, chunks   *)
(* and stations: one chain of reads, a decoder that outlives the callback, *)
(* whole snapshots, and the port implements ByteChannel.  All of it        *)
(* follows from one inductive invariant, SerialInv.                        *)
(***************************************************************************)
EXTENDS SerialSession, SequenceTheorems, TLAPS

----------------------------------------------------------------------------
\* Queues of handlers.

\* What waits after a handler was posted.
LEMMA PostedWaits ==
  ASSUME NEW T, NEW handlers \in Seq(T), NEW posted \in T, NEW S
  PROVE  /\ Waits(Append(handlers, posted), S) <=> Waits(handlers, S) \/ posted \in S
         /\ AtMostOne(handlers, S) /\ (posted \notin S \/ ~ Waits(handlers, S))
              => AtMostOne(Append(handlers, posted), S)
<1> DEFINE after == Append(handlers, posted)
<1>1. /\ DOMAIN after = 1 .. Len(handlers) + 1
      /\ DOMAIN handlers = 1 .. Len(handlers)
      /\ Len(handlers) \in Nat
      /\ \A i \in 1 .. Len(handlers) : after[i] = handlers[i]
      /\ after[Len(handlers) + 1] = posted
  OBVIOUS
<1> HIDE DEF after
<1>2. ASSUME NEW i \in DOMAIN after
      PROVE  i \in DOMAIN handlers \/ i = Len(handlers) + 1
  BY <1>1
<1>3. Len(handlers) + 1 \notin DOMAIN handlers /\ Len(handlers) + 1 \in DOMAIN after
  BY <1>1
<1>4. DOMAIN handlers \subseteq DOMAIN after
  BY <1>1
<1>5. Waits(after, S) <=> Waits(handlers, S) \/ posted \in S
  BY <1>1, <1>2, <1>3, <1>4 DEF Waits
<1>6. ASSUME AtMostOne(handlers, S), posted \notin S \/ ~ Waits(handlers, S)
      PROVE  AtMostOne(after, S)
  BY <1>1, <1>2, <1>6 DEF AtMostOne, Waits
<1> QED
  BY <1>5, <1>6 DEF after

\* What waits after the first handler was taken.
LEMMA TakenWaits ==
  ASSUME NEW T, NEW handlers \in Seq(T), handlers # <<>>, NEW S
  PROVE  /\ Waits(Tail(handlers), S) => Waits(handlers, S)
         /\ Waits(handlers, S) /\ Head(handlers) \notin S => Waits(Tail(handlers), S)
         /\ AtMostOne(handlers, S) => AtMostOne(Tail(handlers), S)
         /\ AtMostOne(handlers, S) /\ Head(handlers) \in S => ~ Waits(Tail(handlers), S)
         /\ Head(handlers) \in S => Waits(handlers, S)
<1> DEFINE rest == Tail(handlers)
<1>1. /\ DOMAIN handlers = 1 .. Len(handlers)
      /\ Len(handlers) \in Nat \ {0}
      /\ DOMAIN rest = 1 .. Len(handlers) - 1
      /\ \A i \in 1 .. Len(handlers) - 1 : rest[i] = handlers[i + 1]
      /\ Head(handlers) = handlers[1]
  OBVIOUS
<1> HIDE DEF rest
<1>2. ASSUME NEW i \in DOMAIN rest
      PROVE  i + 1 \in DOMAIN handlers /\ i + 1 # 1 /\ rest[i] = handlers[i + 1]
  BY <1>1
<1>3. ASSUME NEW i \in DOMAIN handlers
      PROVE  i = 1 \/ (i - 1 \in DOMAIN rest /\ rest[i - 1] = handlers[i])
  BY <1>1
<1>4. 1 \in DOMAIN handlers
  BY <1>1
<1>5. Waits(rest, S) => Waits(handlers, S)
  BY <1>2 DEF Waits
<1>6. Waits(handlers, S) /\ Head(handlers) \notin S => Waits(rest, S)
  BY <1>1, <1>3 DEF Waits
<1>7. ASSUME AtMostOne(handlers, S), NEW i \in DOMAIN rest, NEW j \in DOMAIN rest,
             rest[i] \in S, rest[j] \in S
      PROVE  i = j
  <2>1. i + 1 = j + 1
    BY <1>2, <1>7 DEF AtMostOne
  <2> QED
    BY <2>1, <1>1
<1>8. ASSUME AtMostOne(handlers, S), Head(handlers) \in S, NEW i \in DOMAIN rest
      PROVE  rest[i] \notin S
  BY <1>1, <1>2, <1>4, <1>8 DEF AtMostOne
<1>9. Head(handlers) \in S => Waits(handlers, S)
  BY <1>1, <1>4 DEF Waits
<1> QED
  BY <1>5, <1>6, <1>7, <1>8, <1>9 DEF Waits, AtMostOne, rest

\* At most one read is aborted: what waits then.
LEMMA AbortedQueue ==
  ASSUME NEW T, NEW handlers \in Seq(T), NEW aborted \in T, NEW n \in 0 .. 1
  PROVE  handlers \o [i \in 1 .. n |-> aborted]
           = IF n = 1 THEN Append(handlers, aborted) ELSE handlers
<1> DEFINE new == [i \in 1 .. n |-> aborted]
<1>1. CASE n = 0
  <2>1. new = <<>>
    BY <1>1
  <2>2. handlers \o new = handlers
    BY <2>1
  <2> QED
    BY <2>2, <1>1
<1>2. CASE n = 1
  <2>1. new \in Seq(T) /\ Len(new) = 1 /\ new[1] = aborted
    BY <1>2
  <2>2. handlers \o new = Append(handlers, aborted)
    BY <2>1
  <2> QED
    BY <2>2, <1>2
<1> QED
  BY <1>1, <1>2, SMTT(20)

----------------------------------------------------------------------------
\* The inductive invariant, in parts.

\* Where the client is in its calls, and what its port is like there.
PhaseOK ==
    /\ life \in {"starting", "configuring"} <=> step \in StartupStage
    /\ life \in {"unwinding", "leaving", "cleaning", "destroying"} <=> step \in CloseStage
    /\ stopped <=> step = "join"
    /\ io_thread_ = "none" <=> serial_port_ = NoPort
    /\ step \in {"create", "open", "closed"} => serial_port_ = NoPort
    /\ life \in {"absent", "unconfigured"} => serial_port_ = NoPort
    /\ step \in StartupStage \ {"create", "open", "throw"} => serial_port_ # NoPort
    /\ step = "join" => serial_port_ # NoPort
    /\ step \in StartupStage \ {"create", "done"} => ~ receive_callback_
    /\ step = "open" => pending = NothingPending /\ queue = <<>>
    /\ life \in {"starting", "configuring"} => protocol_decoder_
    /\ serial_port_ # NoPort /\ receive_callback_ => protocol_decoder_

\* What each thread holds.
LocksOK ==
    /\ mutex_ = "io" <=> io_thread_ \in {"callback", "bearing"}
    /\ io_thread_ \in {"callback", "bearing"} => receive_callback_
    /\ data_mutex_ = Free <=> io_thread_ # "bearing"

\* A write is on its way while send waits for it, and only then; an aborted read
\* waits only where nobody runs it.
WritesOK ==
    /\ Waits(queue, {Read("aborted")}) => serial_port_ = NoPort
    /\ AtMostOne(queue, Writes)
    /\ ~ (pending.write = 1 /\ Waits(queue, Writes))
    /\ pending.write = 1 \/ Waits(queue, Writes)
          => step \in {"enabling", "booting"} /\ sent = "unset"

\* The data of a station is one bearing, except while it is written.
DataOK ==
    /\ \A s \in BaseStation :
          \/ base_station_data_[s].angles = base_station_data_[s].timestamp
          \/ io_thread_ = "bearing" /\ s = bearing_station
    /\ io_thread_ = "bearing" => base_station_data_[bearing_station].angles = read_buffer_
    /\ SnapshotsAreWhole

\* A chunk was read and not yet given to the callback or dropped.
DataInHand == io_thread_ = "read" \/ Waits(queue, {Read("data")})

\* The line holds the last chunks that arrived; the chunk in hand comes before them,
\* and after the one delivered.
OrderOK ==
    /\ Len(tty) <= arrived
    /\ \A i \in 1 .. Len(tty) : tty[i] = arrived - Len(tty) + i
    /\ hung \/ serial_port_ = NoPort => tty = <<>>
    /\ io_thread_ \in {"callback", "bearing"} => delivered = read_buffer_
    /\ serial_port_ # NoPort =>
          /\ since <= arrived - Len(tty)
          /\ delivered # 0 => receive_callback_
          /\ DataInHand =>
                /\ since < read_buffer_ /\ read_buffer_ <= arrived - Len(tty)
                /\ delivered # 0 => read_buffer_ = delivered + 1
                /\ ~ hung => read_buffer_ = arrived - Len(tty)
          /\ ~ DataInHand /\ delivered # 0 /\ ~ hung => delivered = arrived - Len(tty)

SerialInv ==
    SerialTypeOK /\ PhaseOK /\ LocksOK /\ WritesOK /\ OneReadChain /\ DataOK /\ OrderOK

\* Handlers of reads and of writes are different things.
LEMMA HandlerKinds ==
  /\ Reads \cap Writes = {}
  /\ {Read("data"), Read("error"), Read("aborted")} \subseteq Reads
  /\ {Write("ok"), Write("error")} \subseteq Writes
  /\ Read("error") # Read("data") /\ Read("aborted") # Read("data")
BY DEF Reads, Writes, Read, Write

\* The handler that the io thread runs decides where it goes.
LEMMA HandlerRuns ==
  ASSUME SerialTypeOK, RunHandler
  PROVE  /\ Head(queue) \in Reads \cup Writes
         /\ Head(queue) \in Reads =>
               /\ sent' = sent
               /\ io_thread_' \in {"read", "rechain", "run"}
               /\ io_thread_' = "read" <=> Head(queue) = Read("data")
               /\ io_thread_' = "run" => Head(queue) = Read("aborted")
         /\ Head(queue) \in Writes =>
               io_thread_' = "run" /\ sent' \in {"ok", "error"} /\ Head(queue) \notin Reads
<1>1. Head(queue) \in Reads \cup Writes
  BY HeadTailProperties DEF SerialTypeOK, RunHandler
<1> DEFINE handler == Head(queue)
<1>2. /\ sent' = IF handler.op = "write" THEN handler.result ELSE sent
      /\ io_thread_' = IF handler.op = "read" THEN AfterRead[handler.result] ELSE "run"
  BY DEF RunHandler
<1> HIDE DEF handler
<1>3. ASSUME handler \in Reads
      PROVE  /\ handler.op = "read" /\ handler.result \in {"data", "error", "aborted"}
             /\ handler.result = "data" <=> handler = Read("data")
             /\ handler.result = "aborted" <=> handler = Read("aborted")
  BY <1>3 DEF Reads, Read
<1>4. ASSUME handler \in Writes
      PROVE  /\ handler.op = "write" /\ handler.result \in {"ok", "error"}
             /\ handler \notin Reads
  BY <1>4 DEF Reads, Read, Writes, Write
<1>5. ASSUME handler \in Reads
      PROVE  /\ sent' = sent
             /\ io_thread_' \in {"read", "rechain", "run"}
             /\ io_thread_' = "read" <=> handler = Read("data")
             /\ io_thread_' = "run" => handler = Read("aborted")
  <2>1. /\ AfterRead["data"] = "read"
        /\ AfterRead["error"] = "rechain"
        /\ AfterRead["aborted"] = "run"
    BY DEF AfterRead
  <2> QED
    BY <1>2, <1>3, <1>5, <2>1
<1>6. ASSUME handler \in Writes
      PROVE  io_thread_' = "run" /\ sent' \in {"ok", "error"} /\ handler \notin Reads
  BY <1>2, <1>4, <1>6
<1> QED
  BY <1>1, <1>5, <1>6 DEF handler

LEMMA PhaseStep == SerialInv /\ [SessionNext]_sessionVars => PhaseOK'
<1> SUFFICES ASSUME SerialInv, [SessionNext]_sessionVars
             PROVE  PhaseOK'
  OBVIOUS
<1> USE SerialAssumption, StartupAssumption
<1> USE DEF SerialInv, SerialTypeOK, PhaseOK, StartupStage, CloseStage, NodeLife, HardwareLife,
            ioVars, lineVars, portVars, hostVars, dataVars, historyVars, NothingPending, Free
<1>1. CASE DeckSends
  BY <1>1 DEF DeckSends
<1>2. CASE Unplug
  BY <1>2 DEF Unplug
<1>3. CASE ClientStep
  <2>1. CASE StartupStep /\ life \in {"starting", "configuring"}
    BY <2>1, SMTT(20) DEF StartupStep, At, CreatePort, newSerialPort, OpenPort, open,
        OpenPortFails, openFails, OpenReturns, unlock, BeginBreak, sendBreak, EndBreak, SendCommand, send,
        CommandSent, sendReturns, SwitchBaudrate, setConfiguration, Listen, setCallback
  <2>2. CASE CloseStep /\ life \in {"unwinding", "leaving", "cleaning", "destroying"}
    BY <2>2 DEF CloseStep, At, BeginClose, closeStops, EndClose, closeJoins
  <2>3. CASE NodeStep
    BY <2>1, <2>2, <2>3 DEF NodeStep, ConstructNode, initializeSerial, NodeStarted, NodeThrows,
        DestroyNode, CloseNode, NodeDestroyed, Enter
  <2>4. CASE LifecycleStep
    BY <2>1, <2>2, <2>4 DEF LifecycleStep, on_init, on_configure, initialize_serial, Configured,
        ConfigureFails, on_activate, on_deactivate, on_cleanup, CleanupReturns, Shutdown,
        DestroyHardware, CloseHardware, HardwareDestroyed, Enter
  <2> QED
    BY <1>3, <2>3, <2>4 DEF ClientStep
<1>4. CASE IoThreadStep
  <2>1. CASE RunHandler
    <3>1. io_thread_' # "none"
      BY <2>1, HandlerRuns
    <3> QED
      BY <1>4, <2>1, <3>1 DEF IoThreadStep, RunHandler
  <2>2. CASE CompleteRead
    BY <1>4, <2>2 DEF IoThreadStep, CompleteRead
  <2>3. CASE CompleteWrite
    BY <1>4, <2>3 DEF IoThreadStep, CompleteWrite
  <2>4. CASE EnterCallback \/ SkipCallback \/ LeaveCallback \/ startAsyncRead \/ EndThread
    BY <1>4, <2>4 DEF IoThreadStep, EnterCallback, SkipCallback, LeaveCallback,
       startAsyncRead, EndThread
  <2> QED
    BY <1>4, <2>1, <2>2, <2>3, <2>4 DEF IoThreadStep, IoStep
<1>5. CASE DataStep
  BY <1>5, SMTT(20) DEF DataStep, BeginBearing, EndBearing, read
<1>6. CASE UNCHANGED sessionVars
  BY <1>6 DEF sessionVars
<1> QED
  BY <1>1, <1>2, <1>3, <1>4, <1>5, <1>6 DEF SessionNext

LEMMA LocksStep == SerialInv /\ [SessionNext]_sessionVars => LocksOK'
<1> SUFFICES ASSUME SerialInv, [SessionNext]_sessionVars
             PROVE  LocksOK'
  OBVIOUS
<1> USE DEF SerialInv, PhaseOK, LocksOK, StartupStage, CloseStage,
            ioVars, lineVars, portVars, hostVars, dataVars, historyVars, Free
<1>1. CASE DeckSends
  BY <1>1 DEF DeckSends
<1>2. CASE Unplug
  BY <1>2 DEF Unplug
<1>3. CASE ClientStep
  <2>1. CASE StartupStep /\ UNCHANGED dataVars /\ life \in {"starting", "configuring"}
    BY <2>1 DEF StartupStep, At, CreatePort, newSerialPort, OpenPort, open, OpenPortFails,
        openFails, OpenReturns, unlock, BeginBreak, sendBreak, EndBreak, SendCommand, send,
        CommandSent, sendReturns, SwitchBaudrate, setConfiguration, Listen, setCallback
  <2>2. CASE CloseStep /\ UNCHANGED dataVars
    BY <2>2 DEF CloseStep, At, BeginClose, closeStops, EndClose, closeJoins
  <2>3. CASE NodeStep /\ UNCHANGED dataVars
    BY <2>1, <2>2, <2>3 DEF NodeStep, ConstructNode, initializeSerial, NodeStarted, NodeThrows,
        DestroyNode, CloseNode, NodeDestroyed, Enter
  <2>4. CASE LifecycleStep
    BY <2>1, <2>2, <2>4 DEF LifecycleStep, on_init, on_configure, initialize_serial, Configured,
        ConfigureFails, on_activate, on_deactivate, on_cleanup, CleanupReturns, Shutdown,
        DestroyHardware, CloseHardware, HardwareDestroyed, Enter
  <2> QED
    BY <1>3, <2>3, <2>4 DEF ClientStep
<1>4. CASE IoThreadStep
  <2>1. CASE RunHandler
    <3>1. io_thread_' \in {"read", "rechain", "run"} /\ io_thread_ = "run"
      BY <2>1, HandlerRuns DEF RunHandler
    <3> QED
      BY <1>4, <2>1, <3>1 DEF IoThreadStep, RunHandler
  <2>2. CASE CompleteRead \/ CompleteWrite
    BY <1>4, <2>2 DEF IoThreadStep, CompleteRead, CompleteWrite
  <2>3. CASE EnterCallback \/ SkipCallback \/ LeaveCallback \/ startAsyncRead \/ EndThread
    BY <1>4, <2>3 DEF IoThreadStep, EnterCallback, SkipCallback, LeaveCallback,
       startAsyncRead, EndThread
  <2> QED
    BY <1>4, <2>1, <2>2, <2>3 DEF IoThreadStep, IoStep
<1>5. CASE DataStep
  BY <1>5 DEF DataStep, BeginBearing, EndBearing, read
<1>6. CASE UNCHANGED sessionVars
  BY <1>6 DEF sessionVars
<1> QED
  BY <1>1, <1>2, <1>3, <1>4, <1>5, <1>6 DEF SessionNext

LEMMA ChainStep == SerialInv /\ [SessionNext]_sessionVars => OneReadChain'
<1> SUFFICES ASSUME SerialInv, [SessionNext]_sessionVars
             PROVE  OneReadChain'
  OBVIOUS
<1> DEFINE Handler == Reads \cup Writes
<1>0. /\ queue \in Seq(Handler)
      /\ pending \in [read : 0 .. 1, write : 0 .. 1]
      /\ SerialTypeOK /\ PhaseOK /\ OneReadChain
  BY DEF SerialInv, SerialTypeOK
<1>z. ~ Waits(<<>>, Reads) /\ AtMostOne(<<>>, Reads)
  BY DEF Waits, AtMostOne
<1> USE DEF OneReadChain, ReadHandled, ioVars, lineVars, portVars
<1> HIDE DEF Handler
<1>1. CASE DeckSends \/ Unplug
  BY <1>0, <1>1 DEF DeckSends, Unplug
<1>2. CASE ClientStep
  <2>1. CASE CreatePort
    BY <1>z, <2>1 DEF CreatePort, newSerialPort, NothingPending
  <2>2. CASE OpenPort /\ step = "open"
    BY <1>0, <1>z, <2>2 DEF OpenPort, open, PhaseOK, NothingPending
  <2>3. CASE OpenPortFails \/ OpenReturns \/ BeginBreak \/ EndBreak \/ CommandSent \/ Listen
    BY <1>0, <2>3 DEF OpenPortFails, openFails, OpenReturns, unlock, BeginBreak, sendBreak,
       EndBreak, CommandSent, sendReturns, Listen, setCallback
  <2>4. CASE SendCommand
    BY <1>0, <2>4 DEF SendCommand, send
  <2>5. CASE SwitchBaudrate
    BY <1>0, <2>5 DEF SwitchBaudrate, setConfiguration, PhaseOK, StartupStage
  <2>6. CASE StartupStep
    BY <2>1, <2>2, <2>3, <2>4, <2>5, <2>6 DEF StartupStep, OpenPort, At
  <2>7. CASE BeginClose
    BY <1>0, <2>7 DEF BeginClose, closeStops
  <2>8. CASE EndClose
    <3>1. Read("aborted") \in Handler /\ Reads \subseteq Handler
      BY HandlerKinds DEF Handler
    <3>2. pending.read \in 0 .. 1
      BY <1>0
    <3>3. AtMostOne(queue', Reads)
      <4>1. queue' = queue \o [i \in 1 .. pending.read |-> Read("aborted")]
        BY <2>8 DEF EndClose, closeJoins
      <4>2. queue' = IF pending.read = 1 THEN Append(queue, Read("aborted")) ELSE queue
        BY <1>0, <3>1, <3>2, <4>1, AbortedQueue
      <4>3. CASE pending.read = 1
        BY <1>0, <3>1, <4>2, <4>3, PostedWaits
      <4> QED
        BY <1>0, <4>2, <4>3
    <3> QED
      BY <1>0, <2>8, <3>3 DEF EndClose, closeJoins
  <2>9. CASE CloseStep
    BY <2>7, <2>8, <2>9 DEF CloseStep
  <2>10. CASE NodeStep
    BY <1>0, <2>6, <2>9, <2>10 DEF NodeStep, ConstructNode, initializeSerial, NodeStarted,
        NodeThrows, DestroyNode, CloseNode, NodeDestroyed, Enter
  <2>11. CASE LifecycleStep
    BY <1>0, <2>6, <2>9, <2>11 DEF LifecycleStep, on_init, on_configure, initialize_serial,
        Configured, ConfigureFails, on_activate, on_deactivate, on_cleanup, CleanupReturns,
        Shutdown, DestroyHardware, CloseHardware, HardwareDestroyed, Enter
  <2> QED
    BY <1>2, <2>10, <2>11 DEF ClientStep
<1>3. CASE IoThreadStep
  <2>1. ASSUME PerformRead
        PROVE  /\ Waits(queue', Reads)
               /\ ~ Waits(queue, Reads) => AtMostOne(queue', Reads)
    <3>1. PICK result \in {"data", "error"} : queue' = Append(queue, Read(result))
      BY <2>1 DEF PerformRead
    <3>2. Read(result) \in Handler /\ Read(result) \in Reads
      BY HandlerKinds DEF Handler
    <3> QED
      BY <1>0, <3>1, <3>2, PostedWaits
  <2>2. CASE CompleteRead
    BY <1>0, <2>1, <2>2 DEF CompleteRead
  <2>3. CASE CompleteWrite
    <3>1. PICK result \in {"ok", "error"} : queue' = Append(queue, Write(result))
      BY <2>3 DEF CompleteWrite
    <3>2. Write(result) \in Handler /\ Write(result) \notin Reads
      BY HandlerKinds DEF Handler
    <3>3. (Waits(queue', Reads) <=> Waits(queue, Reads)) /\ AtMostOne(queue', Reads)
      BY <1>0, <3>1, <3>2, PostedWaits
    <3> QED
      BY <1>0, <2>3, <3>3 DEF CompleteWrite
  <2>4. CASE RunHandler
    <3>1. queue # <<>> /\ queue' = Tail(queue) /\ io_thread_ = "run"
      BY <2>4 DEF RunHandler
    <3>2. /\ AtMostOne(queue', Reads)
          /\ Waits(queue', Reads) => Waits(queue, Reads)
          /\ Waits(queue, Reads) /\ Head(queue) \notin Reads => Waits(queue', Reads)
          /\ Head(queue) \in Reads => ~ Waits(queue', Reads) /\ Waits(queue, Reads)
      BY <1>0, <3>1, TakenWaits
    <3>3. CASE Head(queue) \in Reads
      <4>1. Head(queue) # Read("aborted")
        BY <1>0, <3>1, TakenWaits DEF SerialInv, WritesOK, PhaseOK
      <4>2. io_thread_' \in {"read", "rechain"}
        BY <1>0, <2>4, <3>3, <4>1, HandlerRuns
      <4> QED
        BY <1>0, <2>4, <3>1, <3>2, <3>3, <4>2 DEF RunHandler
    <3>4. CASE Head(queue) \in Writes
      <4>1. io_thread_' = "run" /\ Head(queue) \notin Reads
        BY <1>0, <2>4, <3>4, HandlerRuns
      <4> QED
        BY <1>0, <2>4, <3>1, <3>2, <4>1 DEF RunHandler
    <3> QED
      BY <1>0, <2>4, <3>3, <3>4, HandlerRuns
  <2>5. CASE EnterCallback \/ SkipCallback \/ LeaveCallback \/ EndThread
    BY <1>0, <2>5 DEF EnterCallback, SkipCallback, LeaveCallback, EndThread
  <2>6. CASE startAsyncRead
    BY <1>0, <2>1, <2>6 DEF startAsyncRead
  <2> QED
    BY <1>3, <2>2, <2>3, <2>4, <2>5, <2>6 DEF IoThreadStep, IoStep
<1>4. CASE DataStep
  BY <1>0, <1>4 DEF DataStep, BeginBearing, EndBearing, read
<1>5. CASE UNCHANGED sessionVars
  BY <1>0, <1>5 DEF sessionVars
<1> QED
  BY <1>1, <1>2, <1>3, <1>4, <1>5 DEF SessionNext

LEMMA WritesStep == SerialInv /\ [SessionNext]_sessionVars => WritesOK'
<1> SUFFICES ASSUME SerialInv, [SessionNext]_sessionVars
             PROVE  WritesOK'
  OBVIOUS
<1> DEFINE Handler == Reads \cup Writes
<1> DEFINE Aborted == {Read("aborted")}
<1>0. /\ queue \in Seq(Handler)
      /\ pending \in [read : 0 .. 1, write : 0 .. 1]
      /\ SerialTypeOK /\ PhaseOK /\ WritesOK
  BY DEF SerialInv, SerialTypeOK
<1>z. ~ Waits(<<>>, Writes) /\ ~ Waits(<<>>, Aborted) /\ AtMostOne(<<>>, Writes)
  BY DEF Waits, AtMostOne
<1> USE DEF WritesOK, ioVars, lineVars, portVars, hostVars
<1> HIDE DEF Handler
<1>1. CASE DeckSends \/ Unplug
  BY <1>0, <1>1 DEF DeckSends, Unplug
<1>2. CASE ClientStep
  <2>1. CASE CreatePort
    BY <1>z, <2>1 DEF CreatePort, newSerialPort, NothingPending
  <2>2. CASE OpenPort
    BY <1>0, <1>z, <2>2 DEF OpenPort, At, open, PhaseOK, NothingPending
  <2>3. CASE OpenPortFails \/ OpenReturns \/ BeginBreak \/ EndBreak \/ Listen
    BY <1>0, <2>3 DEF OpenPortFails, openFails, OpenReturns, unlock, BeginBreak, sendBreak,
       EndBreak, Listen, setCallback, At
  <2>4. CASE SendCommand
    BY <1>0, <2>4 DEF SendCommand, send, At
  <2>5. CASE CommandSent
    BY <1>0, <2>5 DEF CommandSent, sendReturns, At
  <2>6. CASE SwitchBaudrate
    BY <1>0, <2>6 DEF SwitchBaudrate, setConfiguration, PhaseOK, StartupStage
  <2>7. CASE StartupStep
    BY <2>1, <2>2, <2>3, <2>4, <2>5, <2>6, <2>7 DEF StartupStep
  <2>8. CASE BeginClose
    BY <1>0, <2>8 DEF BeginClose, closeStops
  <2>9. CASE EndClose
    <3>1. Read("aborted") \in Handler /\ Read("aborted") \notin Writes
      BY HandlerKinds DEF Handler
    <3>2. pending.read \in 0 .. 1
      BY <1>0
    <3>3. queue' = queue \o [i \in 1 .. pending.read |-> Read("aborted")]
      BY <2>9 DEF EndClose, closeJoins
    <3>4. queue' = IF pending.read = 1 THEN Append(queue, Read("aborted")) ELSE queue
      BY <1>0, <3>1, <3>2, <3>3, AbortedQueue
    <3>5. CASE pending.read = 1
      <4>1. (Waits(queue', Writes) <=> Waits(queue, Writes)) /\ AtMostOne(queue', Writes)
        BY <1>0, <3>1, <3>4, <3>5, PostedWaits
      <4> QED
        BY <1>0, <2>9, <4>1 DEF EndClose, closeJoins, At
    <3> QED
      BY <1>0, <2>9, <3>2, <3>4, <3>5 DEF EndClose, closeJoins, At
  <2>10. CASE CloseStep
    BY <2>8, <2>9, <2>10 DEF CloseStep
  <2>11. CASE NodeStep
    BY <1>0, <2>7, <2>10, <2>11 DEF NodeStep, ConstructNode, initializeSerial, NodeStarted,
        NodeThrows, DestroyNode, CloseNode, NodeDestroyed, Enter, PhaseOK, StartupStage
  <2>12. CASE LifecycleStep
    BY <1>0, <2>7, <2>10, <2>12 DEF LifecycleStep, on_init, on_configure, initialize_serial,
        Configured, ConfigureFails, on_activate, on_deactivate, on_cleanup, CleanupReturns,
        Shutdown, DestroyHardware, CloseHardware, HardwareDestroyed, Enter, PhaseOK, StartupStage
  <2> QED
    BY <1>2, <2>11, <2>12 DEF ClientStep
<1>3. CASE IoThreadStep
  <2>1. UNCHANGED hostVars
    BY <1>3 DEF IoThreadStep
  <2>2. ASSUME PerformRead, serial_port_ # NoPort
        PROVE  /\ Waits(queue', Writes) <=> Waits(queue, Writes)
               /\ AtMostOne(queue', Writes)
               /\ ~ Waits(queue', Aborted)
    <3>1. PICK result \in {"data", "error"} : queue' = Append(queue, Read(result))
      BY <2>2 DEF PerformRead
    <3>2. Read(result) \in Handler /\ Read(result) \notin Writes
      BY HandlerKinds DEF Handler
    <3>3. Read(result) \notin Aborted
      BY DEF Read
    <3>4. Waits(queue', Aborted) <=> Waits(queue, Aborted)
      BY <1>0, <3>1, <3>2, <3>3, PostedWaits
    <3>5. (Waits(queue', Writes) <=> Waits(queue, Writes)) /\ AtMostOne(queue', Writes)
      BY <1>0, <3>1, <3>2, PostedWaits
    <3> QED
      BY <1>0, <2>2, <3>4, <3>5
  <2>3. CASE CompleteRead
    BY <1>0, <2>1, <2>2, <2>3 DEF CompleteRead, PhaseOK
  <2>4. CASE CompleteWrite
    <3>1. PICK result \in {"ok", "error"} : queue' = Append(queue, Write(result))
      BY <2>4 DEF CompleteWrite
    <3>2. Write(result) \in Handler /\ Write(result) \in Writes
      BY HandlerKinds DEF Handler
    <3>3. Write(result) \notin Aborted
      BY HandlerKinds, <3>2
    <3>4. Waits(queue', Aborted) <=> Waits(queue, Aborted)
      BY <1>0, <3>1, <3>2, <3>3, PostedWaits
    <3>5. pending.write = 1
      BY <1>0, <2>4 DEF CompleteWrite
    <3>6. AtMostOne(queue', Writes)
      BY <1>0, <3>1, <3>2, <3>5, PostedWaits
    <3> QED
      BY <1>0, <2>1, <2>4, <3>4, <3>5, <3>6 DEF CompleteWrite
  <2>5. CASE RunHandler
    <3>1. queue # <<>> /\ queue' = Tail(queue) /\ UNCHANGED <<pending, serial_port_>>
      BY <2>5 DEF RunHandler
    <3>2. /\ AtMostOne(queue', Writes)
          /\ Waits(queue', Writes) => Waits(queue, Writes)
          /\ Head(queue) \in Writes => ~ Waits(queue', Writes) /\ Waits(queue, Writes)
      BY <1>0, <3>1, TakenWaits
    <3>3. Waits(queue', Aborted) => Waits(queue, Aborted)
      BY <1>0, <3>1, TakenWaits
    <3>4. CASE Head(queue) \in Reads
      <4>1. sent' = sent
        BY <1>0, <2>5, <3>4, HandlerRuns
      <4> QED
        BY <1>0, <2>1, <3>1, <3>2, <3>3, <4>1
    <3>5. CASE Head(queue) \in Writes
      BY <1>0, <2>1, <3>1, <3>2, <3>3, <3>5
    <3> QED
      BY <1>0, <2>5, <3>4, <3>5, HandlerRuns
  <2>6. CASE EnterCallback \/ SkipCallback \/ LeaveCallback \/ EndThread
    BY <1>0, <2>1, <2>6 DEF EnterCallback, SkipCallback, LeaveCallback, EndThread
  <2>7. CASE startAsyncRead
    <3>1. serial_port_ # NoPort
      BY <1>0, <2>7 DEF startAsyncRead, PhaseOK
    <3> QED
      BY <1>0, <2>1, <2>2, <2>7, <3>1 DEF startAsyncRead
  <2> QED
    BY <1>3, <2>3, <2>4, <2>5, <2>6, <2>7 DEF IoThreadStep, IoStep
<1>4. CASE DataStep
  BY <1>0, <1>4 DEF DataStep, BeginBearing, EndBearing, read
<1>5. CASE UNCHANGED sessionVars
  BY <1>0, <1>5 DEF sessionVars
<1> QED
  BY <1>1, <1>2, <1>3, <1>4, <1>5 DEF SessionNext

LEMMA DataOKStep == SerialInv /\ [SessionNext]_sessionVars => DataOK'
<1> SUFFICES ASSUME SerialInv, [SessionNext]_sessionVars
             PROVE  DataOK'
  OBVIOUS
<1>0. /\ base_station_data_ \in [BaseStation -> [angles : Nat, timestamp : Nat]]
      /\ bearing_station \in BaseStation
      /\ PhaseOK /\ LocksOK /\ DataOK /\ SerialTypeOK
  BY DEF SerialInv, SerialTypeOK
<1> USE DEF DataOK, SnapshotsAreWhole, ioVars, lineVars, portVars, hostVars, dataVars, Free
<1>1. CASE DeckSends \/ Unplug
  BY <1>0, <1>1 DEF DeckSends, Unplug
<1>2. CASE ClientStep
  <2>1. CASE StartupStep /\ UNCHANGED dataVars
    BY <1>0, <2>1 DEF StartupStep, At, CreatePort, newSerialPort, OpenPort, open,
        OpenPortFails, openFails, OpenReturns, unlock, BeginBreak, sendBreak, EndBreak,
        SendCommand, send, CommandSent, sendReturns, SwitchBaudrate, setConfiguration, Listen,
        setCallback, PhaseOK
  <2>2. CASE CloseStep /\ UNCHANGED dataVars
    BY <1>0, <2>2 DEF CloseStep, At, BeginClose, closeStops, EndClose, closeJoins
  <2>3. CASE NodeStep /\ UNCHANGED dataVars
    BY <1>0, <2>1, <2>2, <2>3 DEF NodeStep, ConstructNode, initializeSerial, NodeStarted,
        NodeThrows, DestroyNode, CloseNode, NodeDestroyed, Enter
  <2>4. CASE on_init
    <3>1. io_thread_ = "none" /\ io_thread_' = "none"
      BY <1>0, <2>4 DEF on_init, Enter, PhaseOK
    <3> QED
      BY <2>4, <3>1 DEF on_init, NoData
  <2>5. CASE LifecycleStep
    BY <1>0, <2>1, <2>2, <2>4, <2>5 DEF LifecycleStep, on_configure, initialize_serial,
        Configured, ConfigureFails, on_activate, on_deactivate, on_cleanup, CleanupReturns,
        Shutdown, DestroyHardware, CloseHardware, HardwareDestroyed, Enter
  <2> QED
    BY <1>2, <2>3, <2>5 DEF ClientStep
<1>3. CASE IoThreadStep
  <2>1. io_thread_ # "bearing" \/ UNCHANGED <<io_thread_, read_buffer_>>
    BY <1>3 DEF IoThreadStep, IoStep, CompleteRead, CompleteWrite, RunHandler, EnterCallback,
       SkipCallback, LeaveCallback, startAsyncRead, EndThread
  <2>2. io_thread_ # "bearing" => io_thread_' # "bearing"
    <3>1. CASE RunHandler
      BY <1>0, <3>1, HandlerRuns
    <3> QED
      BY <1>3, <3>1 DEF IoThreadStep, IoStep, CompleteRead, CompleteWrite, EnterCallback,
         SkipCallback, LeaveCallback, startAsyncRead, EndThread
  <2> QED
    BY <1>0, <1>3, <2>1, <2>2 DEF IoThreadStep
<1>4. CASE DataStep
  <2>1. CASE \E station \in BaseStation : BeginBearing(station)
    BY <1>0, <2>1 DEF BeginBearing
  <2>2. CASE EndBearing
    BY <1>0, <2>2 DEF EndBearing
  <2>3. CASE read
    BY <1>0, <2>3 DEF read, LocksOK
  <2> QED
    BY <1>4, <2>1, <2>2, <2>3 DEF DataStep
<1>5. CASE UNCHANGED sessionVars
  BY <1>0, <1>5 DEF sessionVars
<1> QED
  BY <1>1, <1>2, <1>3, <1>4, <1>5 DEF SessionNext

\* A read that the reactor performs takes the next chunk of the line.
LEMMA NextChunk ==
  ASSUME SerialInv, PerformRead, ~ DataInHand, serial_port_ # NoPort,
         UNCHANGED <<serial_port_, receive_callback_, hung, arrived, since, delivered>>,
         io_thread_' = "run"
  PROVE  OrderOK'
<1>0. /\ queue \in Seq(Reads \cup Writes) /\ tty \in Seq(Nat)
      /\ arrived \in Nat /\ since \in Nat /\ delivered \in Nat /\ read_buffer_ \in Nat
      /\ OrderOK
  BY DEF SerialInv, SerialTypeOK
<1>1. CASE tty # <<>>
  <2>1. read_buffer_' = Head(tty) /\ tty' = Tail(tty) /\ queue' = Append(queue, Read("data"))
    BY <1>1 DEF PerformRead
  <2>2. /\ Len(tty) \in Nat \ {0}
        /\ Head(tty) = tty[1]
        /\ Len(tty') = Len(tty) - 1
        /\ \A i \in 1 .. Len(tty') : tty'[i] = tty[i + 1]
    BY <1>0, <1>1, <2>1
  <2>3. ~ hung
    BY <1>0, <1>1 DEF OrderOK
  <2>4. /\ Len(tty) <= arrived
        /\ \A i \in 1 .. Len(tty) : tty[i] = arrived - Len(tty) + i
        /\ since <= arrived - Len(tty)
        /\ delivered # 0 => receive_callback_ /\ delivered = arrived - Len(tty)
    BY <1>0, <2>3 DEF OrderOK
  <2>5. read_buffer_' = arrived - Len(tty')
    BY <1>0, <2>1, <2>2, <2>4
  <2>6. \A i \in 1 .. Len(tty') : tty'[i] = arrived - Len(tty') + i
    <3> SUFFICES ASSUME NEW i \in 1 .. Len(tty')
                 PROVE  tty'[i] = arrived - Len(tty') + i
      OBVIOUS
    <3>1. i + 1 \in 1 .. Len(tty) /\ tty'[i] = tty[i + 1]
      BY <2>2
    <3>2. tty[i + 1] = arrived - Len(tty) + (i + 1)
      BY <2>4, <3>1
    <3> QED
      BY <1>0, <2>2, <3>1, <3>2
  <2>7. /\ Len(tty') <= arrived
        /\ since <= arrived - Len(tty')
        /\ since < read_buffer_'
        /\ delivered # 0 => read_buffer_' = delivered + 1
    <3>1. arrived \in Nat /\ since \in Nat /\ delivered \in Nat
      BY <1>0
    <3>2. Len(tty) \in Nat \ {0} /\ Len(tty') = Len(tty) - 1
      BY <2>2
    <3> QED
      BY ONLY <3>1, <3>2, <2>4, <2>5
  <2>8. DataInHand'
    <3>1. Waits(queue', {Read("data")})
      BY <1>0, <2>1, HandlerKinds, PostedWaits
    <3> QED
      BY <3>1 DEF DataInHand
  <2> QED
    BY <1>0, <2>3, <2>4, <2>5, <2>6, <2>7, <2>8 DEF OrderOK
<1>2. CASE tty = <<>>
  <2>1. hung /\ tty' = tty /\ read_buffer_' = read_buffer_ /\ queue' = Append(queue, Read("error"))
    BY <1>2 DEF PerformRead
  <2>2. ~ Waits(queue', {Read("data")})
    <3>1. ~ Waits(queue, {Read("data")}) /\ Read("error") \notin {Read("data")}
      BY HandlerKinds DEF DataInHand
    <3>2. Read("error") \in Reads \cup Writes
      BY HandlerKinds
    <3> QED
      BY <1>0, <2>1, <3>1, <3>2, PostedWaits
  <2>3. ~ DataInHand'
    BY <2>2 DEF DataInHand
  <2> QED
    BY <1>0, <2>1, <2>3 DEF OrderOK
<1> QED
  BY <1>1, <1>2

LEMMA OrderStep == SerialInv /\ [SessionNext]_sessionVars => OrderOK'
<1> SUFFICES ASSUME SerialInv, [SessionNext]_sessionVars
             PROVE  OrderOK'
  OBVIOUS
<1>0. /\ queue \in Seq(Reads \cup Writes) /\ tty \in Seq(Nat)
      /\ arrived \in Nat /\ since \in Nat /\ delivered \in Nat /\ read_buffer_ \in Nat
      /\ PhaseOK /\ LocksOK /\ OneReadChain /\ OrderOK /\ SerialTypeOK
  BY DEF SerialInv, SerialTypeOK
<1>a. ASSUME tty' = <<>>, serial_port_' = NoPort, io_thread_' \notin {"callback", "bearing"},
             arrived' = arrived
      PROVE  OrderOK'
  BY <1>0, <1>a DEF OrderOK
<1>b. ASSUME UNCHANGED <<tty, hung, serial_port_, arrived, since, delivered, read_buffer_>>,
             receive_callback_ => receive_callback_',
             DataInHand' <=> DataInHand,
             io_thread_' \in {"callback", "bearing"} => io_thread_ \in {"callback", "bearing"}
      PROVE  OrderOK'
  BY <1>0, <1>b DEF OrderOK
<1>c. ASSUME UNCHANGED <<queue, io_thread_>>
      PROVE  DataInHand' <=> DataInHand
  BY <1>c DEF DataInHand
<1> USE DEF ioVars, lineVars, portVars, hostVars, dataVars, historyVars
<1>1. CASE DeckSends
  <2>1. /\ arrived' = arrived + 1 /\ tty' = Append(tty, arrived')
        /\ UNCHANGED <<queue, io_thread_, hung, serial_port_, since, delivered, read_buffer_,
                       receive_callback_>>
        /\ ~ hung /\ serial_port_ # NoPort
    BY <1>1 DEF DeckSends
  <2>2. /\ Len(tty) \in Nat /\ Len(tty') = Len(tty) + 1
        /\ \A i \in 1 .. Len(tty) : tty'[i] = tty[i]
        /\ tty'[Len(tty) + 1] = arrived + 1
    BY <1>0, <2>1
  <2>3. arrived' - Len(tty') = arrived - Len(tty) /\ arrived' \in Nat /\ Len(tty') <= arrived'
    BY <1>0, <2>1, <2>2 DEF OrderOK
  <2>4. ASSUME NEW i \in 1 .. Len(tty')
        PROVE  tty'[i] = arrived' - Len(tty') + i
    <3>1. CASE i = Len(tty) + 1
      BY <1>0, <2>2, <2>3, <3>1
    <3>2. CASE i \in 1 .. Len(tty)
      BY <1>0, <2>2, <2>3, <3>2 DEF OrderOK
    <3> QED
      BY <2>2, <3>1, <3>2
  <2>5. DataInHand' <=> DataInHand
    BY <1>c, <2>1
  <2> QED
    BY <1>0, <2>1, <2>3, <2>4, <2>5 DEF OrderOK
<1>2. CASE Unplug
  <2>1. /\ tty' = <<>> /\ hung' = TRUE
        /\ UNCHANGED <<queue, io_thread_, serial_port_, arrived, since, delivered, read_buffer_,
                       receive_callback_>>
    BY <1>2 DEF Unplug
  <2>2. DataInHand' <=> DataInHand
    BY <1>c, <2>1
  <2>3. Len(tty) \in Nat /\ Len(tty') = 0
    BY <1>0, <2>1
  <2> QED
    BY <1>0, <2>1, <2>2, <2>3 DEF OrderOK
<1>3. CASE ClientStep
  <2> DEFINE Opens == serial_port_ = NoPort /\ serial_port_' # NoPort
  <2>1. /\ arrived' = arrived
        /\ Opens => since' = arrived /\ delivered' = 0
        /\ ~ Opens => UNCHANGED <<since, delivered>>
    BY <1>3 DEF ClientStep
  <2> HIDE DEF Opens
  <2>2. ASSUME UNCHANGED <<tty, hung, serial_port_, read_buffer_, queue, io_thread_>>,
               receive_callback_ => receive_callback_'
        PROVE  OrderOK'
    <3>1. ~ Opens
      BY <2>2 DEF Opens
    <3> QED
      BY <1>b, <1>c, <2>1, <2>2, <3>1
  <2>3. CASE CreatePort
    BY <1>0, <1>a, <2>1, <2>3 DEF CreatePort, newSerialPort, At, PhaseOK, OrderOK
  <2>4. CASE OpenPort
    <3>1. /\ tty' = <<>> /\ io_thread_' = "run" /\ queue' = queue /\ Opens
          /\ read_buffer_' = read_buffer_
      BY <1>0, <2>4, StartupAssumption, SerialAssumption DEF OpenPort, At, open, Opens
    <3>2. queue = <<>>
      BY <1>0, <2>4 DEF OpenPort, At, PhaseOK
    <3>3. ~ DataInHand'
      BY <3>1, <3>2 DEF DataInHand, Waits
    <3> QED
      BY <1>0, <2>1, <3>1, <3>3 DEF OrderOK
  <2>5. CASE SwitchBaudrate
    <3>1. /\ serial_port_ # NoPort /\ serial_port_' # NoPort
          /\ UNCHANGED <<tty, hung, read_buffer_, queue, io_thread_, receive_callback_>>
      BY <1>0, <2>5, StartupAssumption, SerialAssumption
         DEF SwitchBaudrate, setConfiguration, PhaseOK, StartupStage
    <3>2. ~ Opens /\ (DataInHand' <=> DataInHand)
      BY <1>c, <3>1 DEF Opens
    <3> QED
      BY <1>0, <2>1, <3>1, <3>2 DEF OrderOK
  <2>6. CASE StartupStep
    BY <2>2, <2>3, <2>4, <2>5, <2>6 DEF StartupStep, At, OpenPortFails, openFails, OpenReturns,
       unlock, BeginBreak, sendBreak, EndBreak, SendCommand, send, CommandSent, sendReturns,
       Listen, setCallback
  <2>7. CASE CloseStep
    <3>1. CASE BeginClose
      BY <2>2, <3>1 DEF BeginClose, closeStops
    <3>2. CASE EndClose
      BY <1>a, <2>1, <3>2 DEF EndClose, closeJoins
    <3> QED
      BY <2>7, <3>1, <3>2 DEF CloseStep
  <2>8. CASE NodeStep
    BY <2>2, <2>6, <2>7, <2>8 DEF NodeStep, ConstructNode, initializeSerial, NodeStarted,
       NodeThrows, DestroyNode, CloseNode, NodeDestroyed, Enter
  <2>9. CASE LifecycleStep
    BY <2>2, <2>6, <2>7, <2>9 DEF LifecycleStep, on_init, on_configure, initialize_serial,
       Configured, ConfigureFails, on_activate, on_deactivate, on_cleanup, CleanupReturns,
       Shutdown, DestroyHardware, CloseHardware, HardwareDestroyed, Enter
  <2> QED
    BY <1>3, <2>8, <2>9 DEF ClientStep
<1>4. CASE IoThreadStep
  <2>1. /\ UNCHANGED <<arrived, since>>
        /\ io_thread_' # "callback" => delivered' = delivered
        /\ io_thread_' = "callback" => delivered' = read_buffer_
    BY <1>4 DEF IoThreadStep
  <2>2. ~ Waits(queue, Reads) => ~ Waits(queue, {Read("data")})
    BY HandlerKinds DEF Waits
  <2>3. CASE CompleteRead \/ (startAsyncRead /\ UNCHANGED pending)
    <3>1. ~ DataInHand /\ io_thread_' = "run" /\ io_thread_ # "none"
      BY <1>0, <2>2, <2>3 DEF CompleteRead, startAsyncRead, OneReadChain, ReadHandled,
         DataInHand, SerialTypeOK
    <3>2. /\ serial_port_ # NoPort
          /\ UNCHANGED <<serial_port_, receive_callback_, hung, arrived, since, delivered>>
      BY <1>0, <2>1, <2>3, <3>1 DEF CompleteRead, startAsyncRead, PhaseOK
    <3>3. PerformRead
      BY <1>0, <2>3 DEF CompleteRead, startAsyncRead, SerialTypeOK
    <3> QED
      BY <3>1, <3>2, <3>3, NextChunk
  <2>4. CASE startAsyncRead /\ UNCHANGED <<queue, read_buffer_, tty>>
    BY <1>b, <2>1, <2>4 DEF startAsyncRead, DataInHand
  <2>5. CASE CompleteWrite
    <3>1. PICK result \in {"ok", "error"} : queue' = Append(queue, Write(result))
      BY <2>5 DEF CompleteWrite
    <3>2. Write(result) \in Reads \cup Writes /\ Write(result) \notin {Read("data")}
      BY HandlerKinds
    <3>3. Waits(queue', {Read("data")}) <=> Waits(queue, {Read("data")})
      BY <1>0, <3>1, <3>2, PostedWaits
    <3>4. DataInHand' <=> DataInHand
      BY <2>5, <3>3 DEF CompleteWrite, DataInHand
    <3>5. delivered' = delivered /\ io_thread_' = io_thread_
      BY <1>0, <2>1, <2>5 DEF CompleteWrite, OrderOK
    <3> QED
      BY <1>b, <2>1, <2>5, <3>4, <3>5 DEF CompleteWrite
  <2>6. CASE RunHandler
    <3>1. queue # <<>> /\ queue' = Tail(queue) /\ io_thread_ = "run"
      BY <2>6 DEF RunHandler
    <3>2. io_thread_' \notin {"callback", "bearing"}
      BY <1>0, <2>6, HandlerRuns
    <3>3. io_thread_' = "read" <=> Head(queue) = Read("data")
      <4>1. CASE Head(queue) \in Reads
        BY <1>0, <2>6, <4>1, HandlerRuns
      <4>2. CASE Head(queue) \in Writes
        BY <1>0, <2>6, <4>2, HandlerRuns, HandlerKinds
      <4> QED
        BY <1>0, <2>6, <4>1, <4>2, HandlerRuns
    <3>4. Head(queue) # Read("data") =>
             (Waits(queue', {Read("data")}) <=> Waits(queue, {Read("data")}))
      BY <1>0, <3>1, TakenWaits
    <3>5. Head(queue) = Read("data") => Waits(queue, {Read("data")})
      BY <1>0, <3>1, TakenWaits
    <3>6. DataInHand' <=> DataInHand
      BY <3>1, <3>3, <3>4, <3>5 DEF DataInHand
    <3> QED
      BY <1>b, <2>1, <2>6, <3>2, <3>6 DEF RunHandler
  <2>7. CASE EnterCallback
    <3>1. /\ io_thread_ = "read" /\ io_thread_' = "callback" /\ delivered' = read_buffer_
          /\ receive_callback_
          /\ UNCHANGED <<tty, hung, serial_port_, read_buffer_, receive_callback_, queue>>
      BY <2>1, <2>7 DEF EnterCallback
    <3>2. ~ Waits(queue, {Read("data")}) /\ DataInHand
      BY <1>0, <2>2, <3>1 DEF OneReadChain, ReadHandled, DataInHand
    <3>3. ~ DataInHand'
      BY <3>1, <3>2 DEF DataInHand
    <3> QED
      BY <1>0, <2>1, <3>1, <3>2, <3>3 DEF OrderOK
  <2>8. CASE SkipCallback
    <3>1. /\ io_thread_' = "rechain" /\ delivered' = delivered /\ ~ receive_callback_
          /\ UNCHANGED <<tty, hung, serial_port_, read_buffer_, receive_callback_>>
      BY <2>1, <2>8 DEF SkipCallback
    <3>2. ~ DataInHand'
      <4>1. ~ Waits(queue, Reads) /\ io_thread_' = "rechain" /\ queue' = queue
        BY <1>0, <2>8 DEF SkipCallback, OneReadChain, ReadHandled
      <4> QED
        BY <2>2, <4>1 DEF DataInHand
    <3> QED
      BY <1>0, <2>1, <3>1, <3>2 DEF OrderOK
  <2>9. CASE LeaveCallback \/ EndThread
    BY <1>b, <2>1, <2>9 DEF LeaveCallback, EndThread, DataInHand
  <2>10. CASE startAsyncRead
    BY <2>3, <2>4, <2>10 DEF startAsyncRead
  <2> QED
    BY <1>4, <2>3, <2>5, <2>6, <2>7, <2>8, <2>9, <2>10 DEF IoThreadStep, IoStep
<1>5. CASE DataStep /\ UNCHANGED historyVars
  <2>1. UNCHANGED <<tty, hung, serial_port_, arrived, since, delivered, read_buffer_, queue,
                    receive_callback_>>
    BY <1>5 DEF DataStep, BeginBearing, EndBearing, read
  <2>2. \/ io_thread_ \in {"callback", "bearing"} /\ io_thread_' \in {"callback", "bearing"}
        \/ io_thread_' = io_thread_
    BY <1>5 DEF DataStep, BeginBearing, EndBearing, read
  <2>3. DataInHand' <=> DataInHand
    BY <2>1, <2>2 DEF DataInHand
  <2> QED
    BY <1>b, <2>1, <2>2, <2>3
<1>6. CASE UNCHANGED sessionVars
  BY <1>b, <1>6 DEF sessionVars, DataInHand
<1> QED
  BY <1>1, <1>2, <1>3, <1>4, <1>5, <1>6 DEF SessionNext

\* The type invariant, in parts.
PortTypeOK ==
    /\ serial_port_ \in Baud \cup {NoPort}
    /\ io_thread_ \in {"none", "run", "read", "callback", "bearing", "rechain", "ended"}
    /\ stopped \in BOOLEAN /\ receive_callback_ \in BOOLEAN /\ hung \in BOOLEAN
    /\ mutex_ \in {Free, "client", "io"}
    /\ sent \in {"unset", "ok", "error"}

QueueTypeOK == pending \in [read : 0 .. 1, write : 0 .. 1] /\ queue \in Seq(Reads \cup Writes)

ChunkTypeOK ==
    /\ read_buffer_ \in Nat /\ tty \in Seq(Nat)
    /\ arrived \in Nat /\ since \in Nat /\ delivered \in Nat

HostTypeOK ==
    /\ host \in {"node", "hardware"} /\ life \in NodeLife \cup HardwareLife
    /\ step \in {"idle"} \cup StartupStage \cup CloseStage
    /\ protocol_decoder_ \in BOOLEAN
    /\ starts \in 0 .. MaxStarts

DataTypeOK ==
    /\ base_station_data_ \in [BaseStation -> [angles : Nat, timestamp : Nat]]
    /\ read_base_station_data_ \in [BaseStation -> [angles : Nat, timestamp : Nat]]
    /\ data_mutex_ \in {Free, "io"} /\ bearing_station \in BaseStation

LEMMA TypeParts ==
  SerialTypeOK <=> PortTypeOK /\ QueueTypeOK /\ ChunkTypeOK /\ HostTypeOK /\ DataTypeOK
<1> HIDE DEF StartupStage, CloseStage, NodeLife, HardwareLife
<1> QED
  BY Zenon DEF SerialTypeOK, PortTypeOK, QueueTypeOK, ChunkTypeOK, HostTypeOK, DataTypeOK

LEMMA PortTypeStep == SerialInv /\ [SessionNext]_sessionVars => PortTypeOK'
<1> SUFFICES ASSUME SerialInv, [SessionNext]_sessionVars
             PROVE  PortTypeOK'
  OBVIOUS
<1>0. PortTypeOK /\ SerialTypeOK
  BY TypeParts DEF SerialInv
<1> USE SerialAssumption, StartupAssumption
<1> USE DEF PortTypeOK, ioVars, lineVars, portVars, hostVars, dataVars, historyVars, Free
<1>1. CASE DeckSends \/ Unplug
  BY <1>0, <1>1 DEF DeckSends, Unplug
<1>2. CASE ClientStep
  <2>1. CASE StartupStep
    BY <1>0, <2>1, ZenonT(30) DEF StartupStep, At, CreatePort, newSerialPort, OpenPort, open,
        OpenPortFails, openFails, OpenReturns, unlock, BeginBreak, sendBreak, EndBreak,
        SendCommand, send, CommandSent, sendReturns, SwitchBaudrate, setConfiguration, Listen,
        setCallback
  <2>2. CASE CloseStep
    BY <1>0, <2>2, ZenonT(30) DEF CloseStep, At, BeginClose, closeStops, EndClose, closeJoins
  <2>3. CASE NodeStep
    BY <1>0, <2>1, <2>2, <2>3 DEF NodeStep, ConstructNode, initializeSerial, NodeStarted,
       NodeThrows, DestroyNode, CloseNode, NodeDestroyed, Enter
  <2>4. CASE LifecycleStep
    BY <1>0, <2>1, <2>2, <2>4 DEF LifecycleStep, on_init, on_configure, initialize_serial,
       Configured, ConfigureFails, on_activate, on_deactivate, on_cleanup, CleanupReturns,
       Shutdown, DestroyHardware, CloseHardware, HardwareDestroyed, Enter
  <2> QED
    BY <1>2, <2>3, <2>4 DEF ClientStep
<1>3. CASE IoThreadStep
  <2>1. CASE RunHandler
    <3>1. io_thread_' \in {"read", "rechain", "run"} /\ sent' \in {"unset", "ok", "error"}
      <4>1. CASE Head(queue) \in Reads
        BY <1>0, <2>1, <4>1, HandlerRuns
      <4>2. CASE Head(queue) \in Writes
        BY <1>0, <2>1, <4>2, HandlerRuns
      <4> QED
        BY <1>0, <2>1, <4>1, <4>2, HandlerRuns
    <3> QED
      BY <1>0, <2>1, <3>1 DEF RunHandler
  <2> QED
    BY <1>0, <1>3, <2>1 DEF IoThreadStep, IoStep, CompleteRead, CompleteWrite, EnterCallback,
       SkipCallback, LeaveCallback, startAsyncRead, EndThread
<1>4. CASE DataStep
  BY <1>0, <1>4 DEF DataStep, BeginBearing, EndBearing, read
<1>5. CASE UNCHANGED sessionVars
  BY <1>0, <1>5 DEF sessionVars
<1> QED
  BY <1>1, <1>2, <1>3, <1>4, <1>5 DEF SessionNext

LEMMA QueueTypeStep == SerialInv /\ [SessionNext]_sessionVars => QueueTypeOK'
<1> SUFFICES ASSUME SerialInv, [SessionNext]_sessionVars
             PROVE  QueueTypeOK'
  OBVIOUS
<1> DEFINE Handler == Reads \cup Writes
<1>0. QueueTypeOK /\ PhaseOK /\ WritesOK /\ OneReadChain /\ SerialTypeOK
  BY TypeParts DEF SerialInv
<1>a. /\ \A result \in {"data", "error", "aborted"} : Read(result) \in Handler
      /\ \A result \in {"ok", "error"} : Write(result) \in Handler
  BY HandlerKinds
<1>b. /\ queue \in Seq(Handler)
      /\ \A h \in Handler : Append(queue, h) \in Seq(Handler)
      /\ <<>> \in Seq(Handler)
      /\ queue # <<>> => Tail(queue) \in Seq(Handler)
      /\ pending.read \in 0 .. 1 /\ pending.write \in 0 .. 1
  BY <1>0, HeadTailProperties DEF QueueTypeOK
<1>c. QueueTypeOK' <=> pending' \in [read : 0 .. 1, write : 0 .. 1] /\ queue' \in Seq(Handler)
  BY DEF QueueTypeOK
<1>d. pending \in [read : 0 .. 1, write : 0 .. 1]
  BY <1>0 DEF QueueTypeOK
<1>e. UNCHANGED <<queue, pending>> => QueueTypeOK'
  BY <1>b, <1>c, <1>d
<1> HIDE DEF Handler
<1> USE DEF ioVars, portVars
<1>1. CASE DeckSends \/ Unplug
  BY <1>e, <1>1 DEF DeckSends, Unplug
<1>2. CASE ClientStep
  <2>1. CASE CreatePort
    BY <1>b, <1>c, <2>1 DEF CreatePort, newSerialPort, NothingPending
  <2>2. CASE OpenPort
    <3>1. pending = NothingPending
      BY <1>0, <2>2 DEF OpenPort, At, PhaseOK
    <3> QED
      BY <1>b, <1>c, <2>2, <3>1 DEF OpenPort, open, NothingPending
  <2>3. CASE SendCommand
    <3>1. pending.write = 0
      BY <1>0, <1>b, <2>3 DEF SendCommand, At, WritesOK
    <3> QED
      BY <1>b, <1>c, <1>d, <2>3, <3>1 DEF SendCommand, send
  <2>4. CASE EndClose
    <3>1. queue' = queue \o [i \in 1 .. pending.read |-> Read("aborted")]
      BY <2>4 DEF EndClose, closeJoins
    <3>2. queue' = IF pending.read = 1 THEN Append(queue, Read("aborted")) ELSE queue
      BY <1>a, <1>b, <3>1, AbortedQueue
    <3>3. queue' \in Seq(Handler)
      BY <1>a, <1>b, <3>2
    <3>4. pending' = [pending EXCEPT !.read = 0]
      BY <2>4 DEF EndClose, closeJoins
    <3>5. pending' \in [read : 0 .. 1, write : 0 .. 1]
      BY <1>d, <3>4
    <3> QED
      BY <1>c, <3>3, <3>5
  <2>5. CASE StartupStep
    BY <1>e, <2>1, <2>2, <2>3, <2>5 DEF StartupStep, OpenPortFails, openFails, OpenReturns,
        unlock, BeginBreak, sendBreak, EndBreak, CommandSent, sendReturns, SwitchBaudrate,
        setConfiguration, Listen, setCallback
  <2>6. CASE CloseStep
    BY <1>e, <2>4, <2>6 DEF CloseStep, BeginClose, closeStops
  <2>7. CASE NodeStep
    BY <1>e, <2>5, <2>6, <2>7 DEF NodeStep, ConstructNode, initializeSerial, NodeStarted,
       NodeThrows, DestroyNode, CloseNode, NodeDestroyed, Enter
  <2>8. CASE LifecycleStep
    BY <1>e, <2>5, <2>6, <2>8 DEF LifecycleStep, on_init, on_configure, initialize_serial,
       Configured, ConfigureFails, on_activate, on_deactivate, on_cleanup, CleanupReturns,
       Shutdown, DestroyHardware, CloseHardware, HardwareDestroyed, Enter
  <2> QED
    BY <1>2, <2>7, <2>8 DEF ClientStep
<1>3. CASE IoThreadStep
  <2>1. PerformRead => queue' \in Seq(Handler)
    BY <1>a, <1>b DEF PerformRead
  <2>2. CASE CompleteRead
    BY <1>b, <1>c, <1>d, <2>1, <2>2 DEF CompleteRead
  <2>3. CASE CompleteWrite
    BY <1>a, <1>b, <1>c, <1>d, <2>3 DEF CompleteWrite
  <2>4. CASE RunHandler
    BY <1>b, <1>c, <1>d, <2>4 DEF RunHandler
  <2>5. CASE startAsyncRead
    <3>1. pending.read = 0
      BY <1>0, <2>5 DEF startAsyncRead, OneReadChain, ReadHandled
    <3> QED
      BY <1>b, <1>c, <1>d, <2>1, <2>5, <3>1 DEF startAsyncRead
  <2> QED
    BY <1>3, <1>e, <2>2, <2>3, <2>4, <2>5 DEF IoThreadStep, IoStep, EnterCallback, SkipCallback,
       LeaveCallback, EndThread
<1>4. CASE DataStep
  BY <1>e, <1>4 DEF DataStep, BeginBearing, EndBearing, read
<1>5. CASE UNCHANGED sessionVars
  BY <1>e, <1>5 DEF sessionVars
<1> QED
  BY <1>1, <1>2, <1>3, <1>4, <1>5 DEF SessionNext

LEMMA ChunkTypeStep == SerialInv /\ [SessionNext]_sessionVars => ChunkTypeOK'
<1> SUFFICES ASSUME SerialInv, [SessionNext]_sessionVars
             PROVE  ChunkTypeOK'
  OBVIOUS
<1>0. ChunkTypeOK
  BY TypeParts DEF SerialInv
<1>a. UNCHANGED <<read_buffer_, tty, historyVars>> => ChunkTypeOK'
  BY <1>0 DEF ChunkTypeOK, historyVars
<1>b. <<>> \in Seq(Nat) /\ (tty # <<>> => Head(tty) \in Nat /\ Tail(tty) \in Seq(Nat))
  BY <1>0, HeadTailProperties DEF ChunkTypeOK
<1> USE DEF ioVars, lineVars, portVars, historyVars
<1>1. CASE DeckSends
  <2>1. arrived' \in Nat /\ Append(tty, arrived') \in Seq(Nat)
    BY <1>0, <1>1 DEF DeckSends, ChunkTypeOK
  <2> QED
    BY <1>0, <1>1, <2>1 DEF DeckSends, ChunkTypeOK
<1>2. CASE Unplug
  BY <1>0, <1>b, <1>2 DEF Unplug, ChunkTypeOK
<1>3. CASE ClientStep
  <2>0. arrived' \in Nat /\ since' \in Nat /\ delivered' \in Nat
    BY <1>0, <1>3 DEF ClientStep, ChunkTypeOK
  <2>1. ASSUME read_buffer_' = read_buffer_ \/ read_buffer_' = 0, tty' = tty \/ tty' = <<>>
        PROVE  ChunkTypeOK'
    <3>1. read_buffer_ \in Nat /\ tty \in Seq(Nat)
      BY <1>0 DEF ChunkTypeOK
    <3>2. read_buffer_' \in Nat
      BY <2>1, <3>1
    <3>3. tty' \in Seq(Nat)
      BY <1>b, <2>1, <3>1
    <3> QED
      BY <2>0, <3>2, <3>3 DEF ChunkTypeOK
  <2>2. CASE StartupStep
    BY <2>1, <2>2 DEF StartupStep, CreatePort, newSerialPort, OpenPort, open, OpenPortFails,
        openFails, OpenReturns, unlock, BeginBreak, sendBreak, EndBreak, SendCommand, send,
        CommandSent, sendReturns, SwitchBaudrate, setConfiguration, Listen, setCallback
  <2>3. CASE CloseStep
    BY <2>1, <2>3 DEF CloseStep, BeginClose, closeStops, EndClose, closeJoins
  <2>4. CASE NodeStep
    BY <2>1, <2>2, <2>3, <2>4 DEF NodeStep, ConstructNode, initializeSerial, NodeStarted,
       NodeThrows, DestroyNode, CloseNode, NodeDestroyed, Enter
  <2>5. CASE LifecycleStep
    BY <2>1, <2>2, <2>3, <2>5 DEF LifecycleStep, on_init, on_configure, initialize_serial,
       Configured, ConfigureFails, on_activate, on_deactivate, on_cleanup, CleanupReturns,
       Shutdown, DestroyHardware, CloseHardware, HardwareDestroyed, Enter
  <2> QED
    BY <1>3, <2>4, <2>5 DEF ClientStep
<1>4. CASE IoThreadStep
  <2>1. arrived' \in Nat /\ since' \in Nat /\ delivered' \in Nat
    BY <1>0, <1>4 DEF IoThreadStep, ChunkTypeOK
  <2>2. PerformRead => read_buffer_' \in Nat /\ tty' \in Seq(Nat)
    BY <1>0, <1>b DEF PerformRead, ChunkTypeOK
  <2>3. read_buffer_' \in Nat /\ tty' \in Seq(Nat)
    BY <1>0, <1>4, <2>2 DEF IoThreadStep, IoStep, CompleteRead, CompleteWrite, RunHandler,
       EnterCallback, SkipCallback, LeaveCallback, startAsyncRead, EndThread, ChunkTypeOK
  <2> QED
    BY <2>1, <2>3 DEF ChunkTypeOK
<1>5. CASE DataStep /\ UNCHANGED historyVars
  BY <1>a, <1>5 DEF DataStep, BeginBearing, EndBearing, read
<1>6. CASE UNCHANGED sessionVars
  BY <1>a, <1>6 DEF sessionVars
<1> QED
  BY <1>1, <1>2, <1>3, <1>4, <1>5, <1>6 DEF SessionNext

LEMMA HostTypeStep == SerialInv /\ [SessionNext]_sessionVars => HostTypeOK'
<1> SUFFICES ASSUME SerialInv, [SessionNext]_sessionVars
             PROVE  HostTypeOK'
  OBVIOUS
<1>0. HostTypeOK
  BY TypeParts DEF SerialInv
<1> USE StartupAssumption
<1> USE DEF HostTypeOK, hostVars, StartupStage, CloseStage, NodeLife, HardwareLife
<1>1. CASE DeckSends \/ Unplug \/ IoThreadStep
  BY <1>0, <1>1 DEF DeckSends, Unplug, IoThreadStep
<1>2. CASE ClientStep
  <2>1. CASE StartupStep
    BY <1>0, <2>1 DEF StartupStep, At, CreatePort, OpenPort, OpenPortFails, OpenReturns,
       BeginBreak, EndBreak, SendCommand, CommandSent, SwitchBaudrate, Listen
  <2>2. CASE CloseStep
    BY <1>0, <2>2 DEF CloseStep, At, BeginClose, EndClose
  <2>3. CASE ConstructNode \/ on_configure
    <3>1. /\ life' \in {"starting", "configuring"} /\ step' = "create" /\ host' = host
          /\ protocol_decoder_' = TRUE
          /\ starts < MaxStarts /\ starts' = starts + 1
      BY <2>3 DEF ConstructNode, on_configure, Enter
    <3>2. starts \in 0 .. MaxStarts /\ MaxStarts \in Nat
      BY <1>0
    <3>3. starts' \in 0 .. MaxStarts
      BY ONLY <3>1, <3>2
    <3> QED
      BY <1>0, <3>1, <3>3
  <2>4. ASSUME NEW from, NEW to \in NodeLife \cup HardwareLife,
               NEW first \in {"idle", "close"}, Enter(from, to, first),
               starts' = starts, protocol_decoder_' \in BOOLEAN
        PROVE  HostTypeOK'
    BY <1>0, <2>4 DEF Enter
  <2>5. CASE NodeStarted \/ NodeThrows \/ DestroyNode \/ NodeDestroyed
    BY <1>0, <2>4, <2>5 DEF NodeStarted, NodeThrows, DestroyNode, NodeDestroyed
  <2>6. CASE NodeStep
    BY <2>1, <2>2, <2>3, <2>5, <2>6 DEF NodeStep, initializeSerial, CloseNode
  <2>7. CASE on_init \/ Configured \/ ConfigureFails \/ on_activate \/ on_deactivate
    BY <1>0, <2>4, <2>7 DEF on_init, Configured, ConfigureFails, on_activate, on_deactivate
  <2>8. CASE on_cleanup \/ CleanupReturns \/ Shutdown \/ DestroyHardware \/ HardwareDestroyed
    BY <1>0, <2>4, <2>8 DEF on_cleanup, CleanupReturns, Shutdown, DestroyHardware,
       HardwareDestroyed
  <2>9. CASE LifecycleStep
    BY <2>1, <2>2, <2>3, <2>7, <2>8, <2>9 DEF LifecycleStep, initialize_serial, CloseHardware
  <2> QED
    BY <1>2, <2>6, <2>9 DEF ClientStep
<1>3. CASE DataStep
  BY <1>0, <1>3 DEF DataStep, BeginBearing, EndBearing, read
<1>4. CASE UNCHANGED sessionVars
  BY <1>0, <1>4 DEF sessionVars
<1> QED
  BY <1>1, <1>2, <1>3, <1>4 DEF SessionNext

LEMMA DataTypeStep == SerialInv /\ [SessionNext]_sessionVars => DataTypeOK'
<1> SUFFICES ASSUME SerialInv, [SessionNext]_sessionVars
             PROVE  DataTypeOK'
  OBVIOUS
<1>0. DataTypeOK /\ read_buffer_ \in Nat
  BY TypeParts DEF SerialInv, ChunkTypeOK
<1>a. UNCHANGED dataVars => DataTypeOK'
  BY <1>0 DEF DataTypeOK, dataVars
<1>1. CASE DeckSends \/ Unplug \/ IoThreadStep
  BY <1>a, <1>1 DEF DeckSends, Unplug, IoThreadStep
<1>2. CASE ClientStep
  <2>1. CASE on_init
    BY <1>0, <2>1 DEF on_init, NoData, DataTypeOK
  <2>2. CASE LifecycleStep
    BY <1>a, <2>1, <2>2 DEF LifecycleStep, on_configure, initialize_serial, Configured,
       ConfigureFails, on_activate, on_deactivate, on_cleanup, CleanupReturns, Shutdown,
       DestroyHardware, CloseHardware, HardwareDestroyed
  <2> QED
    BY <1>2, <1>a, <2>2 DEF ClientStep
<1>3. CASE DataStep
  <2>1. CASE \E station \in BaseStation : BeginBearing(station)
    BY <1>0, <2>1 DEF BeginBearing, DataTypeOK
  <2>2. CASE EndBearing
    BY <1>0, <2>2 DEF EndBearing, DataTypeOK
  <2>3. CASE read
    BY <1>0, <2>3 DEF read, DataTypeOK
  <2> QED
    BY <1>3, <2>1, <2>2, <2>3 DEF DataStep
<1>4. CASE UNCHANGED sessionVars
  BY <1>a, <1>4 DEF sessionVars
<1> QED
  BY <1>1, <1>2, <1>3, <1>4 DEF SessionNext

LEMMA TypeStep == SerialInv /\ [SessionNext]_sessionVars => SerialTypeOK'
<1> SUFFICES ASSUME SerialInv, [SessionNext]_sessionVars
             PROVE  SerialTypeOK'
  OBVIOUS
<1>1. PortTypeOK' /\ QueueTypeOK' /\ ChunkTypeOK' /\ HostTypeOK' /\ DataTypeOK'
  BY PortTypeStep, QueueTypeStep, ChunkTypeStep, HostTypeStep, DataTypeStep
<1>2. SerialTypeOK' <=> (PortTypeOK /\ QueueTypeOK /\ ChunkTypeOK /\ HostTypeOK /\ DataTypeOK)'
  BY Zenon DEF SerialTypeOK, PortTypeOK, QueueTypeOK, ChunkTypeOK, HostTypeOK, DataTypeOK
<1> QED
  BY <1>1, <1>2

LEMMA InvInit == SessionInit => SerialInv
<1> SUFFICES ASSUME SessionInit
             PROVE  SerialInv
  OBVIOUS
<1>1. /\ queue = <<>> /\ tty = <<>> /\ pending = [read |-> 0, write |-> 0]
      /\ serial_port_ = NoPort /\ io_thread_ = "none" /\ stopped = FALSE /\ read_buffer_ = 0
      /\ receive_callback_ = FALSE /\ mutex_ = Free /\ sent = "unset" /\ hung = FALSE
      /\ life = "absent" /\ step = "idle" /\ starts = 0 /\ protocol_decoder_ = FALSE
      /\ base_station_data_ = NoData /\ read_base_station_data_ = NoData /\ data_mutex_ = Free
      /\ arrived = 0 /\ since = 0 /\ delivered = 0
      /\ host \in {"node", "hardware"} /\ bearing_station \in BaseStation
  BY DEF SessionInit, IsNewPort, DataInit, NothingPending
<1>2. \A S : ~ Waits(queue, S) /\ AtMostOne(queue, S)
  BY <1>1 DEF Waits, AtMostOne
<1>3. SerialTypeOK
  <2>1. PortTypeOK /\ QueueTypeOK /\ ChunkTypeOK
    <3>1. PortTypeOK
      BY <1>1, Zenon DEF PortTypeOK, Free
    <3>2. queue \in Seq(Reads \cup Writes) /\ tty \in Seq(Nat)
      BY <1>1
    <3>3. pending \in [read : 0 .. 1, write : 0 .. 1]
      BY <1>1
    <3> QED
      BY <1>1, <3>1, <3>2, <3>3 DEF QueueTypeOK, ChunkTypeOK
  <2>2. HostTypeOK
    <3>1. starts \in 0 .. MaxStarts
      BY <1>1, StartupAssumption
    <3>2. /\ host \in {"node", "hardware"} /\ life = "absent" /\ step = "idle"
          /\ protocol_decoder_ = FALSE
      BY <1>1
    <3> QED
      BY ONLY <3>1, <3>2 DEF HostTypeOK, NodeLife, HardwareLife
  <2>3. DataTypeOK
    <3>1. NoData \in [BaseStation -> [angles : Nat, timestamp : Nat]]
      BY DEF NoData
    <3>2. /\ base_station_data_ = NoData /\ read_base_station_data_ = NoData
          /\ data_mutex_ = Free /\ bearing_station \in BaseStation
      BY <1>1
    <3> QED
      BY ONLY <3>1, <3>2 DEF DataTypeOK, Free
  <2> QED
    BY <2>1, <2>2, <2>3, TypeParts
<1>4. PhaseOK /\ LocksOK
  BY <1>1 DEF PhaseOK, LocksOK, StartupStage, CloseStage, Free
<1>5. WritesOK /\ OneReadChain
  BY <1>1, <1>2 DEF WritesOK, OneReadChain, ReadHandled
<1>6. DataOK
  BY <1>1 DEF DataOK, SnapshotsAreWhole, NoData
<1>7. OrderOK
  BY <1>1 DEF OrderOK
<1> QED
  BY <1>3, <1>4, <1>5, <1>6, <1>7 DEF SerialInv

\* SerialInv holds in every state of a session, whatever the number of starts, of
\* chunks and of stations.
THEOREM SerialSafe == SessionSpec => []SerialInv
<1>1. SerialInv /\ [SessionNext]_sessionVars => SerialInv'
  BY PhaseStep, LocksStep, WritesStep, ChainStep, DataOKStep, OrderStep, TypeStep DEF SerialInv
<1> QED
  BY InvInit, <1>1, PTL DEF SessionSpec

\* Every variable of the port, its host and the history keeps its type; at most one
\* read and one write are pending.
THEOREM SerialTypes == SessionSpec => []SerialTypeOK
<1>1. SerialInv => SerialTypeOK
  BY DEF SerialInv
<1> QED
  BY SerialSafe, <1>1, PTL

\* There is never more than one read for the one buffer, and the chain of reads goes
\* on as long as a port is open (startAsyncRead, serial_port.cpp:148).
THEOREM OneChain == SessionSpec => []OneReadChain
<1>1. SerialInv => OneReadChain
  BY DEF SerialInv
<1> QED
  BY SerialSafe, <1>1, PTL

\* The receive callback finds the decoder it calls, in both hosts and on every way out
\* of them (receiveCallback, on_cleanup, the destructors and the throwing constructor).
THEOREM DecoderIsThere == SessionSpec => []DecoderOutlivesCallback
<1>1. SerialInv => DecoderOutlivesCallback
  BY DEF SerialInv, PhaseOK, LocksOK, DecoderOutlivesCallback
<1> QED
  BY SerialSafe, <1>1, PTL

\* The state interfaces never mix two bearings of a station (read,
\* lighthouse_deck_hardware.cpp:246).
THEOREM WholeSnapshots == SessionSpec => []SnapshotsAreWhole
<1>1. SerialInv => SnapshotsAreWhole
  BY DEF SerialInv, DataOK
<1> QED
  BY SerialSafe, <1>1, PTL

----------------------------------------------------------------------------
\* The refinement of ByteChannel.

\* Calls on the port, with the history that the session keeps of them.
LEMMA ClientRefines ==
  ASSUME SerialInv, ClientStep
  PROVE  Channel!Next \/ UNCHANGED <<ChannelState, arrived, since, delivered>>
<1>0. PhaseOK
  BY DEF SerialInv
<1> DEFINE Opens == serial_port_ = NoPort /\ serial_port_' # NoPort
<1>1. /\ arrived' = arrived
      /\ Opens => since' = arrived /\ delivered' = 0
      /\ ~ Opens => UNCHANGED <<since, delivered>>
  BY DEF ClientStep
<1> HIDE DEF Opens
<1> USE DEF portVars
<1>2. ASSUME UNCHANGED <<serial_port_, receive_callback_>>
      PROVE  UNCHANGED <<ChannelState, arrived, since, delivered>>
  <2>1. ~ Opens
    BY <1>2 DEF Opens
  <2> QED
    BY <1>1, <1>2, <2>1 DEF ChannelState
<1>3. CASE CreatePort
  <2>1. serial_port_ = NoPort /\ serial_port_' = NoPort
    BY <1>0, <1>3 DEF CreatePort, At, newSerialPort, PhaseOK
  <2>2. ~ Opens
    BY <2>1 DEF Opens
  <2> QED
    BY <1>1, <2>1, <2>2 DEF ChannelState
<1>4. CASE OpenPort
  <2>1. /\ serial_port_ = NoPort /\ serial_port_' # NoPort
        /\ ~ receive_callback_ /\ ~ receive_callback_'
    BY <1>0, <1>4, StartupAssumption, SerialAssumption
       DEF OpenPort, At, open, PhaseOK, StartupStage
  <2>2. Opens
    BY <2>1 DEF Opens
  <2>3. Channel!Open
    BY <1>1, <2>1, <2>2 DEF Channel!Open, ChannelState
  <2> QED
    BY <2>3 DEF Channel!Next
<1>5. CASE SwitchBaudrate
  <2>1. /\ serial_port_ # NoPort /\ serial_port_' # NoPort
        /\ receive_callback_' = receive_callback_
    BY <1>0, <1>5, StartupAssumption, SerialAssumption
       DEF SwitchBaudrate, setConfiguration, PhaseOK, StartupStage
  <2>2. ~ Opens
    BY <2>1 DEF Opens
  <2> QED
    BY <1>1, <2>1, <2>2 DEF ChannelState
<1>6. CASE Listen
  <2>1. /\ serial_port_ # NoPort /\ serial_port_' = serial_port_
        /\ ~ receive_callback_ /\ receive_callback_'
    BY <1>0, <1>6 DEF Listen, At, setCallback, PhaseOK, StartupStage
  <2>2. ~ Opens
    BY <2>1 DEF Opens
  <2>3. Channel!Attach
    BY <1>1, <2>1, <2>2 DEF Channel!Attach, ChannelState
  <2> QED
    BY <2>3 DEF Channel!Next
<1>7. CASE StartupStep
  BY <1>2, <1>3, <1>4, <1>5, <1>6, <1>7 DEF StartupStep, OpenPortFails, openFails, OpenReturns,
     unlock, BeginBreak, sendBreak, EndBreak, SendCommand, send, CommandSent, sendReturns
<1>8. CASE EndClose
  <2>1. serial_port_ # NoPort /\ serial_port_' = NoPort
    BY <1>0, <1>8 DEF EndClose, At, closeJoins, PhaseOK
  <2>2. ~ Opens
    BY <2>1 DEF Opens
  <2>3. Channel!Close
    BY <1>1, <2>1, <2>2 DEF Channel!Close, ChannelState
  <2> QED
    BY <2>3 DEF Channel!Next
<1>9. CASE CloseStep
  BY <1>2, <1>8, <1>9 DEF CloseStep, BeginClose, closeStops
<1>10. CASE NodeStep
  BY <1>2, <1>7, <1>9, <1>10 DEF NodeStep, ConstructNode, initializeSerial, NodeStarted,
     NodeThrows, DestroyNode, CloseNode, NodeDestroyed, Enter
<1>11. CASE LifecycleStep
  BY <1>2, <1>7, <1>9, <1>11 DEF LifecycleStep, on_init, on_configure, initialize_serial,
     Configured, ConfigureFails, on_activate, on_deactivate, on_cleanup, CleanupReturns,
     Shutdown, DestroyHardware, CloseHardware, HardwareDestroyed, Enter
<1> QED
  BY <1>10, <1>11 DEF ClientStep

\* The io thread delivers where it enters the callback, and only there.
LEMMA IoThreadRefines ==
  ASSUME SerialInv, IoThreadStep
  PROVE  Channel!Next \/ UNCHANGED <<ChannelState, arrived, since, delivered>>
<1>0. /\ PhaseOK /\ LocksOK /\ OrderOK /\ SerialTypeOK
      /\ since \in Nat /\ arrived \in Nat /\ read_buffer_ \in Nat /\ Len(tty) \in Nat
      /\ delivered \in Nat
  BY DEF SerialInv, SerialTypeOK
<1>1. /\ UNCHANGED <<arrived, since>>
      /\ delivered' = IF io_thread_' = "callback" THEN read_buffer_ ELSE delivered
  BY DEF IoThreadStep
<1>2. UNCHANGED <<serial_port_, receive_callback_>>
  BY DEF IoThreadStep, IoStep, CompleteRead, CompleteWrite, RunHandler, EnterCallback,
     SkipCallback, LeaveCallback, startAsyncRead, EndThread
<1>3. CASE EnterCallback
  <2>1. io_thread_ = "read" /\ receive_callback_ /\ io_thread_' = "callback"
    BY <1>3 DEF EnterCallback
  <2>2. serial_port_ # NoPort /\ DataInHand
    BY <1>0, <2>1 DEF PhaseOK, DataInHand
  <2>3. /\ since < read_buffer_ /\ read_buffer_ <= arrived - Len(tty)
        /\ delivered # 0 => read_buffer_ = delivered + 1
    BY <1>0, <2>2 DEF OrderOK
  <2>4. read_buffer_ \in since + 1 .. arrived
    BY <1>0, <2>3
  <2>5. delivered' = read_buffer_
    BY <1>1, <2>1
  <2>6. ChannelState = "attached" /\ ChannelState' = "attached"
    BY <1>2, <2>1, <2>2 DEF ChannelState
  <2>7. Channel!Deliver(read_buffer_)
    BY <1>1, <2>3, <2>5, <2>6 DEF Channel!Deliver
  <2> QED
    BY <2>4, <2>7 DEF Channel!Next
<1>4. ASSUME ~ EnterCallback
      PROVE  UNCHANGED <<ChannelState, arrived, since, delivered>>
  <2>1. io_thread_' = "callback" => io_thread_ = "callback"
    <3>1. CASE RunHandler
      BY <1>0, <3>1, HandlerRuns
    <3> QED
      BY <1>4, <3>1 DEF IoThreadStep, IoStep, CompleteRead, CompleteWrite, SkipCallback,
         LeaveCallback, startAsyncRead, EndThread
  <2>2. delivered' = delivered
    BY <1>0, <1>1, <2>1 DEF OrderOK
  <2> QED
    BY <1>1, <1>2, <2>2 DEF ChannelState
<1> QED
  BY <1>3, <1>4

\* The port, its io thread, its queue and its buffer implement ByteChannel under both
\* hosts: what the callback gets is every chunk from the first one on, once and in
\* order, and only of its own port (serial_port.cpp, open to close).
THEOREM SerialRefines == SessionSpec => ImplementsChannel
<1>1. SessionInit => Channel!Init
  BY DEF SessionInit, IsNewPort, Channel!Init, ChannelState
<1>2. SerialInv /\ [SessionNext]_sessionVars => [Channel!Next]_(Channel!channelVars)
  <2> SUFFICES ASSUME SerialInv, [SessionNext]_sessionVars
               PROVE  Channel!Next \/ UNCHANGED <<ChannelState, arrived, since, delivered>>
    BY DEF Channel!channelVars
  <2> USE DEF portVars, ioVars, lineVars, historyVars
  <2>1. CASE DeckSends
    <3>1. Channel!Arrive
      BY <2>1 DEF DeckSends, Channel!Arrive, ChannelState
    <3> QED
      BY <3>1 DEF Channel!Next
  <2>2. CASE Unplug
    BY <2>2 DEF Unplug, ChannelState
  <2>3. CASE DataStep /\ UNCHANGED historyVars
    BY <2>3 DEF DataStep, BeginBearing, EndBearing, read, ChannelState
  <2>4. CASE UNCHANGED sessionVars
    BY <2>4 DEF sessionVars, ChannelState
  <2> QED
    BY <2>1, <2>2, <2>3, <2>4, ClientRefines, IoThreadRefines DEF SessionNext
<1> QED
  BY SerialSafe, <1>1, <1>2, PTL DEF SessionSpec, ImplementsChannel, Channel!Spec

====
