# Lighthouse ROS: models, checks and proofs

Formal models of the software in this repository that tracks a Crazyflie
Lighthouse deck under SteamVR 2.0 base stations. The models are TLA+ modules
translated from the C++ sources; TLC checks them on small instances, and TLAPS
proves the properties listed under *Proofs* for every value of their constants.

Paths below are relative to `src/`. `PROJECT.json` maps every definition that
models code to its lines.

## 1. The system

```
 deck --serial--> SerialPort --bytes--> LighthouseProtocolDecoder --bearings--> /lighthouse topic
                  (io thread)            |  framing (SYNC / DATA)                   |
                                         |  SweepProcessor                          +--> LocalizationNode --> deck_pose
                                         |  MeasurementProcessor                    |        ^ set_station_poses
                                         +- OOTX decoders (per station)             +--> MapperUiNode
                                                                                           UI thread + ROS thread
```

| Component | State it keeps | Operations | Interacts by |
|---|---|---|---|
| Timestamp arithmetic (`constants.hpp`) | none | sum, difference and distance on a wrapping 24-bit counter | called everywhere |
| Data frame contents | none | field access, base station id, slow bit | made by the data frame decoder |
| Framing: `SyncFrameDecoder`, `DataFrameDecoder`, mode of `LighthouseProtocolDecoder` | the mode, one of two decoders and its bytes | `processByte`, `reset` | callbacks out of `processByte`; each decoder's callback destroys it |
| `SweepProcessor` | newest frame per sensor | `processFrame`, `reset` | callback with a sweep block |
| `MeasurementProcessor` | up to two sweeps per station | `processBlock`, `reset` | callback with a bearing |
| Protocol decoder (`dataframeCallback` and on) | OOTX decoder and last zero crossing per station | data frame, `reset` | chains the above; gives slow bits to OOTX |
| `OOTXFrameDecoder` | bit buffer, latest payload | `processSlowBit`, `reset` | read by the protocol decoder |
| `SerialPort` | port, io thread, read chain | open, close, send, sendBreak, setCallback | callback on the io thread |
| Deck driver node | serial port, decoder | constructor with the start-up sequence, destructor, receive and bearing callbacks | runs the decoder on the io thread, publishes `lighthouse` |
| Localization node | station poses, measurement buffer | measurement callback, `set_station_poses` | topic, service |
| Station mapper node | buffer, samples, solution, pending service call | sample, solve, save, update, clear, quit; timer | queue, renderer, service |
| Mapper UI: `CommandQueue`, `MapperScreenRenderer`, `main` | queue, displayed data, two mutexes, UI thread | enqueue, process, draw, setters, stop | two threads |
| Station geometry: `StationGeometryInitialization`, `StationGeometryOptimization` | samples, pose graph, ids of stations and deck poses | addSample, solve, reset | called by the mapper; the second owns the first |
| Station map files (`deck_utils/utils`) | a CSV file | load, save | mapper, localization |
| ros2_control hardware (experimental) | lifecycle, serial port, decoder, an array shared with the io thread and the copy of it that the interfaces show | lifecycle callbacks, read, bearing callback | io thread, lifecycle thread and controllers' thread |

What is hard about it:

* The byte stream has no framing of its own: a run of 0xFF marks a boundary, data
  may look like it, and the serial line drops bytes.
* All timing is on a counter of 24 bits that wraps every 0.7 s; every comparison
  has to work on a circle, in a buffer whose entries were compared only with the
  newest one.
* Pulses of several stations interleave, any of them can be occluded or
  unidentified, and the pairing across time uses only zero crossings.
* OOTX is a bit-serial protocol received one bit per rotation, with losses.
* Callbacks are nested: an exception or the destruction of an object inside a
  callback meets the rest of the caller.
* The serial port is used by two threads: close takes no lock, send waits for the
  io thread, reads that have completed wait in a queue that nobody drains after
  close, and all reads share one buffer. Its hosts destroy the decoder that the io
  thread calls, in three different orders.
* The station geometry keeps what it has of a sample whose PnP solve throws: an id
  without an edge, a sample without its station's index.
* The mapper has two threads and two mutexes, taken in different orders.
* A mapping session is a long sequence of commands, in any order, on data of
  different ages: measurements, samples, a solution, a shown pose, a map file, a
  service call that is pending, and the poses another process holds.

`PROJECT.json` lists each of these as a hazard at the line where it bites.

What makes each component correct:

* arithmetic: the comparison is the comparison of the shorter way round;
* framing: from any place in the stream, and after any fault, the boundary is
  found again in bounded time; every frame is then delivered once;
* sweep processor: reports exactly the sweeps that its definition over the
  frames received gives, each made of pulses of one moment;
* measurement processor and slow bits: a bearing is one rotation of one station;
  a whole rotation is never missed; each rotation gives its bit once;
* OOTX: a frame received without a gap is decoded with its last bit; the buffer is
  bounded;
* serial port: an open port delivers every chunk of bytes once and in order, a
  closed one none; start-up and close come to an end;
* its hosts: the decoder outlives the io thread's calls; the interfaces of the
  hardware component show whole bearings;
* station geometry: solve answers for every sequence of samples, refuses exactly
  the graphs that are not connected, and estimates along cheapest paths;
* station mapper and localization: samples, ids, solution and pose belong
  together; what was measured before the deck was put down is never taken for
  where it is; the localization node uses one map; the mapper's message about an
  update is true, and comes;
* mapper threads: no deadlock, every press is run, quitting stops the program.

## 2. The modules

| Module | Models | Code |
|---|---|---|
| `Timestamps` | sum, difference, one-sided comparison; `CircularDistance` is the reference | `constants.hpp` |
| `DataFrameContents` | a frame as the fields decisions look at | `datatypes.hpp`, `data_frame_contents.cpp` |
| `FrameSync` | modes, both byte decoders, `processByte`, `reset`, the throwing callback | `sync_frame_decoder.cpp`, `data_frame_decoder.cpp`, `lighthouse_protocol_decoder.cpp` |
| `DeckLink` | *composition*: a deck and a faulty line in front of `FrameSync` | external |
| `SweepProcessor` | the class, with callbacks that return or throw | `sweep_processor.cpp` |
| `SweepAssembly` | *abstract specification* of the sweep processor | - |
| `SweepTimeline` | *composition*: pulses in true time in front of `SweepProcessor`; instantiates `SweepAssembly` | external |
| `MeasurementProcessor` | pairing and per-station buffers | `measurement_processor.cpp` |
| `ProtocolDecoder` | *composition* of the two processors and the slow bit filter, in the order of the callbacks | `lighthouse_protocol_decoder.cpp` |
| `StationTimeline` | *composition*: rotating stations in front of `ProtocolDecoder` | external |
| `OotxFrameDecoder` | the class, one loop iteration per action | `ootx_frame_decoder.cpp` |
| `OotxLink` | *composition*: a station sending frames, with lost bits | external |
| `MapperThreads` | queue, both mutexes, UI loop, timer, shutdown | `command_queue.cpp`, `mapper_screen_renderer.cpp`, `mapper_ui_main.cpp`, `mapper_ui_node.cpp` |
| `ByteChannel` | *abstract specification* of the serial port | - |
| `SerialPort` | the class, its io thread, the context's queue, the chain of reads | `serial_port.cpp` |
| `DeckStartup` | the calls that both hosts of a port make, to start and to close it | `lighthouse_deck_driver_node.cpp`, `lighthouse_deck_hardware.cpp` |
| `DeckDriver` | constructor and destructor of the node | `lighthouse_deck_driver_node.cpp` |
| `DeckHardware` | the lifecycle of the ros2_control component, and its data | `lighthouse_deck_hardware.cpp` |
| `SerialSession` | *composition*: a deck on a line that can be unplugged, and one of the two hosts; instantiates `ByteChannel` | external |
| `StationGraph` | the graph of poses and the search in it | `station_geometry_initialization.cpp` |
| `StationOptimizer` | *composition* of `StationGraph` with the samples and indices of the optimizer, and a client of it | `station_geometry_optimization.cpp` |
| `StampedBuffer` | popping old measurements from a deque | both nodes |
| `MapperUi` | the mapper's handlers on its ROS thread | `mapper_ui_node.cpp` |
| `Localization` | constructor, measurement callback, service | `lighthouse_localization_node.cpp`, `deck_pose_optimization.cpp` |
| `MappingSession` | *composition* of `MapperUi` and `Localization`: a moved deck, the topic, the service, the map files, crashes | external, and the nodes' ends of it |
| `SweepProcessorProofs`, `SweepTimelineProofs`, `StationTimelineProofs`, `FramingProofs`, `MapperThreadsProofs`, `MappingSessionProofs`, `SerialPortProofs`, `StationGraphProofs` | theorems | - |

`MCSweepTimeline`, `MCDeckLink`, `MCStationTimeline`, `MCOotxLink` and
`MCMappingSession` give the constants of their compositions the values that need a
definition; the other compositions need none.

How state and actions correspond to the code:

* **FrameSync.** `mode`, `sync_frame_decoder` and `data_frame_decoder` are the
  members of `LighthouseProtocolDecoder`; a decoder that does not exist is
  `NoDecoder`. `sync_frame_decoder` is its rolling window, `data_frame_decoder`
  its buffer. A byte is one of the three classes the code tells apart: `ff`, a byte
  with all padding bits clear, any other. `lastUse` records whether the call
  touched the data decoder's members after its destruction. One `processByte`
  call is one action; a callback belongs to the action of the call it is made from.
* **SweepProcessor.** `block_frames` is the map, as a function with `NoFrame`;
  `sweep` is what the call passed to its callback. `ProcessFrameThrowing` is the
  call whose callback throws, leaving the buffer as it was; it is in `SweepSpec`, of
  which the theorems are, and in no composition: after a throw the framing is left
  with a full buffer (`deck_throwing`), so no frame comes behind it until `reset`,
  which clears the processors as well.
* **MeasurementProcessor.** Angles are functions of the sweep's offsets; the
  bearing keeps the offsets, and whether the angles are plausible is an input.
* **ProtocolDecoder.** `ootx_decoders` is the set of slots with a decoder,
  `prev_timestamp0` the zero crossing kept with each. The three steps of
  `dataframeCallback` are one action, as nothing runs between them.
* **StationTimeline.** Pulses come in the order of their true time; `coming` are those
  that have not. What the decoder does is `DataFrameReceived` or nothing. `latest`,
  `reported` and `measured` are history of what its buffers are from, `intact` and
  `whole` of the sweeps that came without a flaw. `InTouch` is the one thing the
  environment may not do, see *Assumptions* in section 4.
* **OotxFrameDecoder.** The width of a word and the payload limit are constants,
  the CRC a constant operator. `looping` holds between the iterations of one call.
* **OotxLink.** `stream` says what the bit buffer has of the line: a bit is missing
  in it (`broken`), none is and it begins inside the frame on the line (`partial`),
  or not behind that frame's first bit (`whole`). It changes from `broken` only when
  the buffer is empty.
* **MapperThreads.** Each lock acquisition is an action guarded by the mutex being
  free; a renderer call (lock, write, unlock) is one step, because it takes no
  second lock inside. A command is known by the number of renderer calls that its
  handler makes on its paths. `ok` is `rclcpp::ok()`, the other condition of main's
  loop, which a signal ends at any time; that the loop looks at it before each round
  is the guard of `BeginTimer`. What the screen library does with a signal of its own
  is not modelled: the loop of the screen ends only when it is told to.

* **SerialPort.** The members keep their names. `io_thread_` is where the thread is:
  waiting in `run`, in the read handler at the lock (`read`), in the callback, about
  to start the next read (`rechain`), ended. `pending` counts operations that were
  started, `queue` holds the handlers of those that completed. `open` and
  `sendBreak` hold the mutex over a step of the io thread; the critical sections of
  `send`, `setCallback` and `setConfiguration` have no step inside at which another
  thread could see more, so they are one step. A device may refuse an option when the
  rate has been set before it, or the rate itself. `closeStops` and `closeJoins` are the
  two parts of `close` around its join. A chunk is what one read takes; chunks are
  numbered as they arrive. asio is external: it may perform a read that has
  data at once, it queues handlers in order of completion, it aborts pending reads
  as the port closes and leaves queued handlers in the queue.
* **DeckStartup.** `step` is the next call of `initializeSerial` and
  `initialize_serial`, which make the same ones. What `send` returns is not looked
  at, as in the code.
* **DeckDriver, DeckHardware.** `life` is the life of the host. A constructor that
  throws destroys its members in reverse order, the decoder before the port. An
  error in `on_configure` finalizes the component (the default `on_error`), and the
  port lives until the component is destroyed. Cleanup does not reset
  `base_station_data_`. A bearing is written in two steps under `data_mutex_`, its angles and its time;
  a station with a number above four is ignored.
* **SerialSession.** `hung` is a device that is gone: every read fails at once, and
  a device that is plugged in again is another one to this port, so nothing opens
  it. `arrived`, `since` and `delivered` are the history that `ByteChannel` speaks
  of.
* **StationGraph, StationOptimizer.** Nodes are the unified ids. The pose of an edge
  is known by its ends and cost, a composed pose by the sequence of its edges.
  `solve` is modelled one popped entry and one edge at a time; no two entries of
  its queue are equal, so it is a set. `solved` says whether PnP returned or threw.
  `MapperUi` uses the result as `Connected`: what `SolveAnswers` shows here is
  assumed there. The mapper makes a new optimizer for each press of Solve and drops
  it when something throws; the client here goes on with the same one, as the class
  allows.
* **MapperUi.** Each handler is an action. `timer_callback` is three parts: its
  first steps (`BeginTimer`), the commands it runs (each an action, possible while
  `in_timer`), its last steps (`EndTimer`); as the executor has one thread, no
  measurement and no answer comes in between. `sample_queue`, `samples_taken`,
  `station_geometry_result`, `current_deck_pose` and `next_deck_pose_id` are the
  members; `pending_future` is the number of the call whose future is kept;
  `answer` is the answer shown by the last step. The pose of a station is
  modelled by the samples it was solved from: that is what tells two frames apart.
  Measurements of one place are within the angular spread, those of two are not.
* **Localization.** `station_poses_` and `station_ids_` are the set of pairs
  `station_poses`; a published pose is the measurements and station poses that
  entered the solver. Whether a numerical solver throws is an input.
* **MappingSession.** Each measurement reaches both nodes, or one of them (the topic
  is best-effort). A call is on its way (`requests`), taken (`applied`), its answer
  on its way (`responses`) or with the mapper (`answered`). A crash loses the calls
  not taken and possibly the answers not sent. Each save makes a new file
  (`map_files`), with all lines of the map or, when the disk is full, with some of
  them; a restart reads any of the files, or none (no path, or a file that
  `load_stations_map` refuses). A file of the same second is overwritten in the code
  and kept in the model, which only adds a choice to the restart.

## 3. The runs

| Run | Instance | Shows |
|---|---|---|
| `sweep_timeline` | 2 sensors, counter of 8, window 1, stations 1 and 2 and unidentified, time up to 14 | out-of-order and gapped pulses, with the wrap: the processor implements `SweepAssembly`; sweeps are simultaneous in true time |
| `deck_link` | 12-byte frames, 4 kinds of data frames, 2 faults anywhere, `reset` any time, any start | the boundary is found again after two sync frames among distinct data frames, and then every frame is delivered |
| `deck_alive` (violation) | the same, 1 fault | the data frame decoder runs on after its own destruction |
| `deck_throwing` (violation) | the same with throwing callbacks | a full buffer is left behind |
| `station_timeline` | counter of 59, 4 slots for OOTX decoders, 4 rotations of station 3 and 1 of station 4 in the middle, all subsets of pulses, unidentified pulses, missing offsets, implausible angles, reset | over more than a lap of the counter: bearings of one rotation, none missed, one bit per rotation; station 4 is measured without a slot |
| `ootx_link` | 4-bit words, frames of one length with payloads of 0 to 2 bytes of two values, a decoder that accepts up to 4 bytes, any start, 2 losses, reset | frames received without a gap since the buffer was last empty are decoded; buffer bounded |
| `mapper_threads` | 3 presses of any command, an interrupt at any time | no lock cycle, presses run, quit or an interrupt stops |
| `mapper_hotkeys` (violation) | the same with the hotkeys | lock cycle |
| `mapper_sampling` | 2 stations, 3 ticks of time, windows of 1, the deck moved once, 3 presses of Sample, Update or Clear and any of Solve, an old map in the only file | ids, samples, solution and shown pose belong together; a still deck is sampled and located where it is |
| `map_update` | 2 stations, no time, 4 presses of Sample, Save, Update or Clear and any of Solve, 1 measurement missed by one node, 1 crash and restart, no map at first | the message about an update is true and comes; one map at a time, from whole and cut files |
| `serial_session` | either host, 2 starts, 3 chunks, 2 rates, 1 station, the device unplugged at any time, a switch of the rate that it may refuse | the port implements `ByteChannel`; one chain of reads; the decoder outlives the callbacks; snapshots are whole; start-up and close end; what arrived is delivered |
| `station_graph` | 2 stations, 2 deck poses, costs 1 and 4, up to 4 samples between resets, each with or without a PnP solution | every graph of these nodes, with repeated and failed samples: estimates along cheapest paths, known nodes only, solve answers and refuses exactly what is not connected |

Why the bounds are enough:

* *Counter.* Eight ticks with a window of one give all relations of two stamps
  (same, within, outside, across the wrap); 14 ticks of time wrap it. In
  `station_timeline`, 59 ticks hold a rotation of 20 with sweeps 8 apart; the
  counter starts at 30 and wraps in the middle of the run, and three rotations take
  a lap and one tick, so that the fourth rotation looks like the first to a
  comparison with a limit of one tick or more. Without any one of the conjuncts
  of `InTouch` this run finds `BearingsAreOneRotation` or `OneSlowBitPerRotation`
  violated.
  Station 3 is the last of those measured that has one of the four slots, station 4
  has none.
* *Sensors.* Two sensors make the pairwise property nontrivial; the proofs
  cover any number of them.
* *Faults.* Two faults allow a second one during the recovery from the first;
  the start anywhere in a frame stands for a longer history.
* *Words.* Four bits keep what matters about 16: two bytes to a word, a preamble
  as long as a word plus one, an odd payload that needs padding. Byte values are
  two, because what confuses the search is where ones are. The decoder accepts
  payloads of four bytes, so that a false candidate may announce a frame longer than
  those of the station.
* *Presses.* Three presses let one run, one wait in the queue and one be
  blocked at the queue's mutex.

* *Sessions.* Three ticks with windows of one and one move give measurements from
  before and after the move, within the window and beyond it. Three presses give
  Sample, Clear, Sample, and Sample, Update, Clear. Saves are left to `map_update`,
  where a restart can read what they wrote. Four presses allow there
  two samples or two updates with a crash between, and a saved map older than
  the one sent. Solve costs no press, as it has no bound of its own. The theorems
  below hold without these bounds.

* *Starts and chunks.* The second start follows a start that was closed, failed or
  unplugged, with whatever it left behind. Three chunks are one delivered or lost before the
  close, one in the line or in the queue during it, and one for the next start. The
  theorems below hold for any number of them.
* *Graphs.* Four nodes are the least where a detour of three edges can be cheaper
  than one edge (costs 1 and 4), so that an entry in the queue gets stale. Four
  samples close the cycle, or repeat one.

`CHECK_DEADLOCK FALSE` is used in the runs of `MapperThreads`, whose program stops,
of `MappingSession`, whose clock, presses and measurements are bounded, and of
`SerialSession`, whose starts and chunks are: a host may be gone for good.

**Fairness.** `MapperThreads`, `map_update`, `serial_session` and `station_graph`
state fairness. In `station_graph` a call of `solve` runs on. In `serial_session`
the io thread runs, the reactor performs writes, and a host goes on with a sequence
of calls it has begun (weak fairness of each); a callback ends (strong fairness, as
bearings can be reported from within it: the bytes of a chunk are finite, so
finitely many bearings come before its end). Nobody has to start, close, read,
send or unplug. In `map_update` the
timer is called and returns, the service takes its calls and a crashed node is
started again (weak fairness; an update during which the node stays down is
covered by `Lost`). An answer can be taken only between two timer callbacks, so it
is given strong fairness: `mapper_ui_main.cpp` calls `spin_some` every 5 ms, which
serves everything that is ready, so a ready answer waits for one round at most.
In `MapperThreads`, a thread that can step steps
(weak fairness). A thread that waits for a mutex gets it if it is free again and
again (strong fairness): each holder lets go of it between two events or timer
periods, so waiting threads meet a free mutex; `std::mutex` promises no order,
so this assumes a scheduler that does not starve a waiting thread for ever.
Pressing and drawing are not fair: nobody has to press. The remaining runs are safety
properties or step properties with bounded recovery, and need none.

`DecodesWholeFrames` is stated for a station whose frames have one length, as a
calibration record has, and for frames whose bits came without a gap since the
buffer was last empty. After a lost bit the decoder may find a preamble in the
middle of a frame; what it then takes for the length can announce a frame longer
than the station's, and the bits of the next frames are held back until that many
have come. If they do not look like a frame, the search is still behind when a frame
ends, and decodes it only with later bits; if they do and the checksum fails, all of
them are dropped, the start of a good frame among them. The source does not promise
otherwise. Once the buffer has been empty again (each frame decoded empties it, and
each that fails its checksum), the property holds from the next frame on; how long
that takes is not bounded by a property.

### Disagreements of code and documents

1. `mapper_hotkeys`: the hotkey handlers (`mapper_screen_renderer.cpp:291-314`)
   call the enqueueing callbacks holding `data_mutex_`; `CommandQueue::process`
   runs commands that lock `data_mutex_` holding the queue's mutex. Both threads
   can stop for ever. The buttons take no lock; with them alone this cannot
   happen (proved).
2. `deck_alive`: bad padding switches to SYNC inside the data frame decoder's own
   callback, which destroys the decoder; `data_frame_decoder.cpp:63` then clears
   a member of it.
3. `deck_throwing`: an exception of the application's callback is swallowed, but
   the buffer of 12 bytes is not cleared: it never has size 12 again, until
   `reset`.

Found by reading, without a run of its own:

* `constants.hpp:28` says of 4 "Maximum number of base stations supported";
  station ids start at 1 (`data_frame_contents.cpp:24-27`) and the guard of
  `lighthouse_protocol_decoder.cpp:130` is `<`, so station 4 never gets an OOTX
  decoder and slot 0 is not used. Its bearings are not affected.
* `utils.hpp` says that `save_stations_map` returns "True if saved successfully".
  The check for errors (`utils.cpp:171`) comes before the stream is closed, and the
  lines of a map fit its buffer: a disk that is full shows only when the destructor
  writes them. `save_stations_map` in `MappingSession` has that outcome; a restart
  then finds the lines that were written, or a map without stations and refuses it.
  No property covers the report itself. A number cut in the middle of
  its digits would be read as another number; that is not modelled.
* `constants.hpp:44-45` documents `kMaxTimestampDiffForBlockMatch`, 220 000 ticks, as the
  limit "for block matching"; nothing uses it, the match of
  `measurement_processor.cpp:86` is within 100 ticks of the zero crossings.
* A chunk read before the switch to the main firmware's rate can be delivered
  after it, as the first bytes the decoder gets; `ByteChannel` allows for it, and
  the framing recovers (`deck_link`).
* `StationPosePnpSolver` returns the identity when the PnP method finds no
  solution, and the graph takes it as a pose: numerical, not modelled.

## 4. Proofs

| Theorem | Says | Rests on |
|---|---|---|
| `SweepProcessorProofs!ComparisonIsDistance` | `timestampAbsDiffLargerThan` is the comparison of the distance on the circle, and symmetric | limit below half of the counter |
| `SweepProcessorProofs!OffsetFromRotorZero` | a normalized offset is the time from the zero crossing | - |
| `SweepProcessorProofs!SweepTypeCorrect` | `[]SweepTypeOK` | `SweepAssumption` |
| `SweepProcessorProofs!SweepWindowShared` | `[]FramesShareWindow` | type invariant, `ComparisonIsDistance` |
| `FramingProofs!BitBufferBounded` | `[]BufferBounded` | an inductive invariant over the buffer and the loop |
| `FramingProofs!OotxTypeCorrect` | `[]OotxTypeOK` | inductive itself; a frame that is decoded is as long as its length word says, `OotxAssumption` |
| `FramingProofs!FramingTypeCorrect` | `[]FramingTypeOK` | `FramingAssumption` |
| `FramingProofs!BufferStaysWithinFrame` | `[]BufferWithinFrame` | type invariant |
| `FramingProofs!RecoveryIsBounded` | `[]RecoversInTwoSyncs` | `IInv`; some byte of a frame is padding |
| `FramingProofs!FramesAreDelivered` | `DeliversEveryFrame` | `IInv` |
| `FramingProofs!WholeFramesAreDecoded` | `[]DecodesWholeFrames` | `SlowBitsInv`, `LinkAssumption` |
| `SweepTimelineProofs!TimelineTypeCorrect` | `[]SweepTypeOK` behind any timeline | `TimelineInv` |
| `SweepTimelineProofs!TimelineWindowShared` | `[]FramesShareWindow` behind any timeline | `SweepWindowShared`'s step lemmas |
| `SweepTimelineProofs!ProcessorImplementsAssembly` | `ImplementsAssembly` | `TimelineInv`: `BufferIsCurrent`; `DelayAssumption` |
| `SweepTimelineProofs!SweepsOfOnePlane` | `SweepsAreSimultaneous` | `StoredTimes`, `SilenceAssumption` |
| `StationTimelineProofs!ProtocolTypeCorrect` | `[]ProtocolTypeOK` | `StationInv`, `TimelineAssumption` |
| `StationTimelineProofs!BearingOfOneRotation` | `BearingsAreOneRotation` | `StationInv`, `LightPlanesAssumption` |
| `StationTimelineProofs!SlowBitOncePerRotation` | `OneSlowBitPerRotation` | `StationInv`: `CrossingsOK` |
| `StationTimelineProofs!WholeRotationsPaired` | `WholeRotationsReported` | `HistoryInv` |
| `StationTimelineProofs!RotationsOfALapDiffer` | rotations of a station less than a lap, less the limit, apart never `LookAlike` | limit below a rotation |
| `MapperThreadsProofs!ThreadsTypeCorrect` | `[]ThreadsTypeOK` under `ThreadsSpec` | `ThreadsInv` |
| `MapperThreadsProofs!EveryPressAccounted` | `[]PressesAccounted` under `ThreadsSpec` | `ThreadsInv` |
| `MapperThreadsProofs!ButtonsNeverDeadlock` | `[]NoLockCycle` under `ThreadsSpec` | an inductive invariant over the lock owners |
| `MappingSessionProofs!DropOlderInOrder` | popping from the front is enough when stamps come in order | - |
| `MappingSessionProofs!MapperTypeCorrect` | `[]MapperTypeOK` | `SessionInv`, the three assumptions on the constants |
| `MappingSessionProofs!PoseIdsNeverShared` | `[]PoseIdsUnused` | `SessionInv` |
| `MappingSessionProofs!SolutionIsOfSamples` | `[]SolutionOfSamples` | `SessionInv` |
| `MappingSessionProofs!ShownPoseIsOfSolution` | `[]ShownPoseOfSolution` | `SessionInv` |
| `MappingSessionProofs!UpdateMessageIsTrue` | `[]OkMeansUpdated` | `SessionInv`: `CallsOK` |
| `MappingSessionProofs!OneMapAtATime` | `[]LocalizesInOneFrame` | `SessionInv`: `FramesOK` |
| `MappingSessionProofs!StillDeckIsSampled` | `StillDeckSampled` | `SessionInv`: `BuffersOK`, `DropOlderInOrder` |
| `MappingSessionProofs!StillDeckIsLocated` | `StillDeckLocated` | the same |
| `SerialPortProofs!SerialTypes` | `[]SerialTypeOK` | `SerialInv`, the assumptions on the constants |
| `SerialPortProofs!OneChain` | `[]OneReadChain` | `SerialInv` |
| `SerialPortProofs!DecoderIsThere` | `[]DecoderOutlivesCallback` | `SerialInv`: `PhaseOK` |
| `SerialPortProofs!WholeSnapshots` | `[]SnapshotsAreWhole` | `SerialInv`: `DataOK` |
| `SerialPortProofs!SerialRefines` | `ImplementsChannel` | `SerialInv`: `OrderOK`; each step is a step of `ByteChannel` or a stutter |
| `StationGraphProofs!GraphTypeCorrect` | `[]GraphTypeOK` | `OptimizerInv`: `IdsInv` |
| `StationGraphProofs!PosesAreCheapest` | `[]PosesAlongCheapestPaths` | `OptimizerInv`: `Searching`; costs are naturals |
| `StationGraphProofs!LookupsSucceed` | `[]OptimizesKnownNodes` | `OptimizerInv`: `DataInv`, `JoinedInv` |

* *Sweep window.* The code compares stored frames with the newest one only. Pairs
  of stored frames stay within the window because each later one was compared
  with all that stayed; the two-sided comparison is a distance
  (`ComparisonIsDistance`), so erasing by it keeps every pair. The property is
  inductive together with the type invariant. `kMaxTimestampDiffForSweep` need
  only be below half of the counter (10 000 of 2^24 in the code).
* *Sweep refinement.* `SweepAssembly` looks at all frames received since the last
  sweep; the processor has dropped some of them. `BufferIsCurrent` says that what it
  has stored is what the definition calls current: a frame is dropped when a later one
  of its sensor, or one out of its window, comes, and that is never undone. From
  that each call is a step of `SweepAssembly`. `StoredTimes` ties the stamps
  of the stored frames to true time: they lie within the window of each other,
  and one of them is the frame that came last; with `SilenceAssumption` any of them
  that is outside the window of a new frame is so on the circle as well, and goes.
* *Stations.* `StationInv` says where everything in the decoder's buffers is from. A
  stored frame is that of a pulse of the window before the last one (`FramesOK`), so
  the four frames of a sweep are of one light plane; a waiting sweep is made of the
  pulses of one plane, all of which are over (`PairsOK`, `BlocksOK`), and the
  last one is of the rotation `reported` (`EndsWith`), without which the environment
  could not be said to stay in touch; the previous zero crossing is that of the
  rotation `measured` (`CrossingsOK`). Two sweeps that match then are two planes of one
  rotation, one after the other. `HistoryInv` adds, for what must not be missed,
  that a sweep received without a flaw so far is in the buffer (`IntactOK`), and
  that a complete first sweep stays last in its deque until its second one comes
  (`WholeOK`).
* *Framing.* The decoder's state at the end of a sync frame is no invariant by
  itself: `IInv` follows it byte by byte. On an undisturbed line the bytes remembered
  are the last ones sent (`HoldsSent`, `HoldsEdge`), and a window that was a sync frame
  has been acted on. A decoder cut at the wrong place gets through the first sync
  frame only if it completed a frame in it whose padding lay in bytes from before
  (`InFirstSync`). What it holds at the end of the sync frame is then as long as the
  last padding position, and all of it 0xFF, so the frame it cuts next has no good
  padding (`InNextData`), the mode changes, and the second sync frame is found
  whole (`InSecondSync`). The
  positions of the padding do not matter, only that there is one.
* *OOTX frames.* `SlowBitsInv` says that a buffer without a gap ends with the last
  bits sent (`HoldsLast`), has all bits of the frame on the line but perhaps its
  first zero (`WholeIsHeld`), and never reaches the length of a frame before the
  frame's own end (`HasRoom`). A buffer that begins before the frame is
  refused wherever it is cut: 17 zeros are longer than a word, so some word's end bit
  lies among them and is not a one. So the search always goes on to the next zero, and
  arrives at the frame's own preamble before the frame ends.
* *OOTX buffer.* A bound after the call is not inductive through the loop, whose
  iterations shorten the buffer from the front. The invariant says that a call
  starts below `MaxBits` and that every decision to wait is made on a buffer
  shorter than the frame its length word announces.
* *Buttons.* The UI thread never holds `data_mutex` while it enqueues: the
  invariant ties `data_mutex = "ui"` to `ui = "drawing"`.
* *Presses.* What was pressed is what was run, what is queued and the press whose
  sender waits for the queue's mutex. That no command runs more often than it was
  pressed follows; it is not inductive alone.

* *Session.* `SessionInv` is proved once, and the theorems follow. Its parts that no
  run checks: `BuffersOK`, both buffers are in the order of their stamps and what
  they hold from after the last move shows the deck's place, without which popping
  from the front would not be enough; `CallsOK`, calls on their way are later
  than those taken and in order, answers are to calls taken, and the pending call
  is the last, without which an old answer could be shown for it; `FramesOK`,
  every map on its way or in a file is in one frame.

* *Serial port.* `SerialInv` adds to the run's invariants: `PhaseOK`, which ties the
  host's life and next call to the port and the thread (there is a thread exactly
  between open and the end of close, and while an open port has a callback there is
  a decoder); `LocksOK`, who can hold
  the two mutexes where; `WritesOK`, a write is pending or queued only while its
  sender waits; `DataOK`, angles and time of a bearing agree except while one is
  written; `OrderOK`, the chunks in the line, in the buffer and delivered are
  consecutive numbers up to the last that arrived. Without the phases the last one
  is not inductive: a chunk could be delivered by a handler of an earlier start.
  `SerialRefines` maps `closed`, `open` and `attached` to the port and its callback,
  and shows the one step of the thread that delivers to be the abstract `Deliver`.

* *Station graph.* `OptimizerInv` is about the whole of the search, not its end.
  An edge of a reached node is used, or its node waits in the queue with its present
  cost, or it belongs to the node in hand and comes later (`Relaxed`): when the
  queue is empty, all are used. That an entry is never cheaper than its node
  explains why a stale one may be skipped, and that a node's own loop cannot
  change its cost, why `current_cost` may be read before the loop. Nothing rests
  on the order of the queue: it is about time, not the result. A node's cost is
  the sum along its chain, which a lemma adds up edge by edge. Ids are unique and
  without gaps, so counting the reached nodes decides whether all were; a reached
  station is no root, so the last edge of its chain is of a joined sample of it,
  and it has an index.

Assumptions, each a named ASSUME that the runs evaluate, and why the code justifies
them:

* Widths and windows (`SweepAssumption`, `MeasurementAssumption`): the sweep window of
  10 000 ticks and the match of zero crossings of 100 ticks are below half of 2^24.
* `FramingAssumption`: a frame has at least one padding byte; `data_frame_decoder.cpp`
  checks two fields.
* `LinkAssumption`: the station's payloads fit `kOOTXMaxPayloadLength`, their length
  fits a word, a checksum is two words.
* `TimelineAssumption`, `LightPlanesAssumption`: a station's planes pass the deck within
  the window and further apart than it (a rotation is over 400 000 ticks),
  the first beam first; a polynomial is unidentified only where no other
  station's light is near (`Alone`): the code cannot tell an unidentified pulse of
  another station from one of the sweep it is in, and takes it for that.
* `SilenceAssumption`, and `InTouch` of `StationTimeline`: the code has no timeout, no
  clock but the counter, and forgets nothing as time goes by. While frames of a sweep
  are stored, the silence is shorter than a lap (0.7 s); and a station that was
  hidden does not come back exactly a number of laps later, to be paired with the
  sweep, or compared with the zero crossing, from before. `RotationsOfALapDiffer`
  shows that this excludes nothing shorter than a lap, less the limit of the
  comparison. With the constants of the code, the slow bit filter (354 800 ticks)
  first meets it after 35 rotations without an offset (0.7 s; 35 rotations of
  479 500 ticks are a lap and 5284 ticks on channel 1; up to 38 on the others): the
  bit of that rotation is then not passed on. The pairing (100 ticks) meets it after
  12 701 rotations on channel 1 and between 10 756 and 137 017 on the others, minutes of
  hiding after which a waiting sweep is paired with a new one. That is what the code
  does, and nothing in the repository promises otherwise. The length of the session
  itself is not bounded.

Checked by TLC only: liveness (`EveryPressRuns`, `QuitStops`, `UpdatesSettle`,
`StartupEnds`, `CloseReturns`, `ArrivedIsDelivered`, `SolveAnswers`), which is
beyond the prover. Every other property of a passing run is a theorem. The CRC is a
constant operator of which only its range is assumed, so none of them says
anything of what CRC32 detects.

## 5. Not modelled

* Numerical code: angles from offsets, PnP (OpenCV), nonlinear optimization
  (Ceres), transforms. Reals are out of TLC's reach; where a decision depends on
  them it is an input of the action.
* Formatting, logging, layout of the screen; message and launch files; docker.
* Reordering of stamps on the topic: measurements reach a node in the order they
  were made. With stamps out of order, popping from the front can keep an old
  measurement behind a newer one.
* Samples of a moving deck: when the deck is moved within `buffer_duration`, the
  buffer of one station may be from before the move and another's from after it.
  Each is within the spread, and one press samples both with one id. The solver
  takes them as one pose (`station_geometry_optimization.hpp:48`). Nothing in the
  code promises more, so `StillDeckSampled` is stated for a deck that is still.
* Parameters that are refused (an empty device, a rate that is not in the list): the
  constructor throws, or `on_init` fails, before there is a port.
* Calls of `SerialPort` that no client in the repository makes: `send` from inside
  the callback, which would wait for itself, and `close` from it, which would join
  itself.
* A number cut in the middle of its digits in a map file.
* Parts that are planned, below.

Comments that disagree with the code on wording only, and have no run:
`lighthouse_station_mapper/README.md:78` says of `min_samples_per_station` that it
counts deck poses, the code counts readings in the buffer; `datatypes.hpp:31` says
"median" of the summarized angles, which are the latest; `mapper_ui_node.hpp:290` calls the ids
"monotonically increasing", and Clear resets them (harmless, as
`PoseIdsNeverShared` shows: an id is given again only when no sample bears it).

## 6. Plan

In the order of importance. Done: the decoding chain, OOTX, the mapper's threads,
the session of mapper and localization, the serial port with its two hosts, the
station graph and the optimizer around it.

1. **Stamps out of order** in `MappingSession`: measurements of two drivers on one
   topic, with a weaker `StillDeckLocated`.
2. **Two hosts of one line, and a deck that answers**: `SerialSession` in front of
   `FrameSync`, so that a rate switched too late, or a chunk from before the switch,
   meets the framing instead of being a number.
3. **Station map files**, line by line: what load keeps of a file cut within a line.
4. **Phases**: offsets of a sensor hit before the reference sensor, against the range
   that `measurement_processor.hpp:84-88` promises.

Proofs: with a model of item 2, that the mapping from chunks to frames preserves what
`SerialRefines` and `FramesAreDelivered` say each for its part; with item 4, the range of
phases from `BearingOfOneRotation`; with item 1, a `StillDeckLocated` for buffers
that are not in order.
