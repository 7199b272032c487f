---- MODULE DeckHardware ----
(***************************************************************************)
(* LighthouseDeckHardware, the ros2_control component: its lifecycle, and  *)
(* the data that the io thread writes and the controllers' thread copies   *)
(* in read().  A station's data is known by the chunk whose bearing it is. *)
(***************************************************************************)
EXTENDS DeckStartup

CONSTANT BaseStation    \* the stations that have a place in the array

VARIABLES
    base_station_data_,         \* written under data_mutex_
    read_base_station_data_,    \* what the state interfaces show
    data_mutex_,
    bearing_station             \* the station whose data is being written

dataVars == <<base_station_data_, read_base_station_data_, data_mutex_, bearing_station>>

HardwareLife ==
    {"absent", "unconfigured", "configuring", "inactive", "active", "cleaning", "finalized",
     "destroying"}

NoData == [s \in BaseStation |-> [angles |-> 0, timestamp |-> 0]]

DataInit ==
    /\ base_station_data_ = NoData
    /\ read_base_station_data_ = NoData
    /\ data_mutex_ = Free
    /\ bearing_station \in BaseStation

----------------------------------------------------------------------------
\* The lifecycle, on the thread of the resource manager.

\* The constructor, and on_init with valid parameters.
on_init ==
    /\ Enter({"absent"}, "unconfigured", "idle")
    /\ base_station_data_' = NoData
    /\ read_base_station_data_' = NoData
    /\ UNCHANGED <<protocol_decoder_, starts, data_mutex_, bearing_station>>

on_configure ==
    /\ starts < MaxStarts
    /\ Enter({"unconfigured"}, "configuring", "create")
    /\ protocol_decoder_' = TRUE
    /\ starts' = starts + 1
    /\ UNCHANGED dataVars

initialize_serial ==
    /\ life = "configuring"
    /\ StartupStep
    /\ UNCHANGED dataVars

Configured ==
    /\ step = "done"
    /\ Enter({"configuring"}, "inactive", "idle")
    /\ UNCHANGED <<protocol_decoder_, starts, dataVars>>

\* on_configure returns ERROR: the default on_error finalizes the component, with
\* its port as it is.
ConfigureFails ==
    /\ step = "throw"
    /\ Enter({"configuring"}, "finalized", "idle")
    /\ UNCHANGED <<protocol_decoder_, starts, dataVars>>

on_activate ==
    /\ Enter({"inactive"}, "active", "idle")
    /\ UNCHANGED <<protocol_decoder_, starts, dataVars>>

on_deactivate ==
    /\ Enter({"active"}, "inactive", "idle")
    /\ UNCHANGED <<protocol_decoder_, starts, dataVars>>

\* Mutant of on_cleanup: the decoder goes first.
on_cleanup_decoder_first ==
    /\ Enter({"inactive"}, "cleaning", "close")
    /\ protocol_decoder_' = FALSE
    /\ UNCHANGED <<starts, dataVars>>

on_cleanup ==
    /\ Enter({"inactive"}, "cleaning", "close")
    /\ UNCHANGED <<protocol_decoder_, starts, dataVars>>

CleanupReturns ==
    /\ step = "closed"
    /\ Enter({"cleaning"}, "unconfigured", "idle")
    /\ protocol_decoder_' = FALSE
    /\ UNCHANGED <<starts, dataVars>>

\* The default on_shutdown does nothing: the io thread goes on.
Shutdown ==
    /\ Enter({"unconfigured", "inactive", "active"}, "finalized", "idle")
    /\ UNCHANGED <<protocol_decoder_, starts, dataVars>>

DestroyHardware ==
    /\ Enter({"unconfigured", "inactive", "active", "finalized"}, "destroying", "close")
    /\ UNCHANGED <<protocol_decoder_, starts, dataVars>>

CloseHardware ==
    /\ life \in {"cleaning", "destroying"}
    /\ CloseStep
    /\ UNCHANGED dataVars

HardwareDestroyed ==
    /\ step = "closed"
    /\ Enter({"destroying"}, "absent", "idle")
    /\ protocol_decoder_' = FALSE
    /\ UNCHANGED <<starts, dataVars>>

----------------------------------------------------------------------------
\* The data.

\* The decoder calls back inside receive_callback, on the io thread.  A station
\* without a place in the array is ignored.
BeginBearing(station) ==
    /\ io_thread_ = "callback"
    /\ data_mutex_ = Free
    /\ data_mutex_' = "io"
    /\ io_thread_' = "bearing"
    /\ bearing_station' = station
    /\ base_station_data_' = [base_station_data_ EXCEPT ![station].angles = read_buffer_]
    /\ UNCHANGED <<read_base_station_data_, hostVars, serial_port_, receive_callback_, mutex_,
                   sent, ioVars, lineVars>>

EndBearing ==
    /\ io_thread_ = "bearing"
    /\ data_mutex_' = Free
    /\ io_thread_' = "callback"
    /\ base_station_data_' =
           [base_station_data_ EXCEPT ![bearing_station].timestamp = read_buffer_]
    /\ UNCHANGED <<read_base_station_data_, bearing_station, hostVars, serial_port_,
                   receive_callback_, mutex_, sent, ioVars, lineVars>>

\* Mutant of read: without the lock.
readUnlocked ==
    /\ life \in {"inactive", "active", "cleaning"}
    /\ read_base_station_data_' = base_station_data_
    /\ UNCHANGED <<base_station_data_, data_mutex_, bearing_station, hostVars, portVars>>

\* The controller manager reads a component that is configured, also while it is
\* being activated or cleaned up by the other thread.
read ==
    /\ life \in {"inactive", "active", "cleaning"}
    /\ data_mutex_ = Free
    /\ read_base_station_data_' = base_station_data_
    /\ UNCHANGED <<base_station_data_, data_mutex_, bearing_station, hostVars, portVars>>

LifecycleStep ==
    /\ host = "hardware"
    /\ \/ on_init \/ on_configure \/ initialize_serial \/ Configured \/ ConfigureFails
       \/ on_activate \/ on_deactivate \/ on_cleanup \/ CleanupReturns
       \/ Shutdown \/ DestroyHardware \/ CloseHardware \/ HardwareDestroyed

DataStep ==
    /\ host = "hardware"
    /\ \/ \E station \in BaseStation : BeginBearing(station)
       \/ EndBearing
       \/ read

====
