---- MODULE SerialPort ----
(***************************************************************************)
(* The class SerialPort: a port, the io thread that runs its io_context,   *)
(* and a chain of asynchronous reads, each started by the handler of the   *)
(* one before.  An operation is pending until the reactor performs it; its *)
(* handler then waits in the context's queue for the io thread.  Members   *)
(* keep their names; the actions with a lower case name are the methods,   *)
(* called by one client thread.                                            *)
(*                                                                         *)
(* A chunk of bytes is what one read takes, at most the 1024 bytes of      *)
(* read_buffer_; it is known by its number.                                *)
(***************************************************************************)
EXTENDS Naturals, Sequences

CONSTANTS
    Baud,      \* the rates a port can be set to
    NoPort

ASSUME SerialAssumption == NoPort \notin Baud

VARIABLES
    serial_port_,         \* the rate of the open port, or NoPort
    io_thread_,           \* where the io thread is, "none" if there is none
    stopped,              \* the context was told to stop
    pending,              \* operations started and not performed, by kind
    queue,                \* handlers that wait for the io thread
    read_buffer_,         \* the chunk in the buffer, 0 if none
    receive_callback_,    \* a callback is set
    mutex_,               \* who holds it
    sent,                 \* what the promise of the last send holds
    tty,                  \* the chunks that the driver of the line holds
    hung                  \* the device of the open port is gone

lineVars == <<tty, hung>>
ioVars == <<stopped, pending, queue, read_buffer_>>
portVars == <<serial_port_, io_thread_, stopped, pending, queue, read_buffer_,
              receive_callback_, mutex_, sent, tty, hung>>

Free == "free"
NothingPending == [read |-> 0, write |-> 0]
Read(result) == [op |-> "read", result |-> result]
Write(result) == [op |-> "write", result |-> result]
Reads == {Read("data"), Read("error"), Read("aborted")}
Writes == {Write("ok"), Write("error")}

\* How many handlers of a set wait in a queue.
Waits(handlers, S) == \E i \in DOMAIN handlers : handlers[i] \in S
AtMostOne(handlers, S) ==
    \A i, j \in DOMAIN handlers : handlers[i] \in S /\ handlers[j] \in S => i = j

\* A newly made object.
IsNewPort ==
    /\ serial_port_ = NoPort
    /\ io_thread_ = "none"
    /\ stopped = FALSE
    /\ pending = NothingPending
    /\ queue = <<>>
    /\ read_buffer_ = 0
    /\ receive_callback_ = FALSE
    /\ mutex_ = Free
    /\ sent = "unset"

newSerialPort ==
    /\ serial_port_' = NoPort
    /\ io_thread_' = "none"
    /\ stopped' = FALSE
    /\ pending' = NothingPending
    /\ queue' = <<>>
    /\ read_buffer_' = 0
    /\ receive_callback_' = FALSE
    /\ mutex_' = Free
    /\ sent' = "unset"
    /\ UNCHANGED lineVars

----------------------------------------------------------------------------
\* The io thread.

\* The reactor performs a read: it takes what the line holds, or fails when the
\* device is gone, at once and every time.
PerformRead ==
    /\ tty # <<>> \/ hung
    /\ IF tty # <<>>
       THEN /\ read_buffer_' = Head(tty)
            /\ tty' = Tail(tty)
            /\ queue' = Append(queue, Read("data"))
       ELSE /\ queue' = Append(queue, Read("error"))
            /\ UNCHANGED <<read_buffer_, tty>>

CompleteRead ==
    /\ io_thread_ = "run"
    /\ ~ stopped
    /\ pending.read > 0
    /\ pending' = [pending EXCEPT !.read = @ - 1]
    /\ PerformRead
    /\ UNCHANGED <<serial_port_, io_thread_, stopped, receive_callback_, mutex_, sent, hung>>

CompleteWrite ==
    /\ pending.write > 0
    /\ ~ stopped
    /\ pending' = [pending EXCEPT !.write = @ - 1]
    /\ queue' = Append(queue, Write(IF hung THEN "error" ELSE "ok"))
    /\ UNCHANGED <<serial_port_, io_thread_, stopped, read_buffer_, receive_callback_,
                   mutex_, sent, tty, hung>>

\* Mutant of AfterRead: an error ends the chain.
AfterReadGivingUp == [data |-> "read", error |-> "run", aborted |-> "run"]

\* What the read handler does next: take the lock, read on, or end the chain.
AfterRead == [data |-> "read", error |-> "rechain", aborted |-> "run"]

RunHandler ==
    /\ io_thread_ = "run"
    /\ ~ stopped
    /\ queue # <<>>
    /\ queue' = Tail(queue)
    /\ LET handler == Head(queue)
       IN  /\ io_thread_' = IF handler.op = "read" THEN AfterRead[handler.result] ELSE "run"
           /\ sent' = IF handler.op = "write" THEN handler.result ELSE sent
    /\ UNCHANGED <<serial_port_, stopped, pending, read_buffer_, receive_callback_, mutex_,
                   tty, hung>>

\* The read handler locks mutex_ and calls the callback, if there is one.
EnterCallback ==
    /\ io_thread_ = "read"
    /\ mutex_ = Free
    /\ receive_callback_
    /\ mutex_' = "io"
    /\ io_thread_' = "callback"
    /\ UNCHANGED <<serial_port_, stopped, pending, queue, read_buffer_, receive_callback_,
                   sent, tty, hung>>

\* Mutant of SkipCallback: without a callback the handler returns.
SkipCallbackReturns ==
    /\ io_thread_ = "read"
    /\ mutex_ = Free
    /\ ~ receive_callback_
    /\ io_thread_' = "run"
    /\ UNCHANGED <<serial_port_, stopped, pending, queue, read_buffer_, receive_callback_,
                   mutex_, sent, tty, hung>>

\* Mutant of SkipCallback: send holds mutex_ until its future has a value.
SkipCallbackAfterSend ==
    /\ io_thread_ = "read"
    /\ mutex_ = Free
    /\ pending.write = 0 /\ ~ Waits(queue, Writes)
    /\ ~ receive_callback_
    /\ io_thread_' = "rechain"
    /\ UNCHANGED <<serial_port_, stopped, pending, queue, read_buffer_, receive_callback_,
                   mutex_, sent, tty, hung>>

SkipCallback ==
    /\ io_thread_ = "read"
    /\ mutex_ = Free
    /\ ~ receive_callback_
    /\ io_thread_' = "rechain"
    /\ UNCHANGED <<serial_port_, stopped, pending, queue, read_buffer_, receive_callback_,
                   mutex_, sent, tty, hung>>

LeaveCallback ==
    /\ io_thread_ = "callback"
    /\ io_thread_' = "rechain"
    /\ mutex_' = Free
    /\ UNCHANGED <<serial_port_, stopped, pending, queue, read_buffer_, receive_callback_,
                   sent, tty, hung>>

\* The handler's last step, without the lock.  A read that can be performed may
\* be performed at once, even when the context was stopped meanwhile.
startAsyncRead ==
    /\ io_thread_ = "rechain"
    /\ io_thread_' = "run"
    /\ \/ /\ pending' = [pending EXCEPT !.read = @ + 1]
          /\ UNCHANGED <<queue, read_buffer_, tty>>
       \/ /\ PerformRead
          /\ UNCHANGED pending
    /\ UNCHANGED <<serial_port_, stopped, receive_callback_, mutex_, sent, hung>>

EndThread ==
    /\ io_thread_ = "run"
    /\ stopped
    /\ io_thread_' = "ended"
    /\ UNCHANGED <<serial_port_, stopped, pending, queue, read_buffer_, receive_callback_,
                   mutex_, sent, tty, hung>>

IoStep ==
    \/ CompleteRead \/ CompleteWrite \/ RunHandler
    \/ EnterCallback \/ SkipCallback \/ LeaveCallback
    \/ startAsyncRead \/ EndThread

----------------------------------------------------------------------------
\* The methods.  open and sendBreak hold mutex_ over a step of the io thread; the
\* other critical sections are one step.

open(baud) ==
    /\ mutex_ = Free
    /\ serial_port_ = NoPort
    /\ mutex_' = "client"
    /\ serial_port_' = baud
    /\ io_thread_' = "run"
    /\ pending' = [pending EXCEPT !.read = @ + 1]
    /\ tty' = <<>>
    /\ hung' = FALSE
    /\ UNCHANGED <<stopped, queue, read_buffer_, receive_callback_, sent>>

\* No such device, or it refuses the configuration: serial_port_ is reset.
openFails ==
    /\ mutex_ = Free
    /\ UNCHANGED portVars

unlock ==
    /\ mutex_ = "client"
    /\ mutex_' = Free
    /\ UNCHANGED <<serial_port_, io_thread_, receive_callback_, sent, ioVars, lineVars>>

sendBreak ==
    /\ mutex_ = Free
    /\ serial_port_ # NoPort
    /\ mutex_' = "client"
    /\ UNCHANGED <<serial_port_, io_thread_, receive_callback_, sent, ioVars, lineVars>>

send ==
    /\ mutex_ = Free
    /\ serial_port_ # NoPort
    /\ sent' = "unset"
    /\ pending' = [pending EXCEPT !.write = @ + 1]
    /\ UNCHANGED <<serial_port_, io_thread_, stopped, queue, read_buffer_, receive_callback_,
                   mutex_, lineVars>>

\* The future has a value.
sendReturns ==
    /\ sent # "unset"
    /\ UNCHANGED portVars

\* Returns whether the device took every option, the rate first; one that is gone
\* takes none, and any other may refuse one.
setConfiguration(baud, accepted) ==
    /\ mutex_ = Free
    /\ \/ ~ hung /\ serial_port_' = baud
       \/ ~ accepted /\ UNCHANGED serial_port_
    /\ UNCHANGED <<io_thread_, receive_callback_, mutex_, sent, ioVars, lineVars>>

setCallback ==
    /\ mutex_ = Free
    /\ receive_callback_' = TRUE
    /\ UNCHANGED <<serial_port_, io_thread_, mutex_, sent, ioVars, lineVars>>

\* Mutant of closeStops: close locks mutex_, as the other methods do.
closeStopsLocked ==
    /\ mutex_ = Free
    /\ mutex_' = "client"
    /\ stopped' = TRUE
    /\ UNCHANGED <<serial_port_, io_thread_, pending, queue, read_buffer_, receive_callback_,
                   sent, lineVars>>

\* close takes no lock.  It stops the context,
closeStops ==
    /\ stopped' = TRUE
    /\ UNCHANGED <<serial_port_, io_thread_, pending, queue, read_buffer_, receive_callback_,
                   mutex_, sent, lineVars>>

\* waits for the thread, and closes the port: pending reads are aborted, and what
\* is in the queue stays there.
closeJoins ==
    /\ io_thread_ = "ended"
    /\ io_thread_' = "none"
    /\ serial_port_' = NoPort
    /\ stopped' = FALSE
    /\ queue' = queue \o [i \in 1 .. pending.read |-> Read("aborted")]
    /\ pending' = [pending EXCEPT !.read = 0]
    /\ tty' = <<>>
    /\ hung' = FALSE
    /\ UNCHANGED <<read_buffer_, receive_callback_, mutex_, sent>>

====
