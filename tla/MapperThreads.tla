---- MODULE MapperThreads ----
(***************************************************************************)
(* The two threads of the station mapper.  The UI thread runs the event    *)
(* loop of the screen (mapper_screen_renderer.cpp): it draws, and turns    *)
(* presses into commands.  The ROS thread spins the node                   *)
(* (mapper_ui_main.cpp): its timer drains the CommandQueue and shows the   *)
(* node's state on the screen.  They share the queue under its mutex_ and  *)
(* the displayed data under data_mutex_.  What the commands do to the node *)
(* is the ROS thread's own business; here they are their renderer calls.   *)
(***************************************************************************)
EXTENDS Integers, Sequences

CONSTANT MaxPresses    \* bound: presses in a run

ASSUME PressesAssumption == MaxPresses \in Nat

VARIABLES
    ui,             \* "idle", "drawing", "enqueue", "exited"
    ros,            \* where the ROS thread is
    calls,          \* renderer calls the ROS thread makes before it goes on
    queue,          \* the commands not yet popped
    mutex,          \* who holds the queue's mutex_
    data_mutex,     \* who holds the renderer's data_mutex_
    pressing,       \* the command the UI thread is about to enqueue
    quit_requested,
    ok,             \* rclcpp::ok(): the process was not told to shut down
    exit_posted,    \* the screen was told to leave its loop
    presses,        \* history: commands pressed
    runs            \* history: commands run

threadVars == <<ui, ros, calls, queue, mutex, data_mutex, pressing, quit_requested, ok,
                exit_posted, presses, runs>>

uiVars == <<ui, pressing, presses>>
rosVars == <<ros, calls, quit_requested, ok, exit_posted, runs>>

Command == {"sample", "solve", "save", "update", "clear", "quit"}
Thread == {"ui", "ros"}
Free == "free"

\* How many times the handler of each command locks data_mutex_, on any of its
\* paths.
RendererCalls ==
    [sample |-> {3, 4}, solve |-> {1, 2, 3}, save |-> {1}, update |-> {1},
     clear |-> {4}, quit |-> {0}]

ThreadsInit ==
    /\ ui = "idle" /\ ros = "spin"
    /\ calls = 0
    /\ queue = <<>>
    /\ mutex = Free /\ data_mutex = Free
    /\ pressing \in Command
    /\ quit_requested = FALSE /\ ok = TRUE /\ exit_posted = FALSE
    /\ presses = 0 /\ runs = 0

----------------------------------------------------------------------------
\* The UI thread.

\* The renderer's lambda reads the rows under data_mutex_.
BeginDraw ==
    /\ ui = "idle"
    /\ data_mutex = Free
    /\ data_mutex' = "ui"
    /\ ui' = "drawing"
    /\ UNCHANGED <<pressing, presses, queue, mutex>>
    /\ UNCHANGED rosVars

EndDraw ==
    /\ ui = "drawing"
    /\ data_mutex' = Free
    /\ ui' = "idle"
    /\ UNCHANGED <<pressing, presses, queue, mutex>>
    /\ UNCHANGED rosVars

Press(command) ==
    /\ ui = "idle"
    /\ presses < MaxPresses
    /\ ui' = "enqueue"
    /\ pressing' = command
    /\ presses' = presses + 1
    /\ UNCHANGED <<queue, mutex>>
    /\ UNCHANGED rosVars

\* The hotkeys s, v, c and q call the same callbacks as the buttons, but hold
\* data_mutex_ meanwhile.
PressHotkey(command) ==
    /\ command \in {"sample", "solve", "clear", "quit"}
    /\ data_mutex = Free
    /\ data_mutex' = "ui"
    /\ Press(command)

\* Mutant of PressButton: as the hotkeys do.
PressButtonLocked(command) ==
    /\ data_mutex = Free
    /\ data_mutex' = "ui"
    /\ Press(command)

\* A button of the bar calls its callback without a lock.
PressButton(command) ==
    /\ Press(command)
    /\ UNCHANGED data_mutex

\* CommandQueue::enqueue, and the hotkey's release of data_mutex_.
Enqueue ==
    /\ ui = "enqueue"
    /\ mutex = Free
    /\ queue' = Append(queue, pressing)
    /\ data_mutex' = IF data_mutex = "ui" THEN Free ELSE data_mutex
    /\ ui' = "idle"
    /\ UNCHANGED <<pressing, presses, mutex>>
    /\ UNCHANGED rosVars

\* The screen's loop ends between two events.
ExitLoop ==
    /\ ui = "idle"
    /\ exit_posted
    /\ ui' = "exited"
    /\ UNCHANGED <<pressing, presses, queue, mutex, data_mutex>>
    /\ UNCHANGED rosVars

----------------------------------------------------------------------------
\* The ROS thread.

\* A signal, or another part of the process, shuts rclcpp down.
Interrupt ==
    /\ ok
    /\ ok' = FALSE
    /\ UNCHANGED <<ros, calls, quit_requested, exit_posted, runs, queue, mutex, data_mutex>>
    /\ UNCHANGED uiVars

\* A setter of the renderer: locks data_mutex_, writes, and lets it go.
RendererCall ==
    /\ calls > 0
    /\ data_mutex = Free
    /\ calls' = calls - 1
    /\ UNCHANGED <<ros, quit_requested, ok, exit_posted, runs, queue, mutex, data_mutex>>
    /\ UNCHANGED uiVars

\* timer_callback, up to the queue: a pending future may have a message to show.
BeginTimer ==
    /\ ros = "spin"
    /\ ok /\ ~ quit_requested
    /\ ros' = "futures"
    /\ calls' \in {0, 1}
    /\ UNCHANGED <<quit_requested, ok, exit_posted, runs, queue, mutex, data_mutex>>
    /\ UNCHANGED uiVars

\* CommandQueue::process locks the queue for as long as its commands take.
BeginProcess ==
    /\ ros = "futures" /\ calls = 0
    /\ mutex = Free
    /\ mutex' = "ros"
    /\ ros' = "process"
    /\ UNCHANGED <<calls, quit_requested, ok, exit_posted, runs, queue, data_mutex>>
    /\ UNCHANGED uiVars

RunCommand ==
    /\ ros = "process"
    /\ queue # <<>>
    /\ ros' = "running"
    /\ calls' \in RendererCalls[Head(queue)]
    /\ quit_requested' = (quit_requested \/ Head(queue) = "quit")
    /\ runs' = runs + 1
    /\ UNCHANGED <<ok, exit_posted, queue, mutex, data_mutex>>
    /\ UNCHANGED uiVars

\* Mutant of PopCommand: the command that ran stays in front.
PopCommandKept ==
    /\ ros = "running" /\ calls = 0
    /\ ros' = "process"
    /\ UNCHANGED <<calls, quit_requested, ok, exit_posted, runs, queue, mutex, data_mutex>>
    /\ UNCHANGED uiVars

\* The command is popped when it has run.
PopCommand ==
    /\ ros = "running" /\ calls = 0
    /\ queue' = Tail(queue)
    /\ ros' = "process"
    /\ UNCHANGED <<calls, quit_requested, ok, exit_posted, runs, mutex, data_mutex>>
    /\ UNCHANGED uiVars

\* Mutant of EndProcess: returns from the drained queue with the mutex locked.
EndProcessLocked ==
    /\ ros = "process"
    /\ queue = <<>>
    /\ ros' = "display"
    /\ calls' \in {2, 3}
    /\ UNCHANGED <<quit_requested, ok, exit_posted, runs, queue, mutex, data_mutex>>
    /\ UNCHANGED uiVars

\* The queue is drained; the rest of timer_callback shows the visible stations,
\* the sampling status and, with a solution, the deck's pose.
EndProcess ==
    /\ ros = "process"
    /\ queue = <<>>
    /\ mutex' = Free
    /\ ros' = "display"
    /\ calls' \in {2, 3}
    /\ UNCHANGED <<quit_requested, ok, exit_posted, runs, queue, data_mutex>>
    /\ UNCHANGED uiVars

EndTimer ==
    /\ ros = "display" /\ calls = 0
    /\ ros' = "spin"
    /\ UNCHANGED <<calls, quit_requested, ok, exit_posted, runs, queue, mutex, data_mutex>>
    /\ UNCHANGED uiVars

\* Mutant of Stop: joins the UI thread without telling its loop to end.
StopSilently ==
    /\ ros = "spin"
    /\ quit_requested \/ ~ ok
    /\ ros' = "joining"
    /\ UNCHANGED <<calls, quit_requested, ok, exit_posted, runs, queue, mutex, data_mutex>>
    /\ UNCHANGED uiVars

\* main leaves its loop, by either of its conditions, and stop tells the screen to
\* leave its own.
Stop ==
    /\ ros = "spin"
    /\ quit_requested \/ ~ ok
    /\ exit_posted' = TRUE
    /\ ros' = "joining"
    /\ UNCHANGED <<calls, quit_requested, ok, runs, queue, mutex, data_mutex>>
    /\ UNCHANGED uiVars

Join ==
    /\ ros = "joining"
    /\ ui = "exited"
    /\ ros' = "stopped"
    /\ UNCHANGED <<calls, quit_requested, ok, exit_posted, runs, queue, mutex, data_mutex>>
    /\ UNCHANGED uiVars

RosStep ==
    \/ BeginTimer \/ BeginProcess \/ RunCommand \/ PopCommand \/ EndProcess
    \/ EndTimer \/ Stop \/ Join

ThreadsNext ==
    \/ BeginDraw \/ EndDraw \/ Enqueue \/ ExitLoop
    \/ \E command \in Command : PressButton(command)
    \/ RendererCall
    \/ RosStep
    \/ Interrupt

\* Each thread goes on while it can.  A thread that waits for a mutex gets it when
\* it is free time and again: each holder lets go of it, the drawing thread
\* between two events and the timer for most of its period.  The screen's loop
\* takes its events in order, so other events do not overtake the one to exit for
\* ever.  Nobody has to press a button, draw or interrupt.
Fairness ==
    /\ WF_threadVars(EndDraw) /\ SF_threadVars(ExitLoop) /\ SF_threadVars(Enqueue)
    /\ WF_threadVars(RosStep) /\ SF_threadVars(BeginProcess)
    /\ SF_threadVars(RendererCall)

ThreadsSpec == ThreadsInit /\ [][ThreadsNext]_threadVars /\ Fairness

\* The same screen when the hotkeys are used as well.
HotkeySpec ==
    /\ ThreadsInit
    /\ [][ThreadsNext \/ \E command \in Command : PressHotkey(command)]_threadVars
    /\ Fairness

----------------------------------------------------------------------------
\* The type invariant.
ThreadsTypeOK ==
    /\ ui \in {"idle", "drawing", "enqueue", "exited"}
    /\ ros \in {"spin", "futures", "process", "running", "display", "joining", "stopped"}
    /\ calls \in 0 .. 4
    /\ queue \in Seq(Command)
    /\ mutex \in Thread \cup {Free} /\ data_mutex \in Thread \cup {Free}
    /\ pressing \in Command
    /\ quit_requested \in BOOLEAN /\ ok \in BOOLEAN /\ exit_posted \in BOOLEAN
    /\ presses \in 0 .. MaxPresses /\ runs \in 0 .. MaxPresses

\* The command queue is "thread-safe" (command_queue.hpp:26, :38) and the renderer
\* guards its data with a mutex of its own: the two threads never wait for each
\* other, one in the queue for the screen's data and one with the data for the
\* queue.
NoLockCycle ==
    ~ (ui = "enqueue" /\ data_mutex = "ui" /\ mutex = "ros" /\ calls > 0)

\* Every command pressed is run, though the ROS thread may be busy with another one
\* when it is pressed, unless the operator quits or rclcpp is shut down meanwhile.
EveryPressRuns ==
    \A n \in 1 .. MaxPresses : presses >= n ~> runs >= n \/ quit_requested \/ ~ ok

\* Once quit was run, or rclcpp was shut down, the main function returns
\* (mapper_ui_main.cpp:29): it never joins a UI thread that waits for something
\* else.
QuitStops == quit_requested \/ ~ ok ~> ros = "stopped"

====
