---- MODULE MapperThreadsProofs ----
(***************************************************************************)
(* With the buttons alone the two threads of the mapper never wait for     *)
(* each other, however many commands are pressed.                          *)
(***************************************************************************)
EXTENDS MapperThreads, TLAPS

\* Who holds data_mutex_ between two steps: the UI thread, while it draws.
DataHeldToDraw ==
    /\ data_mutex \in {Free, "ui"}
    /\ data_mutex = "ui" => ui = "drawing"

\* A button's command is enqueued without data_mutex_, so whatever the ROS thread
\* waits for inside the queue it will get.
THEOREM ButtonsNeverDeadlock == ThreadsSpec => []NoLockCycle
<1> USE DEF Free
<1>1. ThreadsInit => DataHeldToDraw
  BY DEF ThreadsInit, DataHeldToDraw
<1>2. DataHeldToDraw /\ [ThreadsNext]_threadVars => DataHeldToDraw'
  <2> SUFFICES ASSUME DataHeldToDraw, [ThreadsNext]_threadVars
               PROVE  DataHeldToDraw'
    OBVIOUS
  <2> USE DEF DataHeldToDraw
  <2>1. CASE BeginDraw
    BY <2>1 DEF BeginDraw
  <2>2. CASE EndDraw
    BY <2>2 DEF EndDraw
  <2>3. CASE Enqueue
    BY <2>3 DEF Enqueue
  <2>4. CASE ExitLoop
    BY <2>4 DEF ExitLoop
  <2>5. ASSUME NEW command \in Command, PressButton(command)
        PROVE  DataHeldToDraw'
    BY <2>5 DEF PressButton, Press
  <2>6. CASE RendererCall
    BY <2>6 DEF RendererCall, uiVars
  <2>7. CASE RosStep
    BY <2>7 DEF RosStep, BeginTimer, BeginProcess, RunCommand, PopCommand, EndProcess,
                EndTimer, Stop, Join, uiVars
  <2>8. CASE UNCHANGED threadVars
    BY <2>8 DEF threadVars
  <2>9. CASE Interrupt
    BY <2>9 DEF Interrupt, uiVars
  <2> QED
    BY <2>1, <2>2, <2>3, <2>4, <2>5, <2>6, <2>7, <2>8, <2>9 DEF ThreadsNext
<1>3. DataHeldToDraw => NoLockCycle
  BY DEF DataHeldToDraw, NoLockCycle
<1> QED
  BY <1>1, <1>2, <1>3, PTL DEF ThreadsSpec

----------------------------------------------------------------------------
\* Every press is somewhere: about to be queued, in the queue, or run; a command
\* that is running is still in front of the queue.
Enqueuing == IF ui = "enqueue" THEN 1 ELSE 0
Running == IF ros = "running" THEN 1 ELSE 0

PressesAccounted ==
    /\ ros = "running" => queue # <<>>
    /\ presses + Running = runs + Len(queue) + Enqueuing

ThreadsInv == ThreadsTypeOK /\ PressesAccounted

\* No handler makes more than four renderer calls.
LEMMA CallsOfCommand == \A command \in Command : RendererCalls[command] \subseteq 0 .. 4
  BY DEF Command, RendererCalls

\* As many runs as presses at most: what is in the queue is not run yet.
LEMMA RunsBounded == ThreadsInv => runs + Len(queue) <= presses + Running
  BY DEF ThreadsInv, ThreadsTypeOK, PressesAccounted, Running, Enqueuing

\* The steps of the UI thread keep the account.
LEMMA UiAccounts ==
    ASSUME ThreadsInv,
           BeginDraw \/ EndDraw \/ Enqueue \/ ExitLoop
               \/ \E command \in Command : PressButton(command)
    PROVE  ThreadsInv'
<1> USE PressesAssumption DEF ThreadsInv, ThreadsTypeOK, PressesAccounted, Running, Enqueuing,
        Free, Thread, rosVars
<1>1. CASE BeginDraw
  BY <1>1 DEF BeginDraw
<1>2. CASE EndDraw
  BY <1>2 DEF EndDraw
<1>3. CASE Enqueue
  <2>1. queue' = Append(queue, pressing) /\ ui = "enqueue" /\ ui' = "idle"
    BY <1>3 DEF Enqueue
  <2>2. queue' \in Seq(Command) /\ Len(queue') = Len(queue) + 1 /\ queue' # <<>>
    BY <2>1
  <2>3. data_mutex' \in Thread \cup {Free}
    BY <1>3 DEF Enqueue
  <2> QED
    BY <1>3, <2>1, <2>2, <2>3 DEF Enqueue
<1>4. CASE ExitLoop
  BY <1>4 DEF ExitLoop
<1>5. ASSUME NEW command \in Command, PressButton(command)
      PROVE  ThreadsInv'
  BY <1>5 DEF PressButton, Press
<1> QED
  BY <1>1, <1>2, <1>3, <1>4, <1>5

\* So do those of the ROS thread, and an interrupt.
LEMMA RosAccounts ==
    ASSUME ThreadsInv, RendererCall \/ RosStep \/ Interrupt
    PROVE  ThreadsInv'
<1> USE PressesAssumption DEF ThreadsInv, ThreadsTypeOK, PressesAccounted, Running, Enqueuing,
        Free, Thread, uiVars
<1>1. CASE RendererCall
  BY <1>1 DEF RendererCall
<1>2. CASE BeginTimer
  BY <1>2 DEF BeginTimer
<1>3. CASE BeginProcess
  BY <1>3 DEF BeginProcess
<1>4. CASE RunCommand
  <2>1. queue # <<>> /\ Head(queue) \in Command /\ Len(queue) >= 1
    BY <1>4 DEF RunCommand
  <2>2. calls' \in 0 .. 4
    BY <1>4, <2>1, CallsOfCommand DEF RunCommand
  <2>3. quit_requested' \in BOOLEAN
    BY <1>4 DEF RunCommand
  <2>4. runs + Len(queue) <= presses /\ runs' = runs + 1 /\ runs' <= MaxPresses
    BY <1>4, <2>1, RunsBounded DEF RunCommand
  <2> QED
    BY <1>4, <2>1, <2>2, <2>3, <2>4 DEF RunCommand
<1>5. CASE PopCommand
  <2>1. queue # <<>> /\ queue' = Tail(queue)
    BY <1>5 DEF PopCommand
  <2>2. queue' \in Seq(Command) /\ Len(queue') + 1 = Len(queue)
    BY <2>1
  <2> QED
    BY <1>5, <2>1, <2>2 DEF PopCommand
<1>6. CASE EndProcess
  BY <1>6 DEF EndProcess
<1>7. CASE EndTimer
  BY <1>7 DEF EndTimer
<1>8. CASE Stop \/ Join
  BY <1>8 DEF Stop, Join
<1>9. CASE Interrupt
  BY <1>9 DEF Interrupt
<1> QED
  BY <1>1, <1>2, <1>3, <1>4, <1>5, <1>6, <1>7, <1>8, <1>9 DEF RosStep

\* The account holds from the start on, for any number of presses.
LEMMA PressesInvariant == ThreadsSpec => []ThreadsInv
<1>1. ThreadsInit => ThreadsInv
  <2> SUFFICES ASSUME ThreadsInit PROVE ThreadsInv
    OBVIOUS
  <2>1. queue = <<>> /\ queue \in Seq(Command) /\ Len(queue) = 0
    BY DEF ThreadsInit
  <2>2. presses = 0 /\ runs = 0 /\ presses \in 0 .. MaxPresses /\ calls \in 0 .. 4
    BY PressesAssumption DEF ThreadsInit
  <2>3. ThreadsTypeOK
    BY <2>1, <2>2 DEF ThreadsInit, ThreadsTypeOK, Free, Thread
  <2>4. PressesAccounted
    BY <2>1, <2>2 DEF ThreadsInit, PressesAccounted, Running, Enqueuing
  <2> QED
    BY <2>3, <2>4 DEF ThreadsInv
<1>2. ThreadsInv /\ [ThreadsNext]_threadVars => ThreadsInv'
  <2>1. ThreadsInv /\ UNCHANGED threadVars => ThreadsInv'
    BY DEF threadVars, ThreadsInv, ThreadsTypeOK, PressesAccounted, Running, Enqueuing
  <2> QED
    BY <2>1, UiAccounts, RosAccounts DEF ThreadsNext
<1> QED
  BY <1>1, <1>2, PTL DEF ThreadsSpec

\* The types of the two threads' variables, for any number of presses: among them
\* that no more commands are run than were pressed.
THEOREM ThreadsTypeCorrect == ThreadsSpec => []ThreadsTypeOK
<1>1. ThreadsInv => ThreadsTypeOK
  BY DEF ThreadsInv
<1> QED
  BY <1>1, PressesInvariant, PTL

\* No command is lost or run twice on its way from the UI thread to the ROS thread:
\* at every moment the presses are those run, those in the queue and the one that
\* waits for its mutex (enqueue and process, command_queue.cpp:23-36).
THEOREM EveryPressAccounted == ThreadsSpec => []PressesAccounted
<1>1. ThreadsInv => PressesAccounted
  BY DEF ThreadsInv
<1> QED
  BY <1>1, PressesInvariant, PTL

====
