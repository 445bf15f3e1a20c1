--------------------------- MODULE GuiWorker ---------------------------
(***************************************************************************)
(* The GUI's two threads: the UI thread in its event loop (MainWindow) and *)
(* the worker thread (FluxEngineApp::Entry()) that runs one task at a      *)
(* time.  The worker hands work to the UI thread with runOnUiThread(),     *)
(* which posts an event and waits for it to have been handled; the UI      *)
(* starts a task with RunOnWorkerThread(), which waits for the last thread *)
(* to have ended.  The tasks are reading a disk, writing one, saving what  *)
(* was read, and running the operations of the file browser's queue.       *)
(*                                                                         *)
(* Left out are the log messages that only show progress, and the message  *)
(* boxes for a bad configuration, after which nothing has changed.  The    *)
(* update event is taken to be handled with the event it follows.  wx      *)
(* disables the window while a dialog is open, but goes on handling posted *)
(* events and timers.  assert() is enabled: the build defines no NDEBUG.   *)
(***************************************************************************)
EXTENDS Integers, Sequences

CONSTANTS
    MaxTasks,   \* bound: tasks started
    MaxOps      \* bound: browser operations the user asks for

ASSUME GuiAssumption ==
    MaxTasks \in Nat /\ MaxOps \in Nat

VARIABLES
    careful,     \* the user presses no button that starts a task, or leaves a
                 \* panel, while a task runs
    ui,          \* the UI thread: in its loop, in GetThread()->Wait(), or over
    dialog,      \* the modal dialog that is open
    exiting,     \* _exitTimer is running
    state,       \* _state
    errorState,  \* _errorState
    queue,       \* _filesystemQueue
    tools,       \* the browser's tools are enabled
    listed,      \* the browser shows a directory
    callback,    \* _callback, the task it stands for
    thread,      \* the worker thread
    wpc,         \* where the worker is
    op,          \* the browser operation it runs
    snapshot,    \* the queue as the worker found it when it began to push
    exec,        \* the callback posted to the UI thread
    stop,        \* emergencyStop
    tasks,       \* history: tasks asked for
    asked,       \* history: operations the user has asked for
    queued,      \* history: operations queued
    served,      \* history: operations taken from the queue, or dropped
    stranded,    \* history: an operation was queued too late, or lost
    pressed      \* history: a stop was asked for since the task was

window  == <<dialog, exiting, state, errorState, tools, listed>>
worker  == <<thread, wpc, op, snapshot>>
ops     == <<queue, queued, served, stranded>>
counts  == <<tasks, asked, pressed, careful>>
vars    == <<ui, window, callback, worker, exec, stop, ops, counts>>

Reading  == {"READING_WORKING", "READING_FAILED", "READING_SUCCEEDED"}
Writing  == {"WRITING_WORKING", "WRITING_FAILED", "WRITING_SUCCEEDED"}
Browsing == {"BROWSING_WORKING", "BROWSING_IDLE"}
Working  == {"READING_WORKING", "WRITING_WORKING", "BROWSING_WORKING"}
States   == {"IDLE"} \cup Reading \cup Writing \cup Browsing
Tasks    == {"read", "write", "save", "browse"}
Ops      == {"open", "list", "metadata", "commit"}

MaxQueued == 3 * MaxOps   \* each operation leads to at most two more

TypeOK ==
    /\ ui \in {"loop", "joining", "aborted", "gone"}
    /\ dialog \in {"none", "save", "error"} /\ exiting \in BOOLEAN
    /\ state \in States /\ errorState \in States
    /\ tools \in BOOLEAN /\ listed \in BOOLEAN
    /\ queue \in Seq(Ops) /\ snapshot \in Seq(Ops)
    /\ callback \in Tasks \cup {"none"}
    /\ thread \in {"none", "live", "done"}
    /\ wpc \in {"body", "poll", "op", "pushing", "empty", "ending", "ended"}
    /\ op \in Ops \cup {"none"}
    /\ exec \in {"none", "success", "poll", "followup", "idle", "failed",
                 "stopped", "clear"}
    /\ careful \in BOOLEAN
    /\ stop \in BOOLEAN /\ stranded \in BOOLEAN /\ pressed \in BOOLEAN
    /\ tasks \in 0 .. MaxTasks /\ asked \in 0 .. MaxOps
    /\ queued \in 0 .. MaxQueued /\ served \in 0 .. queued

Init ==
    /\ careful \in BOOLEAN
    /\ ui = "loop" /\ dialog = "none" /\ exiting = FALSE
    /\ state = "IDLE" /\ errorState = "IDLE"
    /\ tools = FALSE /\ listed = FALSE
    /\ queue = <<>> /\ callback = "none"
    /\ thread = "none" /\ wpc = "ended" /\ op = "none" /\ snapshot = <<>>
    /\ exec = "none" /\ stop = FALSE
    /\ tasks = 0 /\ asked = 0 /\ queued = 0 /\ served = 0
    /\ stranded = FALSE /\ pressed = FALSE

-----------------------------------------------------------------------------
(* Starting a task.                                                          *)

\* RunOnWorkerThread(t) up to its wait.  That a task is running is reported
\* and has no other effect: its callback is replaced under it, and it may end
\* as the new one would.
RunOnWorkerThread(t) ==
    /\ tasks < MaxTasks
    /\ tasks' = tasks + 1
    /\ callback' = t
    /\ ui' = "joining"
    /\ UNCHANGED <<worker, exec, stop, pressed>>

\* Mutant: a stop left over from the last task is kept.
ThreadJoined_StopKept ==
    /\ ui = "joining" /\ thread # "live"
    /\ pressed' = FALSE
    /\ thread' = "live" /\ ui' = "loop"
    /\ wpc' = IF callback = "browse" THEN "poll" ELSE "body"
    /\ UNCHANGED <<window, callback, op, snapshot, exec, stop, ops, tasks, asked, careful>>

\* The last thread has ended: RunOnWorkerThread() makes the next.
ThreadJoined ==
    /\ ui = "joining" /\ thread # "live"
    /\ stop' = FALSE /\ pressed' = FALSE
    /\ thread' = "live" /\ ui' = "loop"
    /\ wpc' = IF callback = "browse" THEN "poll" ELSE "body"
    /\ UNCHANGED <<window, callback, op, snapshot, exec, ops, tasks, asked, careful>>

\* UpdateState(), for a state s and a queue q.
ToolsFor(s, q) == IF s \in Browsing THEN q = <<>> ELSE tools

\* Too late to be polled for: the worker has found the queue empty, or runs
\* another task.
Late == callback # "none" /\ (callback # "browse" \/ wpc \in {"empty", "ending", "ended"})

\* Mutant: nothing is started.
KickBrowserQueue_Never ==
    UNCHANGED <<ui, callback, worker, exec, stop, tasks, pressed, state, errorState,
                tools>>

\* Mutant: the test whether the worker runs is missing.
KickBrowserQueue_Always ==
    /\ state' = "BROWSING_WORKING" /\ errorState' = "BROWSING_IDLE"
    /\ tools' = FALSE
    /\ RunOnWorkerThread("browse")

\* KickBrowserQueue(), after a push.
KickBrowserQueue ==
    IF callback = "none"
    THEN /\ state' = "BROWSING_WORKING" /\ errorState' = "BROWSING_IDLE"
         /\ tools' = FALSE
         /\ RunOnWorkerThread("browse")
    ELSE UNCHANGED <<ui, callback, worker, exec, stop, tasks, pressed, state,
                     errorState, tools>>

\* QueueBrowserOperation(), on the UI thread.
Push(o) ==
    /\ queue' = Append(queue, o) /\ queued' = queued + 1
    /\ stranded' = (stranded \/ Late)
    /\ UNCHANGED served

-----------------------------------------------------------------------------
(* The user.                                                                 *)

\* The window takes input, and the user is not too quick for it.
MayPress ==
    /\ ui = "loop" /\ dialog = "none"
    /\ careful => callback = "none"

\* assert(!IsWorkerThreadRunning()) in PrepareConfig() fails.
Abort ==
    /\ callback # "none"
    /\ ui' = "aborted"
    /\ UNCHANGED <<window, callback, worker, exec, stop, ops, counts>>

\* OnReadButton(), also from OnImagerGoAgainButton().
PressRead ==
    /\ MayPress
    /\ state \in {"IDLE", "READING_FAILED", "READING_SUCCEEDED"}
    /\ \/ Abort
       \/ /\ callback = "none"
          /\ state' = "READING_WORKING" /\ errorState' = "READING_FAILED"
          /\ RunOnWorkerThread("read")
          /\ UNCHANGED <<dialog, exiting, tools, listed, ops, asked, careful>>

\* OnWriteButton(), likewise.  No task runs while its dialog is open.
PressWrite ==
    /\ MayPress
    /\ state \in {"IDLE", "WRITING_FAILED", "WRITING_SUCCEEDED"}
    /\ \/ Abort
       \/ /\ callback = "none"
          /\ state' = "WRITING_WORKING" /\ errorState' = "WRITING_FAILED"
          /\ RunOnWorkerThread("write")
          /\ UNCHANGED <<dialog, exiting, tools, listed, ops, asked, careful>>

\* OnSaveImageButton() and OnSaveFluxButton() ask for a file name ...
PressSave ==
    /\ MayPress
    /\ state = "READING_SUCCEEDED"
    /\ dialog' = "save"
    /\ UNCHANGED <<ui, exiting, state, errorState, tools, listed, callback, worker, exec,
                   stop, ops, counts>>

\* ... and then save, without any check and without a state of their own.
SaveChosen ==
    /\ ui = "loop" /\ dialog = "save"
    /\ dialog' = "none"
    /\ errorState' = state
    /\ RunOnWorkerThread("save")
    /\ UNCHANGED <<exiting, state, tools, listed, ops, asked, careful>>

SaveCancelled ==
    /\ ui = "loop" /\ dialog = "save"
    /\ dialog' = "none"
    /\ UNCHANGED <<ui, exiting, state, errorState, tools, listed, callback, worker, exec,
                   stop, ops, counts>>

\* OnBackButton()
PressBack ==
    /\ MayPress
    /\ state \notin Working \cup {"IDLE"}
    /\ state' = "IDLE"
    /\ UNCHANGED <<ui, dialog, exiting, errorState, tools, listed, callback, worker,
                   exec, stop, ops, counts>>

\* OnBrowseButton() and OnFormatButton()
PressBrowse ==
    /\ MayPress
    /\ state = "IDLE"
    /\ \/ Abort
       \/ /\ callback = "none" /\ asked < MaxOps
          /\ asked' = asked + 1
          /\ Push("open")
          /\ KickBrowserQueue
          /\ listed' = FALSE
          /\ UNCHANGED <<dialog, exiting, careful>>

\* A handler of the browser queues an operation: a directory may be expanded
\* at any time, changes committed when the tools are enabled.
PressBrowser ==
    /\ ui = "loop" /\ dialog = "none"
    /\ state \in Browsing /\ listed
    /\ asked < MaxOps
    /\ asked' = asked + 1
    /\ \/ Push("list")
       \/ tools /\ Push("commit")
    /\ KickBrowserQueue
    /\ UNCHANGED <<dialog, exiting, listed, careful>>

\* UpdateState() in the browser, on the update event that follows the start of
\* a task or when another row is selected.
SelectionChanged ==
    /\ ui = "loop"
    /\ state \in Browsing
    /\ tools' = ToolsFor(state, queue)
    /\ UNCHANGED <<ui, dialog, exiting, state, errorState, listed, callback, worker,
                   exec, stop, ops, counts>>

\* The stop button beside the progress bar.
PressStop ==
    /\ ui = "loop" /\ dialog = "none"
    /\ callback # "none"
    /\ stop' = TRUE /\ pressed' = TRUE
    /\ UNCHANGED <<ui, window, callback, worker, exec, ops, tasks, asked, careful>>

\* Mutant: the timer runs once, and not until the task has ended.
Exit_Once ==
    \/ /\ callback # "none"
       /\ stop' = TRUE /\ pressed' = TRUE
       /\ exiting' = ~exiting
       /\ UNCHANGED ui
    \/ /\ callback = "none"
       /\ ui' = "gone"
       /\ UNCHANGED <<exiting, stop, pressed>>

\* OnExit()
Exit ==
    \/ /\ callback # "none"
       /\ stop' = TRUE /\ pressed' = TRUE
       /\ exiting' = TRUE
       /\ UNCHANGED ui
    \/ /\ callback = "none"
       /\ ui' = "gone"
       /\ UNCHANGED <<exiting, stop, pressed>>

Close ==
    /\ ui = "loop" /\ dialog = "none"
    /\ Exit
    /\ UNCHANGED <<dialog, state, errorState, tools, listed, callback, worker, exec, ops,
                   tasks, asked, careful>>

ExitTimer ==
    /\ ui = "loop" /\ exiting
    /\ Exit
    /\ UNCHANGED <<dialog, state, errorState, tools, listed, callback, worker, exec, ops,
                   tasks, asked, careful>>

-----------------------------------------------------------------------------
(* The worker thread: Entry() and the tasks.                                 *)

\* runOnUiThread(), as far as its wait.
Post(e) ==
    /\ exec = "none"
    /\ exec' = e

Running == thread = "live" /\ exec = "none"

OnlyPost(e) ==
    /\ Post(e)
    /\ UNCHANGED <<ui, window, callback, worker, stop, ops, counts>>

\* A disk is read or written, and the result handed to the window.
BodyDone ==
    /\ Running /\ wpc = "body"
    /\ callback \in {"read", "write"}
    /\ OnlyPost("success")

\* What was read has been saved; the window is not told.
SaveDone ==
    /\ Running /\ wpc = "body"
    /\ callback = "save"
    /\ wpc' = "ending"
    /\ UNCHANGED <<ui, window, callback, thread, op, snapshot, exec, stop, ops, counts>>

\* The worker throws: it logs the error, in Entry().
TaskFails ==
    /\ Running /\ wpc \in {"body", "op"}
    /\ OnlyPost("failed")

\* testForEmergencyStop(), which of the browser's operations only a commit
\* calls, throws.
TaskStops ==
    /\ Running /\ stop
    /\ wpc = "body" \/ (wpc = "op" /\ op = "commit")
    /\ OnlyPost("stopped")

\* The browser's loop asks for an operation ...
PollQueue ==
    /\ Running /\ wpc = "poll"
    /\ OnlyPost("poll")

\* ... and runs it.
OpReads ==
    /\ Running /\ wpc = "op"
    /\ op \in {"open", "list", "metadata"}
    /\ OnlyPost("followup")

\* OnBrowserCommitButton()'s operation calls UpdateFilesystemData() on this
\* thread: its push_back() races with one of the UI thread.
CommitFlushed ==
    /\ Running /\ wpc = "op"
    /\ op = "commit"
    /\ wpc' = "pushing" /\ snapshot' = queue
    /\ UNCHANGED <<ui, window, callback, thread, op, exec, stop, ops, counts>>

CommitPushes ==
    /\ Running /\ wpc = "pushing"
    /\ queue' = Append(snapshot, "metadata") /\ queued' = queued + 1
    /\ stranded' = (stranded \/ queue # snapshot)
    /\ wpc' = "poll" /\ op' = "none" /\ snapshot' = <<>>
    /\ UNCHANGED <<ui, window, callback, thread, exec, stop, served, counts>>

QueueEmpty ==
    /\ Running /\ wpc = "empty"
    /\ OnlyPost("idle")

TaskEnds ==
    /\ Running /\ wpc = "ending"
    /\ OnlyPost("clear")

ThreadEnds ==
    /\ Running /\ wpc = "ended"
    /\ thread' = "done"
    /\ UNCHANGED <<ui, window, callback, wpc, op, snapshot, exec, stop, ops, counts>>

Worker ==
    \/ BodyDone \/ SaveDone \/ TaskFails \/ TaskStops \/ PollQueue \/ OpReads
    \/ CommitFlushed \/ CommitPushes \/ QueueEmpty \/ TaskEnds \/ ThreadEnds

-----------------------------------------------------------------------------
(* OnExec(): the UI thread runs what was posted, from its own loop or from   *)
(* that of a dialog, and lets the worker go on.                              *)

OnExec(e) ==
    /\ ui = "loop" /\ exec = e
    /\ exec' = "none"

\* The window takes state s, then UpdateState() for the queue as it is now.
TakeState(s) ==
    /\ state' = s
    /\ tools' = ToolsFor(s, queue')
    /\ UNCHANGED <<ui, exiting, errorState, listed, callback, thread, op, snapshot, stop, counts>>

ShowSuccess ==
    /\ OnExec("success")
    /\ wpc' = "ending"
    /\ UNCHANGED <<ops, dialog>>
    /\ TakeState(IF callback = "read" THEN "READING_SUCCEEDED" ELSE "WRITING_SUCCEEDED")

GiveOperation ==
    /\ OnExec("poll")
    /\ tools' = ToolsFor(state, queue)
    /\ IF queue = <<>>
       THEN /\ wpc' = "empty"
            /\ UNCHANGED <<op, queue, served>>
       ELSE /\ wpc' = "op" /\ op' = Head(queue)
            /\ queue' = Tail(queue) /\ served' = served + 1
    /\ UNCHANGED <<ui, dialog, exiting, state, errorState, listed, callback, thread,
                   snapshot, stop, queued, stranded, counts>>

\* What an operation leads to: a disk that was opened is listed, a directory
\* listed is followed by the disk's metadata.
FollowUp ==
    /\ OnExec("followup")
    /\ \/ op = "open" /\ Push("list") /\ UNCHANGED listed
       \/ op = "list" /\ Push("metadata") /\ listed' = TRUE
       \/ op = "metadata" /\ UNCHANGED <<ops, listed>>
    /\ wpc' = "poll" /\ op' = "none"
    /\ UNCHANGED <<ui, dialog, exiting, state, errorState, tools, callback, thread,
                   snapshot, stop, counts>>

ShowIdle ==
    /\ OnExec("idle")
    /\ wpc' = "ending"
    /\ UNCHANGED <<ops, dialog>>
    /\ TakeState("BROWSING_IDLE")

\* Mutant: the state is left as it is.
ShowStopped_Nothing ==
    /\ OnExec("stopped")
    /\ wpc' = "ending"
    /\ UNCHANGED <<ops, dialog>>
    /\ TakeState(state)

\* The browser's queue is left as it is.
ShowStopped ==
    /\ OnExec("stopped")
    /\ wpc' = "ending"
    /\ stranded' = (stranded \/ queue # <<>>)
    /\ UNCHANGED <<queue, queued, served, dialog>>
    /\ TakeState(errorState)

\* The box that shows the error has a loop of its own ...
ShowError ==
    /\ ui = "loop" /\ exec = "failed" /\ dialog = "none"
    /\ dialog' = "error"
    /\ UNCHANGED <<ui, exiting, state, errorState, tools, listed, callback, worker,
                   exec, stop, ops, counts>>

\* ... and when it is closed, OnLogMessage() goes on.
ErrorClosed ==
    /\ dialog = "error" /\ OnExec("failed")
    /\ dialog' = "none"
    /\ wpc' = "ending"
    /\ queue' = <<>> /\ served' = served + Len(queue)
    /\ UNCHANGED <<queued, stranded>>
    /\ TakeState(errorState)

\* The last thing the worker posts: the task is over.
ClearCallback ==
    /\ OnExec("clear")
    /\ callback' = "none"
    /\ wpc' = "ended" /\ op' = "none"
    /\ tools' = ToolsFor(state, queue)
    /\ UNCHANGED <<ui, dialog, exiting, state, errorState, listed, thread, snapshot,
                   stop, ops, counts>>

UiThread ==
    \/ ShowSuccess \/ GiveOperation \/ FollowUp \/ ShowIdle \/ ShowStopped
    \/ ShowError \/ ErrorClosed \/ ClearCallback \/ ThreadJoined

User ==
    \/ PressRead \/ PressWrite \/ PressSave \/ SaveChosen \/ SaveCancelled
    \/ PressBack \/ PressBrowse \/ PressBrowser \/ SelectionChanged
    \/ PressStop \/ Close

\* Out of its loop the UI thread stands still: the program is over, or waits
\* for the last thread, which JoinReturns says is not for ever.
Standing == ui # "loop" /\ UNCHANGED vars

Next == User \/ ExitTimer \/ Worker \/ UiThread \/ Standing

\* Both threads are scheduled, timers fire, a task ends by itself and an error
\* box is closed in the end; the user need do nothing else.
Fairness == WF_vars(Worker) /\ WF_vars(UiThread) /\ WF_vars(ExitTimer)

Spec == Init /\ [][Next]_vars /\ Fairness

-----------------------------------------------------------------------------
(* Properties.                                                               *)

\* While the window shows that work is being done, with its buttons disabled,
\* a task runs: no way to end a task leaves the window busy for ever.  The
\* states of mainwindow.cc's handlers against the callback of main.cc.
BusyIsTrue == state \in Working => callback # "none"

\* A window that shows work has a task, through every way a task ends and the
\* races of starting one (mainwindow.cc's handlers, RunOnWorkerThread()), and
\* the operations that are queued stay within what those asked for lead to.
WindowTrue == TypeOK /\ BusyIsTrue

\* Only a task the user asked to stop is stopped: a stop meant for the task
\* before, or pressed just as it ended, does not hit the next
\* (RunOnWorkerThread()'s reset of emergencyStop, made after the wait).
StopHitsItsTask == exec = "stopped" => pressed

\* For a careful user, the wait for the last thread returns, so the window goes on: the last
\* thread needs the UI thread no more (GetThread()->Wait()).
JoinReturns == careful /\ ui = "joining" ~> ui # "joining"

\* Once a careful user closes the window it is destroyed, whatever task runs and
\* even if it cannot be stopped (OnExit() and its timer).
ExitHappens == careful /\ exiting ~> ui = "gone"

\* Every operation a careful user queues is run, or dropped by an error, unless it came in
\* one of the gaps that "stranded" names: after the worker found the queue
\* empty and before it is known to have ended, in the race with a commit, or
\* before a stop (QueueBrowserOperation() and KickBrowserQueue()).
OpsServed ==
    \A n \in 1 .. MaxQueued :
        (careful /\ queued >= n /\ ~stranded) ~> (served >= n \/ stranded \/ ui = "gone")
=============================================================================
