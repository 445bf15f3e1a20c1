------------------------ MODULE GuiWorker_proofs ------------------------
(***************************************************************************)
(* Proofs about GuiWorker, for any number of tasks and of operations the   *)
(* user asks for, careful or not.  The inductive invariant says what each  *)
(* thread may rely on while the other goes on, and counts the operations   *)
(* that are still to be queued by those that have been.                    *)
(***************************************************************************)
EXTENDS GuiWorker, FiniteSetTheorems, TLAPS

\* The worker waits at the point it posted from, and until its last post has
\* been handled there is a task.
Posts ==
    /\ wpc # "ended" => thread = "live" /\ callback # "none"
    /\ ui = "joining" => callback # "none"
    /\ exec = "success" => wpc = "body"
    /\ exec = "poll" => wpc = "poll"
    /\ exec = "followup" => wpc = "op"
    /\ exec = "idle" => wpc = "empty"
    /\ exec \in {"failed", "stopped"} => wpc \in {"body", "op"}
    /\ exec = "clear" => wpc = "ending"

\* Nothing is left to be done once the worker is about to say that it has ended,
\* nor while the user is asked where to save.
Quiet ==
    /\ errorState \notin Working
    /\ wpc = "ending" \/ dialog = "save" \/ callback = "save" => state \notin Working

Stops ==
    /\ stop => pressed
    /\ StopHitsItsTask

\* The operations that an operation leads to, directly or not: opening a disk to
\* two, showing a directory and a commit to one.
Leads  == {"open", "list", "commit"}
More(o) == IF o = "open" THEN 2 ELSE IF o \in Leads THEN 1 ELSE 0

Among(q, S) == {i \in 1 .. Len(q) : q[i] \in S}
ToCome(q)   == Cardinality(Among(q, Leads)) + Cardinality(Among(q, {"open"}))

\* Three operations are queued at most for each that is asked for: those still
\* to come are counted with the ones that have been.  What the worker saw of the
\* queue when it began to push is still there.
Queued ==
    /\ wpc \notin {"op", "pushing", "ending"} => op = "none"
    /\ wpc = "op" => op # "none"
    /\ wpc = "pushing" =>
          /\ op = "commit" /\ Len(snapshot) <= Len(queue)
          /\ \A i \in 1 .. Len(snapshot) : snapshot[i] = queue[i]
    /\ queued + ToCome(queue) + More(op) <= 3 * asked
    /\ served + Len(queue) <= queued

IInv == TypeOK /\ BusyIsTrue /\ Posts /\ Quiet /\ Stops /\ Queued

-----------------------------------------------------------------------------
(* What is to come of a queue.                                               *)

LEMMA AmongIs ==
    ASSUME NEW q \in Seq(Ops), NEW S
    PROVE  /\ IsFiniteSet(Among(q, S)) /\ Cardinality(Among(q, S)) \in Nat
           /\ Cardinality(Among(<<>>, S)) = 0
<1>1. Len(q) \in Nat /\ IsFiniteSet(1 .. Len(q))
  BY FS_Interval
<1>2. Among(q, S) \subseteq 1 .. Len(q)
  BY DEF Among
<1>3. IsFiniteSet(Among(q, S))
  BY <1>1, <1>2, FS_Subset
<1>4. Among(<<>>, S) = {}
  BY DEF Among
<1> QED  BY <1>3, <1>4, FS_CardinalityType, FS_EmptySet

LEMMA AmongAppend ==
    ASSUME NEW q \in Seq(Ops), NEW o \in Ops, NEW S
    PROVE  Cardinality(Among(Append(q, o), S)) =
               Cardinality(Among(q, S)) + (IF o \in S THEN 1 ELSE 0)
<1>1. /\ Len(q) \in Nat /\ Len(Append(q, o)) = Len(q) + 1
      /\ \A i \in 1 .. Len(q) : Append(q, o)[i] = q[i]
      /\ Append(q, o)[Len(q) + 1] = o
  OBVIOUS
<1>2. Among(Append(q, o), S) = Among(q, S) \cup (IF o \in S THEN {Len(q) + 1} ELSE {})
  BY <1>1 DEF Among
<1>3. Len(q) + 1 \notin Among(q, S)
  BY <1>1 DEF Among
<1>4. CASE o \in S
  <2>1. Among(Append(q, o), S) = Among(q, S) \cup {Len(q) + 1}
    BY <1>2, <1>4
  <2> QED  BY <1>3, <1>4, <2>1, AmongIs, FS_AddElement
<1>5. CASE o \notin S
  <2>1. Among(Append(q, o), S) = Among(q, S)
    BY <1>2, <1>5
  <2> QED  BY <1>5, <2>1, AmongIs
<1> QED  BY <1>4, <1>5

LEMMA AmongTail ==
    ASSUME NEW q \in Seq(Ops), q # <<>>, NEW S
    PROVE  Cardinality(Among(q, S)) =
               Cardinality(Among(Tail(q), S)) + (IF Head(q) \in S THEN 1 ELSE 0)
<1> DEFINE A == Among(q, S) \ {1}
           B == Among(Tail(q), S)
           f == [i \in B |-> i + 1]
<1>1. /\ Len(q) \in Nat /\ Len(q) > 0 /\ Len(Tail(q)) = Len(q) - 1 /\ Tail(q) \in Seq(Ops)
      /\ \A i \in 1 .. Len(q) - 1 : Tail(q)[i] = q[i + 1]
      /\ Head(q) = q[1]
  OBVIOUS
<1>2. f \in Bijection(B, A)
  <2>1. f \in [B -> A]
    BY <1>1 DEF Among
  <2>2. \A i, j \in B : f[i] = f[j] => i = j
    BY <1>1 DEF Among
  <2>3. ASSUME NEW k \in A PROVE \E i \in B : f[i] = k
    <3>1. k - 1 \in B /\ f[k - 1] = k
      BY <1>1 DEF Among
    <3> QED  BY <3>1
  <2> QED  BY <2>1, <2>2, <2>3 DEF Bijection, Injection, Surjection, IsInjective
<1>3. IsFiniteSet(B) /\ Cardinality(B) \in Nat
  BY <1>1, AmongIs
<1>4. Cardinality(A) = Cardinality(B)
  <2>1. ExistsBijection(B, A)  BY <1>2 DEF ExistsBijection
  <2> QED  BY <1>3, <2>1, FS_Bijection
<1>5. Cardinality(A) = IF 1 \in Among(q, S) THEN Cardinality(Among(q, S)) - 1
                       ELSE Cardinality(Among(q, S))
  BY AmongIs, FS_RemoveElement
<1>6. 1 \in Among(q, S) <=> Head(q) \in S
  BY <1>1 DEF Among
<1> QED  BY <1>3, <1>4, <1>5, <1>6, AmongIs

LEMMA ToComeIs ==
    /\ \A q \in Seq(Ops) : ToCome(q) \in Nat
    /\ ToCome(<<>>) = 0
    /\ \A q \in Seq(Ops), o \in Ops : ToCome(Append(q, o)) = ToCome(q) + More(o)
    /\ \A q \in Seq(Ops) : q # <<>> => ToCome(q) = ToCome(Tail(q)) + More(Head(q))
<1>1. \A q \in Seq(Ops) : ToCome(q) \in Nat
  BY AmongIs DEF ToCome
<1>2. ToCome(<<>>) = 0
  <2>1. <<>> \in Seq(Ops)
    OBVIOUS
  <2>2. /\ Cardinality(Among(<<>>, Leads)) = 0
        /\ Cardinality(Among(<<>>, {"open"})) = 0
    BY <2>1, AmongIs
  <2> QED  BY <2>2 DEF ToCome
<1>3. ASSUME NEW q \in Seq(Ops), NEW o \in Ops
      PROVE  ToCome(Append(q, o)) = ToCome(q) + More(o)
  <2>1. /\ Cardinality(Among(q, Leads)) \in Nat /\ Cardinality(Among(q, {"open"})) \in Nat
    BY AmongIs
  <2>2. /\ Cardinality(Among(Append(q, o), Leads)) =
              Cardinality(Among(q, Leads)) + (IF o \in Leads THEN 1 ELSE 0)
        /\ Cardinality(Among(Append(q, o), {"open"})) =
              Cardinality(Among(q, {"open"})) + (IF o \in {"open"} THEN 1 ELSE 0)
    BY AmongAppend
  <2> QED  BY <2>1, <2>2 DEF ToCome, More, Leads
<1>4. ASSUME NEW q \in Seq(Ops), q # <<>>
      PROVE  ToCome(q) = ToCome(Tail(q)) + More(Head(q))
  <2>0. Tail(q) \in Seq(Ops)  BY <1>4
  <2>1. /\ Cardinality(Among(Tail(q), Leads)) \in Nat /\ Cardinality(Among(Tail(q), {"open"})) \in Nat
    BY <2>0, AmongIs
  <2>2. /\ Cardinality(Among(q, Leads)) =
              Cardinality(Among(Tail(q), Leads)) + (IF Head(q) \in Leads THEN 1 ELSE 0)
        /\ Cardinality(Among(q, {"open"})) =
              Cardinality(Among(Tail(q), {"open"})) + (IF Head(q) \in {"open"} THEN 1 ELSE 0)
    BY <1>4, AmongTail
  <2> QED  BY <2>1, <2>2 DEF ToCome, More, Leads
<1> QED  BY <1>1, <1>2, <1>3, <1>4

\* A queue that begins with another leads to no less.
LEMMA ToComeOfPrefix ==
    ASSUME NEW p \in Seq(Ops), NEW q \in Seq(Ops), Len(p) <= Len(q),
           \A i \in 1 .. Len(p) : p[i] = q[i]
    PROVE  ToCome(p) <= ToCome(q)
<1>1. ASSUME NEW S PROVE Cardinality(Among(p, S)) <= Cardinality(Among(q, S))
  <2>1. Among(p, S) \subseteq Among(q, S)
    BY DEF Among
  <2> QED  BY <2>1, AmongIs, FS_Subset
<1>2. /\ Cardinality(Among(p, Leads)) \in Nat /\ Cardinality(Among(p, {"open"})) \in Nat
      /\ Cardinality(Among(q, Leads)) \in Nat /\ Cardinality(Among(q, {"open"})) \in Nat
  BY AmongIs
<1> QED  BY <1>1, <1>2 DEF ToCome
-----------------------------------------------------------------------------
(* Every step keeps the invariant.                                           *)

LEMMA InitIInv == Init => IInv
<1> SUFFICES ASSUME Init PROVE IInv
  OBVIOUS
<1>1. queue = <<>> /\ <<>> \in Seq(Ops) /\ Len(queue) = 0
  BY DEF Init
<1>2. TypeOK
  <2>1. /\ 0 \in 0 .. MaxTasks /\ 0 \in 0 .. MaxOps /\ 0 \in 0 .. MaxQueued /\ 0 \in 0 .. 0
    BY GuiAssumption DEF MaxQueued
  <2> QED  BY <1>1, <2>1 DEF Init, TypeOK, States
<1>3. Queued
  BY <1>1, ToComeIs DEF Init, Queued, More, Leads
<1> QED  BY <1>2, <1>3 DEF Init, IInv, BusyIsTrue, Posts, Quiet, Stops, StopHitsItsTask, Working

\* An operation the user asks for: it is queued, and the worker started if no
\* task runs.
LEMMA AskStep ==
    ASSUME IInv, NEW o \in Ops, asked < MaxOps, asked' = asked + 1, Push(o), KickBrowserQueue,
           dialog = "none", dialog' = dialog,
           listed' \in BOOLEAN, exiting' = exiting, careful' = careful
    PROVE  IInv'
<1> DEFINE Kept == <<thread, wpc, op, snapshot, exec, stop, pressed>>
<1>1. /\ queue' = Append(queue, o) /\ queued' = queued + 1 /\ served' = served
      /\ stranded' \in BOOLEAN
  BY DEF Push, IInv, TypeOK, Late
<1>2. /\ queue' \in Seq(Ops) /\ Len(queue') = Len(queue) + 1 /\ Len(queue) \in Nat
      /\ \A i \in 1 .. Len(queue) : queue'[i] = queue[i]
  BY <1>1 DEF IInv, TypeOK
<1>3. /\ \/ /\ callback = "none" /\ state' = "BROWSING_WORKING"
            /\ errorState' = "BROWSING_IDLE" /\ tools' = FALSE
            /\ callback' = "browse" /\ ui' = "joining" /\ tasks' \in 0 .. MaxTasks
         \/ UNCHANGED <<ui, callback, tasks, state, errorState, tools>>
      /\ UNCHANGED Kept
  BY GuiAssumption DEF KickBrowserQueue, RunOnWorkerThread, worker, IInv, TypeOK
<1>4. Queued'
  <2>0. /\ queued + ToCome(queue) + More(op) <= 3 * asked /\ served + Len(queue) <= queued
        /\ asked \in 0 .. MaxOps /\ queued \in Nat /\ served \in 0 .. queued
    BY DEF IInv, Queued, TypeOK
  <2>1. More(o) \in 0 .. 2 /\ ToCome(queue') = ToCome(queue) + More(o) /\ ToCome(queue) \in Nat
    BY <1>1, ToComeIs DEF IInv, TypeOK, More
  <2>2. More(op) \in 0 .. 2
    BY DEF More
  <2>3. queued' + ToCome(queue') + More(op') <= 3 * asked' /\ served' + Len(queue') <= queued'
    BY SMTT(30), <1>1, <1>2, <1>3, <2>0, <2>1, <2>2
  <2>4. /\ wpc' \notin {"op", "pushing", "ending"} => op' = "none"
        /\ wpc' = "op" => op' # "none"
    BY <1>3 DEF IInv, Queued
  <2>5. ASSUME wpc' = "pushing"
        PROVE  /\ op' = "commit" /\ Len(snapshot') <= Len(queue')
               /\ \A i \in 1 .. Len(snapshot') : snapshot'[i] = queue'[i]
    <3>1. Len(snapshot) \in Nat /\ snapshot' = snapshot /\ op' = op /\ wpc = "pushing"
      BY <1>3, <2>5 DEF IInv, TypeOK
    <3> QED  BY <1>2, <3>1 DEF IInv, Queued
  <2> QED  BY <2>3, <2>4, <2>5 DEF Queued
<1>5. TypeOK'
  <2>1. ToCome(queue') \in Nat /\ More(op') \in Nat
    BY <1>2, ToComeIs DEF More
  <2>2. asked' \in 0 .. MaxOps /\ queued' \in 0 .. MaxQueued /\ served' \in 0 .. queued'
    <3>1. asked \in 0 .. MaxOps /\ queued \in Nat /\ served \in 0 .. queued
      BY DEF IInv, TypeOK
    <3>2. queued' + ToCome(queue') + More(op') <= 3 * asked'
      BY <1>4 DEF Queued
    <3> QED  BY <1>1, <2>1, <3>1, <3>2, GuiAssumption DEF MaxQueued
  <2>3. /\ ui' \in {"loop", "joining", "aborted", "gone"} /\ state' \in States
        /\ errorState' \in States /\ tools' \in BOOLEAN /\ callback' \in Tasks \cup {"none"}
        /\ tasks' \in 0 .. MaxTasks
    BY <1>3 DEF IInv, TypeOK, States, Browsing, Tasks
  <2> QED  BY <1>1, <1>2, <1>3, <2>2, <2>3 DEF IInv, TypeOK
<1>6. (BusyIsTrue /\ Posts /\ Quiet /\ Stops)'
  BY <1>3 DEF IInv, TypeOK, BusyIsTrue, Posts, Quiet, Stops, StopHitsItsTask, Working
<1> QED  BY <1>4, <1>5, <1>6 DEF IInv

\* What the user does.
LEMMA UserStep == IInv /\ User => IInv'
<1> SUFFICES ASSUME IInv, User PROVE IInv'
  OBVIOUS
<1>1. CASE PressRead
  <2>0. /\ tasks' \in 0 .. MaxTasks /\ ui' \in {"joining", "aborted"}
        /\ UNCHANGED <<stop, pressed, exiting, tools, listed, queue, snapshot>>
    BY <1>1, GuiAssumption DEF IInv, TypeOK, Queued, PressRead, Abort,
       RunOnWorkerThread, window, worker, ops, counts
  <2>1. TypeOK'
    BY <2>0, <1>1 DEF IInv, TypeOK, PressRead, MayPress, Abort, RunOnWorkerThread,
       window, worker, ops, counts, Working, States, Tasks, Reading, Writing, Browsing
  <2>2. (BusyIsTrue /\ Posts /\ Quiet /\ Stops)'
    BY <1>1 DEF IInv, TypeOK, BusyIsTrue, Posts, Quiet, Stops, StopHitsItsTask,
       PressRead, MayPress, Abort, RunOnWorkerThread, window, worker, ops, counts,
       Working, States, Tasks, Reading, Writing, Browsing
  <2>3. Queued'
    BY <2>0, <1>1, ToComeIs DEF IInv, TypeOK, Queued, Posts, More, Leads, PressRead,
       MayPress, Abort, RunOnWorkerThread, window, worker, ops, counts
  <2> QED  BY <2>1, <2>2, <2>3 DEF IInv
<1>2. CASE PressWrite
  <2>0. /\ tasks' \in 0 .. MaxTasks /\ ui' \in {"joining", "aborted"}
        /\ UNCHANGED <<stop, pressed, exiting, tools, listed, queue, snapshot>>
    BY <1>2, GuiAssumption DEF IInv, TypeOK, Queued, PressWrite, Abort,
       RunOnWorkerThread, window, worker, ops, counts
  <2>1. TypeOK'
    BY <2>0, <1>2 DEF IInv, TypeOK, PressWrite, MayPress, Abort, RunOnWorkerThread,
       window, worker, ops, counts, Working, States, Tasks, Reading, Writing, Browsing
  <2>2. (BusyIsTrue /\ Posts /\ Quiet /\ Stops)'
    BY <1>2 DEF IInv, TypeOK, BusyIsTrue, Posts, Quiet, Stops, StopHitsItsTask,
       PressWrite, MayPress, Abort, RunOnWorkerThread, window, worker, ops, counts,
       Working, States, Tasks, Reading, Writing, Browsing
  <2>3. Queued'
    BY <2>0, <1>2, ToComeIs DEF IInv, TypeOK, Queued, Posts, More, Leads, PressWrite,
       MayPress, Abort, RunOnWorkerThread, window, worker, ops, counts
  <2> QED  BY <2>1, <2>2, <2>3 DEF IInv
<1>3. CASE PressSave
  <2>1. TypeOK'
    BY <1>3 DEF IInv, TypeOK, PressSave, window, worker, ops, counts, Working, States,
       Tasks, Reading, Writing, Browsing
  <2>2. (BusyIsTrue /\ Posts /\ Quiet /\ Stops)'
    BY <1>3 DEF IInv, TypeOK, BusyIsTrue, Posts, Quiet, Stops, StopHitsItsTask,
       PressSave, window, worker, ops, counts, Working, States, Tasks, Reading, Writing,
       Browsing
  <2>3. Queued'
    BY <1>3, ToComeIs DEF IInv, TypeOK, Queued, Posts, More, Leads, PressSave, window,
       worker, ops, counts
  <2> QED  BY <2>1, <2>2, <2>3 DEF IInv
<1>4. CASE SaveChosen
  <2>0. tasks' \in 0 .. MaxTasks /\ UNCHANGED <<stop, pressed, queue, snapshot>>
    BY <1>4, GuiAssumption DEF IInv, TypeOK, Queued, SaveChosen, RunOnWorkerThread,
       window, worker, ops, counts
  <2>1. TypeOK'
    BY <2>0, <1>4 DEF IInv, TypeOK, SaveChosen, RunOnWorkerThread, window, worker, ops,
       counts, Working, States, Tasks, Reading, Writing, Browsing
  <2>2. (BusyIsTrue /\ Posts /\ Quiet /\ Stops)'
    BY <1>4 DEF IInv, TypeOK, BusyIsTrue, Posts, Quiet, Stops, StopHitsItsTask,
       SaveChosen, RunOnWorkerThread, window, worker, ops, counts, Working, States,
       Tasks, Reading, Writing, Browsing
  <2>3. Queued'
    BY <2>0, <1>4, ToComeIs DEF IInv, TypeOK, Queued, Posts, More, Leads, SaveChosen,
       RunOnWorkerThread, window, worker, ops, counts
  <2> QED  BY <2>1, <2>2, <2>3 DEF IInv
<1>5. CASE SaveCancelled
  <2>1. TypeOK'
    BY <1>5 DEF IInv, TypeOK, SaveCancelled, window, worker, ops, counts, Working,
       States, Tasks, Reading, Writing, Browsing
  <2>2. (BusyIsTrue /\ Posts /\ Quiet /\ Stops)'
    BY <1>5 DEF IInv, TypeOK, BusyIsTrue, Posts, Quiet, Stops, StopHitsItsTask,
       SaveCancelled, window, worker, ops, counts, Working, States, Tasks, Reading,
       Writing, Browsing
  <2>3. Queued'
    BY <1>5, ToComeIs DEF IInv, TypeOK, Queued, Posts, More, Leads, SaveCancelled,
       window, worker, ops, counts
  <2> QED  BY <2>1, <2>2, <2>3 DEF IInv
<1>6. CASE PressBack
  <2>1. TypeOK'
    BY <1>6 DEF IInv, TypeOK, PressBack, window, worker, ops, counts, Working, States,
       Tasks, Reading, Writing, Browsing
  <2>2. (BusyIsTrue /\ Posts /\ Quiet /\ Stops)'
    BY <1>6 DEF IInv, TypeOK, BusyIsTrue, Posts, Quiet, Stops, StopHitsItsTask,
       PressBack, window, worker, ops, counts, Working, States, Tasks, Reading, Writing,
       Browsing
  <2>3. Queued'
    BY <1>6, ToComeIs DEF IInv, TypeOK, Queued, Posts, More, Leads, PressBack, window,
       worker, ops, counts
  <2> QED  BY <2>1, <2>2, <2>3 DEF IInv
<1>7. CASE PressBrowse
  <2>1. CASE Abort
    <3>1. ui' = "aborted" /\ UNCHANGED <<window, callback, worker, exec, stop, ops, counts>>
      BY <2>1 DEF Abort
    <3>2. /\ (TypeOK /\ BusyIsTrue /\ Posts /\ Quiet /\ Stops)'
      BY <3>1 DEF IInv, TypeOK, BusyIsTrue, Posts, Quiet, Stops, StopHitsItsTask, window,
                  worker, ops, counts
    <3>3. Queued'
      BY <3>1 DEF IInv, Queued, worker, ops, counts
    <3> QED  BY <3>2, <3>3 DEF IInv
  <2>2. CASE ~Abort
    BY <1>7, <2>2, AskStep DEF PressBrowse, MayPress, Ops
  <2> QED  BY <2>1, <2>2
<1>8. CASE PressBrowser
  <2>1. listed' \in BOOLEAN
    BY <1>8 DEF PressBrowser, IInv, TypeOK
  <2> QED  BY <1>8, <2>1, AskStep DEF PressBrowser, Ops
<1>9. CASE SelectionChanged
  <2>1. TypeOK'
    BY <1>9 DEF IInv, TypeOK, SelectionChanged, ToolsFor, window, worker, ops, counts,
       Working, States, Tasks, Reading, Writing, Browsing
  <2>2. (BusyIsTrue /\ Posts /\ Quiet /\ Stops)'
    BY <1>9 DEF IInv, TypeOK, BusyIsTrue, Posts, Quiet, Stops, StopHitsItsTask,
       SelectionChanged, ToolsFor, window, worker, ops, counts, Working, States, Tasks,
       Reading, Writing, Browsing
  <2>3. Queued'
    BY <1>9, ToComeIs DEF IInv, TypeOK, Queued, Posts, More, Leads, SelectionChanged,
       ToolsFor, window, worker, ops, counts
  <2> QED  BY <2>1, <2>2, <2>3 DEF IInv
<1>10. CASE PressStop
  <2>1. TypeOK'
    BY <1>10 DEF IInv, TypeOK, PressStop, window, worker, ops, counts, Working, States,
       Tasks, Reading, Writing, Browsing
  <2>2. (BusyIsTrue /\ Posts /\ Quiet /\ Stops)'
    BY <1>10 DEF IInv, TypeOK, BusyIsTrue, Posts, Quiet, Stops, StopHitsItsTask,
       PressStop, window, worker, ops, counts, Working, States, Tasks, Reading, Writing,
       Browsing
  <2>3. Queued'
    BY <1>10, ToComeIs DEF IInv, TypeOK, Queued, Posts, More, Leads, PressStop, window,
       worker, ops, counts
  <2> QED  BY <2>1, <2>2, <2>3 DEF IInv
<1>11. CASE Close
  <2>0. /\ ui' \in {"loop", "gone"} /\ exiting' \in BOOLEAN /\ stop' \in BOOLEAN /\ pressed' \in BOOLEAN
    BY <1>11 DEF IInv, TypeOK, Queued, Close, Exit, window, worker, ops, counts
  <2>1. TypeOK'
    BY <2>0, <1>11 DEF IInv, TypeOK, Close, Exit, window, worker, ops, counts, Working,
       States, Tasks, Reading, Writing, Browsing
  <2>2. (BusyIsTrue /\ Posts /\ Quiet /\ Stops)'
    BY <1>11 DEF IInv, TypeOK, BusyIsTrue, Posts, Quiet, Stops, StopHitsItsTask, Close,
       Exit, window, worker, ops, counts, Working, States, Tasks, Reading, Writing,
       Browsing
  <2>3. Queued'
    BY <2>0, <1>11, ToComeIs DEF IInv, TypeOK, Queued, Posts, More, Leads, Close, Exit,
       window, worker, ops, counts
  <2> QED  BY <2>1, <2>2, <2>3 DEF IInv
<1> QED  BY <1>1, <1>2, <1>3, <1>4, <1>5, <1>6, <1>7, <1>8, <1>9, <1>10, <1>11 DEF User

\* What the worker does: most of its steps only post.
LEMMA WorkerStep == IInv /\ Worker => IInv'
<1> SUFFICES ASSUME IInv, Worker PROVE IInv'
  OBVIOUS
<1>1. CASE BodyDone
  <2>1. TypeOK'
    BY <1>1 DEF IInv, TypeOK, BodyDone, Running, OnlyPost, Post, window, worker, ops,
       counts, Working, States, Tasks, Reading, Writing, Browsing
  <2>2. (BusyIsTrue /\ Posts /\ Quiet /\ Stops)'
    BY <1>1 DEF IInv, TypeOK, BusyIsTrue, Posts, Quiet, Stops, StopHitsItsTask,
       BodyDone, Running, OnlyPost, Post, window, worker, ops, counts, Working, States,
       Tasks, Reading, Writing, Browsing
  <2>3. Queued'
    BY <1>1, ToComeIs DEF IInv, TypeOK, Queued, Posts, More, Leads, BodyDone, Running,
       OnlyPost, Post, window, worker, ops, counts
  <2> QED  BY <2>1, <2>2, <2>3 DEF IInv
<1>2. CASE SaveDone
  <2>1. TypeOK'
    BY <1>2 DEF IInv, TypeOK, SaveDone, Running, window, worker, ops, counts, Working,
       States, Tasks, Reading, Writing, Browsing
  <2>2. (BusyIsTrue /\ Posts /\ Quiet /\ Stops)'
    BY <1>2 DEF IInv, TypeOK, BusyIsTrue, Posts, Quiet, Stops, StopHitsItsTask,
       SaveDone, Running, window, worker, ops, counts, Working, States, Tasks, Reading,
       Writing, Browsing
  <2>3. Queued'
    BY <1>2, ToComeIs DEF IInv, TypeOK, Queued, Posts, More, Leads, SaveDone, Running,
       window, worker, ops, counts
  <2> QED  BY <2>1, <2>2, <2>3 DEF IInv
<1>3. CASE TaskFails
  <2>1. TypeOK'
    BY <1>3 DEF IInv, TypeOK, TaskFails, Running, OnlyPost, Post, window, worker, ops,
       counts, Working, States, Tasks, Reading, Writing, Browsing
  <2>2. (BusyIsTrue /\ Posts /\ Quiet /\ Stops)'
    BY <1>3 DEF IInv, TypeOK, BusyIsTrue, Posts, Quiet, Stops, StopHitsItsTask,
       TaskFails, Running, OnlyPost, Post, window, worker, ops, counts, Working, States,
       Tasks, Reading, Writing, Browsing
  <2>3. Queued'
    BY <1>3, ToComeIs DEF IInv, TypeOK, Queued, Posts, More, Leads, TaskFails, Running,
       OnlyPost, Post, window, worker, ops, counts
  <2> QED  BY <2>1, <2>2, <2>3 DEF IInv
<1>4. CASE TaskStops
  <2>1. TypeOK'
    BY <1>4 DEF IInv, TypeOK, TaskStops, Running, OnlyPost, Post, window, worker, ops,
       counts, Working, States, Tasks, Reading, Writing, Browsing
  <2>2. (BusyIsTrue /\ Posts /\ Quiet /\ Stops)'
    BY <1>4 DEF IInv, TypeOK, BusyIsTrue, Posts, Quiet, Stops, StopHitsItsTask,
       TaskStops, Running, OnlyPost, Post, window, worker, ops, counts, Working, States,
       Tasks, Reading, Writing, Browsing
  <2>3. Queued'
    BY <1>4, ToComeIs DEF IInv, TypeOK, Queued, Posts, More, Leads, TaskStops, Running,
       OnlyPost, Post, window, worker, ops, counts
  <2> QED  BY <2>1, <2>2, <2>3 DEF IInv
<1>5. CASE PollQueue
  <2>1. TypeOK'
    BY <1>5 DEF IInv, TypeOK, PollQueue, Running, OnlyPost, Post, window, worker, ops,
       counts, Working, States, Tasks, Reading, Writing, Browsing
  <2>2. (BusyIsTrue /\ Posts /\ Quiet /\ Stops)'
    BY <1>5 DEF IInv, TypeOK, BusyIsTrue, Posts, Quiet, Stops, StopHitsItsTask,
       PollQueue, Running, OnlyPost, Post, window, worker, ops, counts, Working, States,
       Tasks, Reading, Writing, Browsing
  <2>3. Queued'
    BY <1>5, ToComeIs DEF IInv, TypeOK, Queued, Posts, More, Leads, PollQueue, Running,
       OnlyPost, Post, window, worker, ops, counts
  <2> QED  BY <2>1, <2>2, <2>3 DEF IInv
<1>6. CASE OpReads
  <2>1. TypeOK'
    BY <1>6 DEF IInv, TypeOK, OpReads, Running, OnlyPost, Post, window, worker, ops,
       counts, Working, States, Tasks, Reading, Writing, Browsing
  <2>2. (BusyIsTrue /\ Posts /\ Quiet /\ Stops)'
    BY <1>6 DEF IInv, TypeOK, BusyIsTrue, Posts, Quiet, Stops, StopHitsItsTask, OpReads,
       Running, OnlyPost, Post, window, worker, ops, counts, Working, States, Tasks,
       Reading, Writing, Browsing
  <2>3. Queued'
    BY <1>6, ToComeIs DEF IInv, TypeOK, Queued, Posts, More, Leads, OpReads, Running,
       OnlyPost, Post, window, worker, ops, counts
  <2> QED  BY <2>1, <2>2, <2>3 DEF IInv
<1>7. CASE CommitFlushed
  <2>1. TypeOK'
    BY <1>7 DEF IInv, TypeOK, CommitFlushed, Running, window, worker, ops, counts,
       Working, States, Tasks, Reading, Writing, Browsing
  <2>2. (BusyIsTrue /\ Posts /\ Quiet /\ Stops)'
    BY <1>7 DEF IInv, TypeOK, BusyIsTrue, Posts, Quiet, Stops, StopHitsItsTask,
       CommitFlushed, Running, window, worker, ops, counts, Working, States, Tasks,
       Reading, Writing, Browsing
  <2>3. Queued'
    BY <1>7, ToComeIs DEF IInv, TypeOK, Queued, Posts, More, Leads, CommitFlushed,
       Running, window, worker, ops, counts
  <2> QED  BY <2>1, <2>2, <2>3 DEF IInv
<1>8. CASE CommitPushes
  <2>1. /\ wpc = "pushing" /\ wpc' = "poll" /\ op' = "none" /\ snapshot' = <<>>
        /\ queue' = Append(snapshot, "metadata") /\ queued' = queued + 1 /\ served' = served
        /\ stranded' \in BOOLEAN /\ exec = "none"
        /\ UNCHANGED <<ui, window, callback, thread, exec, stop, counts>>
    BY <1>8 DEF CommitPushes, Running, IInv, TypeOK
  <2>2. /\ op = "commit" /\ Len(snapshot) <= Len(queue)
        /\ \A i \in 1 .. Len(snapshot) : snapshot[i] = queue[i]
        /\ queued + ToCome(queue) + More(op) <= 3 * asked /\ served + Len(queue) <= queued
    BY <2>1 DEF IInv, Queued
  <2>3. "metadata" \in Ops /\ snapshot \in Seq(Ops) /\ queue \in Seq(Ops)
    BY DEF IInv, TypeOK, Ops
  <2>4. /\ queue' \in Seq(Ops) /\ snapshot' \in Seq(Ops) /\ Len(queue') = Len(snapshot) + 1
        /\ Len(snapshot) \in Nat /\ Len(queue) \in Nat
    BY <2>1, <2>3
  <2>5. /\ ToCome(queue') = ToCome(snapshot) + More("metadata")
        /\ ToCome(snapshot) <= ToCome(queue) /\ ToCome(snapshot) \in Nat /\ ToCome(queue) \in Nat
    BY <2>1, <2>2, <2>3, ToComeIs, ToComeOfPrefix
  <2>6. More("metadata") = 0 /\ More("commit") = 1 /\ More("none") = 0
    BY DEF More, Leads
  <2>7. asked' = asked /\ asked \in 0 .. MaxOps /\ queued \in Nat /\ served \in 0 .. queued
    BY <2>1 DEF IInv, TypeOK, counts
  <2>8. Queued'
    BY <2>1, <2>2, <2>4, <2>5, <2>6, <2>7 DEF Queued
  <2>9. queued' \in 0 .. MaxQueued /\ served' \in 0 .. queued'
    BY <2>1, <2>2, <2>4, <2>5, <2>6, <2>7, GuiAssumption DEF MaxQueued
  <2>10. TypeOK'
    BY <2>1, <2>4, <2>9 DEF IInv, TypeOK, window, counts
  <2>11. (BusyIsTrue /\ Posts /\ Quiet /\ Stops)'
    BY <2>1 DEF IInv, BusyIsTrue, Posts, Quiet, Stops, StopHitsItsTask, window, counts
  <2> QED  BY <2>8, <2>10, <2>11 DEF IInv
<1>9. CASE QueueEmpty
  <2>1. TypeOK'
    BY <1>9 DEF IInv, TypeOK, QueueEmpty, Running, OnlyPost, Post, window, worker, ops,
       counts, Working, States, Tasks, Reading, Writing, Browsing
  <2>2. (BusyIsTrue /\ Posts /\ Quiet /\ Stops)'
    BY <1>9 DEF IInv, TypeOK, BusyIsTrue, Posts, Quiet, Stops, StopHitsItsTask,
       QueueEmpty, Running, OnlyPost, Post, window, worker, ops, counts, Working,
       States, Tasks, Reading, Writing, Browsing
  <2>3. Queued'
    BY <1>9, ToComeIs DEF IInv, TypeOK, Queued, Posts, More, Leads, QueueEmpty, Running,
       OnlyPost, Post, window, worker, ops, counts
  <2> QED  BY <2>1, <2>2, <2>3 DEF IInv
<1>10. CASE TaskEnds
  <2>1. TypeOK'
    BY <1>10 DEF IInv, TypeOK, TaskEnds, Running, OnlyPost, Post, window, worker, ops,
       counts, Working, States, Tasks, Reading, Writing, Browsing
  <2>2. (BusyIsTrue /\ Posts /\ Quiet /\ Stops)'
    BY <1>10 DEF IInv, TypeOK, BusyIsTrue, Posts, Quiet, Stops, StopHitsItsTask,
       TaskEnds, Running, OnlyPost, Post, window, worker, ops, counts, Working, States,
       Tasks, Reading, Writing, Browsing
  <2>3. Queued'
    BY <1>10, ToComeIs DEF IInv, TypeOK, Queued, Posts, More, Leads, TaskEnds, Running,
       OnlyPost, Post, window, worker, ops, counts
  <2> QED  BY <2>1, <2>2, <2>3 DEF IInv
<1>11. CASE ThreadEnds
  <2>1. TypeOK'
    BY <1>11 DEF IInv, TypeOK, ThreadEnds, Running, window, worker, ops, counts,
       Working, States, Tasks, Reading, Writing, Browsing
  <2>2. (BusyIsTrue /\ Posts /\ Quiet /\ Stops)'
    BY <1>11 DEF IInv, TypeOK, BusyIsTrue, Posts, Quiet, Stops, StopHitsItsTask,
       ThreadEnds, Running, window, worker, ops, counts, Working, States, Tasks,
       Reading, Writing, Browsing
  <2>3. Queued'
    BY <1>11, ToComeIs DEF IInv, TypeOK, Queued, Posts, More, Leads, ThreadEnds,
       Running, window, worker, ops, counts
  <2> QED  BY <2>1, <2>2, <2>3 DEF IInv
<1> QED  BY <1>1, <1>2, <1>3, <1>4, <1>5, <1>6, <1>7, <1>8, <1>9, <1>10, <1>11 DEF
   Worker

\* What the UI thread does with what is posted.
LEMMA UiThreadStep == IInv /\ UiThread => IInv'
<1> SUFFICES ASSUME IInv, UiThread PROVE IInv'
  OBVIOUS
<1>1. CASE ShowSuccess
  <2>1. TypeOK'
    BY <1>1 DEF IInv, TypeOK, ShowSuccess, OnExec, TakeState, ToolsFor, window, worker,
       ops, counts, Working, States, Tasks, Reading, Writing, Browsing
  <2>2. (BusyIsTrue /\ Posts /\ Quiet /\ Stops)'
    BY <1>1 DEF IInv, TypeOK, BusyIsTrue, Posts, Quiet, Stops, StopHitsItsTask,
       ShowSuccess, OnExec, TakeState, ToolsFor, window, worker, ops, counts, Working,
       States, Tasks, Reading, Writing, Browsing
  <2>3. Queued'
    BY <1>1, ToComeIs DEF IInv, TypeOK, Queued, Posts, More, Leads, ShowSuccess, OnExec,
       TakeState, ToolsFor, window, worker, ops, counts
  <2> QED  BY <2>1, <2>2, <2>3 DEF IInv
<1>2. CASE GiveOperation
  <2>1. /\ exec = "poll" /\ exec' = "none" /\ wpc = "poll" /\ op = "none"
        /\ thread = "live" /\ callback # "none"
        /\ tools' \in BOOLEAN
        /\ UNCHANGED <<ui, dialog, exiting, state, errorState, listed, callback, thread,
                       snapshot, stop, queued, stranded, counts>>
    BY <1>2 DEF GiveOperation, OnExec, ToolsFor, IInv, TypeOK, Posts, Queued
  <2>2. queue \in Seq(Ops) /\ Len(queue) \in Nat /\ ToCome(queue) \in Nat
    BY ToComeIs DEF IInv, TypeOK
  <2>3. \/ wpc' = "empty" /\ UNCHANGED <<op, queue, served>>
        \/ /\ wpc' = "op" /\ op' \in Ops /\ queue' \in Seq(Ops)
           /\ Len(queue') = Len(queue) - 1 /\ served' = served + 1 /\ Len(queue) > 0
           /\ ToCome(queue) = ToCome(queue') + More(op')
    <3>1. CASE queue = <<>>
      BY <1>2, <3>1 DEF GiveOperation
    <3>2. CASE queue # <<>>
      <4>1. /\ Head(queue) \in Ops /\ Tail(queue) \in Seq(Ops) /\ Len(queue) > 0
            /\ Len(Tail(queue)) = Len(queue) - 1
        BY <2>2, <3>2
      <4>2. ToCome(queue) = ToCome(Tail(queue)) + More(Head(queue))
        BY <2>2, <3>2, ToComeIs
      <4>3. /\ wpc' = "op" /\ op' = Head(queue) /\ queue' = Tail(queue)
            /\ served' = served + 1
        BY <1>2, <3>2 DEF GiveOperation
      <4> QED  BY <4>1, <4>2, <4>3
    <3> QED  BY <3>1, <3>2
  <2>4. /\ ToCome(queue') \in Nat /\ More(op') \in Nat /\ More(op) = 0 /\ "none" \notin Ops
    BY <2>1, <2>2, <2>3, ToComeIs DEF More, Leads, Ops
  <2>5. Queued'
    BY SMTT(30), <2>1, <2>2, <2>3, <2>4 DEF IInv, TypeOK, Queued, counts
  <2>6. served' \in 0 .. queued'
    BY <2>1, <2>2, <2>3 DEF IInv, TypeOK, Queued
  <2>7. TypeOK'
    BY <2>1, <2>2, <2>3, <2>6 DEF IInv, TypeOK, counts
  <2>8. (BusyIsTrue /\ Posts /\ Quiet /\ Stops)'
    BY <2>1, <2>3 DEF IInv, BusyIsTrue, Posts, Quiet, Stops, StopHitsItsTask, counts
  <2> QED  BY <2>5, <2>7, <2>8 DEF IInv
<1>3. CASE FollowUp
  <2>1. /\ exec = "followup" /\ exec' = "none" /\ wpc = "op" /\ wpc' = "poll" /\ op' = "none"
        /\ thread = "live" /\ callback # "none"
        /\ UNCHANGED <<ui, dialog, exiting, state, errorState, tools, callback, thread,
                       snapshot, stop, counts>>
    BY <1>3 DEF FollowUp, OnExec, IInv, Posts
  <2>2. /\ queue \in Seq(Ops) /\ Len(queue) \in Nat /\ ToCome(queue) \in Nat /\ queued \in Nat
        /\ served \in 0 .. queued /\ asked \in 0 .. MaxOps /\ stranded \in BOOLEAN
    BY ToComeIs DEF IInv, TypeOK
  <2>3. /\ More("open") = 2 /\ More("list") = 1 /\ More("metadata") = 0 /\ More("none") = 0
        /\ "list" \in Ops /\ "metadata" \in Ops
    BY DEF More, Leads, Ops
  <2>4. \/ \E o \in {"list", "metadata"} : Push(o) /\ More(op) = More(o) + 1
        \/ UNCHANGED ops /\ More(op) = 0
    BY <1>3, <2>3 DEF FollowUp
  <2>5. /\ queue' \in Seq(Ops) /\ ToCome(queue') \in Nat /\ Len(queue') \in Nat
        /\ queued' \in Nat /\ served' = served
        /\ queued' + ToCome(queue') <= queued + ToCome(queue) + More(op)
        /\ served + Len(queue') <= queued' /\ stranded' \in BOOLEAN
    <3>1. CASE \E o \in {"list", "metadata"} : Push(o) /\ More(op) = More(o) + 1
      <4>1. PICK o \in {"list", "metadata"} : Push(o) /\ More(op) = More(o) + 1
        BY <3>1
      <4>2. /\ queue' = Append(queue, o) /\ queued' = queued + 1 /\ served' = served
            /\ stranded' \in BOOLEAN
        BY <2>2, <4>1 DEF Push, Late
      <4>3. queue' \in Seq(Ops) /\ Len(queue') = Len(queue) + 1
        BY <2>2, <2>3, <4>2
      <4>4. ToCome(queue') = ToCome(queue) + More(o) /\ More(o) \in Nat
        BY <2>2, <2>3, <4>2, ToComeIs DEF More
      <4>5. served + Len(queue) <= queued
        BY DEF IInv, Queued
      <4> QED  BY <2>2, <4>1, <4>2, <4>3, <4>4, <4>5
    <3>2. CASE UNCHANGED ops /\ More(op) = 0
      BY <2>2, <3>2 DEF ops, IInv, Queued
    <3> QED  BY <2>4, <3>1, <3>2
  <2>6. Queued'
    <3>1. queued + ToCome(queue) + More(op) <= 3 * asked /\ More(op) \in Nat
      BY DEF IInv, Queued, More
    <3>2. queued' + ToCome(queue') + More(op') <= 3 * asked'
      BY <2>1, <2>2, <2>3, <2>5, <3>1 DEF counts
    <3> QED  BY <2>1, <2>5, <3>2 DEF Queued
  <2>7. listed' \in BOOLEAN
    BY <1>3 DEF FollowUp, IInv, TypeOK
  <2>8. queued' \in 0 .. MaxQueued /\ served' \in 0 .. queued'
    BY <2>1, <2>2, <2>3, <2>5, <2>6, GuiAssumption DEF Queued, MaxQueued, counts
  <2>9. TypeOK'
    BY <2>1, <2>5, <2>7, <2>8 DEF IInv, TypeOK, counts
  <2>10. (BusyIsTrue /\ Posts /\ Quiet /\ Stops)'
    BY <2>1 DEF IInv, BusyIsTrue, Posts, Quiet, Stops, StopHitsItsTask, counts
  <2> QED  BY <2>6, <2>9, <2>10 DEF IInv
<1>4. CASE ShowIdle
  <2>1. TypeOK'
    BY <1>4 DEF IInv, TypeOK, ShowIdle, OnExec, TakeState, ToolsFor, window, worker,
       ops, counts, Working, States, Tasks, Reading, Writing, Browsing
  <2>2. (BusyIsTrue /\ Posts /\ Quiet /\ Stops)'
    BY <1>4 DEF IInv, TypeOK, BusyIsTrue, Posts, Quiet, Stops, StopHitsItsTask,
       ShowIdle, OnExec, TakeState, ToolsFor, window, worker, ops, counts, Working,
       States, Tasks, Reading, Writing, Browsing
  <2>3. Queued'
    BY <1>4, ToComeIs DEF IInv, TypeOK, Queued, Posts, More, Leads, ShowIdle, OnExec,
       TakeState, ToolsFor, window, worker, ops, counts
  <2> QED  BY <2>1, <2>2, <2>3 DEF IInv
<1>5. CASE ShowStopped
  <2>0. stranded' \in BOOLEAN /\ tools' \in BOOLEAN
    BY <1>5 DEF IInv, TypeOK, Queued, ShowStopped, OnExec, TakeState, ToolsFor, window,
       worker, ops, counts
  <2>1. TypeOK'
    BY <2>0, <1>5 DEF IInv, TypeOK, ShowStopped, OnExec, TakeState, ToolsFor, window,
       worker, ops, counts, Working, States, Tasks, Reading, Writing, Browsing
  <2>2. (BusyIsTrue /\ Posts /\ Quiet /\ Stops)'
    BY <1>5 DEF IInv, TypeOK, BusyIsTrue, Posts, Quiet, Stops, StopHitsItsTask,
       ShowStopped, OnExec, TakeState, ToolsFor, window, worker, ops, counts, Working,
       States, Tasks, Reading, Writing, Browsing
  <2>3. Queued'
    BY <2>0, <1>5, ToComeIs DEF IInv, TypeOK, Queued, Posts, More, Leads, ShowStopped,
       OnExec, TakeState, ToolsFor, window, worker, ops, counts
  <2> QED  BY <2>1, <2>2, <2>3 DEF IInv
<1>6. CASE ShowError
  <2>1. TypeOK'
    BY <1>6 DEF IInv, TypeOK, ShowError, window, worker, ops, counts, Working, States,
       Tasks, Reading, Writing, Browsing
  <2>2. (BusyIsTrue /\ Posts /\ Quiet /\ Stops)'
    BY <1>6 DEF IInv, TypeOK, BusyIsTrue, Posts, Quiet, Stops, StopHitsItsTask,
       ShowError, window, worker, ops, counts, Working, States, Tasks, Reading, Writing,
       Browsing
  <2>3. Queued'
    BY <1>6, ToComeIs DEF IInv, TypeOK, Queued, Posts, More, Leads, ShowError, window,
       worker, ops, counts
  <2> QED  BY <2>1, <2>2, <2>3 DEF IInv
<1>7. CASE ErrorClosed
  <2>a. /\ Len(queue) \in Nat /\ queued \in Nat /\ served \in 0 .. queued
        /\ served + Len(queue) <= queued
    BY DEF IInv, TypeOK, Queued
  <2>b. /\ queue' = <<>> /\ served' = served + Len(queue) /\ queued' = queued
        /\ UNCHANGED <<exiting, listed, stop, pressed, careful, stranded, snapshot>>
    BY <1>7 DEF ErrorClosed, TakeState, counts
  <2>c. queue' \in Seq(Ops) /\ Len(queue') = 0
    BY <2>b
  <2>d. tools' \in BOOLEAN
    BY <1>7 DEF ErrorClosed, TakeState, ToolsFor, IInv, TypeOK
  <2>0. /\ tools' \in BOOLEAN /\ served' \in 0 .. queued' /\ served' <= queued'
        /\ queue' \in Seq(Ops) /\ queue' = <<>> /\ Len(queue') = 0
    BY <2>a, <2>b, <2>c, <2>d
  <2>1. TypeOK'
    BY <2>0, <1>7 DEF IInv, TypeOK, ErrorClosed, OnExec, TakeState, ToolsFor, window,
       worker, ops, counts, Working, States, Tasks, Reading, Writing, Browsing
  <2>2. (BusyIsTrue /\ Posts /\ Quiet /\ Stops)'
    BY <1>7 DEF IInv, TypeOK, BusyIsTrue, Posts, Quiet, Stops, StopHitsItsTask,
       ErrorClosed, OnExec, TakeState, ToolsFor, window, worker, ops, counts, Working,
       States, Tasks, Reading, Writing, Browsing
  <2>3. Queued'
    BY <2>0, <1>7, ToComeIs DEF IInv, TypeOK, Queued, Posts, More, Leads, ErrorClosed,
       OnExec, TakeState, ToolsFor, window, worker, ops, counts
  <2> QED  BY <2>1, <2>2, <2>3 DEF IInv
<1>8. CASE ClearCallback
  <2>0. tools' \in BOOLEAN /\ queue' = queue
    BY <1>8 DEF IInv, TypeOK, Queued, ClearCallback, OnExec, ToolsFor, window, worker,
       ops, counts
  <2>1. TypeOK'
    BY <2>0, <1>8 DEF IInv, TypeOK, ClearCallback, OnExec, ToolsFor, window, worker,
       ops, counts, Working, States, Tasks, Reading, Writing, Browsing
  <2>2. (BusyIsTrue /\ Posts /\ Quiet /\ Stops)'
    BY <1>8 DEF IInv, TypeOK, BusyIsTrue, Posts, Quiet, Stops, StopHitsItsTask,
       ClearCallback, OnExec, ToolsFor, window, worker, ops, counts, Working, States,
       Tasks, Reading, Writing, Browsing
  <2>3. Queued'
    BY <2>0, <1>8, ToComeIs DEF IInv, TypeOK, Queued, Posts, More, Leads, ClearCallback,
       OnExec, ToolsFor, window, worker, ops, counts
  <2> QED  BY <2>1, <2>2, <2>3 DEF IInv
<1>9. CASE ThreadJoined
  <2>0. /\ wpc' \in {"poll", "body"} /\ UNCHANGED <<queue, snapshot>>
        /\ stop' \in BOOLEAN /\ pressed' \in BOOLEAN /\ stranded' \in BOOLEAN /\ exiting' \in BOOLEAN /\ tools' \in BOOLEAN /\ listed' \in BOOLEAN /\ careful' \in BOOLEAN
    BY <1>9 DEF IInv, TypeOK, Queued, ThreadJoined, window, worker, ops, counts
  <2>1. TypeOK'
    BY <2>0, <1>9 DEF IInv, TypeOK, ThreadJoined, window, worker, ops, counts, Working,
       States, Tasks, Reading, Writing, Browsing
  <2>2. (BusyIsTrue /\ Posts /\ Quiet /\ Stops)'
    BY <1>9 DEF IInv, TypeOK, BusyIsTrue, Posts, Quiet, Stops, StopHitsItsTask,
       ThreadJoined, window, worker, ops, counts, Working, States, Tasks, Reading,
       Writing, Browsing
  <2>3. Queued'
    BY <2>0, <1>9, ToComeIs DEF IInv, TypeOK, Queued, Posts, More, Leads, ThreadJoined,
       window, worker, ops, counts
  <2> QED  BY <2>1, <2>2, <2>3 DEF IInv
<1> QED  BY <1>1, <1>2, <1>3, <1>4, <1>5, <1>6, <1>7, <1>8, <1>9 DEF UiThread

LEMMA StepIInv == IInv /\ [Next]_vars => IInv'
<1> SUFFICES ASSUME IInv, [Next]_vars PROVE IInv'
  OBVIOUS
<1>1. CASE ExitTimer
  <2>1. /\ ui' \in {"loop", "gone"} /\ exiting' \in BOOLEAN /\ stop' \in BOOLEAN
        /\ pressed' \in BOOLEAN
        /\ UNCHANGED <<dialog, state, errorState, tools, listed, callback, worker, exec, ops,
                       tasks, asked, careful>>
    BY <1>1 DEF ExitTimer, Exit, IInv, TypeOK
  <2>2. TypeOK'
    BY <2>1 DEF IInv, TypeOK, worker, ops
  <2>3. (BusyIsTrue /\ Posts /\ Quiet /\ Stops)'
    <3>1. /\ ui' = "joining" => ui = "joining"
          /\ \/ pressed' = TRUE
             \/ UNCHANGED <<stop, pressed>>
      BY <1>1 DEF ExitTimer, Exit
    <3> QED  BY <2>1, <3>1 DEF IInv, BusyIsTrue, Posts, Quiet, Stops, StopHitsItsTask, worker
  <2>4. Queued'
    BY <2>1 DEF IInv, Queued, worker, ops
  <2> QED  BY <2>2, <2>3, <2>4 DEF IInv
<1>2. CASE UNCHANGED vars
  <2>1. (TypeOK /\ BusyIsTrue /\ Posts /\ Quiet /\ Stops)'
    BY <1>2 DEF IInv, TypeOK, BusyIsTrue, Posts, Quiet, Stops, StopHitsItsTask, vars, window,
                worker, ops, counts
  <2>2. Queued'
    BY <1>2 DEF IInv, Queued, vars, worker, ops, counts
  <2> QED  BY <2>1, <2>2 DEF IInv
<1> QED  BY <1>1, <1>2, UserStep, WorkerStep, UiThreadStep DEF Next, Standing

-----------------------------------------------------------------------------
(* Theorems.                                                                 *)

\* The invariant holds whatever the user does and however the two threads run.
THEOREM Invariance == Spec => []IInv
<1> QED  BY InitIInv, StepIInv, PTL DEF Spec

\* WindowTrue: while the window shows that work is being done a task runs, which
\* every way to end a task sees to, and an operation the user asks for leads to
\* no more than two others.
THEOREM WindowCorrect == Spec => []WindowTrue
<1>1. IInv => WindowTrue
  BY DEF IInv, WindowTrue
<1> QED  BY <1>1, Invariance, PTL

\* StopHitsItsTask: only a task the user asked to stop is stopped.
THEOREM StopCorrect == Spec => []StopHitsItsTask
<1>1. IInv => StopHitsItsTask
  BY DEF IInv, Stops
<1> QED  BY <1>1, Invariance, PTL
=============================================================================
