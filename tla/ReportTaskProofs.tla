--------------------------- MODULE ReportTaskProofs ---------------------------
(***************************************************************************)
(* Theorems about ReportTask for any number of report tasks and C tasks:   *)
(* the C task the event loop runs belongs to a report task that exists,    *)
(* although nothing is locked.                                             *)
(***************************************************************************)
EXTENDS ReportTask, TLAPS

-----------------------------------------------------------------------------
(* The inductive invariant.                                                *)

AppPlaces == {"idle", "create", "created", "cleanUp", "cleaned"}
CallbackPlaces == {"cancel", "stopped", "invoke", "handler", "cleanUp"}
LoopPlaces == {"idle", "report"} \cup CallbackPlaces
PcType ==
    /\ pc \in [Threads -> AppPlaces \cup LoopPlaces]
    /\ pc[App] \in AppPlaces /\ pc[Loop] \in LoopPlaces

Types ==
    /\ loopCancels \in BOOLEAN /\ handlerCalls \in BOOLEAN
    /\ alive \in BOOLEAN /\ destroying \in BOOLEAN /\ metrics \in BOOLEAN
    /\ handled \in BOOLEAN /\ onTaskCancelled \in BOOLEAN /\ options \in BOOLEAN
    /\ status \in {"Ready", "Running", "Stopped"}
    /\ owningTask \in Tasks \cup {0} /\ current \in Tasks \cup {0}
    /\ PcType
    /\ arg \in [Threads -> Tasks \cup {0}]
    /\ ctask \in [Tasks -> {"none", "live", "cancelling", "cancelled", "freed"}]
    /\ calls \in [Tasks -> Nat]

Unfreed(t) == t \in Tasks /\ ctask[t] \in {"live", "cancelling", "cancelled"}

(* The application's thread: where it is, what the status says and what it *)
(* may still do with the task it owns.                                     *)
AppInv ==
    /\ ~alive => pc[App] = "idle" /\ ~destroying /\ status # "Running"
    /\ pc[App] = "create" => status # "Running" /\ ~destroying
    /\ pc[App] = "created" => Unfreed(owningTask) /\ ~destroying
    /\ pc[App] \in {"cleanUp", "cleaned"} => arg[App] = owningTask
    /\ pc[App] = "cleanUp" => Unfreed(owningTask)
    /\ pc[App] = "cleaned" => owningTask \in Tasks /\ ctask[owningTask] = "freed"
    /\ pc[App] = "idle" /\ status = "Running" => Unfreed(owningTask) /\ ~destroying

(* A live task is the owned one, of a report task that says Running or is  *)
(* about to.                                                               *)
LiveInv ==
    \A t \in Tasks : ctask[t] = "live" =>
        alive /\ owningTask = t /\ (status = "Running" \/ pc[App] = "created")

(* The event loop: one task at a time, and until the callback has said     *)
(* Stopped nobody starts another.                                          *)
LoopInv ==
    /\ pc[Loop] \in CallbackPlaces =>
           current \in Tasks /\ ctask[current] = "cancelling"
    /\ \A t \in Tasks : ctask[t] = "cancelling" =>
           t = current /\ pc[Loop] \in CallbackPlaces
    /\ pc[Loop] = "cancel" =>
           alive /\ owningTask = current /\ (status = "Running" \/ pc[App] = "created")
    /\ pc[Loop] = "report" => metrics /\ \E t \in Tasks : ctask[t] = "live"

(* What a handler could stop is live, or is the task being cancelled: its  *)
(* clean_up waits for ever.                                                *)
HandlerInv ==
    /\ pc[Loop] \in CallbackPlaces /\ (status = "Running" \/ pc[App] = "created") =>
           owningTask \in Tasks /\ ctask[owningTask] \in {"live", "cancelling"}
    /\ pc[Loop] = "cleanUp" =>
           loopCancels /\ arg[Loop] \in Tasks /\ ctask[arg[Loop]] \in {"live", "cancelling"}

(* Unless the loop cancels on its own, a task is cancelled under the eyes  *)
(* of the clean_up that asked for it, so a handler's StopTask finds        *)
(* Stopped; and the handler is told of it once.                            *)
AskedInv ==
    /\ \A t \in Tasks : ctask[t] \in {"none", "live"} => calls[t] = 0
    /\ pc[Loop] \in {"cancel", "stopped", "invoke"} => calls[current] = 0
    /\ alive => handled = onTaskCancelled
    /\ ~loopCancels =>
         /\ \A t \in Tasks : ctask[t] \in {"cancelling", "cancelled"} =>
                pc[App] = "cleanUp" /\ arg[App] = t
         /\ pc[Loop] \in {"stopped", "invoke", "handler"} => status = "Stopped"
         /\ pc[Loop] = "invoke" => handled
         /\ pc[Loop] = "handler" => handled /\ calls[current] = 1
         /\ \A t \in Tasks : ctask[t] = "cancelled" => (calls[t] = 1 <=> handled)

TaskInv == Types /\ AppInv /\ LiveInv /\ LoopInv /\ HandlerInv /\ AskedInv

-----------------------------------------------------------------------------
LEMMA TwoThreads ==
    App \in Threads /\ Loop \in Threads /\ App # Loop /\ Threads = {App, Loop} /\ 0 \notin Tasks
BY ReportTaskAssumption DEF Threads, Tasks

LEMMA GotoEffect ==
    ASSUME Types, NEW t \in Threads, NEW l, Goto(t, l)
    PROVE  pc'[t] = l /\ \A u \in Threads : u # t => pc'[u] = pc[u]
BY DEF Types, PcType, AppPlaces, LoopPlaces, CallbackPlaces, Goto

LEMMA GotoType ==
    ASSUME Types, NEW t \in Threads, NEW l, Goto(t, l),
           IF t = App THEN l \in AppPlaces ELSE l \in LoopPlaces
    PROVE  PcType'
BY TwoThreads DEF Types, PcType, AppPlaces, LoopPlaces, CallbackPlaces, Goto

LEMMA InitTask == ASSUME Init PROVE TaskInv
<1>1. Types
  BY TwoThreads DEF Init, Types, PcType, AppPlaces, LoopPlaces, CallbackPlaces
<1>2. AppInv /\ LiveInv /\ LoopInv /\ HandlerInv /\ AskedInv
  BY TwoThreads
  DEF Init, AppInv, LiveInv, LoopInv, HandlerInv, AskedInv, CallbackPlaces, Unfreed
<1> QED
  BY <1>1, <1>2 DEF TaskInv

(* The builder's steps and a new metric: no task is live before a start.   *)
LEMMA BuilderSteps ==
    ASSUME TaskInv, WithTaskCancelledHandler \/ Build \/ RegisterCustomMetric
    PROVE  TaskInv'
<1> USE DEF builderVars, taskVars, clibVars
<1>1. Types'
  BY DEF TaskInv, Types, PcType, WithTaskCancelledHandler, Build, RegisterCustomMetric
<1>2. AppInv'
  BY DEF TaskInv, AppInv, Unfreed, WithTaskCancelledHandler, Build, RegisterCustomMetric
<1>3. LiveInv'
  BY DEF TaskInv, LiveInv, WithTaskCancelledHandler, Build, RegisterCustomMetric
<1>4. LoopInv'
  BY DEF TaskInv, LiveInv, LoopInv, WithTaskCancelledHandler, Build, RegisterCustomMetric
<1>6. HandlerInv'
  BY DEF TaskInv, HandlerInv, WithTaskCancelledHandler, Build, RegisterCustomMetric
<1>5. AskedInv'
  <2>1. CASE WithTaskCancelledHandler \/ RegisterCustomMetric
    BY <2>1 DEF TaskInv, AskedInv, WithTaskCancelledHandler, RegisterCustomMetric
  <2>2. CASE Build
    <3>1. ASSUME ~loopCancels
          PROVE  /\ \A t \in Tasks : ctask[t] \notin {"cancelling", "cancelled"}
                 /\ pc[Loop] \notin {"stopped", "invoke", "handler"}
      BY <2>2, <3>1 DEF Build, TaskInv, AppInv, LoopInv, AskedInv, CallbackPlaces
    <3> QED
      BY <2>2, <3>1 DEF Build, TaskInv, AskedInv
  <2> QED
    BY <2>1, <2>2
<1> QED
  BY <1>1, <1>2, <1>3, <1>4, <1>5, <1>6 DEF TaskInv

LEMMA StartSteps ==
    ASSUME TaskInv, StartTask \/ TaskCreated \/ TaskNotCreated \/ SetRunning
    PROVE  TaskInv'
<1> USE DEF builderVars, taskVars, clibVars
<1>1. /\ pc[App] \in {"idle", "create", "created"} /\ alive
      /\ pc'[App] \in {"idle", "create", "created"} /\ pc'[Loop] = pc[Loop]
      /\ StartTask => pc[App] = "idle" /\ pc'[App] = "create"
      /\ TaskCreated => pc[App] = "create" /\ pc'[App] = "created"
      /\ TaskNotCreated => pc[App] = "create" /\ pc'[App] = "idle"
      /\ SetRunning => pc[App] = "created" /\ pc'[App] = "idle"
  BY TwoThreads, GotoEffect
  DEF StartTask, TaskCreated, TaskNotCreated, SetRunning, MayCall, Home, TaskInv, AppInv
<1>2. Types'
  <2>1. Goto(App, pc'[App])
    BY <1>1 DEF StartTask, TaskCreated, TaskNotCreated, SetRunning
  <2>2. PcType'
    BY <1>1, <2>1, TwoThreads, GotoType DEF TaskInv, AppPlaces
  <2>3. CASE TaskCreated
    BY <2>2, <2>3 DEF TaskCreated, TaskInv, Types
  <2>4. CASE StartTask \/ TaskNotCreated \/ SetRunning
    BY <2>2, <2>4 DEF StartTask, TaskNotCreated, SetRunning, StartFailed, TaskInv, Types
  <2> QED
    BY <2>3, <2>4
<1>3. CASE StartTask
  BY <1>1, <1>2, <1>3
  DEF StartTask, MayCall, Startable, TaskInv, AppInv, LiveInv, LoopInv, HandlerInv, AskedInv,
      Unfreed
<1>4. CASE TaskCreated
  <2>1. PICK t \in Tasks : /\ ctask[t] = "none" /\ ctask' = [ctask EXCEPT ![t] = "live"]
                           /\ owningTask' = t
    BY <1>4 DEF TaskCreated, Created
  <2>2. ctask'[t] = "live" /\ \A u \in Tasks \ {t} : ctask'[u] = ctask[u] /\ ctask[u] # "live"
    BY <1>1, <1>4, <2>1 DEF TaskInv, Types, PcType, AppInv, LiveInv
  <2>3. pc[Loop] \notin {"cancel", "report"}
    BY <1>1, <1>4, <2>1, <2>2 DEF TaskInv, AppInv, LoopInv, CallbackPlaces
  <2>4. AppInv' /\ LiveInv'
    BY <1>1, <1>4, <2>1, <2>2 DEF TaskCreated, TaskInv, AppInv, LiveInv, Unfreed
  <2>5. LoopInv' /\ HandlerInv' /\ AskedInv'
    BY <1>1, <1>4, <2>1, <2>2, <2>3
    DEF TaskCreated, TaskInv, LoopInv, HandlerInv, AskedInv, CallbackPlaces
  <2> QED
    BY <1>2, <2>4, <2>5 DEF TaskInv
<1>5. CASE TaskNotCreated
  BY <1>1, <1>2, <1>5
  DEF TaskNotCreated, StartFailed, TaskInv, AppInv, LiveInv, LoopInv, HandlerInv, AskedInv,
      Unfreed
<1>6. CASE SetRunning
  <2>1. ~loopCancels => pc[Loop] \notin {"stopped", "invoke", "handler"}
    BY <1>1, <1>6 DEF TaskInv, LoopInv, AskedInv, CallbackPlaces
  <2> QED
    BY <1>1, <1>2, <1>6, <2>1
    DEF SetRunning, TaskInv, AppInv, LiveInv, LoopInv, HandlerInv, AskedInv, Unfreed
<1> QED
  BY <1>3, <1>4, <1>5, <1>6

(* clean_up: a handler's StopTask that gets there waits for ever.          *)
LEMMA HandlerStops == ASSUME TaskInv, StopTask(Loop) PROVE TaskInv'
<1> USE DEF builderVars, taskVars, clibVars
<1>1. /\ pc[Loop] = "handler" /\ status = "Running" /\ loopCancels /\ Goto(Loop, "cleanUp")
      /\ pc'[App] = pc[App] /\ pc'[Loop] = "cleanUp"
  BY TwoThreads, GotoEffect
  DEF StopTask, MayCall, Home, BeginCleanUp, TaskInv, AskedInv
<1>2. arg'[Loop] = owningTask /\ arg'[App] = arg[App]
  BY TwoThreads DEF StopTask, BeginCleanUp, TaskInv, Types
<1>3. Types'
  <2>1. PcType'
    BY <1>1, TwoThreads, GotoType DEF TaskInv, LoopPlaces, CallbackPlaces
  <2> QED
    BY <2>1, TwoThreads DEF StopTask, BeginCleanUp, TaskInv, Types
<1>4. AppInv' /\ LiveInv'
  BY <1>1, <1>2 DEF StopTask, TaskInv, AppInv, LiveInv, Unfreed
<1>5. LoopInv' /\ HandlerInv' /\ AskedInv'
  BY <1>1, <1>2 DEF StopTask, TaskInv, LoopInv, HandlerInv, AskedInv, CallbackPlaces
<1> QED
  BY <1>3, <1>4, <1>5 DEF TaskInv

LEMMA StopSteps ==
    ASSUME TaskInv, NEW t \in {App}, StopTask(t) \/ CleanUpReturns(t) \/ SetStopped(t)
    PROVE  TaskInv'
<1> USE DEF builderVars, taskVars, clibVars
<1>1. t = App
  OBVIOUS
<1>2. /\ alive /\ pc'[Loop] = pc[Loop] /\ pc'[App] \in {"idle", "cleanUp", "cleaned"}
      /\ StopTask(t) => pc[App] = "idle" /\ pc'[App] = "cleanUp"
      /\ CleanUpReturns(t) => pc[App] = "cleanUp" /\ pc'[App] = "cleaned"
      /\ SetStopped(t) => pc[App] = "cleaned" /\ pc'[App] = "idle"
  BY <1>1, TwoThreads, GotoEffect
  DEF StopTask, BeginCleanUp, CleanUpReturns, SetStopped, MayCall, Home, TaskInv, AppInv
<1>3. Types'
  <2>1. Goto(App, pc'[App])
    BY <1>1, <1>2 DEF StopTask, BeginCleanUp, CleanUpReturns, SetStopped, Home
  <2>2. PcType'
    BY <1>2, <2>1, TwoThreads, GotoType DEF TaskInv, AppPlaces
  <2>3. CASE StopTask(t)
    BY <1>1, <2>2, <2>3 DEF StopTask, BeginCleanUp, TaskInv, Types
  <2>4. CASE CleanUpReturns(t)
    BY ZenonT(60), <2>2, <2>4 DEF CleanUpReturns, TaskInv, Types
  <2>5. CASE SetStopped(t)
    BY <2>2, <2>5 DEF SetStopped, Stopped, TaskInv, Types
  <2> QED
    BY <2>3, <2>4, <2>5
<1>4. CASE StopTask(t)
  BY <1>1, <1>2, <1>3, <1>4
  DEF StopTask, BeginCleanUp, TaskInv, Types, PcType, AppInv, LiveInv, LoopInv, HandlerInv,
      AskedInv, Unfreed
<1>5. CASE CleanUpReturns(t)
  BY <1>1, <1>2, <1>3, <1>5
  DEF CleanUpReturns, TaskInv, Types, PcType, AppInv, LiveInv, LoopInv, HandlerInv,
      AskedInv, Unfreed
<1>6. CASE SetStopped(t)
  <2>1. /\ pc[App] = "cleaned" /\ status' = "Stopped" /\ owningTask' = 0
        /\ arg'[Loop] = arg[Loop] /\ UNCHANGED clibVars
    BY <1>1, <1>6, TwoThreads DEF SetStopped, Stopped, TaskInv, Types
  <2>2. AppInv' /\ LiveInv'
    BY <1>1, <1>2, <1>6, <2>1 DEF SetStopped, TaskInv, AppInv, LiveInv, Unfreed
  <2>3. LoopInv'
    BY <1>1, <1>2, <1>6, <2>1 DEF SetStopped, TaskInv, AppInv, LiveInv, LoopInv, CallbackPlaces
  <2>4. HandlerInv' /\ AskedInv'
    BY <1>1, <1>2, <1>6, <2>1 DEF SetStopped, TaskInv, HandlerInv, AskedInv
  <2> QED
    BY <1>3, <2>2, <2>3, <2>4 DEF TaskInv
<1> QED
  BY <1>4, <1>5, <1>6

(* The destructor: when its members go, no task is live.                   *)
LEMMA DestroySteps ==
    ASSUME TaskInv, Destroy \/ DestroyEnd PROVE TaskInv'
<1> USE DEF builderVars, taskVars, clibVars
<1>1. CASE Destroy
  <2>1. /\ alive /\ pc[App] = "idle" /\ pc'[Loop] = pc[Loop]
        /\ pc'[App] = IF status = "Running" THEN "cleanUp" ELSE "idle"
        /\ destroying' /\ UNCHANGED <<builderVars, taskVars, clibVars>>
    BY <1>1, TwoThreads, GotoEffect
    DEF Destroy, MustStop, MembersWhileStopping, BeginCleanUp, MayCall, Home, TaskInv
  <2>2. arg'[App] = IF status = "Running" THEN owningTask ELSE arg[App]
    BY <1>1, TwoThreads DEF Destroy, MustStop, BeginCleanUp, TaskInv, Types, PcType
  <2>3. Types'
    <3>1. PcType'
      BY <1>1, TwoThreads, GotoType
      DEF Destroy, MustStop, BeginCleanUp, TaskInv, Types, PcType, AppPlaces
    <3> QED
      BY <1>1, <2>1, <3>1 DEF Destroy, MustStop, BeginCleanUp, TaskInv, Types
  <2>4. AppInv' /\ LiveInv'
    BY <2>1, <2>2 DEF TaskInv, Types, PcType, AppInv, LiveInv, Unfreed
  <2>5. LoopInv' /\ HandlerInv' /\ AskedInv'
    <3>1. arg'[Loop] = arg[Loop]
      BY <1>1, TwoThreads DEF Destroy, MustStop, BeginCleanUp, TaskInv, Types
    <3> QED
      BY <2>1, <2>2, <3>1 DEF TaskInv, Types, PcType, LoopInv, HandlerInv, AskedInv
  <2> QED
    BY <2>3, <2>4, <2>5 DEF TaskInv
<1>2. CASE DestroyEnd
  <2>1. status # "Running" /\ pc[App] = "idle"
    BY <1>2 DEF DestroyEnd, TaskInv, AppInv
  <2>2. pc[Loop] \notin {"report", "cancel"} /\ \A t \in Tasks : ctask[t] # "live"
    BY <2>1 DEF TaskInv, LiveInv, LoopInv
  <2>3. Types'
    BY <1>2 DEF DestroyEnd, TaskInv, Types, PcType
  <2>4. AppInv' /\ LiveInv'
    BY <1>2, <2>1, <2>2 DEF DestroyEnd, TaskInv, AppInv, LiveInv
  <2>5. LoopInv' /\ HandlerInv' /\ AskedInv'
    BY <1>2, <2>1, <2>2 DEF DestroyEnd, TaskInv, LoopInv, HandlerInv, AskedInv
  <2> QED
    BY <2>3, <2>4, <2>5 DEF TaskInv
<1> QED
  BY <1>1, <1>2

(* The event loop.                                                         *)
LEMMA LoopSteps ==
    ASSUME TaskInv, Report \/ LoopStep PROVE TaskInv'
<1> USE DEF builderVars, taskVars, clibVars
<1>1. /\ pc'[App] = pc[App]
      /\ Goto(Loop, pc'[Loop]) /\ pc'[Loop] \in LoopPlaces
      /\ Report => pc[Loop] = "idle" /\ pc'[Loop] = "report"
      /\ ReportDone => pc[Loop] = "report" /\ pc'[Loop] = "idle"
      /\ Cancel => pc[Loop] = "idle" /\ pc'[Loop] = "cancel"
      /\ OnTaskCancelled => pc[Loop] = "cancel" /\ pc'[Loop] = "stopped"
      /\ TestHandler => pc[Loop] = "stopped" /\ pc'[Loop] = "invoke"
      /\ InvokeHandler => pc[Loop] = "invoke" /\ pc'[Loop] = "handler"
      /\ CancelDone => pc[Loop] \in {"stopped", "handler"} /\ pc'[Loop] = "idle"
  BY TwoThreads, GotoEffect
  DEF Report, LoopStep, ReportDone, Cancel, OnTaskCancelled, TestHandler, InvokeHandler,
      CancelDone, TaskInv, LoopPlaces, CallbackPlaces
<1>2. PcType'
  BY <1>1, TwoThreads, GotoType DEF TaskInv
<1>3. CASE Report \/ ReportDone
  <2>1. Types'
    BY <1>2, <1>3 DEF Report, ReportDone, TaskInv, Types
  <2>2. AppInv' /\ LiveInv'
    BY <1>1, <1>3 DEF Report, ReportDone, TaskInv, AppInv, LiveInv, Unfreed
  <2>3. LoopInv' /\ HandlerInv' /\ AskedInv'
    BY <1>1, <1>3 DEF Report, ReportDone, TaskInv, LoopInv, HandlerInv, AskedInv, CallbackPlaces
  <2> QED
    BY <2>1, <2>2, <2>3 DEF TaskInv
<1>4. CASE Cancel
  <2>1. PICK t \in Tasks : /\ ctask[t] = "live" /\ current' = t
                           /\ loopCancels \/ (pc[App] = "cleanUp" /\ arg[App] = t)
                           /\ ctask' = [ctask EXCEPT ![t] = "cancelling"]
    BY <1>4 DEF Cancel
  <2>2. ctask'[t] = "cancelling" /\ \A u \in Tasks \ {t} : ctask'[u] = ctask[u]
    BY <2>1 DEF TaskInv, Types
  <2>3. \A u \in Tasks : ctask[u] # "cancelling"
    BY <1>1, <1>4 DEF TaskInv, LoopInv, CallbackPlaces
  <2>4. alive /\ owningTask = t /\ (status = "Running" \/ pc[App] = "created")
    BY <2>1 DEF TaskInv, LiveInv
  <2>5. \A u \in Tasks : ctask'[u] # "live"
    BY <2>2, <2>4 DEF TaskInv, LiveInv
  <2>6. Types'
    BY <1>2, <1>4, <2>1 DEF Cancel, TaskInv, Types
  <2>7. AppInv' /\ LiveInv'
    BY <1>1, <1>4, <2>2, <2>4, <2>5 DEF Cancel, TaskInv, AppInv, LiveInv, Unfreed
  <2>8. LoopInv' /\ HandlerInv'
    BY <1>1, <1>4, <2>1, <2>2, <2>3, <2>4
    DEF Cancel, TaskInv, LoopInv, HandlerInv, CallbackPlaces
  <2>9. AskedInv'
    BY ZenonT(60), <1>1, <1>4, <2>1, <2>2, <2>3 DEF Cancel, TaskInv, AskedInv
  <2> QED
    BY <2>6, <2>7, <2>8, <2>9 DEF TaskInv
<1>5. CASE OnTaskCancelled
  <2>1. \A t \in Tasks : ctask[t] # "live"
    BY <1>1, <1>5 DEF TaskInv, LiveInv, LoopInv, CallbackPlaces
  <2>2. Types'
    BY <1>2, <1>5 DEF OnTaskCancelled, CancelledStatus, TaskInv, Types
  <2>3. AppInv' /\ LiveInv'
    BY <1>1, <1>5, <2>1
    DEF OnTaskCancelled, CancelledStatus, TaskInv, AppInv, LiveInv, LoopInv, Unfreed
  <2>4. LoopInv' /\ HandlerInv' /\ AskedInv'
    BY <1>1, <1>5
    DEF OnTaskCancelled, CancelledStatus, TaskInv, LoopInv, HandlerInv, AskedInv, CallbackPlaces
  <2> QED
    BY <2>2, <2>3, <2>4 DEF TaskInv
<1>6. CASE TestHandler
  <2>1. Types'
    BY <1>2, <1>6 DEF TestHandler, TaskInv, Types
  <2>2. AppInv' /\ LiveInv' /\ LoopInv' /\ HandlerInv'
    BY <1>1, <1>6
    DEF TestHandler, TaskInv, AppInv, LiveInv, LoopInv, HandlerInv, Unfreed, CallbackPlaces
  <2>3. ~loopCancels => alive /\ handled
    BY <1>1, <1>6 DEF TestHandler, TaskInv, AppInv, LoopInv, AskedInv, CallbackPlaces
  <2>4. AskedInv'
    BY <1>1, <1>6, <2>3 DEF TestHandler, TaskInv, AskedInv
  <2> QED
    BY <2>1, <2>2, <2>4 DEF TaskInv
<1>8. CASE InvokeHandler
  <2>1. /\ current \in Tasks /\ ctask[current] = "cancelling" /\ calls[current] = 0
        /\ calls'[current] = IF onTaskCancelled THEN 1 ELSE 0
        /\ \A t \in Tasks \ {current} : calls'[t] = calls[t]
        /\ calls' \in [Tasks -> Nat]
    BY <1>1, <1>8 DEF InvokeHandler, TaskInv, Types, LoopInv, AskedInv, CallbackPlaces
  <2>2. Types'
    BY <1>2, <1>8, <2>1 DEF InvokeHandler, TaskInv, Types
  <2>3. AppInv' /\ LiveInv' /\ LoopInv' /\ HandlerInv'
    BY <1>1, <1>8
    DEF InvokeHandler, TaskInv, AppInv, LiveInv, LoopInv, HandlerInv, Unfreed, CallbackPlaces
  <2>4. ~loopCancels => alive /\ handled /\ onTaskCancelled
    BY <1>1, <1>8, <2>1 DEF TaskInv, Types, AppInv, AskedInv
  <2>5. AskedInv'
    BY <1>1, <1>8, <2>1, <2>4 DEF InvokeHandler, TaskInv, AskedInv
  <2> QED
    BY <2>2, <2>3, <2>5 DEF TaskInv
<1>7. CASE CancelDone
  <2>1. /\ current \in Tasks /\ ctask[current] = "cancelling" /\ ctask'[current] = "cancelled"
        /\ \A t \in Tasks \ {current} : ctask'[t] = ctask[t] /\ ctask[t] # "cancelling"
    BY <1>1, <1>7 DEF CancelDone, TaskInv, Types, LoopInv, CallbackPlaces
  <2>2. Types'
    BY <1>2, <1>7, <2>1 DEF CancelDone, TaskInv, Types
  <2>3. AppInv' /\ LiveInv' /\ LoopInv' /\ HandlerInv'
    BY <1>1, <1>7, <2>1
    DEF CancelDone, TaskInv, AppInv, LiveInv, LoopInv, HandlerInv, Unfreed, CallbackPlaces
  <2>4. ~loopCancels => (calls[current] = 1 <=> handled)
    <3>1. ~loopCancels => alive
      BY <2>1 DEF TaskInv, AppInv, AskedInv
    <3> QED
      BY <1>1, <1>7, <2>1, <3>1 DEF CancelDone, TaskInv, AskedInv
  <2>5. AskedInv'
    BY <1>1, <1>7, <2>1, <2>4 DEF CancelDone, TaskInv, AskedInv
  <2> QED
    BY <2>2, <2>3, <2>5 DEF TaskInv
<1> QED
  BY <1>3, <1>4, <1>5, <1>6, <1>7, <1>8 DEF LoopStep

LEMMA NextTask == ASSUME TaskInv, [Next]_vars PROVE TaskInv'
<1>1. CASE WithTaskCancelledHandler \/ Build \/ RegisterCustomMetric
  BY <1>1, BuilderSteps
<1>2. CASE StartTask \/ TaskCreated \/ TaskNotCreated \/ SetRunning
  BY <1>2, StartSteps
<1>3. CASE StopTask(App) \/ CleanUpReturns(App) \/ SetStopped(App)
  BY <1>3, StopSteps
<1>7. CASE StopTask(Loop)
  BY <1>7, HandlerStops
<1>4. CASE Destroy \/ DestroyEnd
  BY <1>4, DestroySteps
<1>5. CASE Report \/ LoopStep
  BY <1>5, LoopSteps
<1>6. CASE UNCHANGED vars
  BY <1>6
  DEF vars, builderVars, taskVars, clibVars, TaskInv, Types, PcType, AppInv, LiveInv,
      LoopInv, HandlerInv, AskedInv, Unfreed
<1> QED
  BY <1>1, <1>2, <1>3, <1>4, <1>5, <1>6, <1>7, TwoThreads DEF Next, AppStep

LEMMA TaskInvariant == Spec => []TaskInv
<1>1. Init => TaskInv
  BY InitTask
<1>2. TaskInv /\ [Next]_vars => TaskInv'
  BY NextTask
<1> QED
  BY <1>1, <1>2, PTL DEF Spec

-----------------------------------------------------------------------------
(* A C task that may report or call back belongs to a report task that     *)
(* exists; nobody cleans up a task twice (StartTask, StopTask,             *)
(* ~ReportTask, GetMetricFunction).                                        *)
THEOREM LiveTasksOwned == Spec => []LiveTaskOwned
<1>1. TaskInv => LiveTaskOwned
  BY TwoThreads
  DEF TaskInv, Types, PcType, LoopPlaces, AppInv, LiveInv, LoopInv, HandlerInv, Unfreed,
      LiveTaskOwned
<1> QED
  BY <1>1, TaskInvariant, PTL

(* Without a loop that cancels on its own the callback has returned before *)
(* the destructor frees what it uses, and no C task outlives its report    *)
(* task (~ReportTask, s_onDefenderV1TaskCancelled).                        *)
THEOREM CallbacksWhileAlive == Spec => []CallbackWhileAlive
<1>1. TaskInv => CallbackWhileAlive
  <2> SUFFICES ASSUME TaskInv, ~loopCancels
               PROVE  /\ pc[Loop] # "idle" => alive
                      /\ pc[Loop] = "invoke" => onTaskCancelled
                      /\ ~alive => \A t \in Created : ctask[t] = "freed"
    BY DEF CallbackWhileAlive
  <2>1. pc[Loop] # "idle" => alive
    BY DEF TaskInv, Types, PcType, LoopPlaces, AppInv, LiveInv, LoopInv, AskedInv
  <2>3. pc[Loop] = "invoke" => onTaskCancelled
    BY <2>1 DEF TaskInv, AskedInv
  <2>2. ASSUME ~alive, NEW t \in Created PROVE ctask[t] = "freed"
    BY <2>2 DEF Created, TaskInv, Types, AppInv, LiveInv, AskedInv
  <2> QED
    BY <2>1, <2>2, <2>3
<1> QED
  BY <1>1, TaskInvariant, PTL

(* Running means that the loop has a task to run, unless the loop          *)
(* cancelled it on its own (GetStatus, StartTask).                         *)
THEOREM RunningIsLiveTask == Spec => []RunningIsLive
<1>1. TaskInv => RunningIsLive
  <2> SUFFICES ASSUME TaskInv, alive, ~destroying, \A t \in Threads : pc[t] = "idle"
               PROVE  /\ status = "Running" =>
                           \/ \E t \in Tasks : ctask[t] = "live"
                           \/ loopCancels /\ ctask[owningTask] = "cancelled"
                      /\ status # "Running" => \A t \in Tasks : ctask[t] # "live"
    BY DEF RunningIsLive
  <2>1. pc[App] = "idle" /\ pc[Loop] = "idle"
    BY TwoThreads
  <2>2. ASSUME status = "Running"
        PROVE  \/ \E t \in Tasks : ctask[t] = "live"
               \/ loopCancels /\ ctask[owningTask] = "cancelled"
    BY <2>1, <2>2 DEF TaskInv, AppInv, LoopInv, AskedInv, CallbackPlaces, Unfreed
  <2>3. ASSUME status # "Running", NEW t \in Tasks PROVE ctask[t] # "live"
    BY <2>1, <2>3 DEF TaskInv, LiveInv
  <2> QED
    BY <2>2, <2>3
<1> QED
  BY <1>1, TaskInvariant, PTL

(* Without a loop that cancels on its own a task is freed after its        *)
(* handler was told exactly once, or there is none.                        *)
THEOREM HandlerToldOnce == Spec => HandlerTold
<1>1. ASSUME TaskInv, [Next]_vars,
             NEW t \in Tasks, ctask[t] # "freed", ctask'[t] = "freed", ~loopCancels
      PROVE  calls[t] = 1 <=> handled
  <2>1. ctask[t] = "cancelled"
    BY <1>1
    DEF Next, vars, builderVars, taskVars, clibVars, AppStep, LoopStep, TaskInv, Types,
        WithTaskCancelledHandler, Build, RegisterCustomMetric, StartTask, TaskCreated,
        TaskNotCreated, SetRunning, StopTask, CleanUpReturns, SetStopped, Destroy, DestroyEnd,
        Report, ReportDone, Cancel, OnTaskCancelled, TestHandler, InvokeHandler, CancelDone
  <2> QED
    BY <1>1, <2>1 DEF TaskInv, AskedInv
<1>2. TaskInv /\ [Next]_vars =>
        [\A t \in Tasks : ctask[t] # "freed" /\ ctask'[t] = "freed" /\ ~loopCancels
                          => (calls[t] = 1 <=> handled)]_vars
  BY <1>1
<1> QED
  BY <1>2, TaskInvariant, PTL DEF Spec, HandlerTold
=============================================================================
