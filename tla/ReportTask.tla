------------------------------ MODULE ReportTask -----------------------------
(***************************************************************************)
(* ReportTask and ReportTaskBuilder of devicedefender's DeviceDefender.cpp: *)
(* the application's thread builds, starts, stops and destroys a report    *)
(* task, the event loop runs the C task it owns, makes its reports and     *)
(* calls back when that is cancelled.  Nothing is locked: m_status,        *)
(* m_owningTask and OnTaskCancelled are plain members both threads use.    *)
(*                                                                         *)
(* The C task (aws_iotdevice_defender_task) is external: it is live once   *)
(* created, cancelled on its loop, and aws_iotdevice_defender_task_clean_up *)
(* blocks until it is cancelled and frees it.  A loop that shuts down      *)
(* cancels its tasks without being asked.                                  *)
(***************************************************************************)
EXTENDS Integers, FiniteSets

CONSTANTS
    App, Loop,      \* the application's thread and the event loop's
    MaxTasks,       \* bound on the C tasks created
    MaxBuilds       \* bound on the report tasks built, one after another

ASSUME ReportTaskAssumption ==
    /\ App # Loop
    /\ MaxTasks \in Nat /\ MaxBuilds \in Nat

Tasks == 1 .. MaxTasks
Threads == {App, Loop}

VARIABLES
    loopCancels,    \* the loop may cancel a task nobody stopped
    handlerCalls,   \* the OnTaskCancelled handler may call StopTask
    options,        \* the builder: m_onCancelled is set
    builds,         \* number of report tasks built
    alive,          \* the report task exists
    status,         \* m_status
    config,         \* m_taskConfig # nullptr
    owningTask,     \* m_owningTask, 0 when null
    lastError,      \* m_lastError # 0
    onTaskCancelled,\* OnTaskCancelled is set
    metrics,        \* a custom metric is registered
    pc,             \* where each thread is
    arg,            \* the C task a thread gave to clean_up
    destroying,     \* ~ReportTask runs
    ctask,          \* C library: state of each task
    current,        \* C library: the task being cancelled on the loop
    calls,          \* history: handler calls for each task
    handled         \* history: the report task was built with a handler

builderVars == <<loopCancels, handlerCalls, options, builds, handled>>
taskVars == <<alive, status, config, owningTask, lastError, onTaskCancelled, metrics>>
clibVars == <<ctask, current, calls>>
vars == <<builderVars, taskVars, pc, arg, destroying, clibVars>>

-----------------------------------------------------------------------------
Goto(t, place) == pc' = [pc EXCEPT ![t] = place]

(* The handler's calls come back to the handler, the application's return. *)
Home(t) == IF t = App THEN "idle" ELSE "handler"

MayCall(t) ==
    /\ alive
    /\ pc[t] = Home(t)
    /\ IF t = App THEN ~destroying ELSE handlerCalls

Created == {t \in Tasks : ctask[t] # "none"}

(* A builder with no options, nothing built.                               *)
Init ==
    /\ loopCancels \in BOOLEAN /\ handlerCalls \in BOOLEAN
    /\ options = FALSE /\ builds = 0
    /\ alive = FALSE /\ status = "Ready" /\ config = FALSE /\ owningTask = 0
    /\ lastError = FALSE /\ onTaskCancelled = FALSE /\ metrics = FALSE
    /\ pc = [t \in Threads |-> "idle"]
    /\ arg = [t \in Threads |-> 0]
    /\ destroying = FALSE
    /\ ctask = [t \in Tasks |-> "none"]
    /\ current = 0
    /\ calls = [t \in Tasks |-> 0]
    /\ handled = FALSE

-----------------------------------------------------------------------------
(* ReportTaskBuilder                                                       *)
WithTaskCancelledHandler ==
    /\ pc[App] = "idle" /\ ~alive
    /\ options' = TRUE
    /\ UNCHANGED <<loopCancels, handlerCalls, builds, handled, taskVars, pc, arg, destroying, clibVars>>

(* Build moves the handler out of the builder into the task it makes; the  *)
(* constructor records a failure to create the C configuration.            *)
Build ==
    /\ pc[App] = "idle" /\ ~alive /\ builds < MaxBuilds
    /\ builds' = builds + 1
    /\ alive' = TRUE
    /\ status' = "Ready" /\ owningTask' = 0 /\ metrics' = FALSE
    /\ config' \in BOOLEAN
    /\ lastError' = ~config'
    /\ onTaskCancelled' = options /\ handled' = options
    /\ options' = FALSE
    /\ UNCHANGED <<loopCancels, handlerCalls, pc, arg, destroying, clibVars>>

(* RegisterCustomMetric*: the task keeps the function object, the C        *)
(* configuration a raw pointer to it.  Nothing tests that there is a       *)
(* configuration; what the C library does with a null one is outside.      *)
RegisterCustomMetric ==
    /\ MayCall(App)
    /\ metrics' = TRUE
    /\ UNCHANGED <<builderVars, alive, status, config, owningTask, lastError,
                   onTaskCancelled, pc, arg, destroying, clibVars>>

-----------------------------------------------------------------------------
(* StartTask: the guard, the C call, the status.                           *)
StartableAnyTime == config /\ ~lastError  \* mutant: a running task is started again
Startable == config /\ ~lastError /\ status \in {"Ready", "Stopped"}

StartTask ==
    /\ MayCall(App) /\ Startable
    /\ Goto(App, "create")
    /\ UNCHANGED <<builderVars, taskVars, arg, destroying, clibVars>>

TaskCreated ==
    /\ pc[App] = "create"
    /\ \E t \in Tasks \ Created :
         /\ Created = 1 .. t - 1
         /\ ctask' = [ctask EXCEPT ![t] = "live"]
         /\ owningTask' = t
    /\ Goto(App, "created")
    /\ UNCHANGED <<builderVars, alive, status, config, lastError, onTaskCancelled,
                   metrics, arg, destroying, current, calls>>

StartFailedRunning == lastError' = TRUE /\ status' = "Running"  \* mutant: Running set first
StartFailed == lastError' = TRUE /\ UNCHANGED status

TaskNotCreated ==
    /\ pc[App] = "create"
    /\ StartFailed
    /\ Goto(App, "idle")
    /\ UNCHANGED <<builderVars, alive, config, owningTask, onTaskCancelled,
                   metrics, arg, destroying, clibVars>>

SetRunning ==
    /\ pc[App] = "created"
    /\ status' = "Running"
    /\ Goto(App, "idle")
    /\ UNCHANGED <<builderVars, alive, config, owningTask, lastError, onTaskCancelled,
                   metrics, arg, destroying, clibVars>>

(* StopTask: clean_up of the owned task while the status says Running; the *)
(* handler may call it too.                                                *)
BeginCleanUp(t) ==
    /\ arg' = [arg EXCEPT ![t] = owningTask]
    /\ Goto(t, "cleanUp")

StopTask(t) ==
    /\ MayCall(t) /\ status = "Running"
    /\ BeginCleanUp(t)
    /\ UNCHANGED <<builderVars, taskVars, destroying, clibVars>>

(* External: clean_up returns when the task is cancelled, and frees it.    *)
CleanUpReturns(t) ==
    /\ pc[t] = "cleanUp" /\ ctask[arg[t]] = "cancelled"
    /\ ctask' = [ctask EXCEPT ![arg[t]] = "freed"]
    /\ Goto(t, "cleaned")
    /\ UNCHANGED <<builderVars, taskVars, arg, destroying, current, calls>>

Stopped == owningTask' = 0 /\ status' = "Stopped"

SetStopped(t) ==
    /\ pc[t] = "cleaned"
    /\ Stopped
    /\ arg' = [arg EXCEPT ![t] = 0]
    /\ Goto(t, Home(t))
    /\ UNCHANGED <<builderVars, alive, config, lastError, onTaskCancelled, metrics,
                   destroying, clibVars>>

(* ~ReportTask: StopTask first, then the members one by one.               *)
MustStopNever == FALSE  \* mutant: the destructor does not stop the task
MustStop == status = "Running"

MembersClearedFirst ==  \* mutant: the handler is cleared before the task is stopped
    /\ onTaskCancelled' = FALSE
    /\ UNCHANGED <<alive, status, config, owningTask, lastError, metrics>>
MembersWhileStopping == UNCHANGED taskVars

Destroy ==
    /\ MayCall(App)
    /\ destroying' = TRUE
    /\ IF MustStop THEN BeginCleanUp(App) ELSE UNCHANGED <<arg, pc>>
    /\ MembersWhileStopping
    /\ UNCHANGED <<builderVars, clibVars>>

DestroyEnd ==
    /\ destroying /\ pc[App] = "idle"
    /\ config' = FALSE /\ owningTask' = 0 /\ onTaskCancelled' = FALSE
    /\ metrics' = FALSE
    /\ alive' = FALSE /\ destroying' = FALSE
    /\ UNCHANGED <<builderVars, status, lastError, pc, arg, clibVars>>

-----------------------------------------------------------------------------
(* The event loop.  A report calls the registered metric functions.        *)
Report ==
    /\ pc[Loop] = "idle" /\ metrics /\ \E t \in Tasks : ctask[t] = "live"
    /\ Goto(Loop, "report")
    /\ UNCHANGED <<builderVars, taskVars, arg, destroying, clibVars>>

ReportDone ==
    /\ pc[Loop] = "report"
    /\ Goto(Loop, "idle")
    /\ UNCHANGED <<builderVars, taskVars, arg, destroying, clibVars>>

(* The C task is cancelled because clean_up asked or the loop shuts down.  *)
Cancel ==
    /\ pc[Loop] = "idle"
    /\ \E t \in Tasks :
         /\ ctask[t] = "live"
         /\ loopCancels \/ (pc[App] = "cleanUp" /\ arg[App] = t)
         /\ current' = t
         /\ ctask' = [ctask EXCEPT ![t] = "cancelling"]
    /\ Goto(Loop, "cancel")
    /\ UNCHANGED <<builderVars, taskVars, arg, destroying, calls>>

(* s_onDefenderV1TaskCancelled: the status, then the handler if there is   *)
(* one; the C task counts as cancelled when it returns.                    *)
CancelledStatusKept == UNCHANGED status  \* mutant: the handler runs before the status is set
CancelledStatus == status' = "Stopped"

OnTaskCancelled ==
    /\ pc[Loop] = "cancel"
    /\ CancelledStatus
    /\ Goto(Loop, "stopped")
    /\ UNCHANGED <<builderVars, alive, config, owningTask, lastError, onTaskCancelled,
                   metrics, arg, destroying, clibVars>>

TestHandler ==
    /\ pc[Loop] = "stopped" /\ onTaskCancelled
    /\ Goto(Loop, "invoke")
    /\ UNCHANGED <<builderVars, taskVars, arg, destroying, clibVars>>

(* The destructor may have emptied the handler since the test, if the loop *)
(* cancels on its own: that call is undefined, and not counted.            *)
InvokeHandler ==
    /\ pc[Loop] = "invoke"
    /\ calls' = IF onTaskCancelled THEN [calls EXCEPT ![current] = @ + 1] ELSE calls
    /\ Goto(Loop, "handler")
    /\ UNCHANGED <<builderVars, taskVars, arg, destroying, ctask, current>>

CancelDone ==
    /\ pc[Loop] = "handler" \/ (pc[Loop] = "stopped" /\ ~onTaskCancelled)
    /\ ctask' = [ctask EXCEPT ![current] = "cancelled"]
    /\ current' = 0
    /\ Goto(Loop, "idle")
    /\ UNCHANGED <<builderVars, taskVars, arg, destroying, calls>>

-----------------------------------------------------------------------------
(* A handler's clean_up never returns: the task it waits for is cancelled  *)
(* by the loop it waits on, so its two steps after are the application's.  *)
AppStep == SetRunning \/ TaskCreated \/ TaskNotCreated \/ CleanUpReturns(App)
           \/ SetStopped(App) \/ DestroyEnd
LoopStep == ReportDone \/ Cancel \/ OnTaskCancelled \/ TestHandler \/ InvokeHandler
            \/ CancelDone

Next ==
    \/ WithTaskCancelledHandler \/ Build \/ RegisterCustomMetric
    \/ StartTask \/ Destroy \/ Report
    \/ \E t \in Threads : StopTask(t)
    \/ AppStep \/ LoopStep

Spec == Init /\ [][Next]_vars

(* A call under way goes on, and so does the loop; a cancellation queued   *)
(* on the loop has its turn however often reports come first.  Nobody has  *)
(* to make a call.                                                         *)
FairSpec == Spec /\ WF_vars(AppStep) /\ WF_vars(LoopStep) /\ SF_vars(Cancel)

-----------------------------------------------------------------------------
(* A C task that may still report belongs to a report task that exists and *)
(* points to it, so that nobody cleans up a task that is gone and no metric *)
(* function is called on a report task that is: its user data, its         *)
(* configuration and its metric functions are members of that object       *)
(* (StartTask, StopTask, ~ReportTask, GetMetricFunction).                  *)
LiveTaskOwned ==
    /\ \A t \in Tasks : ctask[t] = "live" => alive /\ owningTask = t
    /\ \A t \in Threads : pc[t] = "cleanUp" => arg[t] \in Tasks /\ ctask[arg[t]] # "freed"
    /\ pc[Loop] = "report" => alive /\ metrics

(* Without a loop that cancels on its own: the cancellation callback has   *)
(* returned before the destructor frees what it uses, the handler it found *)
(* set is the one it calls, and every C task of a destroyed report task    *)
(* was freed.                                                              *)
CallbackWhileAlive ==
    ~loopCancels =>
        /\ pc[Loop] # "idle" => alive
        /\ pc[Loop] = "invoke" => onTaskCancelled
        /\ ~alive => \A t \in Created : ctask[t] = "freed"

(* With no call under way, Running means that the loop has a task to run,  *)
(* unless the loop cancelled it on its own: in StartTask the assignment of *)
(* Running may come after the callback's Stopped, and then stays (GetStatus, *)
(* StartTask, s_onDefenderV1TaskCancelled).                                *)
RunningIsLive ==
    alive /\ ~destroying /\ (\A t \in Threads : pc[t] = "idle") =>
        /\ status = "Running" =>
            \/ \E t \in Tasks : ctask[t] = "live"
            \/ loopCancels /\ ctask[owningTask] = "cancelled"
        /\ status # "Running" => \A t \in Tasks : ctask[t] # "live"

(* Without a loop that cancels on its own: a task is freed after its       *)
(* handler was told exactly once, or there is none (~ReportTask, StopTask, *)
(* s_onDefenderV1TaskCancelled).                                           *)
HandlerTold ==
    [][\A t \in Tasks : ctask[t] # "freed" /\ ctask'[t] = "freed" /\ ~loopCancels
                        => (calls[t] = 1 <=> handled)]_vars

(* StopTask and ~ReportTask return, but for one case: a handler that calls *)
(* StopTask while m_status says Running waits on its own loop for ever,    *)
(* and whoever else stops or destroys the report task waits with it.  It   *)
(* takes a loop that cancels on its own, inside StartTask, where Running   *)
(* overwrites the callback's Stopped; without one the handler finds        *)
(* Stopped and never waits.                                                *)
WaitsForItself == pc[Loop] = "cleanUp" /\ ctask[arg[Loop]] \in {"live", "cancelling"}
CallsReturn ==
    /\ pc[App] = "cleanUp" ~> pc[App] # "cleanUp" \/ WaitsForItself
    /\ destroying ~> ~alive \/ WaitsForItself
    /\ [](pc[Loop] = "cleanUp" => WaitsForItself /\ loopCancels)
=============================================================================
