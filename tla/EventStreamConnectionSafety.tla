--------------------- MODULE EventStreamConnectionSafety ---------------------
(***************************************************************************)
(* Safety of EventStreamConnection for any sets of threads and loops and   *)
(* any number of Connect calls: its types, the inductive invariant behind  *)
(* SetupAssertions, UnderlyingCoherent, CloseTakesEffect and               *)
(* ImplOutlivesCLayer, the reference counts and the container of CONNECT.  *)
(***************************************************************************)
EXTENDS EventStreamConnection, FiniteSetTheorems, TLAPS

-----------------------------------------------------------------------------
(* Types of the data a lock section produces.                              *)

LEMMA NullIsNoAttempt == 0 \notin Attempts
BY ConnectionAssumption DEF Attempts

LEMMA ErrorTypes ==
    /\ Success \in RpcErrors /\ Closed \in RpcErrors
    /\ \A b \in Bases, c \in {"ok", "err"} : RpcError(b, c) \in RpcErrors
BY DEF Success, Closed, RpcErrors, RpcError, Bases

LEMMA NoContextType == NoContext \in Contexts
BY ErrorTypes DEF NoContext, Contexts

LEMMA ContextTypes ==
    ASSUME NEW ctx \in Contexts, NEW e \in RpcErrors
    PROVE  /\ SetError(ctx, e) \in Contexts
           /\ Work(ctx) \in Contexts
           /\ DisconnectContext(ctx) \in Contexts
           /\ ConnectedContext(ctx) \in Contexts
           /\ CallbackOf(ctx) \in {"OnConnect", "OnError", "OnDisconnect"}
BY ErrorTypes, NoContextType
DEF SetError, Work, DisconnectContext, ConnectedContext, CallbackOf, Contexts

LEMMA NoWorkType == NoWork \in Frames
BY NoContextType DEF NoWork, Frames

LEMMA GotoType ==
    ASSUME NEW t \in Threads, NEW f \in Frames, NEW l \in Places, TypeOK, Goto(t, l, f),
           l \in {"connect", "send"} => f.k # 0
    PROVE  ThreadsOK'
BY DEF Goto, TypeOK, ThreadsOK

LEMMA ContinueType ==
    ASSUME NEW t \in Threads, NEW f \in Frames, TypeOK, Continue(t, f)
    PROVE  ThreadsOK'
BY GotoType DEF Continue, Places

LEMMA MoveToDisconnectedType ==
    ASSUME NEW t \in Threads, NEW e \in RpcErrors, TypeOK, MoveToDisconnected(t, e)
    PROVE  /\ shared' \in SharedStates /\ refs' \in [Attempts -> Int]
           /\ selfReference' \in BOOLEAN
           /\ ThreadsOK'
<1> DEFINE ctx == SetError(shared.callbackContext, e)
           f == [NoWork EXCEPT
                   !.ctx = IF shared.hasShutDown THEN NoContext ELSE Work(ctx),
                   !.task = TRUE]
<1>1. shared.callbackContext \in Contexts
  BY DEF TypeOK, SharedStates
<1>2. ctx \in Contexts /\ Work(ctx) \in Contexts
  BY <1>1, ContextTypes
<1>3. f \in Frames
  BY <1>2, NoWorkType, NoContextType DEF Frames
<1>4. Continue(t, f)
  BY DEF MoveToDisconnected
<1>5. ThreadsOK'
  BY <1>3, <1>4, ContinueType
<1>6. shared' \in SharedStates
  BY NoContextType DEF MoveToDisconnected, Reset, TypeOK, SharedStates, ClientStates
<1>7. refs' \in [Attempts -> Int]
  BY DEF MoveToDisconnected, TypeOK
<1>8. selfReference' \in BOOLEAN
  BY Zenon DEF MoveToDisconnected
<1> QED
  BY <1>5, <1>6, <1>7, <1>8

LEMMA CloseInternalType ==
    ASSUME NEW t \in Threads, NEW isShutdown \in BOOLEAN, TypeOK,
           CloseInternal(t, isShutdown)
    PROVE  /\ shared' \in SharedStates /\ refs' \in [Attempts -> Int]
           /\ ThreadsOK'
<1> DEFINE closing == shared.currentState \in Closable
           ctx == SetError(shared.callbackContext, Closed)
           f == [NoWork EXCEPT
                  !.ctx = IF isShutdown THEN Work(ctx) ELSE NoContext,
                  !.flush = IF isShutdown THEN shared.connectFlushContainer ELSE 0,
                  !.close = IF closing THEN shared.underlyingConnection ELSE 0,
                  !.drop = isShutdown]
<1>1. shared.callbackContext \in Contexts
  BY DEF TypeOK, SharedStates
<1>2. ctx \in Contexts /\ Work(ctx) \in Contexts
  BY <1>1, ContextTypes, ErrorTypes
<1>3. f \in Frames
  BY <1>2, NoWorkType, NoContextType DEF Frames, TypeOK, SharedStates
<1>4. Continue(t, f)
  BY DEF CloseInternal
<1>5. ThreadsOK'
  BY <1>3, <1>4, ContinueType
<1>6. shared' \in SharedStates
  BY <1>2, NoContextType DEF CloseInternal, TypeOK, SharedStates, ClientStates
<1>7. refs' \in [Attempts -> Int]
  BY DEF CloseInternal, TypeOK
<1> QED
  BY <1>5, <1>6, <1>7

-----------------------------------------------------------------------------
(* Type correctness: every field of m_sharedState, every thread's work and *)
(* every promise stays in its type, whatever is called back when.          *)

LEMMA AppCallsType ==
    ASSUME TypeOK, NEW t \in AppThreads, AppCalls(t) PROVE TypeOK'
<1> USE DEF TypeOK, ThreadsOK
<1>0. t \in Threads
  BY DEF Threads
<1>1. CASE ConnectInvalid(t)
  <2>1. calls + 1 \in Attempts /\ calls' \in 0 .. MaxConnects
    BY <1>1, ConnectionAssumption DEF ConnectInvalid, Attempts
  <2>2. promise' \in [Attempts -> RpcErrors \cup {Unset, Pending}]
    BY <1>1, <2>1, ErrorTypes DEF ConnectInvalid, Bases
  <2> QED
    BY <1>1, <2>1, <2>2
    DEF ConnectInvalid, sdkVars, threadVars, clibVars, historyVars
<1>2. CASE ConnectRefused(t)
  <2>1. calls + 1 \in Attempts /\ calls' \in 0 .. MaxConnects
    BY <1>2, ConnectionAssumption DEF ConnectRefused, Attempts
  <2>2. promise' \in [Attempts -> RpcErrors \cup {Unset, Pending}]
    BY <1>2, <2>1, ErrorTypes DEF ConnectRefused, Bases
  <2> QED
    BY <1>2, <2>1, <2>2
    DEF ConnectRefused, sdkVars, threadVars, clibVars, historyVars
<1>3. CASE ConnectBegin(t)
  <2>1. calls + 1 \in Attempts /\ calls' \in 0 .. MaxConnects
    BY <1>3, ConnectionAssumption DEF ConnectBegin, Attempts
  <2>2. promise' \in [Attempts -> RpcErrors \cup {Unset, Pending}]
    BY <1>3, <2>1 DEF ConnectBegin
  <2>3. shared' \in SharedStates
    BY <1>3, <2>1, ErrorTypes
    DEF ConnectBegin, OptimisticConnect, SharedStates, ClientStates, Contexts, ConnectContext
  <2> DEFINE f == [NoWork EXCEPT !.k = calls + 1]
  <2>4. f \in Frames /\ f.k # 0
    BY <2>1, NoWorkType, NullIsNoAttempt DEF Frames
  <2>5. ThreadsOK'
    <3>1. Goto(t, "connect", f)
      BY <1>3 DEF ConnectBegin
    <3> HIDE DEF f
    <3> QED
      BY <1>0, <2>4, <3>1, GotoType DEF Places
  <2>6. selfReference' \in BOOLEAN
    BY <1>3, Zenon DEF ConnectBegin, OptimisticConnect
  <2> QED
    BY <1>3, <2>1, <2>2, <2>3, <2>5, <2>6 DEF ConnectBegin, clibVars, historyVars
<1>4. CASE Close(t)
  <2>1. CloseInternal(t, FALSE)
    BY <1>4 DEF Close
  <2> QED
    BY <1>0, <1>4, <2>1, CloseInternalType
    DEF Close, CloseInternal, promiseVars, historyVars
<1>5. CASE Shutdown(t)
  <2>1. CloseInternal(t, TRUE)
    BY <1>5 DEF Shutdown
  <2> QED
    BY <1>0, <1>5, <2>1, CloseInternalType
    DEF Shutdown, CloseInternal, promiseVars, historyVars
<1> QED
  BY <1>1, <1>2, <1>3, <1>4, <1>5 DEF AppCalls

LEMMA StepType ==
    ASSUME TypeOK, NEW t \in Threads, Step(t) PROVE TypeOK'
<1> USE DEF TypeOK, ThreadsOK
<1>f. frame[t] \in Frames
  OBVIOUS
<1>c. frame[t].ctx \in Contexts
  BY <1>f DEF Frames
<1>1. CASE ConnectStarts(t)
  BY <1>1, NoWorkType, ContinueType
  DEF ConnectStarts, sdkVars, promiseVars, historyVars
<1>2. CASE ConnectFails(t)
  <2>1. RpcError("CONNECTION_SETUP_FAILED", "err") \in RpcErrors
    BY ErrorTypes DEF Bases
  <2> QED
    BY <1>2, <2>1, MoveToDisconnectedType
    DEF ConnectFails, MoveToDisconnected, promiseVars, historyVars
<1>3. CASE SendConnect(t)
  <2>1. frame[t].k \in Attempts
    BY <1>3, <1>f DEF SendConnect, Frames
  <2>2. ThreadsOK'
    BY <1>3, NoWorkType, ContinueType DEF SendConnect
  <2>3. refs' \in [Attempts -> Int]
    BY <1>3, <2>1 DEF SendConnect
  <2> QED
    BY <1>3, <2>1, <2>2, <2>3 DEF SendConnect, sdkVars, promiseVars, historyVars
<1>4. CASE SendConnectFails(t)
  <2>1. RpcError("CRT_ERROR", "err") \in RpcErrors
    BY ErrorTypes DEF Bases
  <2>2. shared' \in SharedStates
    BY <1>4, <2>1, ContextTypes DEF SendConnectFails, SharedStates, ClientStates
  <2>3. [NoWork EXCEPT !.close = frame[t].k] \in Frames
    BY <1>f, NoWorkType DEF Frames
  <2>4. ThreadsOK'
    BY <1>4, <2>3, ContinueType DEF SendConnectFails
  <2> QED
    BY <1>4, <2>2, <2>4 DEF SendConnectFails, clibVars, promiseVars, historyVars
<1>5. CASE CloseAfterUnknownMessage(t)
  <2>1. CloseInternal(t, FALSE)
    BY <1>5 DEF CloseAfterUnknownMessage
  <2> QED
    BY <1>5, <2>1, CloseInternalType
    DEF CloseAfterUnknownMessage, CloseInternal, promiseVars, historyVars
<1>6. CASE InvokeCallback(t)
  <2> DEFINE ctx == frame[t].ctx
             f == [frame[t] EXCEPT !.ctx =
                     IF ctx.action = "CompleteConnectPromise"
                     THEN [ctx EXCEPT !.action = "SetConnectPromise"] ELSE NoContext]
  <2>1. f \in Frames
    BY <1>f, <1>c, NoContextType DEF Frames, Contexts
  <2>2. ThreadsOK'
    BY <1>6, <2>1, ContinueType DEF InvokeCallback
  <2>3. CallbackOf(ctx) \in {"OnConnect", "OnError", "OnDisconnect"}
    BY <1>c, ErrorTypes, ContextTypes
  <2>4. cbs' \in [Attempts -> Seq({"OnConnect", "OnError", "OnDisconnect"})]
    <3> DEFINE S == {"OnConnect", "OnError", "OnDisconnect"}
    <3>1. \A k \in Attempts : Append(cbs[k], CallbackOf(ctx)) \in Seq(S)
      <4> SUFFICES ASSUME NEW k \in Attempts PROVE Append(cbs[k], CallbackOf(ctx)) \in Seq(S)
        OBVIOUS
      <4>1. cbs[k] \in Seq(S)
        OBVIOUS
      <4> HIDE DEF S
      <4> QED
        BY <2>3, <4>1 DEF S
    <3>2. cbs' = [cbs EXCEPT ![ctx.attempt] = Append(@, CallbackOf(ctx))]
      BY <1>6 DEF InvokeCallback
    <3> QED
      BY <3>1, <3>2
  <2>5. late' \in BOOLEAN
    BY <1>6, Zenon DEF InvokeCallback
  <2> QED
    BY <1>6, <2>2, <2>4, <2>5 DEF InvokeCallback, sdkVars, clibVars, promiseVars
<1>7. CASE SetConnectPromise(t)
  <2>1. [frame[t] EXCEPT !.ctx = NoContext] \in Frames
    BY <1>f, NoContextType DEF Frames
  <2>2. ThreadsOK'
    BY <1>7, <2>1, ContinueType DEF SetConnectPromise
  <2>3. promise' \in [Attempts -> RpcErrors \cup {Unset, Pending}]
    BY <1>7, <1>c DEF SetConnectPromise, Contexts
  <2> QED
    BY <1>7, <2>2, <2>3 DEF SetConnectPromise, sdkVars, clibVars, historyVars
<1>8. CASE CompleteFlush(t)
  <2> DEFINE f == [frame[t] EXCEPT
                     !.flush = 0,
                     !.flushCb = IF Wins(frame[t].flush) THEN frame[t].flush ELSE 0]
  <2>1. f \in Frames
    BY <1>f DEF Frames
  <2>2. ThreadsOK'
    BY <1>8, <2>1, ContinueType DEF CompleteFlush
  <2> QED
    BY <1>8, <2>2 DEF CompleteFlush, sdkVars, clibVars, promiseVars, historyVars
<1>9. CASE InvokeFlushCallback(t)
  <2>1. [frame[t] EXCEPT !.flushCb = 0] \in Frames
    BY <1>f DEF Frames
  <2>2. ThreadsOK'
    BY <1>9, <2>1, ContinueType DEF InvokeFlushCallback
  <2>3. late' \in BOOLEAN
    BY <1>9, Zenon DEF InvokeFlushCallback
  <2>4. flushCbs' \in [Attempts -> Nat]
    <3>1. frame[t].flushCb \in Attempts
      BY <1>9, <1>f DEF InvokeFlushCallback, Frames
    <3> QED
      BY <1>9, <3>1 DEF InvokeFlushCallback
  <2> QED
    BY <1>9, <2>2, <2>3, <2>4 DEF InvokeFlushCallback, sdkVars, clibVars, promiseVars
<1>10. CASE CloseConnection(t)
  <2>1. [frame[t] EXCEPT !.close = 0] \in Frames
    BY <1>f DEF Frames
  <2>2. ThreadsOK'
    BY <1>10, <2>1, ContinueType DEF CloseConnection
  <2>3. refs' \in [Attempts -> Int]
    <3>1. frame[t].close \in Attempts
      BY <1>10, <1>f DEF CloseConnection, Frames
    <3> QED
      BY <1>10, <3>1 DEF CloseConnection
  <2> QED
    BY <1>10, <2>2, <2>3 DEF CloseConnection, sdkVars, promiseVars, historyVars
<1>11. CASE ScheduleClearTask(t)
  <2>1. [frame[t] EXCEPT !.task = FALSE] \in Frames
    BY <1>f DEF Frames
  <2>2. ThreadsOK'
    BY <1>11, <2>1, ContinueType DEF ScheduleClearTask
  <2> QED
    BY <1>11, <2>2 DEF ScheduleClearTask, clibVars, promiseVars, historyVars
<1>12. CASE DropHandle(t)
  <2>1. [frame[t] EXCEPT !.drop = FALSE] \in Frames
    BY <1>f DEF Frames
  <2>2. ThreadsOK'
    BY <1>12, <2>1, ContinueType DEF DropHandle
  <2>3. handle' \in BOOLEAN
    BY <1>12, Zenon DEF DropHandle
  <2> QED
    BY <1>12, <2>2, <2>3 DEF DropHandle, clibVars, promiseVars, historyVars
<1> QED
  BY <1>1, <1>2, <1>3, <1>4, <1>5, <1>6, <1>7, <1>8, <1>9, <1>10, <1>11, <1>12 DEF Step

LEMMA LoopEventsType ==
    ASSUME TypeOK, NEW l \in Loops, NEW k \in Attempts, LoopEvents(l, k) PROVE TypeOK'
<1> USE DEF TypeOK, ThreadsOK
<1>0. l \in Threads
  BY DEF Threads
<1>1. CASE SetupFails(l, k)
  <2>1. RpcError("CRT_ERROR", "err") \in RpcErrors
    BY ErrorTypes DEF Bases
  <2> QED
    BY <1>0, <1>1, <2>1, MoveToDisconnectedType
    DEF SetupFails, MoveToDisconnected, promiseVars, historyVars
<1>2. CASE SetupAbandoned(l, k)
  <2>1. [NoWork EXCEPT !.close = k] \in Frames
    BY NoWorkType DEF Frames
  <2>2. ThreadsOK'
    BY <1>0, <1>2, <2>1, ContinueType DEF SetupAbandoned
  <2>3. shared' \in SharedStates
    BY <1>2 DEF SetupAbandoned, SharedStates, ClientStates
  <2> QED
    BY <1>2, <2>2, <2>3 DEF SetupAbandoned, SetupReferences, promiseVars, historyVars
<1>3. CASE SetupSucceeds(l, k)
  <2> DEFINE f == [NoWork EXCEPT !.k = k]
  <2>1. f \in Frames /\ f.k # 0
    BY NoWorkType, NullIsNoAttempt DEF Frames
  <2>2. ThreadsOK'
    <3>1. Goto(l, "send", f)
      BY <1>3 DEF SetupSucceeds
    <3> HIDE DEF f
    <3> QED
      BY <1>0, <2>1, <3>1, GotoType DEF Places
  <2>3. shared' \in SharedStates
    BY <1>3 DEF SetupSucceeds, SharedStates, ClientStates
  <2> QED
    BY <1>3, <2>2, <2>3 DEF SetupSucceeds, SetupReferences, promiseVars, historyVars
<1>4. ASSUME NEW code \in ShutdownCodes, ConnectionShutdown(l, k, code) PROVE TypeOK'
  <2>1. RpcError("CONNECTION_CLOSED", code) \in RpcErrors
    BY ErrorTypes, ConnectionAssumption DEF Bases
  <2> QED
    BY <1>0, <1>4, <2>1, MoveToDisconnectedType
    DEF ConnectionShutdown, MoveToDisconnected, promiseVars, historyVars
<1>5. CASE ConnackAccepted(l, k)
  <2> DEFINE f == [NoWork EXCEPT !.ctx = ConnectedContext(shared.callbackContext)]
  <2>1. shared.callbackContext \in Contexts
    BY DEF SharedStates
  <2>2. f \in Frames
    BY <2>1, NoWorkType, ContextTypes, ErrorTypes DEF Frames
  <2>3. ThreadsOK'
    BY <1>0, <1>5, <2>2, ContinueType DEF ConnackAccepted
  <2>4. shared' \in SharedStates
    BY <1>5, <2>1, ContextTypes, ErrorTypes DEF ConnackAccepted, SharedStates, ClientStates
  <2> QED
    BY <1>5, <2>3, <2>4 DEF ConnackAccepted, clibVars, promiseVars
<1>6. ASSUME NEW ok \in BOOLEAN, ConnackRefused(l, k, ok) PROVE TypeOK'
  <2> DEFINE e == RpcError(IF ok THEN "CONNECTION_CLOSED" ELSE "CONNECTION_ACCESS_DENIED", "ok")
             closing == shared.currentState # "Disconnecting"
  <2>1. e \in RpcErrors
    BY ErrorTypes DEF Bases
  <2>2. shared' \in SharedStates
    BY <1>6, <2>1, ContextTypes DEF ConnackRefused, SharedStates, ClientStates
  <2>3. [NoWork EXCEPT !.close = IF closing THEN k ELSE 0] \in Frames
    BY NoWorkType DEF Frames
  <2>4. ThreadsOK'
    BY <1>0, <1>6, <2>3, ContinueType DEF ConnackRefused
  <2>5. refs' \in [Attempts -> Int]
    BY <1>6 DEF ConnackRefused
  <2> QED
    BY <1>6, <2>2, <2>4, <2>5 DEF ConnackRefused, promiseVars, historyVars
<1>7. CASE Ping(l, k)
  <2>1. late' \in BOOLEAN
    BY <1>7, Zenon DEF Ping
  <2> QED
    BY <1>7, <2>1 DEF Ping, sdkVars, threadVars, clibVars, promiseVars
<1>8. CASE UnknownMessage(l, k)
  <2>1. late' \in BOOLEAN
    BY <1>8, Zenon DEF UnknownMessage
  <2>2. ThreadsOK'
    BY <1>0, <1>8, NoWorkType, GotoType DEF UnknownMessage, Places
  <2> QED
    BY <1>8, <2>1, <2>2 DEF UnknownMessage, sdkVars, clibVars, promiseVars
<1>9. CASE ConnectFlushed(l, k)
  <2>1. [NoWork EXCEPT !.flush = k] \in Frames
    BY NoWorkType DEF Frames
  <2>2. ThreadsOK'
    BY <1>0, <1>9, <2>1, ContinueType DEF ConnectFlushed
  <2> QED
    BY <1>9, <2>2 DEF ConnectFlushed, sdkVars, promiseVars, historyVars
<1> QED
  BY <1>1, <1>2, <1>3, <1>4, <1>5, <1>6, <1>7, <1>8, <1>9
  DEF LoopEvents, SetupCompletes, ShutdownCompletes, Messages

(* Every reachable state is well typed: what m_sharedState, the threads'   *)
(* pending work and the promises hold, for any number of threads, loops    *)
(* and Connect calls.                                                      *)
THEOREM TypeCorrect == Spec => []TypeOK
<1>1. Init => TypeOK
  <2> SUFFICES ASSUME Init PROVE TypeOK
    OBVIOUS
  <2>1. shared \in SharedStates
    BY NoContextType DEF Init, SharedStates, ClientStates
  <2>2. calls \in 0 .. MaxConnects
    BY ConnectionAssumption DEF Init
  <2>3. cbs \in [Attempts -> Seq({"OnConnect", "OnError", "OnDisconnect"})]
    BY DEF Init
  <2>4. ThreadsOK
    BY NoWorkType DEF Init, ThreadsOK, Places
  <2>5. selfReference \in BOOLEAN /\ handle \in BOOLEAN /\ late \in BOOLEAN
    BY Zenon DEF Init
  <2>6. scheduled \in Nat /\ refs \in [Attempts -> Int] /\ flushCbs \in [Attempts -> Nat]
    BY DEF Init
  <2> QED
    BY <2>1, <2>2, <2>3, <2>4, <2>5, <2>6 DEF Init, TypeOK
<1>2. TypeOK /\ [Next]_vars => TypeOK'
  <2> SUFFICES ASSUME TypeOK, [Next]_vars PROVE TypeOK'
    OBVIOUS
  <2>1. CASE UNCHANGED vars
    BY <2>1 DEF vars, sdkVars, threadVars, clibVars, promiseVars, historyVars, TypeOK, ThreadsOK
  <2>2. ASSUME NEW t \in AppThreads, AppCalls(t) PROVE TypeOK'
    BY <2>2, AppCallsType
  <2>3. ASSUME NEW t \in Threads, Step(t) PROVE TypeOK'
    BY <2>3, StepType
  <2>4. ASSUME NEW l \in Loops, NEW k \in Attempts, LoopEvents(l, k) PROVE TypeOK'
    BY <2>4, LoopEventsType
  <2>5. ASSUME NEW k \in Attempts, PeerCloses(k) PROVE TypeOK'
    BY <2>5 DEF PeerCloses, TypeOK, ThreadsOK, sdkVars, threadVars, promiseVars, historyVars
  <2>6. CASE RunClearTask
    BY <2>6 DEF RunClearTask, TypeOK, ThreadsOK, threadVars, clibVars, promiseVars, historyVars
  <2> QED
    BY <2>1, <2>2, <2>3, <2>4, <2>5, <2>6 DEF Next, Terminated
<1> QED
  BY <1>1, <1>2, PTL DEF Spec

-----------------------------------------------------------------------------
(* The inductive invariant.                                                *)

IsUp(k) == cconn[k] \in {"up", "closing"}
InCLayer(k) == cconn[k] = "connecting" \/ IsUp(k)

(* One attempt at a time: a thread between Connect's lock section and its  *)
(* C call, or the C library with one C connection.                         *)
OneAttempt ==
    /\ \A t, u \in Threads : pc[t] = "connect" /\ pc[u] = "connect" => t = u
    /\ \A t \in Threads : pc[t] = "connect" => \A k \in Attempts : ~InCLayer(k)
    /\ \A j, k \in Attempts : InCLayer(j) /\ InCLayer(k) => j = k

(* currentState says where that attempt is.                                *)
StateOfAttempt ==
    /\ \A t \in Threads : pc[t] = "connect" => shared.currentState = "PendingConnect"
    /\ \A k \in Attempts : cconn[k] = "connecting" => shared.currentState = "PendingConnect"
    /\ \A k \in Attempts : IsUp(k) => shared.underlyingConnection = k
    /\ IF shared.currentState \in {"Disconnected", "PendingConnect"}
       THEN shared.underlyingConnection = 0 /\ shared.connectFlushContainer = 0
       ELSE shared.underlyingConnection # 0 /\ IsUp(shared.underlyingConnection)
    /\ shared.currentState # "Disconnected" => selfReference

(* A loop in the middle of a callback holds up the shutdown callback of    *)
(* the C connection the callback is about.                                 *)
LoopHolds ==
    /\ \A t \in Threads : pc[t] = "send" => IsUp(frame[t].k) /\ loopOf[frame[t].k] = t
    /\ \A t \in Threads : pc[t] = "protocolError" =>
          \E k \in Attempts : IsUp(k) /\ loopOf[k] = t

(* Work lists are only overwritten when nothing is left in them.           *)
NoCloseLost == \A t \in Threads : pc[t] # "work" => frame[t].close = 0

SafetyInv == OneAttempt /\ StateOfAttempt /\ LoopHolds /\ NoCloseLost /\ CloseTakesEffect

-----------------------------------------------------------------------------
(* What one thread's move leaves of the others.                            *)

LEMMA GotoEffect ==
    ASSUME TypeOK, NEW t \in Threads, NEW l, NEW f, Goto(t, l, f)
    PROVE  /\ pc'[t] = l /\ frame'[t] = f
           /\ \A u \in Threads : u # t => pc'[u] = pc[u] /\ frame'[u] = frame[u]
BY DEF Goto, TypeOK, ThreadsOK

LEMMA ContinueEffect ==
    ASSUME TypeOK, NEW t \in Threads, NEW f, Continue(t, f)
    PROVE  /\ pc'[t] = IF f = NoWork THEN "ready" ELSE "work"
           /\ frame'[t] = f
           /\ \A u \in Threads : u # t => pc'[u] = pc[u] /\ frame'[u] = frame[u]
BY GotoEffect DEF Continue

(* A step of a thread that keeps its pending close and touches neither     *)
(* shared state nor the C connections.                                     *)
LEMMA QuietSafe ==
    ASSUME TypeOK, SafetyInv, NEW t \in Threads, NEW f,
           Continue(t, f), pc[t] \in {"ready", "work"}, f.close = frame[t].close,
           UNCHANGED <<shared, selfReference, cconn, loopOf>>
    PROVE  SafetyInv'
<1>1. /\ pc'[t] = IF f = NoWork THEN "ready" ELSE "work"
      /\ frame'[t] = f
      /\ \A u \in Threads : u # t => pc'[u] = pc[u] /\ frame'[u] = frame[u]
  BY ContinueEffect
<1>2. OneAttempt'
  BY <1>1 DEF SafetyInv, OneAttempt, InCLayer, IsUp
<1>3. StateOfAttempt'
  BY <1>1 DEF SafetyInv, StateOfAttempt, IsUp
<1>4. LoopHolds'
  BY <1>1 DEF SafetyInv, LoopHolds, IsUp
<1>5. NoCloseLost'
  BY <1>1 DEF SafetyInv, NoCloseLost, NoWork
<1>6. CloseTakesEffect'
  BY <1>1 DEF SafetyInv, CloseTakesEffect
<1> QED
  BY <1>2, <1>3, <1>4, <1>5, <1>6 DEF SafetyInv

(* MoveToDisconnected, once the C library is done with the attempt.        *)
LEMMA MoveToDisconnectedSafe ==
    ASSUME TypeOK, SafetyInv, NEW t \in Threads, NEW e, MoveToDisconnected(t, e),
           \A k \in Attempts : ~InCLayer(k)',
           \A u \in Threads : u # t => pc[u] \notin {"connect", "send", "protocolError"}
    PROVE  SafetyInv'
<1> DEFINE f == [NoWork EXCEPT
                   !.ctx = IF shared.hasShutDown THEN NoContext
                           ELSE Work(SetError(shared.callbackContext, e)),
                   !.task = TRUE]
<1>1. f.close = 0
  BY DEF NoWork
<1>2. Continue(t, f)
  BY DEF MoveToDisconnected
<1> HIDE DEF f
<1>3. /\ pc'[t] = IF f = NoWork THEN "ready" ELSE "work"
      /\ frame'[t] = f
      /\ \A u \in Threads : u # t => pc'[u] = pc[u] /\ frame'[u] = frame[u]
  BY <1>2, ContinueEffect
<1>4. \A u \in Threads : pc'[u] \notin {"connect", "send", "protocolError"}
  BY <1>3
<1>5. /\ shared'.currentState = "Disconnected" /\ shared'.underlyingConnection = 0
      /\ shared'.connectFlushContainer = 0
  BY DEF MoveToDisconnected, Reset, TypeOK, SharedStates
<1>6. OneAttempt' /\ LoopHolds'
  BY <1>4 DEF OneAttempt, LoopHolds
<1>7. StateOfAttempt'
  BY <1>4, <1>5 DEF StateOfAttempt, InCLayer
<1>8. NoCloseLost'
  BY <1>1, <1>3 DEF SafetyInv, NoCloseLost
<1>9. CloseTakesEffect'
  BY <1>5 DEF CloseTakesEffect
<1> QED
  BY <1>6, <1>7, <1>8, <1>9 DEF SafetyInv

(* CloseInternal by a thread that is not about to make a C call.           *)
LEMMA CloseInternalSafe ==
    ASSUME TypeOK, SafetyInv, NEW t \in Threads, NEW isShutdown \in BOOLEAN,
           CloseInternal(t, isShutdown), pc[t] \in {"ready", "protocolError"},
           UNCHANGED <<cconn, loopOf>>
    PROVE  SafetyInv'
<1> DEFINE closing == shared.currentState \in Closable
           ctx == SetError(shared.callbackContext, Closed)
           f == [NoWork EXCEPT
                  !.ctx = IF isShutdown THEN Work(ctx) ELSE NoContext,
                  !.flush = IF isShutdown THEN shared.connectFlushContainer ELSE 0,
                  !.close = IF closing THEN shared.underlyingConnection ELSE 0,
                  !.drop = isShutdown]
<1>1. f.close = IF closing THEN shared.underlyingConnection ELSE 0
  BY DEF NoWork
<1>2. Continue(t, f)
  BY DEF CloseInternal
<1> HIDE DEF f
<1>3. /\ pc'[t] = IF f = NoWork THEN "ready" ELSE "work"
      /\ frame'[t] = f
      /\ \A u \in Threads : u # t => pc'[u] = pc[u] /\ frame'[u] = frame[u]
  BY <1>2, ContinueEffect
<1>4. /\ shared'.currentState = IF closing THEN "Disconnecting" ELSE shared.currentState
      /\ shared'.underlyingConnection = shared.underlyingConnection
      /\ shared'.connectFlushContainer = IF isShutdown THEN 0 ELSE shared.connectFlushContainer
      /\ selfReference' = selfReference
  BY DEF CloseInternal, TypeOK, SharedStates
<1>5. OneAttempt'
  BY <1>3 DEF SafetyInv, OneAttempt, InCLayer, IsUp
<1>6. StateOfAttempt'
  BY <1>3, <1>4 DEF SafetyInv, StateOfAttempt, IsUp, Closable
<1>7. LoopHolds'
  BY <1>3 DEF SafetyInv, LoopHolds, IsUp
<1>8. NoCloseLost'
  BY <1>1, <1>3 DEF SafetyInv, NoCloseLost, NoWork
<1>9. CloseTakesEffect'
  <2>1. shared'.currentState \notin {"PendingConnack", "Connected"}
    BY <1>4 DEF Closable
  <2>2. CASE closing
    BY <1>1, <1>3, <1>4, <2>1, <2>2 DEF CloseTakesEffect
  <2>3. CASE ~closing
    <3>1. frame[t].close = 0
      BY DEF SafetyInv, NoCloseLost
    <3>2. ASSUME NEW u \in Threads, frame[u].close # 0 PROVE frame'[u].close = frame[u].close
      BY <1>3, <3>1, <3>2
    <3>3. shared.currentState = "Disconnecting" => shared.underlyingConnection # 0
      BY DEF SafetyInv, StateOfAttempt
    <3> QED
      BY <1>4, <2>1, <2>3, <3>2, <3>3 DEF SafetyInv, CloseTakesEffect
  <2> QED
    BY <2>2, <2>3
<1> QED
  BY <1>5, <1>6, <1>7, <1>8, <1>9 DEF SafetyInv

-----------------------------------------------------------------------------
(* Disconnected means that no attempt is under way.                        *)
LEMMA NothingUnderWay ==
    ASSUME SafetyInv, shared.currentState = "Disconnected"
    PROVE  /\ \A k \in Attempts : ~InCLayer(k)
           /\ \A t \in Threads : pc[t] # "connect"
BY NullIsNoAttempt DEF SafetyInv, StateOfAttempt, InCLayer

LEMMA AppCallsSafe ==
    ASSUME TypeOK, SafetyInv, NEW t \in AppThreads, AppCalls(t) PROVE SafetyInv'
<1>0. t \in Threads
  BY DEF Threads
<1>1. CASE ConnectInvalid(t) \/ ConnectRefused(t)
  BY <1>1
  DEF ConnectInvalid, ConnectRefused, sdkVars, threadVars, clibVars, SafetyInv, OneAttempt,
      StateOfAttempt, LoopHolds, NoCloseLost, CloseTakesEffect, InCLayer, IsUp
<1>2. CASE ConnectBegin(t)
  <2> DEFINE f == [NoWork EXCEPT !.k = calls + 1]
  <2>1. f.close = 0
    BY DEF NoWork
  <2>2. Goto(t, "connect", f)
    BY <1>2 DEF ConnectBegin
  <2> HIDE DEF f
  <2>3. /\ pc'[t] = "connect" /\ frame'[t] = f
        /\ \A u \in Threads : u # t => pc'[u] = pc[u] /\ frame'[u] = frame[u]
    BY <1>0, <2>2, GotoEffect
  <2>4. shared.currentState = "Disconnected" /\ UNCHANGED <<cconn, loopOf>>
    BY <1>2 DEF ConnectBegin, MayConnect, clibVars
  <2>5. /\ \A k \in Attempts : ~InCLayer(k)
        /\ \A u \in Threads : pc[u] # "connect"
    BY <2>4, NothingUnderWay
  <2>7. /\ shared'.currentState = "PendingConnect" /\ selfReference'
        /\ shared'.underlyingConnection = shared.underlyingConnection
        /\ shared'.connectFlushContainer = shared.connectFlushContainer
    BY <1>2 DEF ConnectBegin, OptimisticConnect, TypeOK, SharedStates
  <2>8. OneAttempt'
    BY <2>3, <2>4, <2>5 DEF OneAttempt, InCLayer, IsUp
  <2>9. StateOfAttempt'
    BY <2>3, <2>4, <2>5, <2>7 DEF SafetyInv, StateOfAttempt, InCLayer, IsUp
  <2>10. LoopHolds'
    BY <2>3, <2>4 DEF SafetyInv, LoopHolds, IsUp
  <2>11. NoCloseLost'
    BY <2>1, <2>3 DEF SafetyInv, NoCloseLost
  <2>12. CloseTakesEffect'
    BY <2>7 DEF CloseTakesEffect
  <2> QED
    BY <2>8, <2>9, <2>10, <2>11, <2>12 DEF SafetyInv
<1>3. CASE Close(t)
  BY <1>0, <1>3, CloseInternalSafe DEF Close, MayCall
<1>4. CASE Shutdown(t)
  BY <1>0, <1>4, CloseInternalSafe DEF Shutdown, MayCall
<1> QED
  BY <1>1, <1>2, <1>3, <1>4 DEF AppCalls

LEMMA StepSafe ==
    ASSUME TypeOK, SafetyInv, NEW t \in Threads, Step(t) PROVE SafetyInv'
<1>f. frame[t] \in Frames
  BY DEF TypeOK, ThreadsOK
<1>1. CASE ConnectStarts(t)
  <2> DEFINE k == frame[t].k
  <2>1. /\ pc'[t] = "ready" /\ frame'[t] = NoWork
        /\ \A u \in Threads : u # t => pc'[u] = pc[u] /\ frame'[u] = frame[u]
    BY <1>1, ContinueEffect DEF ConnectStarts
  <2>2. pc[t] = "connect" /\ k \in Attempts
    BY <1>1, <1>f DEF ConnectStarts, TypeOK, ThreadsOK, Frames
  <2>3. /\ cconn' = [cconn EXCEPT ![k] = "connecting"]
        /\ UNCHANGED <<shared, selfReference, loopOf>>
    BY <1>1 DEF ConnectStarts, sdkVars
  <2> HIDE DEF k
  <2>4. \A u \in Threads : u # t => pc[u] # "connect"
    BY <2>2 DEF SafetyInv, OneAttempt
  <2>5. \A j \in Attempts : ~InCLayer(j) /\ cconn'[j] = IF j = k THEN "connecting" ELSE cconn[j]
    BY <2>2, <2>3 DEF SafetyInv, OneAttempt, TypeOK
  <2>6. /\ shared.currentState = "PendingConnect"
        /\ shared.underlyingConnection = 0 /\ shared.connectFlushContainer = 0
        /\ selfReference
    BY <2>2 DEF SafetyInv, StateOfAttempt
  <2>7. OneAttempt'
    BY <2>1, <2>4, <2>5 DEF OneAttempt, InCLayer, IsUp
  <2>8. StateOfAttempt'
    BY <2>1, <2>3, <2>4, <2>5, <2>6 DEF StateOfAttempt, InCLayer, IsUp
  <2>9. LoopHolds'
    <3>1. \A u \in Threads : pc[u] \notin {"send", "protocolError"}
      <4>1. \A u \in Threads : pc[u] = "send" => frame[u].k \in Attempts
        BY DEF TypeOK, ThreadsOK, Frames
      <4> QED
        BY <2>5, <4>1 DEF SafetyInv, LoopHolds, InCLayer
    <3> QED
      BY <2>1, <3>1 DEF LoopHolds
  <2>10. NoCloseLost'
    BY <2>1 DEF SafetyInv, NoCloseLost, NoWork
  <2>11. CloseTakesEffect'
    BY <2>3, <2>6 DEF CloseTakesEffect
  <2> QED
    BY <2>7, <2>8, <2>9, <2>10, <2>11 DEF SafetyInv
<1>2. CASE ConnectFails(t)
  <2>1. pc[t] = "connect" /\ UNCHANGED cconn
    BY <1>2 DEF ConnectFails
  <2>2. \A k \in Attempts : ~InCLayer(k)
    BY <2>1 DEF SafetyInv, OneAttempt
  <2>3. \A u \in Threads : u # t => pc[u] \notin {"connect", "send", "protocolError"}
    <3>1. \A u \in Threads : pc[u] = "send" => frame[u].k \in Attempts
      BY DEF TypeOK, ThreadsOK, Frames
    <3> QED
      BY <2>1, <2>2, <3>1 DEF SafetyInv, LoopHolds, OneAttempt, InCLayer
  <2>4. \A k \in Attempts : ~InCLayer(k)'
    BY <2>1, <2>2 DEF InCLayer, IsUp
  <2>5. MoveToDisconnected(t, RpcError("CONNECTION_SETUP_FAILED", "err"))
    BY <1>2 DEF ConnectFails
  <2> QED
    BY <2>3, <2>4, <2>5, MoveToDisconnectedSafe
<1>3. CASE SendConnect(t)
  <2>1. /\ pc'[t] = "ready" /\ frame'[t] = NoWork /\ pc[t] = "send"
        /\ \A u \in Threads : u # t => pc'[u] = pc[u] /\ frame'[u] = frame[u]
    BY <1>3, ContinueEffect DEF SendConnect
  <2>2. UNCHANGED <<shared, selfReference, cconn, loopOf>>
    BY <1>3 DEF SendConnect, sdkVars
  <2>3. OneAttempt' /\ StateOfAttempt' /\ LoopHolds'
    BY <2>1, <2>2 DEF SafetyInv, OneAttempt, StateOfAttempt, LoopHolds, InCLayer, IsUp
  <2>4. NoCloseLost'
    BY <2>1 DEF SafetyInv, NoCloseLost, NoWork
  <2>5. CloseTakesEffect'
    <3>1. frame[t].close = 0
      BY <2>1 DEF SafetyInv, NoCloseLost
    <3>2. shared.currentState = "Disconnecting" => shared.underlyingConnection # 0
      BY DEF SafetyInv, StateOfAttempt
    <3> QED
      BY <2>1, <2>2, <3>1, <3>2 DEF SafetyInv, CloseTakesEffect
  <2> QED
    BY <2>3, <2>4, <2>5 DEF SafetyInv
<1>4. CASE SendConnectFails(t)
  <2> DEFINE k == frame[t].k
             f == [NoWork EXCEPT !.close = k]
  <2>1. f.close = k
    BY DEF NoWork
  <2>2. pc[t] = "send" /\ k \in Attempts /\ Continue(t, f)
    BY <1>4, <1>f DEF SendConnectFails, TypeOK, ThreadsOK, Frames
  <2>3. /\ shared'.currentState = "Disconnecting" /\ shared'.connectFlushContainer = 0
        /\ shared'.underlyingConnection = shared.underlyingConnection
        /\ UNCHANGED <<selfReference, cconn, loopOf>>
    BY <1>4 DEF SendConnectFails, clibVars, TypeOK, SharedStates
  <2>4. IsUp(k)
    BY <2>2 DEF SafetyInv, LoopHolds
  <2> HIDE DEF k, f
  <2>5. /\ pc'[t] = IF f = NoWork THEN "ready" ELSE "work"
        /\ frame'[t] = f
        /\ \A u \in Threads : u # t => pc'[u] = pc[u] /\ frame'[u] = frame[u]
    BY <2>2, ContinueEffect
  <2>6. /\ shared.underlyingConnection = k /\ k # 0
        /\ \A u \in Threads : pc[u] # "connect"
        /\ \A j \in Attempts : cconn[j] # "connecting"
    <3>1. \A j \in Attempts : InCLayer(j) => j = k
      BY <2>2, <2>4 DEF SafetyInv, OneAttempt, InCLayer
    <3> QED
      BY <2>2, <2>4, <3>1, NullIsNoAttempt DEF SafetyInv, OneAttempt, StateOfAttempt, InCLayer, IsUp
  <2>7. OneAttempt' /\ LoopHolds'
    BY <2>2, <2>3, <2>5 DEF SafetyInv, OneAttempt, LoopHolds, InCLayer, IsUp
  <2>8. StateOfAttempt'
    BY <2>3, <2>4, <2>5, <2>6 DEF SafetyInv, StateOfAttempt, IsUp
  <2>9. NoCloseLost'
    BY <2>1, <2>5, <2>6 DEF SafetyInv, NoCloseLost, NoWork
  <2>10. CloseTakesEffect'
    BY <2>1, <2>3, <2>5, <2>6 DEF CloseTakesEffect
  <2> QED
    BY <2>7, <2>8, <2>9, <2>10 DEF SafetyInv
<1>5. CASE CloseAfterUnknownMessage(t)
  BY <1>5, CloseInternalSafe DEF CloseAfterUnknownMessage
<1>6. CASE InvokeCallback(t)
  <2> DEFINE f == [frame[t] EXCEPT !.ctx =
                     IF @.action = "CompleteConnectPromise"
                     THEN [@ EXCEPT !.action = "SetConnectPromise"] ELSE NoContext]
  <2>1. f.close = frame[t].close
    BY <1>f DEF Frames
  <2>2. Continue(t, f)
    BY <1>6, <1>f DEF InvokeCallback, Frames
  <2> HIDE DEF f
  <2> QED
    BY <1>6, <2>1, <2>2, QuietSafe DEF InvokeCallback, sdkVars, clibVars
<1>7. CASE SetConnectPromise(t)
  <2>1. [frame[t] EXCEPT !.ctx = NoContext].close = frame[t].close
    BY <1>f DEF Frames
  <2> QED
    BY <1>7, <2>1, QuietSafe DEF SetConnectPromise, sdkVars, clibVars
<1>8. CASE CompleteFlush(t)
  <2> DEFINE f == [frame[t] EXCEPT
                     !.flush = 0,
                     !.flushCb = IF Wins(frame[t].flush) THEN frame[t].flush ELSE 0]
  <2>1. f.close = frame[t].close
    BY <1>f DEF Frames
  <2>2. Continue(t, f)
    BY <1>8 DEF CompleteFlush
  <2> HIDE DEF f
  <2> QED
    BY <1>8, <2>1, <2>2, QuietSafe DEF CompleteFlush, CallbacksDone, sdkVars, clibVars
<1>9. CASE InvokeFlushCallback(t)
  <2>1. [frame[t] EXCEPT !.flushCb = 0].close = frame[t].close
    BY <1>f DEF Frames
  <2> QED
    BY <1>9, <2>1, QuietSafe DEF InvokeFlushCallback, CallbacksDone, sdkVars, clibVars
<1>10. CASE CloseConnection(t)
  <2> DEFINE k == frame[t].close
             f == [frame[t] EXCEPT !.close = 0]
  <2>1. f.close = 0 /\ k \in Attempts
    BY <1>10, <1>f DEF CloseConnection, Frames
  <2>2. /\ Continue(t, f) /\ pc[t] = "work"
        /\ cconn' = [cconn EXCEPT ![k] = IF @ = "up" THEN "closing" ELSE @]
        /\ UNCHANGED <<shared, selfReference, loopOf>>
    BY <1>10 DEF CloseConnection, FlushDone, CallbacksDone, sdkVars
  <2>0. k = frame[t].close
    OBVIOUS
  <2> HIDE DEF f, k
  <2>3. /\ pc'[t] \in {"ready", "work"}
        /\ frame'[t] = f
        /\ \A u \in Threads : u # t => pc'[u] = pc[u] /\ frame'[u] = frame[u]
    BY <2>2, ContinueEffect
  <2>4. \A j \in Attempts :
           /\ cconn'[j] = IF j = k /\ cconn[j] = "up" THEN "closing" ELSE cconn[j]
           /\ InCLayer(j)' <=> InCLayer(j)
           /\ IsUp(j)' <=> IsUp(j)
    BY <2>1, <2>2 DEF TypeOK, InCLayer, IsUp
  <2>5. OneAttempt'
    BY <2>3, <2>4 DEF SafetyInv, OneAttempt
  <2>6. StateOfAttempt'
    <3>1. shared.underlyingConnection \in Attempts \cup {0}
      BY DEF TypeOK, SharedStates
    <3> QED
      BY <2>2, <2>3, <2>4, <3>1 DEF SafetyInv, StateOfAttempt
  <2>7. LoopHolds'
    <3>1. \A u \in Threads : pc[u] = "send" => frame[u].k \in Attempts
      BY DEF TypeOK, ThreadsOK, Frames
    <3> QED
      BY <2>2, <2>3, <2>4, <3>1 DEF SafetyInv, LoopHolds
  <2>8. NoCloseLost'
    BY <2>1, <2>3 DEF SafetyInv, NoCloseLost
  <2>9. CloseTakesEffect'
    <3> DEFINE j == shared.underlyingConnection
    <3> SUFFICES ASSUME shared.currentState = "Disconnecting"
                 PROVE  cconn'[j] = "closing" \/ \E u \in Threads : frame'[u].close = j
      BY <2>2 DEF SafetyInv, CloseTakesEffect
    <3>1. j \in Attempts /\ IsUp(j)
      BY DEF SafetyInv, StateOfAttempt, TypeOK, SharedStates
    <3>2. CASE cconn[j] = "closing" \/ j = k
      BY <2>4, <3>1, <3>2 DEF IsUp
    <3>3. CASE cconn[j] # "closing" /\ j # k
      <4>1. PICK u \in Threads : frame[u].close = j
        BY <3>3 DEF SafetyInv, CloseTakesEffect
      <4> QED
        BY <2>0, <2>3, <3>3, <4>1
    <3> QED
      BY <3>2, <3>3
  <2> QED
    BY <2>5, <2>6, <2>7, <2>8, <2>9 DEF SafetyInv
<1>11. CASE ScheduleClearTask(t)
  <2>1. [frame[t] EXCEPT !.task = FALSE].close = frame[t].close
    BY <1>f DEF Frames
  <2> QED
    BY <1>11, <2>1, QuietSafe
    DEF ScheduleClearTask, CloseDone, FlushDone, CallbacksDone, clibVars
<1>12. CASE DropHandle(t)
  <2>1. [frame[t] EXCEPT !.drop = FALSE].close = frame[t].close
    BY <1>f DEF Frames
  <2> QED
    BY <1>12, <2>1, QuietSafe DEF DropHandle, CloseDone, FlushDone, CallbacksDone, clibVars
<1> QED
  BY <1>1, <1>2, <1>3, <1>4, <1>5, <1>6, <1>7, <1>8, <1>9, <1>10, <1>11, <1>12 DEF Step

(* While a loop handles an event of k, no other thread is in the middle of *)
(* a C call or of a callback about k.                                      *)
LEMMA LoopAlone ==
    ASSUME TypeOK, SafetyInv, NEW l \in Loops, NEW k \in Attempts, OnLoop(l, k), InCLayer(k)
    PROVE  \A u \in Threads : pc[u] \notin {"connect", "send", "protocolError"}
<1> SUFFICES ASSUME NEW u \in Threads PROVE pc[u] \notin {"connect", "send", "protocolError"}
  OBVIOUS
<1>1. pc[l] = "ready" /\ loopOf[k] = l
  BY DEF OnLoop
<1>2. pc[u] # "connect"
  BY DEF SafetyInv, OneAttempt
<1>3. \A j \in Attempts : InCLayer(j) => j = k
  BY DEF SafetyInv, OneAttempt
<1>4. pc[u] # "send"
  <2> SUFFICES ASSUME pc[u] = "send" PROVE FALSE
    OBVIOUS
  <2>1. frame[u].k \in Attempts
    BY DEF TypeOK, ThreadsOK, Frames
  <2> QED
    BY <1>1, <1>3, <2>1 DEF SafetyInv, LoopHolds, InCLayer
<1>5. pc[u] # "protocolError"
  BY <1>1, <1>3 DEF SafetyInv, LoopHolds, InCLayer
<1> QED
  BY <1>2, <1>4, <1>5

LEMMA LoopEventsSafe ==
    ASSUME TypeOK, SafetyInv, NEW l \in Loops, NEW k \in Attempts, LoopEvents(l, k)
    PROVE  SafetyInv'
<1>0. l \in Threads /\ k # 0
  BY NullIsNoAttempt DEF Threads
<1>1. ASSUME OnLoop(l, k), InCLayer(k), cconn' = [cconn EXCEPT ![k] = "gone"],
             NEW e, MoveToDisconnected(l, e)
      PROVE  SafetyInv'
  <2>1. \A j \in Attempts : InCLayer(j) => j = k
    BY <1>1 DEF SafetyInv, OneAttempt
  <2>2. \A j \in Attempts : ~InCLayer(j)'
    BY <1>1, <2>1 DEF TypeOK, InCLayer, IsUp
  <2> QED
    BY <1>0, <1>1, <2>2, LoopAlone, MoveToDisconnectedSafe
<1>2. CASE SetupFails(l, k)
  BY <1>1, <1>2 DEF SetupFails, InCLayer
<1>3. ASSUME NEW code \in ShutdownCodes, ConnectionShutdown(l, k, code) PROVE SafetyInv'
  BY <1>1, <1>3 DEF ConnectionShutdown, InCLayer, IsUp
(* The two outcomes of s_onConnectionSetup that keep the C connection.     *)
<1>4. ASSUME OnLoop(l, k), cconn[k] = "connecting",
             cconn' = [cconn EXCEPT ![k] = "up"], UNCHANGED <<selfReference, loopOf>>,
             shared'.underlyingConnection = k,
             shared'.currentState \in {"PendingConnack", "Connected", "Disconnecting"},
             \A u \in Threads : u # l => pc'[u] = pc[u] /\ frame'[u] = frame[u],
             pc'[l] \in {"send", "ready", "work"},
             pc'[l] = "send" => frame'[l].k = k
      PROVE  OneAttempt' /\ StateOfAttempt' /\ LoopHolds'
  <2>1. \A u \in Threads : pc[u] \notin {"connect", "send", "protocolError"}
    BY <1>4, LoopAlone DEF InCLayer
  <2>2. \A j \in Attempts : InCLayer(j) => j = k
    BY <1>4 DEF SafetyInv, OneAttempt, InCLayer
  <2>3. \A j \in Attempts :
           /\ cconn'[j] = IF j = k THEN "up" ELSE cconn[j]
           /\ InCLayer(j)' <=> j = k
           /\ IsUp(j)' <=> j = k
    BY <1>4, <2>2 DEF TypeOK, InCLayer, IsUp
  <2>4. selfReference'
    BY <1>4 DEF SafetyInv, StateOfAttempt
  <2>5. \A u \in Threads : pc'[u] = "send" => u = l
    BY <1>4, <2>1
  <2>6. OneAttempt'
    BY <1>4, <2>1, <2>3 DEF OneAttempt
  <2>7. StateOfAttempt'
    BY <1>0, <1>4, <2>1, <2>3, <2>4 DEF StateOfAttempt, InCLayer, IsUp
  <2>8. LoopHolds'
    BY <1>4, <2>1, <2>3, <2>5 DEF LoopHolds, OnLoop
  <2> QED
    BY <2>6, <2>7, <2>8
<1>5. CASE SetupAbandoned(l, k)
  <2> DEFINE f == [NoWork EXCEPT !.close = k]
  <2>1. f.close = k
    BY DEF NoWork
  <2>2. Continue(l, f) /\ pc[l] = "ready"
    BY <1>5 DEF SetupAbandoned, OnLoop
  <2> HIDE DEF f
  <2>3. /\ pc'[l] = IF f = NoWork THEN "ready" ELSE "work"
        /\ frame'[l] = f
        /\ \A u \in Threads : u # l => pc'[u] = pc[u] /\ frame'[u] = frame[u]
    BY <1>0, <2>2, ContinueEffect
  <2>4. shared'.underlyingConnection = k /\ shared'.currentState = "Disconnecting"
    BY <1>5 DEF SetupAbandoned, TypeOK, SharedStates
  <2>5. OneAttempt' /\ StateOfAttempt' /\ LoopHolds'
    BY <1>4, <1>5, <2>3, <2>4 DEF SetupAbandoned
  <2>6. NoCloseLost'
    BY <1>0, <2>1, <2>3 DEF SafetyInv, NoCloseLost, NoWork
  <2>7. CloseTakesEffect'
    BY <1>0, <2>1, <2>3, <2>4 DEF CloseTakesEffect
  <2> QED
    BY <2>5, <2>6, <2>7 DEF SafetyInv
<1>6. CASE SetupSucceeds(l, k)
  <2> DEFINE f == [NoWork EXCEPT !.k = k]
  <2>1. f.close = 0 /\ f.k = k
    BY DEF NoWork
  <2>2. Goto(l, "send", f)
    BY <1>6 DEF SetupSucceeds
  <2> HIDE DEF f
  <2>3. /\ pc'[l] = "send" /\ frame'[l] = f
        /\ \A u \in Threads : u # l => pc'[u] = pc[u] /\ frame'[u] = frame[u]
    BY <1>0, <2>2, GotoEffect
  <2>4. /\ shared'.underlyingConnection = k /\ shared'.currentState = "PendingConnack"
        /\ shared'.desiredState = "Connected"
    BY <1>6 DEF SetupSucceeds, ClosedMeanwhile, TypeOK, SharedStates
  <2>5. OneAttempt' /\ StateOfAttempt' /\ LoopHolds'
    BY <1>4, <1>6, <2>1, <2>3, <2>4 DEF SetupSucceeds
  <2>6. NoCloseLost'
    BY <2>1, <2>3 DEF SafetyInv, NoCloseLost
  <2>7. CloseTakesEffect'
    BY <2>4 DEF CloseTakesEffect
  <2> QED
    BY <2>5, <2>6, <2>7 DEF SafetyInv
(* Messages arrive while the C connection is shared state's.               *)
<1>7. ASSUME Receives(l, k)
      PROVE  /\ shared.underlyingConnection = k /\ pc[l] = "ready" /\ frame[l].close = 0
             /\ shared.currentState \notin {"Disconnected", "PendingConnect"}
             /\ \A u \in Threads : pc[u] # "connect"
             /\ \A j \in Attempts : cconn[j] # "connecting"
  <2>1. IsUp(k) /\ pc[l] = "ready"
    BY <1>7 DEF Receives, OnLoop, IsUp
  <2>2. frame[l].close = 0
    BY <1>0, <2>1 DEF SafetyInv, NoCloseLost
  <2>3. shared.underlyingConnection = k
    BY <2>1 DEF SafetyInv, StateOfAttempt
  <2>4. shared.currentState \notin {"Disconnected", "PendingConnect"}
    BY <1>0, <2>3 DEF SafetyInv, StateOfAttempt
  <2> QED
    BY <2>1, <2>2, <2>3, <2>4 DEF SafetyInv, OneAttempt, StateOfAttempt, InCLayer
<1>8. CASE ConnackAccepted(l, k)
  <2> DEFINE f == [NoWork EXCEPT !.ctx = ConnectedContext(shared.callbackContext)]
  <2>1. f.close = 0
    BY DEF NoWork
  <2>2. Continue(l, f) /\ Receives(l, k) /\ shared.currentState = "PendingConnack"
    BY <1>8 DEF ConnackAccepted, AwaitsConnack
  <2> HIDE DEF f
  <2>3. /\ pc'[l] \in {"ready", "work"} /\ frame'[l] = f
        /\ \A u \in Threads : u # l => pc'[u] = pc[u] /\ frame'[u] = frame[u]
    BY <1>0, <2>2, ContinueEffect
  <2>4. /\ shared'.currentState = "Connected"
        /\ shared'.underlyingConnection = shared.underlyingConnection
        /\ shared'.desiredState = shared.desiredState
        /\ UNCHANGED <<selfReference, cconn, loopOf>>
    BY <1>8 DEF ConnackAccepted, clibVars, TypeOK, SharedStates
  <2>5. OneAttempt' /\ LoopHolds'
    BY <1>7, <2>2, <2>3, <2>4 DEF SafetyInv, OneAttempt, LoopHolds, InCLayer, IsUp
  <2>6. StateOfAttempt'
    BY <1>7, <2>2, <2>3, <2>4 DEF SafetyInv, StateOfAttempt, IsUp
  <2>7. NoCloseLost'
    BY <2>1, <2>3 DEF SafetyInv, NoCloseLost
  <2>8. CloseTakesEffect'
    BY <2>2, <2>4 DEF SafetyInv, CloseTakesEffect
  <2> QED
    BY <2>5, <2>6, <2>7, <2>8 DEF SafetyInv
<1>9. ASSUME NEW ok \in BOOLEAN, ConnackRefused(l, k, ok) PROVE SafetyInv'
  <2> DEFINE closing == shared.currentState # "Disconnecting"
             f == [NoWork EXCEPT !.close = IF closing THEN k ELSE 0]
  <2>1. f.close = IF closing THEN k ELSE 0
    BY DEF NoWork
  <2>2. Continue(l, f) /\ Receives(l, k)
    BY <1>9 DEF ConnackRefused
  <2> HIDE DEF f
  <2>3. /\ pc'[l] = IF f = NoWork THEN "ready" ELSE "work"
        /\ frame'[l] = f
        /\ \A u \in Threads : u # l => pc'[u] = pc[u] /\ frame'[u] = frame[u]
    BY <1>0, <2>2, ContinueEffect
  <2>4. /\ shared'.currentState = "Disconnecting"
        /\ shared'.underlyingConnection = shared.underlyingConnection
        /\ UNCHANGED <<selfReference, cconn, loopOf>>
    BY <1>9 DEF ConnackRefused, TypeOK, SharedStates
  <2>5. OneAttempt' /\ LoopHolds'
    BY <1>7, <2>2, <2>3, <2>4 DEF SafetyInv, OneAttempt, LoopHolds, InCLayer, IsUp
  <2>6. StateOfAttempt'
    BY <1>7, <2>2, <2>3, <2>4 DEF SafetyInv, StateOfAttempt, IsUp
  <2>7. NoCloseLost'
    BY <1>0, <2>1, <2>3 DEF SafetyInv, NoCloseLost, NoWork
  <2>8. CloseTakesEffect'
    <3>1. CASE closing
      BY <1>0, <1>7, <2>1, <2>2, <2>3, <2>4, <3>1 DEF CloseTakesEffect
    <3>2. CASE ~closing
      <4>1. \A u \in Threads : frame[u].close = k => frame'[u].close = k
        BY <1>0, <1>7, <2>2, <2>3
      <4> QED
        BY <1>7, <2>2, <2>4, <3>2, <4>1 DEF SafetyInv, CloseTakesEffect
    <3> QED
      BY <3>1, <3>2
  <2> QED
    BY <2>5, <2>6, <2>7, <2>8 DEF SafetyInv
<1>10. CASE Ping(l, k)
  BY <1>10
  DEF Ping, sdkVars, threadVars, clibVars, SafetyInv, OneAttempt, StateOfAttempt, LoopHolds,
      NoCloseLost, CloseTakesEffect, InCLayer, IsUp
<1>11. CASE UnknownMessage(l, k)
  <2>1. Receives(l, k) /\ UNCHANGED <<shared, selfReference, cconn, loopOf>>
    BY <1>11 DEF UnknownMessage, sdkVars, clibVars
  <2>2. /\ pc'[l] = "protocolError" /\ frame'[l] = NoWork
        /\ \A u \in Threads : u # l => pc'[u] = pc[u] /\ frame'[u] = frame[u]
    BY <1>0, <1>11, GotoEffect DEF UnknownMessage
  <2>3. OneAttempt' /\ StateOfAttempt'
    BY <2>1, <2>2 DEF SafetyInv, OneAttempt, StateOfAttempt, InCLayer, IsUp
  <2>4. LoopHolds'
    <3>1. IsUp(k)' /\ loopOf'[k] = l
      BY <2>1 DEF Receives, OnLoop, IsUp
    <3> QED
      BY <2>1, <2>2, <3>1 DEF SafetyInv, LoopHolds, IsUp
  <2>5. NoCloseLost'
    BY <2>2 DEF SafetyInv, NoCloseLost, NoWork
  <2>6. CloseTakesEffect'
    <3>1. \A u \in Threads : frame[u].close = k => frame'[u].close = k
      BY <1>0, <1>7, <2>1, <2>2
    <3> QED
      BY <1>7, <2>1, <3>1 DEF SafetyInv, CloseTakesEffect
  <2> QED
    BY <2>3, <2>4, <2>5, <2>6 DEF SafetyInv
<1>12. CASE ConnectFlushed(l, k)
  <2> DEFINE f == [NoWork EXCEPT !.flush = k]
  <2>1. f.close = frame[l].close
    BY <1>0, <1>12 DEF ConnectFlushed, OnLoop, NoWork, SafetyInv, NoCloseLost
  <2>2. Continue(l, f)
    BY <1>12 DEF ConnectFlushed
  <2> HIDE DEF f
  <2> QED
    BY <1>0, <1>12, <2>1, <2>2, QuietSafe DEF ConnectFlushed, OnLoop, sdkVars
<1> QED
  BY <1>2, <1>3, <1>5, <1>6, <1>8, <1>9, <1>10, <1>11, <1>12
  DEF LoopEvents, SetupCompletes, ShutdownCompletes, Messages

LEMMA SafetyInvInductive ==
    ASSUME TypeOK, SafetyInv, [Next]_vars PROVE SafetyInv'
<1>1. CASE UNCHANGED vars
  BY <1>1
  DEF vars, sdkVars, threadVars, clibVars, SafetyInv, OneAttempt, StateOfAttempt, LoopHolds,
      NoCloseLost, CloseTakesEffect, InCLayer, IsUp
<1>2. ASSUME NEW t \in AppThreads, AppCalls(t) PROVE SafetyInv'
  BY <1>2, AppCallsSafe
<1>3. ASSUME NEW t \in Threads, Step(t) PROVE SafetyInv'
  BY <1>3, StepSafe
<1>4. ASSUME NEW l \in Loops, NEW k \in Attempts, LoopEvents(l, k) PROVE SafetyInv'
  BY <1>4, LoopEventsSafe
<1>5. ASSUME NEW k \in Attempts, PeerCloses(k) PROVE SafetyInv'
  <2>1. UNCHANGED <<shared, selfReference, pc, frame, loopOf>>
    BY <1>5 DEF PeerCloses, sdkVars, threadVars
  <2>2. \A j \in Attempts :
           /\ cconn'[j] = IF j = k THEN "closing" ELSE cconn[j]
           /\ InCLayer(j)' <=> InCLayer(j)
           /\ IsUp(j)' <=> IsUp(j)
    BY <1>5 DEF PeerCloses, TypeOK, InCLayer, IsUp
  <2>3. OneAttempt'
    BY <2>1, <2>2 DEF SafetyInv, OneAttempt
  <2>4. shared.underlyingConnection \in Attempts \cup {0}
    BY DEF TypeOK, SharedStates
  <2>5. StateOfAttempt'
    BY <1>5, <2>1, <2>2, <2>4 DEF PeerCloses, SafetyInv, StateOfAttempt
  <2>6. LoopHolds'
    <3>1. \A u \in Threads : pc[u] = "send" => frame[u].k \in Attempts
      BY DEF TypeOK, ThreadsOK, Frames
    <3> QED
      BY <2>1, <2>2, <3>1 DEF SafetyInv, LoopHolds
  <2>7. NoCloseLost'
    BY <2>1 DEF SafetyInv, NoCloseLost
  <2>8. CloseTakesEffect'
    <3>1. shared.currentState = "Disconnecting" => shared.underlyingConnection # 0
      BY DEF SafetyInv, StateOfAttempt
    <3> QED
      BY <2>1, <2>2, <2>4, <3>1 DEF SafetyInv, CloseTakesEffect
  <2> QED
    BY <2>3, <2>5, <2>6, <2>7, <2>8 DEF SafetyInv
<1>6. CASE RunClearTask
  BY <1>6
  DEF RunClearTask, threadVars, clibVars, SafetyInv, OneAttempt, StateOfAttempt, LoopHolds,
      NoCloseLost, CloseTakesEffect, InCLayer, IsUp
<1> QED
  BY <1>1, <1>2, <1>3, <1>4, <1>5, <1>6 DEF Next, Terminated

LEMMA SafetyInvHolds == Spec => []SafetyInv
<1>1. Init => SafetyInv
  BY NullIsNoAttempt
  DEF Init, SafetyInv, OneAttempt, StateOfAttempt, LoopHolds, NoCloseLost, CloseTakesEffect,
      InCLayer, IsUp, NoWork
<1>2. TypeOK /\ SafetyInv /\ [Next]_vars => SafetyInv'
  BY SafetyInvInductive
<1> QED
  BY <1>1, <1>2, TypeCorrect, PTL DEF Spec

-----------------------------------------------------------------------------
(* The AWS_FATAL_ASSERTs of s_onConnectionSetup hold: while the C library  *)
(* works on a connect, nothing any thread does alters PendingConnect or    *)
(* the flush container, and no other attempt is on its way.                *)
THEOREM SetupAssertionsHold == Spec => []SetupAssertions
<1>1. TypeOK /\ SafetyInv => SetupAssertions
  BY DEF SafetyInv, OneAttempt, StateOfAttempt, InCLayer, IsUp, SetupAssertions, TypeOK
<1> QED
  BY <1>1, SafetyInvHolds, TypeCorrect, PTL

(* m_sharedState.m_underlyingConnection is a C connection the library has  *)
(* not shut down, in exactly the states that say there is one.             *)
THEOREM UnderlyingCoherentHolds == Spec => []UnderlyingCoherent
<1>1. TypeOK /\ SafetyInv => UnderlyingCoherent
  BY DEF SafetyInv, StateOfAttempt, IsUp, UnderlyingCoherent, TypeOK, SharedStates, ClientStates
<1> QED
  BY <1>1, SafetyInvHolds, TypeCorrect, PTL

(* A Close is never lost, whichever callback of the event loop it races.   *)
THEOREM CloseTakesEffectHolds == Spec => []CloseTakesEffect
<1>1. SafetyInv => CloseTakesEffect
  BY DEF SafetyInv
<1> QED
  BY <1>1, SafetyInvHolds, PTL

(* The C library's raw pointer to the impl never dangles: the impl object  *)
(* lives while a C connection may call back and while a thread has to come *)
(* back to it.                                                             *)
THEOREM ImplOutlivesCLayerHolds == Spec => []ImplOutlivesCLayer
<1>1. TypeOK /\ SafetyInv => ImplOutlivesCLayer
  <2> SUFFICES ASSUME TypeOK, SafetyInv PROVE ImplOutlivesCLayer
    OBVIOUS
  <2>1. \A k \in Attempts : InCLayer(k) => selfReference
    BY NullIsNoAttempt DEF SafetyInv, StateOfAttempt, InCLayer
  <2>2. \A t \in Threads : pc[t] = "send" => frame[t].k \in Attempts
    BY DEF TypeOK, ThreadsOK, Frames
  <2>3. \A t \in Threads : pc[t] \in {"connect", "send", "protocolError"} => selfReference
    BY <2>1, <2>2 DEF SafetyInv, StateOfAttempt, LoopHolds, InCLayer
  <2> QED
    BY <2>1, <2>3 DEF ImplOutlivesCLayer, Alive, InCLayer, IsUp
<1> QED
  BY <1>1, SafetyInvHolds, TypeCorrect, PTL

-----------------------------------------------------------------------------
(* What each kind of step does to the thread that takes it.                *)

Others(t) == \A u \in Threads : u # t => pc'[u] = pc[u] /\ frame'[u] = frame[u]

LEMMA NoWorkFields ==
    /\ NoWork.ctx = NoContext /\ NoWork.flush = 0 /\ NoWork.flushCb = 0
    /\ NoWork.close = 0 /\ NoWork.k = 0
BY DEF NoWork

LEMMA GotoFrame ==
    ASSUME TypeOK, NEW t \in Threads, NEW l, NEW f, Goto(t, l, f)
    PROVE  Others(t) /\ pc'[t] = l /\ frame'[t] = f
BY GotoEffect DEF Others

LEMMA ContinueFrame ==
    ASSUME TypeOK, NEW t \in Threads, NEW f, Continue(t, f)
    PROVE  /\ Others(t) /\ pc'[t] \in {"ready", "work"} /\ frame'[t] = f
           /\ pc'[t] = "ready" => f = NoWork
BY ContinueEffect DEF Others

LEMMA MoveToDisconnectedEffect ==
    ASSUME TypeOK, NEW t \in Threads, NEW e, MoveToDisconnected(t, e)
    PROVE  /\ Others(t) /\ pc'[t] \in {"ready", "work"}
           /\ frame'[t].ctx = IF shared.hasShutDown THEN NoContext
                              ELSE Work(SetError(shared.callbackContext, e))
           /\ frame'[t].flush = 0 /\ frame'[t].flushCb = 0 /\ frame'[t].close = 0
           /\ shared' = Reset(shared)
           /\ shared'.underlyingConnection = 0 /\ shared'.connectFlushContainer = 0
           /\ shared'.callbackContext = NoContext
           /\ shared'.hasShutDown = shared.hasShutDown
           /\ \A j \in Attempts : refs'[j] = IF j = shared.underlyingConnection
                                             THEN refs[j] - 1 ELSE refs[j]
<1> DEFINE f == [NoWork EXCEPT
                   !.ctx = IF shared.hasShutDown THEN NoContext
                           ELSE Work(SetError(shared.callbackContext, e)),
                   !.task = TRUE]
<1>1. /\ f.ctx = IF shared.hasShutDown THEN NoContext
                 ELSE Work(SetError(shared.callbackContext, e))
      /\ f.flush = 0 /\ f.flushCb = 0 /\ f.close = 0
  BY DEF NoWork
<1>2. Continue(t, f)
  BY DEF MoveToDisconnected
<1> HIDE DEF f
<1>3. Others(t) /\ pc'[t] \in {"ready", "work"} /\ frame'[t] = f
  BY <1>2, ContinueFrame
<1>4. /\ shared' = Reset(shared)
      /\ shared'.underlyingConnection = 0 /\ shared'.connectFlushContainer = 0
      /\ shared'.callbackContext = NoContext
      /\ shared'.hasShutDown = shared.hasShutDown
  BY DEF MoveToDisconnected, Reset, TypeOK, SharedStates
<1>5. \A j \in Attempts : refs'[j] = IF j = shared.underlyingConnection
                                     THEN refs[j] - 1 ELSE refs[j]
  BY DEF MoveToDisconnected
<1> QED
  BY <1>1, <1>3, <1>4, <1>5

LEMMA CloseInternalEffect ==
    ASSUME TypeOK, NEW t \in Threads, NEW isShutdown \in BOOLEAN, CloseInternal(t, isShutdown)
    PROVE  LET closing == shared.currentState \in Closable
               ctx == SetError(shared.callbackContext, Closed)
               u == shared.underlyingConnection
           IN  /\ Others(t) /\ pc'[t] \in {"ready", "work"}
               /\ frame'[t].ctx = IF isShutdown THEN Work(ctx) ELSE NoContext
               /\ frame'[t].flush = IF isShutdown THEN shared.connectFlushContainer ELSE 0
               /\ frame'[t].flushCb = 0
               /\ frame'[t].close = IF closing THEN u ELSE 0
               /\ shared'.underlyingConnection = u
               /\ shared'.connectFlushContainer =
                    IF isShutdown THEN 0 ELSE shared.connectFlushContainer
               /\ shared'.callbackContext = IF isShutdown THEN NoContext ELSE ctx
               /\ shared'.hasShutDown <=> (shared.hasShutDown \/ isShutdown)
               /\ \A j \in Attempts : refs'[j] = IF closing /\ j = u THEN refs[j] + 1 ELSE refs[j]
<1> DEFINE closing == shared.currentState \in Closable
           ctx == SetError(shared.callbackContext, Closed)
           u == shared.underlyingConnection
           f == [NoWork EXCEPT
                  !.ctx = IF isShutdown THEN Work(ctx) ELSE NoContext,
                  !.flush = IF isShutdown THEN shared.connectFlushContainer ELSE 0,
                  !.close = IF closing THEN u ELSE 0,
                  !.drop = isShutdown]
<1>1. /\ f.ctx = IF isShutdown THEN Work(ctx) ELSE NoContext
      /\ f.flush = IF isShutdown THEN shared.connectFlushContainer ELSE 0
      /\ f.flushCb = 0 /\ f.close = IF closing THEN u ELSE 0
  BY DEF NoWork
<1>2. Continue(t, f)
  BY DEF CloseInternal
<1> HIDE DEF f
<1>3. Others(t) /\ pc'[t] \in {"ready", "work"} /\ frame'[t] = f
  BY <1>2, ContinueFrame
<1>4. /\ shared'.underlyingConnection = u
      /\ shared'.connectFlushContainer = IF isShutdown THEN 0 ELSE shared.connectFlushContainer
      /\ shared'.callbackContext = IF isShutdown THEN NoContext ELSE ctx
      /\ shared'.hasShutDown <=> (shared.hasShutDown \/ isShutdown)
  BY DEF CloseInternal, TypeOK, SharedStates
<1>5. \A j \in Attempts : refs'[j] = IF closing /\ j = u THEN refs[j] + 1 ELSE refs[j]
  BY DEF CloseInternal
<1> QED
  BY <1>1, <1>3, <1>4, <1>5

(* The steps of a thread's remaining work change one part of it each.      *)
Works(t) ==
    \/ InvokeCallback(t) \/ SetConnectPromise(t) \/ CompleteFlush(t) \/ InvokeFlushCallback(t)
    \/ CloseConnection(t) \/ ScheduleClearTask(t) \/ DropHandle(t)

LEMMA WorksEffect ==
    ASSUME TypeOK, NEW t \in Threads, Works(t)
    PROVE  /\ Others(t) /\ pc[t] = "work" /\ pc'[t] \in {"ready", "work"}
           /\ UNCHANGED <<shared, loopOf, queued, accepted, calls>>
           /\ frame'[t].k = frame[t].k
           /\ ~(InvokeCallback(t) \/ SetConnectPromise(t)) => frame'[t].ctx = frame[t].ctx
           /\ ~CompleteFlush(t) => frame'[t].flush = frame[t].flush
           /\ ~(CompleteFlush(t) \/ InvokeFlushCallback(t)) => frame'[t].flushCb = frame[t].flushCb
           /\ ~CloseConnection(t) => frame'[t].close = frame[t].close
<1>f. frame[t] \in Frames
  BY DEF TypeOK, ThreadsOK
<1>1. CASE InvokeCallback(t)
  <2> DEFINE f == [frame[t] EXCEPT !.ctx =
                     IF @.action = "CompleteConnectPromise"
                     THEN [@ EXCEPT !.action = "SetConnectPromise"] ELSE NoContext]
  <2>1. f.k = frame[t].k /\ f.flush = frame[t].flush /\ f.flushCb = frame[t].flushCb
        /\ f.close = frame[t].close
    BY <1>f DEF Frames
  <2>2. Continue(t, f) /\ pc[t] = "work"
    BY <1>1, <1>f DEF InvokeCallback, Frames
  <2> HIDE DEF f
  <2> QED
    BY <1>1, <2>1, <2>2, ContinueFrame DEF InvokeCallback, sdkVars, clibVars, promiseVars
<1>2. CASE SetConnectPromise(t)
  <2> DEFINE f == [frame[t] EXCEPT !.ctx = NoContext]
  <2>1. f.k = frame[t].k /\ f.flush = frame[t].flush /\ f.flushCb = frame[t].flushCb
        /\ f.close = frame[t].close
    BY <1>f DEF Frames
  <2>2. Continue(t, f) /\ pc[t] = "work"
    BY <1>2 DEF SetConnectPromise
  <2> HIDE DEF f
  <2> QED
    BY <1>2, <2>1, <2>2, ContinueFrame DEF SetConnectPromise, sdkVars, clibVars, historyVars
<1>3. CASE CompleteFlush(t)
  <2> DEFINE f == [frame[t] EXCEPT
                     !.flush = 0,
                     !.flushCb = IF Wins(frame[t].flush) THEN frame[t].flush ELSE 0]
  <2>1. f.k = frame[t].k /\ f.ctx = frame[t].ctx /\ f.close = frame[t].close
    BY <1>f DEF Frames
  <2>2. Continue(t, f) /\ pc[t] = "work"
    BY <1>3 DEF CompleteFlush, CallbacksDone
  <2> HIDE DEF f
  <2> QED
    BY <1>3, <2>1, <2>2, ContinueFrame
    DEF CompleteFlush, sdkVars, clibVars, promiseVars, historyVars
<1>4. CASE InvokeFlushCallback(t)
  <2> DEFINE f == [frame[t] EXCEPT !.flushCb = 0]
  <2>1. f.k = frame[t].k /\ f.ctx = frame[t].ctx /\ f.flush = frame[t].flush
        /\ f.close = frame[t].close
    BY <1>f DEF Frames
  <2>2. Continue(t, f) /\ pc[t] = "work"
    BY <1>4 DEF InvokeFlushCallback, CallbacksDone
  <2> HIDE DEF f
  <2> QED
    BY <1>4, <2>1, <2>2, ContinueFrame DEF InvokeFlushCallback, sdkVars, clibVars, promiseVars
<1>5. CASE CloseConnection(t)
  <2> DEFINE f == [frame[t] EXCEPT !.close = 0]
  <2>1. f.k = frame[t].k /\ f.ctx = frame[t].ctx /\ f.flush = frame[t].flush
        /\ f.flushCb = frame[t].flushCb
    BY <1>f DEF Frames
  <2>2. Continue(t, f) /\ pc[t] = "work"
    BY <1>5 DEF CloseConnection, FlushDone, CallbacksDone
  <2> HIDE DEF f
  <2> QED
    BY <1>5, <2>1, <2>2, ContinueFrame DEF CloseConnection, sdkVars, promiseVars, historyVars
<1>6. CASE ScheduleClearTask(t)
  <2> DEFINE f == [frame[t] EXCEPT !.task = FALSE]
  <2>1. f.k = frame[t].k /\ f.ctx = frame[t].ctx /\ f.flush = frame[t].flush
        /\ f.flushCb = frame[t].flushCb /\ f.close = frame[t].close
    BY <1>f DEF Frames
  <2>2. Continue(t, f) /\ pc[t] = "work"
    BY <1>6 DEF ScheduleClearTask, CloseDone, FlushDone, CallbacksDone
  <2> HIDE DEF f
  <2> QED
    BY <1>6, <2>1, <2>2, ContinueFrame DEF ScheduleClearTask, clibVars, promiseVars, historyVars
<1>7. CASE DropHandle(t)
  <2> DEFINE f == [frame[t] EXCEPT !.drop = FALSE]
  <2>1. f.k = frame[t].k /\ f.ctx = frame[t].ctx /\ f.flush = frame[t].flush
        /\ f.flushCb = frame[t].flushCb /\ f.close = frame[t].close
    BY <1>f DEF Frames
  <2>2. Continue(t, f) /\ pc[t] = "work"
    BY <1>7 DEF DropHandle, CloseDone, FlushDone, CallbacksDone
  <2> HIDE DEF f
  <2> QED
    BY <1>7, <2>1, <2>2, ContinueFrame DEF DropHandle, clibVars, promiseVars, historyVars
<1> QED
  BY <1>1, <1>2, <1>3, <1>4, <1>5, <1>6, <1>7 DEF Works

-----------------------------------------------------------------------------
(* Counting the references to a C connection, thread by thread.            *)

LEMMA OneMemberChanges ==
    ASSUME NEW A \in SUBSET Threads, NEW B \in SUBSET Threads, NEW t \in Threads,
           \A u \in Threads \ {t} : u \in A <=> u \in B
    PROVE  /\ Cardinality(A) \in Nat /\ Cardinality(B) \in Nat
           /\ Cardinality(B) = Cardinality(A) + (IF t \in B THEN 1 ELSE 0)
                                              - (IF t \in A THEN 1 ELSE 0)
<1>0. IsFiniteSet(Threads)
  BY ConnectionAssumption, FS_Union DEF Threads
<1>1. IsFiniteSet(A) /\ IsFiniteSet(B)
  BY <1>0, FS_Subset
<1>2. Cardinality(A) \in Nat /\ Cardinality(B) \in Nat
  BY <1>1, FS_CardinalityType
<1>3. A \ {t} = B \ {t}
  OBVIOUS
<1>4. /\ Cardinality(A \ {t}) = IF t \in A THEN Cardinality(A) - 1 ELSE Cardinality(A)
      /\ Cardinality(B \ {t}) = IF t \in B THEN Cardinality(B) - 1 ELSE Cardinality(B)
  BY <1>1, FS_RemoveElement
<1> QED
  BY <1>2, <1>3, <1>4

One(b) == IF b THEN 1 ELSE 0
Closers(k) == {t \in Threads : frame[t].close = k}
Senders(k) == {t \in Threads : pc[t] = "send" /\ frame[t].k = k}
Own(t, k) == One(frame[t].close = k) + One(pc[t] = "send" /\ frame[t].k = k)
Balanced(k) ==
    refs[k] = One(shared.underlyingConnection = k) + Cardinality(Closers(k))
              + Cardinality(Senders(k))

LEMMA BalancedMeaning == ReferencesBalanced <=> \A k \in Attempts : Balanced(k)
BY DEF ReferencesBalanced, Balanced, One, Closers, Senders

(* A step of one thread changes only that thread's part.                   *)
LEMMA BalanceStep ==
    ASSUME TypeOK, TypeOK', ReferencesBalanced, NEW t \in Threads, Others(t),
           \A k \in Attempts :
              refs'[k] + One(shared.underlyingConnection = k) + Own(t, k)
                = refs[k] + One(shared'.underlyingConnection = k) + Own(t, k)'
    PROVE  ReferencesBalanced'
<1>1. SUFFICES ASSUME NEW k \in Attempts PROVE Balanced(k)'
  <2>1. ReferencesBalanced' <=> (\A k \in Attempts : Balanced(k))'
    BY BalancedMeaning, PTL
  <2> QED
    BY <2>1
<1>2. \A b : One(b) \in {0, 1}
  BY DEF One
<1>3. /\ Cardinality(Closers(k)) \in Nat /\ Cardinality(Closers(k)') \in Nat
      /\ Cardinality(Closers(k)') = Cardinality(Closers(k)) + One(frame'[t].close = k)
                                                            - One(frame[t].close = k)
  <2>1. /\ Closers(k) \in SUBSET Threads /\ Closers(k)' \in SUBSET Threads
        /\ \A u \in Threads \ {t} : u \in Closers(k) <=> u \in Closers(k)'
        /\ t \in Closers(k) <=> frame[t].close = k
        /\ t \in Closers(k)' <=> frame'[t].close = k
    BY DEF Closers, Others
  <2> QED
    BY <2>1, OneMemberChanges DEF One
<1>4. /\ Cardinality(Senders(k)) \in Nat /\ Cardinality(Senders(k)') \in Nat
      /\ Cardinality(Senders(k)') = Cardinality(Senders(k))
                                    + One(pc'[t] = "send" /\ frame'[t].k = k)
                                    - One(pc[t] = "send" /\ frame[t].k = k)
  <2>1. /\ Senders(k) \in SUBSET Threads /\ Senders(k)' \in SUBSET Threads
        /\ \A u \in Threads \ {t} : u \in Senders(k) <=> u \in Senders(k)'
        /\ t \in Senders(k) <=> pc[t] = "send" /\ frame[t].k = k
        /\ t \in Senders(k)' <=> pc'[t] = "send" /\ frame'[t].k = k
    BY DEF Senders, Others
  <2> QED
    BY <2>1, OneMemberChanges DEF One
<1>5. refs[k] \in Int /\ refs'[k] \in Int
  BY DEF TypeOK
<1>6. refs[k] = One(shared.underlyingConnection = k) + Cardinality(Closers(k))
                + Cardinality(Senders(k))
  BY BalancedMeaning DEF Balanced
<1>7. /\ Own(t, k) = One(frame[t].close = k) + One(pc[t] = "send" /\ frame[t].k = k)
      /\ Own(t, k)' = One(frame'[t].close = k) + One(pc'[t] = "send" /\ frame'[t].k = k)
  BY DEF Own
<1>8. refs'[k] + One(shared.underlyingConnection = k) + Own(t, k)
        = refs[k] + One(shared'.underlyingConnection = k) + Own(t, k)'
  OBVIOUS
<1>9. refs'[k] = One(shared'.underlyingConnection = k) + Cardinality(Closers(k)')
                 + Cardinality(Senders(k)')
  BY <1>2, <1>3, <1>4, <1>5, <1>6, <1>7, <1>8
<1>10. Balanced(k)' <=>
         refs'[k] = One(shared'.underlyingConnection = k) + Cardinality(Closers(k)')
                    + Cardinality(Senders(k)')
  BY DEF Balanced, One
<1> QED
  BY <1>9, <1>10

(* What a thread owns: nothing between two pieces of work, the connection  *)
(* it is about to close, or the one it is about to send on.                *)
LEMMA OwnIs ==
    ASSUME NEW t \in Threads, NEW k \in Attempts
    PROVE  /\ pc[t] # "send" => Own(t, k) = One(frame[t].close = k)
           /\ pc'[t] # "send" => Own(t, k)' = One(frame'[t].close = k)
           /\ frame[t].close = 0 /\ pc[t] = "send" => Own(t, k) = One(frame[t].k = k)
           /\ frame'[t].close = 0 /\ pc'[t] = "send" => Own(t, k)' = One(frame'[t].k = k)
           /\ One(0 = k) = 0
BY NullIsNoAttempt DEF Own, One

(* A step that takes no reference and drops none.                          *)
LEMMA QuietBalance ==
    ASSUME TypeOK, TypeOK', ReferencesBalanced, NEW t \in Threads, Others(t),
           pc[t] # "send", pc'[t] # "send", frame'[t].close = frame[t].close,
           UNCHANGED refs, shared'.underlyingConnection = shared.underlyingConnection
    PROVE  ReferencesBalanced'
<1>1. \A k \in Attempts : Own(t, k)' = Own(t, k)
  BY OwnIs
<1> QED
  BY <1>1, BalanceStep

LEMMA MoveToDisconnectedBalance ==
    ASSUME TypeOK, TypeOK', SafetyInv, ReferencesBalanced, NEW t \in Threads, NEW e,
           MoveToDisconnected(t, e), pc[t] \notin {"send", "work"}
    PROVE  ReferencesBalanced'
<1>1. /\ Others(t) /\ pc'[t] # "send" /\ frame'[t].close = 0
      /\ shared'.underlyingConnection = 0
      /\ \A j \in Attempts : refs'[j] = IF j = shared.underlyingConnection
                                        THEN refs[j] - 1 ELSE refs[j]
  BY MoveToDisconnectedEffect
<1>2. frame[t].close = 0
  BY DEF SafetyInv, NoCloseLost
<1>3. \A k \in Attempts : Own(t, k) = 0 /\ Own(t, k)' = 0
  BY <1>1, <1>2, OwnIs
<1>4. ASSUME NEW k \in Attempts
      PROVE  refs'[k] + One(shared.underlyingConnection = k) + Own(t, k)
               = refs[k] + One(shared'.underlyingConnection = k) + Own(t, k)'
  <2>1. refs[k] \in Int /\ One(shared'.underlyingConnection = k) = 0
    BY <1>1, OwnIs DEF TypeOK
  <2> QED
    BY <1>1, <1>3, <2>1 DEF One
<1> QED
  BY <1>1, <1>4, BalanceStep

LEMMA CloseInternalBalance ==
    ASSUME TypeOK, TypeOK', SafetyInv, ReferencesBalanced, NEW t \in Threads,
           NEW isShutdown \in BOOLEAN, CloseInternal(t, isShutdown), pc[t] \notin {"send", "work"}
    PROVE  ReferencesBalanced'
<1> DEFINE closing == shared.currentState \in Closable
           u == shared.underlyingConnection
<1>1. /\ Others(t) /\ pc'[t] # "send" /\ frame'[t].close = IF closing THEN u ELSE 0
      /\ shared'.underlyingConnection = u
      /\ \A j \in Attempts : refs'[j] = IF closing /\ j = u THEN refs[j] + 1 ELSE refs[j]
  BY CloseInternalEffect
<1>2. frame[t].close = 0
  BY DEF SafetyInv, NoCloseLost
<1> HIDE DEF closing, u
<1>3. ASSUME NEW k \in Attempts
      PROVE  refs'[k] + One(u = k) + Own(t, k) = refs[k] + One(u = k) + Own(t, k)'
  <2>1. refs[k] \in Int /\ One(u = k) \in {0, 1} /\ Own(t, k) = 0 /\ k # 0
    BY <1>2, OwnIs, NullIsNoAttempt DEF TypeOK, One
  <2>2. Own(t, k)' = One(frame'[t].close = k)
    BY <1>1, OwnIs
  <2> QED
    BY <1>1, <2>1, <2>2 DEF One
<1> QED
  BY <1>1, <1>3, BalanceStep DEF u

(* Sending CONNECT: the reference held for it is released, or becomes the  *)
(* one the close releases.                                                 *)
LEMMA SendBalance ==
    ASSUME TypeOK, TypeOK', SafetyInv, ReferencesBalanced, NEW t \in Threads,
           SendConnect(t) \/ SendConnectFails(t)
    PROVE  ReferencesBalanced'
<1>1. frame[t].close = 0 /\ pc[t] = "send"
  BY DEF SendConnect, SendConnectFails, SafetyInv, NoCloseLost
<1>2. \A k \in Attempts : refs[k] \in Int /\ Own(t, k) = One(frame[t].k = k)
  BY <1>1, OwnIs DEF TypeOK
<1>3. CASE SendConnect(t)
  <2>1. Others(t) /\ pc'[t] # "send" /\ frame'[t].close = 0
    BY <1>3, ContinueFrame, NoWorkFields DEF SendConnect
  <2>2. /\ \A k \in Attempts : refs'[k] = IF frame[t].k = k THEN refs[k] - 1 ELSE refs[k]
        /\ UNCHANGED shared
    BY <1>3 DEF SendConnect, sdkVars, TypeOK
  <2>3. \A k \in Attempts : Own(t, k)' = 0
    BY <2>1, OwnIs
  <2>4. \A k \in Attempts : One(shared.underlyingConnection = k) \in {0, 1}
    BY DEF One
  <2>5. \A k \in Attempts :
           refs'[k] + One(shared.underlyingConnection = k) + Own(t, k)
             = refs[k] + One(shared'.underlyingConnection = k) + Own(t, k)'
    BY <1>2, <2>2, <2>3, <2>4 DEF One
  <2> QED
    BY <2>1, <2>5, BalanceStep
<1>4. CASE SendConnectFails(t)
  <2> DEFINE f == [NoWork EXCEPT !.close = frame[t].k]
  <2>1. f.close = frame[t].k
    BY DEF NoWork
  <2>2. Continue(t, f)
    BY <1>4 DEF SendConnectFails
  <2> HIDE DEF f
  <2>3. Others(t) /\ pc'[t] # "send" /\ frame'[t].close = frame[t].k
    BY <2>1, <2>2, ContinueFrame
  <2>4. UNCHANGED refs /\ shared'.underlyingConnection = shared.underlyingConnection
    BY <1>4 DEF SendConnectFails, clibVars, TypeOK, SharedStates
  <2>5. \A k \in Attempts : Own(t, k)' = Own(t, k)
    BY <1>2, <2>3, OwnIs
  <2> QED
    BY <2>3, <2>4, <2>5, BalanceStep
<1> QED
  BY <1>3, <1>4

LEMMA StepBalance ==
    ASSUME TypeOK, TypeOK', SafetyInv, ReferencesBalanced, NEW t \in Threads, Step(t)
    PROVE  ReferencesBalanced'
<1>1. CASE ConnectStarts(t)
  <2>1. Others(t) /\ pc[t] = "connect" /\ pc'[t] # "send" /\ frame'[t].close = 0
    BY <1>1, ContinueFrame, NoWorkFields DEF ConnectStarts
  <2>2. frame[t].close = 0 /\ UNCHANGED <<refs, shared>>
    BY <1>1, <2>1 DEF ConnectStarts, sdkVars, SafetyInv, NoCloseLost
  <2> QED
    BY <2>1, <2>2, QuietBalance
<1>2. CASE ConnectFails(t)
  BY <1>2, MoveToDisconnectedBalance DEF ConnectFails
<1>3. CASE CloseAfterUnknownMessage(t)
  BY <1>3, CloseInternalBalance DEF CloseAfterUnknownMessage
<1>4. CASE CloseConnection(t)
  <2> DEFINE k == frame[t].close
             f == [frame[t] EXCEPT !.close = 0]
  <2>1. f.close = 0 /\ k \in Attempts
    BY <1>4 DEF CloseConnection, TypeOK, ThreadsOK, Frames
  <2>2. Continue(t, f) /\ \A j \in Attempts : refs'[j] = IF j = k THEN refs[j] - 1 ELSE refs[j]
    BY <1>4 DEF CloseConnection, TypeOK
  <2>3. /\ pc[t] = "work" /\ frame[t].close = k
        /\ shared'.underlyingConnection = shared.underlyingConnection
    BY <1>4, WorksEffect DEF Works
  <2> HIDE DEF f, k
  <2>4. Others(t) /\ pc'[t] # "send" /\ frame'[t].close = 0
    BY <2>1, <2>2, ContinueFrame
  <2>5. \A j \in Attempts : /\ refs[j] \in Int /\ One(shared.underlyingConnection = j) \in {0, 1}
                            /\ Own(t, j) = One(k = j) /\ Own(t, j)' = 0
    BY <2>3, <2>4, OwnIs DEF TypeOK, One
  <2>6. \A j \in Attempts :
           refs'[j] + One(shared.underlyingConnection = j) + Own(t, j)
             = refs[j] + One(shared'.underlyingConnection = j) + Own(t, j)'
    BY <2>2, <2>3, <2>5 DEF One
  <2> QED
    BY <2>4, <2>6, BalanceStep
<1>5. CASE Works(t) /\ ~CloseConnection(t)
  <2>1. UNCHANGED <<refs, shared>>
    BY <1>5
    DEF Works, InvokeCallback, SetConnectPromise, CompleteFlush, InvokeFlushCallback,
        ScheduleClearTask, DropHandle, sdkVars, clibVars
  <2> QED
    BY <1>5, <2>1, WorksEffect, QuietBalance
<1> QED
  BY <1>1, <1>2, <1>3, <1>4, <1>5, SendBalance DEF Step, Works

LEMMA LoopEventsBalance ==
    ASSUME TypeOK, TypeOK', SafetyInv, ReferencesBalanced, NEW l \in Loops, NEW k \in Attempts,
           LoopEvents(l, k)
    PROVE  ReferencesBalanced'
<1>0. /\ l \in Threads /\ k # 0 /\ pc[l] = "ready" /\ frame[l].close = 0
      /\ \A j \in Attempts : refs[j] \in Int /\ Own(l, j) = 0
  <2>1. l \in Threads /\ k # 0 /\ pc[l] = "ready"
    BY NullIsNoAttempt
    DEF Threads, LoopEvents, SetupCompletes, ShutdownCompletes, Messages, SetupFails,
        SetupAbandoned, SetupSucceeds, ConnectionShutdown, ConnackAccepted, ConnackRefused, Ping,
        UnknownMessage, ConnectFlushed, Receives, OnLoop
  <2>2. frame[l].close = 0
    BY <2>1 DEF SafetyInv, NoCloseLost
  <2> QED
    BY <2>1, <2>2, NullIsNoAttempt DEF TypeOK, Own, One
<1>1. CASE SetupFails(l, k)
  BY <1>0, <1>1, MoveToDisconnectedBalance DEF SetupFails
<1>2. ASSUME NEW code \in ShutdownCodes, ConnectionShutdown(l, k, code) PROVE ReferencesBalanced'
  BY <1>0, <1>2, MoveToDisconnectedBalance DEF ConnectionShutdown
(* s_onConnectionSetup acquires one reference for shared state and one for *)
(* what the thread does next.                                              *)
<1>3. ASSUME cconn[k] = "connecting", refs' = [refs EXCEPT ![k] = @ + SetupReferences],
             shared'.underlyingConnection = k, Others(l),
             \A j \in Attempts : Own(l, j)' = One(k = j)
      PROVE  ReferencesBalanced'
  <2>1. shared.underlyingConnection = 0
    BY <1>3 DEF SafetyInv, StateOfAttempt
  <2>2. \A j \in Attempts : /\ One(shared.underlyingConnection = j) = 0
                            /\ refs'[j] = IF k = j THEN refs[j] + 2 ELSE refs[j]
    BY <1>3, <2>1, NullIsNoAttempt DEF SetupReferences, TypeOK, One
  <2>3. \A j \in Attempts :
           refs'[j] + One(shared.underlyingConnection = j) + Own(l, j)
             = refs[j] + One(shared'.underlyingConnection = j) + Own(l, j)'
    BY <1>0, <1>3, <2>2 DEF One
  <2> QED
    BY <1>0, <1>3, <2>3, BalanceStep
<1>4. CASE SetupAbandoned(l, k)
  <2> DEFINE f == [NoWork EXCEPT !.close = k]
  <2>1. f.close = k
    BY DEF NoWork
  <2>2. Continue(l, f)
    BY <1>4 DEF SetupAbandoned
  <2> HIDE DEF f
  <2>3. Others(l) /\ pc'[l] # "send" /\ frame'[l].close = k
    BY <1>0, <2>1, <2>2, ContinueFrame
  <2>4. \A j \in Attempts : Own(l, j)' = One(k = j)
    BY <1>0, <2>3, OwnIs
  <2>5. shared'.underlyingConnection = k
    BY <1>4 DEF SetupAbandoned, TypeOK, SharedStates
  <2> QED
    BY <1>3, <1>4, <2>3, <2>4, <2>5 DEF SetupAbandoned
<1>5. CASE SetupSucceeds(l, k)
  <2> DEFINE f == [NoWork EXCEPT !.k = k]
  <2>1. f.close = 0 /\ f.k = k
    BY DEF NoWork
  <2>2. Goto(l, "send", f)
    BY <1>5 DEF SetupSucceeds
  <2> HIDE DEF f
  <2>3. Others(l) /\ pc'[l] = "send" /\ frame'[l].close = 0 /\ frame'[l].k = k
    BY <1>0, <2>1, <2>2, GotoFrame
  <2>4. \A j \in Attempts : Own(l, j)' = One(k = j)
    BY <1>0, <2>3, OwnIs
  <2>5. shared'.underlyingConnection = k
    BY <1>5 DEF SetupSucceeds, TypeOK, SharedStates
  <2> QED
    BY <1>3, <1>5, <2>3, <2>4, <2>5 DEF SetupSucceeds
<1>6. CASE ConnackAccepted(l, k)
  <2> DEFINE f == [NoWork EXCEPT !.ctx = ConnectedContext(shared.callbackContext)]
  <2>1. f.close = 0
    BY DEF NoWork
  <2>2. Continue(l, f)
    BY <1>6 DEF ConnackAccepted
  <2> HIDE DEF f
  <2>3. Others(l) /\ pc'[l] # "send" /\ frame'[l].close = 0
    BY <1>0, <2>1, <2>2, ContinueFrame
  <2>4. UNCHANGED refs /\ shared'.underlyingConnection = shared.underlyingConnection
    BY <1>6 DEF ConnackAccepted, clibVars, TypeOK, SharedStates
  <2> QED
    BY <1>0, <2>3, <2>4, QuietBalance
<1>7. ASSUME NEW ok \in BOOLEAN, ConnackRefused(l, k, ok) PROVE ReferencesBalanced'
  <2> DEFINE closing == shared.currentState # "Disconnecting"
             f == [NoWork EXCEPT !.close = IF closing THEN k ELSE 0]
  <2>1. f.close = IF closing THEN k ELSE 0
    BY DEF NoWork
  <2>2. Continue(l, f)
    BY <1>7 DEF ConnackRefused
  <2>3. /\ shared'.underlyingConnection = shared.underlyingConnection
        /\ \A j \in Attempts : refs'[j] = IF closing /\ k = j THEN refs[j] + 1 ELSE refs[j]
    BY <1>7 DEF ConnackRefused, TypeOK, SharedStates
  <2> HIDE DEF f, closing
  <2>4. Others(l) /\ pc'[l] # "send" /\ frame'[l].close = IF closing THEN k ELSE 0
    BY <1>0, <2>1, <2>2, ContinueFrame
  <2>5. \A j \in Attempts : /\ One(shared.underlyingConnection = j) \in {0, 1}
                            /\ Own(l, j)' = IF closing /\ k = j THEN 1 ELSE 0
    BY <1>0, <2>4, OwnIs, NullIsNoAttempt DEF One
  <2>6. \A j \in Attempts :
           refs'[j] + One(shared.underlyingConnection = j) + Own(l, j)
             = refs[j] + One(shared'.underlyingConnection = j) + Own(l, j)'
    BY <1>0, <2>3, <2>5
  <2> QED
    BY <1>0, <2>4, <2>6, BalanceStep
<1>8. CASE Ping(l, k)
  BY <1>0, <1>8, QuietBalance DEF Ping, sdkVars, threadVars, clibVars, Others
<1>9. CASE UnknownMessage(l, k)
  <2>1. Others(l) /\ pc'[l] # "send" /\ frame'[l].close = 0 /\ UNCHANGED <<refs, shared>>
    BY <1>0, <1>9, GotoFrame, NoWorkFields DEF UnknownMessage, sdkVars, clibVars
  <2> QED
    BY <1>0, <2>1, QuietBalance
<1>10. CASE ConnectFlushed(l, k)
  <2> DEFINE f == [NoWork EXCEPT !.flush = k]
  <2>1. f.close = 0
    BY DEF NoWork
  <2>2. Continue(l, f) /\ UNCHANGED <<refs, shared>>
    BY <1>10 DEF ConnectFlushed, sdkVars
  <2> HIDE DEF f
  <2>3. Others(l) /\ pc'[l] # "send" /\ frame'[l].close = 0
    BY <1>0, <2>1, <2>2, ContinueFrame
  <2> QED
    BY <1>0, <2>2, <2>3, QuietBalance
<1> QED
  BY <1>1, <1>2, <1>4, <1>5, <1>6, <1>7, <1>8, <1>9, <1>10
  DEF LoopEvents, SetupCompletes, ShutdownCompletes, Messages

LEMMA NextBalance ==
    ASSUME TypeOK, TypeOK', SafetyInv, ReferencesBalanced, [Next]_vars
    PROVE  ReferencesBalanced'
<1>1. ASSUME UNCHANGED <<refs, shared, pc, frame>> PROVE ReferencesBalanced'
  BY <1>1 DEF ReferencesBalanced
<1>2. CASE UNCHANGED vars \/ RunClearTask \/ \E k \in Attempts : PeerCloses(k)
  BY <1>1, <1>2 DEF vars, RunClearTask, PeerCloses, sdkVars, threadVars, clibVars
<1>3. ASSUME NEW t \in AppThreads, AppCalls(t) PROVE ReferencesBalanced'
  <2>0. t \in Threads /\ pc[t] = "ready"
    BY <1>3
    DEF AppCalls, ConnectInvalid, ConnectRefused, ConnectBegin, Close, Shutdown, MayCall, Threads
  <2>1. CASE ConnectInvalid(t) \/ ConnectRefused(t)
    BY <1>1, <2>1 DEF ConnectInvalid, ConnectRefused, sdkVars, threadVars, clibVars
  <2>2. CASE ConnectBegin(t)
    <3> DEFINE f == [NoWork EXCEPT !.k = calls + 1]
    <3>1. f.close = 0
      BY DEF NoWork
    <3>2. Goto(t, "connect", f)
      BY <2>2 DEF ConnectBegin
    <3> HIDE DEF f
    <3>3. Others(t) /\ pc'[t] # "send" /\ frame'[t].close = 0
      BY <2>0, <3>1, <3>2, GotoFrame
    <3>4. frame[t].close = 0
      BY <2>0 DEF SafetyInv, NoCloseLost
    <3>5. UNCHANGED refs /\ shared'.underlyingConnection = shared.underlyingConnection
      BY <2>2 DEF ConnectBegin, OptimisticConnect, clibVars, TypeOK, SharedStates
    <3> QED
      BY <2>0, <3>3, <3>4, <3>5, QuietBalance
  <2>3. CASE Close(t)
    BY <2>0, <2>3, CloseInternalBalance DEF Close
  <2>4. CASE Shutdown(t)
    BY <2>0, <2>4, CloseInternalBalance DEF Shutdown
  <2> QED
    BY <1>3, <2>1, <2>2, <2>3, <2>4 DEF AppCalls
<1> QED
  BY <1>2, <1>3, StepBalance, LoopEventsBalance DEF Next, Terminated

(* Every acquire of a C connection has its release: the references are the *)
(* shared state's, those of threads about to close it and the one held     *)
(* while CONNECT is sent, whatever Close, setup, CONNECT_ACK and shutdown  *)
(* race.                                                                   *)
THEOREM ReferencesBalancedHolds == Spec => []ReferencesBalanced
<1>1. Init => ReferencesBalanced
  <2> SUFFICES ASSUME Init, NEW k \in Attempts PROVE Balanced(k)
    BY BalancedMeaning
  <2>1. Closers(k) = {} /\ Senders(k) = {} /\ refs[k] = 0 /\ shared.underlyingConnection # k
    BY NullIsNoAttempt, NoWorkFields DEF Init, Closers, Senders
  <2> QED
    BY <2>1, FS_EmptySet DEF Balanced, One
<1>2. TypeOK /\ TypeOK' /\ SafetyInv /\ ReferencesBalanced /\ [Next]_vars => ReferencesBalanced'
  BY NextBalance
<1> QED
  BY <1>1, <1>2, TypeCorrect, SafetyInvHolds, PTL DEF Spec

-----------------------------------------------------------------------------
(* Attempts that have no C connection yet.                                 *)

Fresh(k) ==
    \/ k > calls
    \/ cconn[k] = "connecting"
    \/ \E t \in Threads : pc[t] = "connect" /\ frame[t].k = k

(* Whatever is under way or over was asked for.                            *)
AttemptsKnown ==
    /\ \A k \in Attempts : cconn[k] # "none" => k <= calls
    /\ \A t \in Threads : pc[t] = "connect" => frame[t].k <= calls

LEMMA AttemptsAreNumbers == \A k \in Attempts : k \in Nat /\ k # 0
BY ConnectionAssumption DEF Attempts

(* What the C library has brought up is fresh no more.                     *)
LEMMA UpIsNotFresh ==
    ASSUME TypeOK, SafetyInv, AttemptsKnown, NEW k \in Attempts, IsUp(k) PROVE ~Fresh(k)
<1>1. cconn[k] # "connecting" /\ cconn[k] # "none" /\ InCLayer(k)
  BY DEF IsUp, InCLayer
<1>2. k <= calls /\ k \in Nat /\ calls \in Nat
  BY <1>1, AttemptsAreNumbers DEF AttemptsKnown, TypeOK
<1>3. \A t \in Threads : pc[t] # "connect"
  BY <1>1 DEF SafetyInv, OneAttempt
<1> QED
  BY <1>1, <1>2, <1>3 DEF Fresh

(* No attempt becomes fresh again.                                         *)
LEMMA NextFresh ==
    ASSUME TypeOK, TypeOK', AttemptsKnown, [Next]_vars
    PROVE  AttemptsKnown' /\ \A k \in Attempts : Fresh(k)' => Fresh(k)
<1>n. calls \in Nat /\ calls' \in Nat /\ \A k \in Attempts : k \in Nat
  <2>1. calls \in 0 .. MaxConnects /\ calls' \in 0 .. MaxConnects
    BY DEF TypeOK
  <2> QED
    BY <2>1, AttemptsAreNumbers, ConnectionAssumption
<1>k. \A t \in Threads : frame[t].k \in Nat
  <2>1. \A t \in Threads : frame[t].k \in Attempts \cup {0}
    BY DEF TypeOK, ThreadsOK, Frames
  <2> QED
    BY <1>n, <2>1
<1>1. ASSUME calls <= calls',
             \A k \in Attempts : /\ cconn'[k] = "connecting" => cconn[k] = "connecting"
                                 /\ cconn'[k] # "none" => cconn[k] # "none",
             \A u \in Threads : pc'[u] = "connect" => pc[u] = "connect" /\ frame'[u] = frame[u]
      PROVE  AttemptsKnown' /\ \A k \in Attempts : Fresh(k)' => Fresh(k)
  <2>1. AttemptsKnown'
    <3>1. ASSUME NEW k \in Attempts, cconn'[k] # "none" PROVE k <= calls'
      BY <1>1, <1>n, <3>1 DEF AttemptsKnown
    <3>2. ASSUME NEW u \in Threads, pc'[u] = "connect" PROVE frame'[u].k <= calls'
      <4>1. frame[u].k <= calls /\ frame'[u] = frame[u]
        BY <1>1, <3>2 DEF AttemptsKnown
      <4> QED
        BY <1>1, <1>n, <1>k, <4>1
    <3> QED
      BY <3>1, <3>2 DEF AttemptsKnown
  <2>2. ASSUME NEW k \in Attempts, Fresh(k)' PROVE Fresh(k)
    <3>1. CASE k > calls'
      BY <1>1, <1>n, <3>1 DEF Fresh
    <3>2. CASE ~(k > calls')
      BY <1>1, <2>2, <3>2 DEF Fresh
    <3> QED
      BY <3>1, <3>2
  <2> QED
    BY <2>1, <2>2
<1>2. ASSUME NEW t \in Threads, Others(t), pc'[t] # "connect", UNCHANGED calls,
             \A k \in Attempts : /\ cconn'[k] = "connecting" => cconn[k] = "connecting"
                                 /\ cconn'[k] # "none" => cconn[k] # "none"
      PROVE  AttemptsKnown' /\ \A k \in Attempts : Fresh(k)' => Fresh(k)
  <2>1. calls <= calls'
    BY <1>2, <1>n
  <2>2. \A u \in Threads : pc'[u] = "connect" => pc[u] = "connect" /\ frame'[u] = frame[u]
    BY <1>2 DEF Others
  <2> QED
    BY <1>1, <1>2, <2>1, <2>2
<1>3. CASE UNCHANGED vars \/ RunClearTask \/ \E k \in Attempts : PeerCloses(k)
  <2>1. /\ calls' = calls /\ pc' = pc /\ frame' = frame
        /\ \A k \in Attempts : /\ cconn'[k] = "connecting" => cconn[k] = "connecting"
                               /\ cconn'[k] # "none" => cconn[k] # "none"
    BY <1>3 DEF RunClearTask, PeerCloses, vars, threadVars, clibVars, promiseVars, TypeOK
  <2>2. calls <= calls'
    BY <1>n, <2>1
  <2> QED
    BY <1>1, <2>1, <2>2
<1>4. ASSUME NEW t \in AppThreads, AppCalls(t)
      PROVE  AttemptsKnown' /\ \A k \in Attempts : Fresh(k)' => Fresh(k)
  <2>0. t \in Threads
    BY DEF Threads
  <2>1. CASE ConnectInvalid(t) \/ ConnectRefused(t)
    <3>1. calls' = calls + 1 /\ pc' = pc /\ frame' = frame /\ cconn' = cconn
      BY <2>1 DEF ConnectInvalid, ConnectRefused, threadVars, clibVars
    <3>2. calls <= calls'
      BY <1>n, <3>1
    <3> QED
      BY <1>1, <3>1, <3>2
  <2>2. CASE ConnectBegin(t)
    <3> DEFINE f == [NoWork EXCEPT !.k = calls + 1]
    <3>1. f.k = calls + 1
      BY DEF NoWork
    <3>2. Goto(t, "connect", f) /\ calls' = calls + 1 /\ UNCHANGED cconn
      BY <2>2 DEF ConnectBegin, clibVars
    <3> HIDE DEF f
    <3>3. Others(t) /\ frame'[t].k = calls'
      BY <2>0, <3>1, <3>2, GotoFrame
    <3>4. AttemptsKnown'
      BY <1>n, <1>k, <3>2, <3>3 DEF AttemptsKnown, Others
    <3>5. \A k \in Attempts : Fresh(k)' => Fresh(k)
      BY <1>n, <3>2, <3>3 DEF Fresh, Others
    <3> QED
      BY <3>4, <3>5
  <2>3. CASE Close(t) \/ Shutdown(t)
    <3>1. CloseInternal(t, FALSE) \/ CloseInternal(t, TRUE)
      BY <2>3 DEF Close, Shutdown
    <3>2. Others(t) /\ pc'[t] # "connect"
      BY <2>0, <3>1, CloseInternalEffect
    <3>3. UNCHANGED <<calls, cconn>>
      BY <2>3 DEF Close, Shutdown, promiseVars
    <3> QED
      BY <1>2, <2>0, <3>2, <3>3
  <2> QED
    BY <1>4, <2>1, <2>2, <2>3 DEF AppCalls
<1>5. ASSUME NEW t \in Threads, Step(t)
      PROVE  AttemptsKnown' /\ \A k \in Attempts : Fresh(k)' => Fresh(k)
  <2>1. CASE ConnectStarts(t)
    <3>1. Others(t) /\ pc[t] = "connect" /\ pc'[t] # "connect" /\ UNCHANGED calls
      BY <2>1, ContinueFrame DEF ConnectStarts, promiseVars
    <3>2. \A k \in Attempts : cconn'[k] = IF k = frame[t].k THEN "connecting" ELSE cconn[k]
      BY <2>1 DEF ConnectStarts, TypeOK
    <3>3. AttemptsKnown'
      BY <3>1, <3>2 DEF AttemptsKnown, Others
    <3>4. \A k \in Attempts : Fresh(k)' => Fresh(k)
      BY <3>1, <3>2 DEF Fresh, Others
    <3> QED
      BY <3>3, <3>4
  <2>2. CASE ConnectFails(t)
    BY <1>2, <2>2, MoveToDisconnectedEffect DEF ConnectFails, promiseVars
  <2>3. CASE SendConnect(t) \/ SendConnectFails(t)
    <3>1. \E f : Continue(t, f)
      BY <2>3 DEF SendConnect, SendConnectFails
    <3>2. UNCHANGED <<calls, cconn>>
      BY <2>3 DEF SendConnect, SendConnectFails, promiseVars, clibVars
    <3> QED
      BY <1>2, <3>1, <3>2, ContinueFrame
  <2>4. CASE CloseAfterUnknownMessage(t)
    <3>1. Others(t) /\ pc'[t] # "connect"
      BY <2>4, CloseInternalEffect DEF CloseAfterUnknownMessage
    <3> QED
      BY <1>2, <2>4, <3>1 DEF CloseAfterUnknownMessage, promiseVars
  <2>5. CASE Works(t)
    <3>1. \A k \in Attempts : /\ cconn'[k] = "connecting" => cconn[k] = "connecting"
                              /\ cconn'[k] # "none" => cconn[k] # "none"
      <4>1. CASE CloseConnection(t)
        BY <4>1 DEF CloseConnection, TypeOK
      <4>2. CASE InvokeCallback(t) \/ SetConnectPromise(t)
        BY <4>2 DEF InvokeCallback, SetConnectPromise, clibVars
      <4>3. CASE CompleteFlush(t) \/ InvokeFlushCallback(t)
        BY <4>3 DEF CompleteFlush, InvokeFlushCallback, clibVars
      <4>4. CASE ScheduleClearTask(t) \/ DropHandle(t)
        BY <4>4 DEF ScheduleClearTask, DropHandle, clibVars
      <4> QED
        BY <2>5, <4>1, <4>2, <4>3, <4>4 DEF Works
    <3> QED
      BY <1>2, <2>5, <3>1, WorksEffect
  <2> QED
    BY <1>5, <2>1, <2>2, <2>3, <2>4, <2>5 DEF Step, Works
<1>6. ASSUME NEW l \in Loops, NEW k \in Attempts, LoopEvents(l, k)
      PROVE  AttemptsKnown' /\ \A j \in Attempts : Fresh(j)' => Fresh(j)
  <2>0. l \in Threads
    BY DEF Threads
  <2>1. /\ UNCHANGED calls
        /\ \A j \in Attempts : /\ cconn'[j] = "connecting" => cconn[j] = "connecting"
                               /\ cconn'[j] # "none" => cconn[j] # "none"
    <3>1. CASE SetupCompletes(l, k)
      <4>1. UNCHANGED calls /\ cconn[k] = "connecting"
        BY <3>1, Zenon
        DEF SetupCompletes, SetupFails, SetupAbandoned, SetupSucceeds, promiseVars
      <4>2. \E s \in {"up", "gone"} : cconn' = [cconn EXCEPT ![k] = s]
        BY <3>1, Zenon DEF SetupCompletes, SetupFails, SetupAbandoned, SetupSucceeds
      <4> QED
        BY <4>1, <4>2 DEF TypeOK
    <3>2. CASE ShutdownCompletes(l, k)
      BY <3>2 DEF ShutdownCompletes, ConnectionShutdown, clibVars, promiseVars, TypeOK
    <3>3. CASE \E ok \in BOOLEAN : ConnackRefused(l, k, ok)
      BY <3>3, Zenon DEF ConnackRefused, promiseVars
    <3>4. CASE ConnackAccepted(l, k) \/ Ping(l, k) \/ UnknownMessage(l, k)
      BY <3>4 DEF ConnackAccepted, Ping, UnknownMessage, clibVars, promiseVars
    <3>5. CASE ConnectFlushed(l, k)
      BY <3>5 DEF ConnectFlushed, promiseVars
    <3> QED
      BY <1>6, <3>1, <3>2, <3>3, <3>4, <3>5 DEF LoopEvents, Messages
  <2>2. CASE Ping(l, k)
    <3>1. pc' = pc /\ frame' = frame /\ calls <= calls'
      BY <1>n, <2>1, <2>2 DEF Ping, threadVars
    <3> QED
      BY <1>1, <2>1, <3>1
  <2>3. CASE SetupFails(l, k) \/ ShutdownCompletes(l, k)
    <3>1. \E e : MoveToDisconnected(l, e)
      BY <2>3 DEF SetupFails, ShutdownCompletes, ConnectionShutdown
    <3> QED
      BY <1>2, <2>0, <2>1, <3>1, MoveToDisconnectedEffect
  <2>4. CASE SetupSucceeds(l, k) \/ UnknownMessage(l, k)
    <3>1. \E f : Goto(l, "send", f) \/ Goto(l, "protocolError", f)
      BY <2>4 DEF SetupSucceeds, UnknownMessage
    <3> QED
      BY <1>2, <2>0, <2>1, <3>1, GotoFrame
  <2>5. CASE \/ SetupAbandoned(l, k) \/ ConnackAccepted(l, k) \/ ConnectFlushed(l, k)
             \/ \E ok \in BOOLEAN : ConnackRefused(l, k, ok)
    <3>1. \E f : Continue(l, f)
      BY <2>5, Zenon DEF SetupAbandoned, ConnackAccepted, ConnectFlushed, ConnackRefused
    <3> QED
      BY <1>2, <2>0, <2>1, <3>1, ContinueFrame
  <2> QED
    BY <1>6, <2>2, <2>3, <2>4, <2>5 DEF LoopEvents, SetupCompletes, Messages
<1> QED
  BY <1>3, <1>4, <1>5, <1>6 DEF Next, Terminated

LEMMA AttemptsKnownHolds == Spec => []AttemptsKnown
<1>1. Init => AttemptsKnown
  BY DEF Init, AttemptsKnown
<1>2. TypeOK /\ TypeOK' /\ AttemptsKnown /\ [Next]_vars => AttemptsKnown'
  BY NextFresh
<1> QED
  BY <1>1, <1>2, TypeCorrect, PTL DEF Spec

-----------------------------------------------------------------------------
(* The container of the CONNECT message.                                   *)

(* Somebody may still complete the container of attempt k.                 *)
Named(k) ==
    \/ shared.connectFlushContainer = k \/ k \in queued
    \/ \E t \in Threads : frame[t].flush = k \/ (pc[t] = "send" /\ frame[t].k = k)

(* A container is completed once, and its callback is made by the thread   *)
(* that completed it, or was made.                                         *)
Counted(k) ==
    \/ /\ container[k] # "Finished" /\ flushCbs[k] = 0
       /\ \A t \in Threads : frame[t].flushCb # k
    \/ /\ container[k] = "Finished" /\ flushCbs[k] = 0
       /\ \A t, u \in Threads : frame[t].flushCb = k /\ frame[u].flushCb = k => t = u
    \/ /\ container[k] = "Finished" /\ flushCbs[k] = 1
       /\ \A t \in Threads : frame[t].flushCb # k

FlushOf(k) ==
    /\ Fresh(k) => container[k] = "none"
    /\ Named(k) => container[k] # "none"
    /\ Counted(k)

FlushInv == \A k \in Attempts : FlushOf(k)

(* A step that makes no container, completes none and makes no callback.   *)
LEMMA FlushKept ==
    ASSUME NEW k \in Attempts, FlushOf(k), Fresh(k)' => Fresh(k), Named(k)' => Named(k),
           container'[k] = container[k], flushCbs'[k] = flushCbs[k],
           \A t \in Threads : frame'[t].flushCb = k => frame[t].flushCb = k
    PROVE  FlushOf(k)'
<1>1. Counted(k)'
  BY DEF FlushOf, Counted
<1>2. (Fresh(k)' => container'[k] = "none") /\ (Named(k)' => container'[k] # "none")
  BY DEF FlushOf
<1> QED
  BY <1>1, <1>2 DEF FlushOf

(* Such a step, taken by one thread.                                       *)
LEMMA FlushQuiet ==
    ASSUME TypeOK, FlushInv, NEW t \in Threads, Others(t), pc'[t] # "send",
           \A k \in Attempts : Fresh(k)' => Fresh(k),
           container' = container, flushCbs' = flushCbs,
           frame'[t].flushCb = frame[t].flushCb \/ frame'[t].flushCb = 0,
           frame'[t].flush \in {0, frame[t].flush} \/ Named(frame'[t].flush),
           shared'.connectFlushContainer \in {0, shared.connectFlushContainer},
           \A j \in queued' : Named(j)
    PROVE  FlushInv'
<1> SUFFICES ASSUME NEW k \in Attempts PROVE FlushOf(k)'
  BY DEF FlushInv
<1>0. k # 0
  BY NullIsNoAttempt
<1>1. \A u \in Threads : frame'[u].flushCb = k => frame[u].flushCb = k
  BY <1>0 DEF Others
<1>2. ASSUME Named(k)' PROVE Named(k)
  <2>1. CASE shared'.connectFlushContainer = k
    BY <1>0, <2>1 DEF Named
  <2>2. CASE k \in queued'
    BY <2>2
  <2>3. ASSUME NEW u \in Threads, frame'[u].flush = k \/ (pc'[u] = "send" /\ frame'[u].k = k)
        PROVE  Named(k)
    <3>1. CASE u # t
      BY <2>3, <3>1 DEF Others, Named
    <3>2. CASE u = t
      BY <1>0, <2>3, <3>2 DEF Named
    <3> QED
      BY <3>1, <3>2
  <2> QED
    BY <1>2, <2>1, <2>2, <2>3 DEF Named
<1> QED
  BY <1>1, <1>2, FlushKept DEF FlushInv

(* The lock section of Complete, and its callback.                         *)
LEMMA CompleteFlushSafe ==
    ASSUME TypeOK, FlushInv, NEW t \in Threads, CompleteFlush(t),
           \A k \in Attempts : Fresh(k)' => Fresh(k)
    PROVE  FlushInv'
<1> DEFINE k == frame[t].flush
           f == [frame[t] EXCEPT !.flush = 0, !.flushCb = IF Wins(k) THEN k ELSE 0]
<1>1. frame[t] \in Frames
  BY DEF TypeOK, ThreadsOK
<1>2. f.flush = 0 /\ f.flushCb = IF Wins(k) THEN k ELSE 0
  BY <1>1 DEF Frames
<1>3. Continue(t, f) /\ k # 0
  BY DEF CompleteFlush
<1>4. k \in Attempts
  BY <1>1, <1>3 DEF Frames
<1>5. /\ shared' = shared /\ queued' = queued /\ flushCbs' = flushCbs
      /\ container'[k] = "Finished"
      /\ \A j \in Attempts : j # k => container'[j] = container[j]
  BY <1>4 DEF CompleteFlush, sdkVars, clibVars, historyVars, TypeOK
<1>6. Named(k)
  BY DEF Named
<1> HIDE DEF f, k
<1>7. Others(t) /\ pc'[t] \in {"ready", "work"} /\ frame'[t] = f
  BY <1>3, ContinueFrame
<1>8. container[k] = "Incomplete" \/ container[k] = "Finished"
  BY <1>4, <1>6 DEF FlushInv, FlushOf, TypeOK
<1> SUFFICES ASSUME NEW j \in Attempts PROVE FlushOf(j)'
  BY DEF FlushInv
<1>9. Named(j)' => Named(j)
  BY <1>2, <1>5, <1>7, NullIsNoAttempt DEF Named, Others
<1>10. FlushOf(j)
  BY DEF FlushInv
<1>11. CASE j # k
  <2>1. \A u \in Threads : frame'[u].flushCb = j => frame[u].flushCb = j
    BY <1>2, <1>7, <1>11, NullIsNoAttempt DEF Others
  <2> QED
    BY <1>5, <1>9, <1>10, <1>11, <2>1, FlushKept
<1>12. CASE j = k
  <2>0. flushCbs'[j] = flushCbs[j] /\ container'[j] = "Finished"
    BY <1>5, <1>12
  <2>1. Counted(j)'
    <3>1. Counted(j)
      BY <1>10 DEF FlushOf
    <3>2. CASE Wins(j)
      <4>1. flushCbs[j] = 0 /\ \A u \in Threads : frame[u].flushCb # j
        BY <3>1, <3>2 DEF Counted, Wins
      <4>2. \A u \in Threads : frame'[u].flushCb = j => u = t
        BY <1>7, <4>1 DEF Others
      <4> QED
        BY <2>0, <4>1, <4>2 DEF Counted
    <3>3. CASE ~Wins(j)
      <4>1. \A u \in Threads : frame'[u].flushCb = j => frame[u].flushCb = j
        BY <1>2, <1>3, <1>7, <1>12, <3>3 DEF Others
      <4>2. container[j] = "Finished"
        BY <1>8, <1>12, <3>3 DEF Wins
      <4> QED
        BY <2>0, <3>1, <4>1, <4>2 DEF Counted
    <3> QED
      BY <3>2, <3>3
  <2>2. ~Fresh(j)'
    BY <1>6, <1>10, <1>12 DEF FlushOf
  <2> QED
    BY <2>0, <2>1, <2>2 DEF FlushOf
<1> QED
  BY <1>11, <1>12

LEMMA InvokeFlushCallbackSafe ==
    ASSUME TypeOK, FlushInv, NEW t \in Threads, InvokeFlushCallback(t),
           \A k \in Attempts : Fresh(k)' => Fresh(k)
    PROVE  FlushInv'
<1> DEFINE k == frame[t].flushCb
           f == [frame[t] EXCEPT !.flushCb = 0]
<1>1. frame[t] \in Frames
  BY DEF TypeOK, ThreadsOK
<1>2. f.flush = frame[t].flush /\ f.flushCb = 0
  BY <1>1 DEF Frames
<1>3. Continue(t, f) /\ k # 0
  BY DEF InvokeFlushCallback
<1>4. k \in Attempts
  BY <1>1, <1>3 DEF Frames
<1>5. /\ shared' = shared /\ queued' = queued /\ container' = container
      /\ flushCbs'[k] = flushCbs[k] + 1
      /\ \A j \in Attempts : j # k => flushCbs'[j] = flushCbs[j]
  BY <1>4 DEF InvokeFlushCallback, sdkVars, clibVars, TypeOK
<1> HIDE DEF f
<1>7. Others(t) /\ pc'[t] \in {"ready", "work"} /\ frame'[t] = f
  BY <1>3, ContinueFrame
<1> SUFFICES ASSUME NEW j \in Attempts PROVE FlushOf(j)'
  BY DEF FlushInv
<1>9. Named(j)' => Named(j)
  BY <1>2, <1>5, <1>7 DEF Named, Others
<1>10. FlushOf(j)
  BY DEF FlushInv
<1>11. CASE j # k
  <2>1. \A u \in Threads : frame'[u].flushCb = j => frame[u].flushCb = j
    BY <1>2, <1>7, NullIsNoAttempt DEF Others
  <2> QED
    BY <1>5, <1>9, <1>10, <1>11, <2>1, FlushKept
<1>12. CASE j = k
  <2>1. /\ container[j] = "Finished" /\ flushCbs[j] = 0
        /\ \A u \in Threads : frame[u].flushCb = j => u = t
    BY <1>10, <1>12 DEF FlushOf, Counted
  <2>2. \A u \in Threads : frame'[u].flushCb # j
    BY <1>2, <1>7, <2>1, NullIsNoAttempt DEF Others
  <2>3. flushCbs'[j] = 1
    BY <1>5, <1>12, <2>1
  <2>4. Counted(j)'
    BY <1>5, <2>1, <2>2, <2>3 DEF Counted
  <2> QED
    BY <1>5, <1>9, <1>10, <2>4 DEF FlushOf
<1> QED
  BY <1>11, <1>12

(* The container is made when its attempt comes up.                        *)
LEMMA SetupSucceedsFlush ==
    ASSUME TypeOK, SafetyInv, AttemptsKnown, FlushInv, NEW l \in Loops, NEW k \in Attempts,
           SetupSucceeds(l, k), \A j \in Attempts : Fresh(j)' => Fresh(j)
    PROVE  FlushInv'
<1> DEFINE f == [NoWork EXCEPT !.k = k]
<1>0. l \in Threads
  BY DEF Threads
<1>1. f.k = k /\ f.flush = 0 /\ f.flushCb = 0
  BY DEF NoWork
<1>2. Goto(l, "send", f)
  BY DEF SetupSucceeds
<1> HIDE DEF f
<1>3. Others(l) /\ pc'[l] = "send" /\ frame'[l] = f
  BY <1>0, <1>2, GotoFrame
<1>4. /\ cconn[k] = "connecting" /\ cconn'[k] = "up"
      /\ shared'.connectFlushContainer = k /\ queued' = queued
      /\ container'[k] = "Incomplete"
      /\ \A j \in Attempts : j # k => container'[j] = container[j]
      /\ flushCbs' = flushCbs /\ calls' = calls
  BY DEF SetupSucceeds, TypeOK, SharedStates, promiseVars, historyVars
<1> SUFFICES ASSUME NEW j \in Attempts PROVE FlushOf(j)'
  BY DEF FlushInv
<1>5. FlushOf(j)
  BY DEF FlushInv
<1>6. \A u \in Threads : frame'[u].flushCb = j => frame[u].flushCb = j
  BY <1>1, <1>3, NullIsNoAttempt DEF Others
<1>7. CASE j # k
  <2>1. Named(j)' => Named(j)
    BY <1>1, <1>3, <1>4, <1>7, NullIsNoAttempt DEF Named, Others
  <2> QED
    BY <1>4, <1>5, <1>6, <1>7, <2>1, FlushKept
<1>8. CASE j = k
  <2>1. container[j] = "none"
    BY <1>4, <1>5, <1>8 DEF FlushOf, Fresh
  <2>2. Counted(j)'
    BY <1>4, <1>5, <1>6, <1>8, <2>1 DEF FlushOf, Counted
  <2>3. \A u \in Threads : pc'[u] # "connect"
    BY <1>3, <1>4 DEF SafetyInv, OneAttempt, InCLayer, Others
  <2>4. ~(j > calls')
    <3>1. j <= calls /\ calls \in Nat /\ j \in Nat
      BY <1>4, <1>8, AttemptsAreNumbers DEF AttemptsKnown, TypeOK
    <3> QED
      BY <1>4, <3>1
  <2>5. ~Fresh(j)'
    BY <1>4, <1>8, <2>3, <2>4 DEF Fresh
  <2> QED
    BY <1>4, <1>8, <2>2, <2>5 DEF FlushOf
<1> QED
  BY <1>7, <1>8

LEMMA AppCallsFlush ==
    ASSUME TypeOK, FlushInv, NEW t \in AppThreads, AppCalls(t),
           \A k \in Attempts : Fresh(k)' => Fresh(k)
    PROVE  FlushInv'
<1>0. t \in Threads
  BY DEF Threads
<1>1. CASE ConnectInvalid(t) \/ ConnectRefused(t)
  <2>1. /\ shared' = shared /\ pc' = pc /\ frame' = frame /\ queued' = queued
        /\ container' = container /\ flushCbs' = flushCbs
    BY <1>1 DEF ConnectInvalid, ConnectRefused, sdkVars, threadVars, clibVars, historyVars
  <2>2. \A k \in Attempts : Named(k)' => Named(k)
    BY <2>1 DEF Named
  <2> QED
    BY <2>1, <2>2, FlushKept DEF FlushInv
<1>2. CASE ConnectBegin(t)
  <2> DEFINE f == [NoWork EXCEPT !.k = calls + 1]
  <2>1. f.flush = 0 /\ f.flushCb = 0
    BY DEF NoWork
  <2>2. Goto(t, "connect", f)
    BY <1>2 DEF ConnectBegin
  <2> HIDE DEF f
  <2>3. Others(t) /\ pc'[t] = "connect" /\ frame'[t] = f
    BY <1>0, <2>2, GotoFrame
  <2>4. /\ shared'.connectFlushContainer = shared.connectFlushContainer /\ queued' = queued
        /\ container' = container /\ flushCbs' = flushCbs
    BY <1>2 DEF ConnectBegin, OptimisticConnect, clibVars, historyVars, TypeOK, SharedStates
  <2>5. \A j \in queued' : Named(j)
    BY <2>4 DEF Named
  <2> QED
    BY <1>0, <2>1, <2>3, <2>4, <2>5, FlushQuiet
<1>3. ASSUME NEW isShutdown \in BOOLEAN, CloseInternal(t, isShutdown),
             Close(t) \/ Shutdown(t)
      PROVE  FlushInv'
  <2>1. /\ Others(t) /\ pc'[t] \in {"ready", "work"}
        /\ frame'[t].flush \in {0, shared.connectFlushContainer} /\ frame'[t].flushCb = 0
        /\ shared'.connectFlushContainer \in {0, shared.connectFlushContainer}
    BY <1>0, <1>3, CloseInternalEffect
  <2>2. queued' = queued /\ container' = container /\ flushCbs' = flushCbs
    BY <1>3 DEF Close, Shutdown, historyVars
  <2>3. (\A j \in queued' : Named(j)) /\ Named(shared.connectFlushContainer)
    BY <2>2 DEF Named
  <2>4. frame'[t].flush \in {0, frame[t].flush} \/ Named(frame'[t].flush)
    BY <2>1, <2>3
  <2> QED
    BY <1>0, <2>1, <2>2, <2>3, <2>4, FlushQuiet
<1> QED
  BY <1>1, <1>2, <1>3 DEF AppCalls, Close, Shutdown

LEMMA StepFlush ==
    ASSUME TypeOK, FlushInv, NEW t \in Threads, Step(t),
           \A k \in Attempts : Fresh(k)' => Fresh(k)
    PROVE  FlushInv'
<1>q. \A j \in queued : Named(j)
  BY DEF Named
<1>1. CASE ConnectStarts(t)
  <2>1. Continue(t, NoWork) /\ shared' = shared /\ queued' = queued
        /\ container' = container /\ flushCbs' = flushCbs
    BY <1>1 DEF ConnectStarts, sdkVars, historyVars
  <2>2. Others(t) /\ pc'[t] \in {"ready", "work"} /\ frame'[t] = NoWork
    BY <2>1, ContinueFrame
  <2> QED
    BY <1>q, <2>1, <2>2, NoWorkFields, FlushQuiet
<1>2. CASE ConnectFails(t)
  <2>1. \E e : MoveToDisconnected(t, e)
    BY <1>2 DEF ConnectFails
  <2>2. queued' = queued /\ container' = container /\ flushCbs' = flushCbs
    BY <1>2 DEF ConnectFails, historyVars
  <2>3. /\ Others(t) /\ pc'[t] \in {"ready", "work"}
        /\ frame'[t].flush = 0 /\ frame'[t].flushCb = 0
        /\ shared'.connectFlushContainer = 0
    BY <2>1, MoveToDisconnectedEffect
  <2> QED
    BY <1>q, <2>2, <2>3, FlushQuiet
<1>3. CASE SendConnect(t)
  <2>1. /\ Continue(t, NoWork) /\ shared' = shared /\ queued' = queued \cup {frame[t].k}
        /\ container' = container /\ flushCbs' = flushCbs /\ pc[t] = "send"
    BY <1>3 DEF SendConnect, sdkVars, historyVars
  <2>2. Others(t) /\ pc'[t] \in {"ready", "work"} /\ frame'[t] = NoWork
    BY <2>1, ContinueFrame
  <2>3. \A j \in queued' : Named(j)
    BY <1>q, <2>1 DEF Named
  <2> QED
    BY <2>1, <2>2, <2>3, NoWorkFields, FlushQuiet
<1>4. CASE SendConnectFails(t)
  <2> DEFINE f == [NoWork EXCEPT !.close = frame[t].k]
  <2>1. f.flush = 0 /\ f.flushCb = 0
    BY DEF NoWork
  <2>2. Continue(t, f)
    BY <1>4 DEF SendConnectFails
  <2> HIDE DEF f
  <2>3. Others(t) /\ pc'[t] \in {"ready", "work"} /\ frame'[t] = f
    BY <2>2, ContinueFrame
  <2>4. /\ shared'.connectFlushContainer = 0 /\ queued' = queued
        /\ container' = container /\ flushCbs' = flushCbs
    BY <1>4 DEF SendConnectFails, clibVars, historyVars, TypeOK, SharedStates
  <2> QED
    BY <1>q, <2>1, <2>3, <2>4, FlushQuiet
<1>5. CASE CloseAfterUnknownMessage(t)
  <2>1. /\ CloseInternal(t, FALSE)
        /\ queued' = queued /\ container' = container /\ flushCbs' = flushCbs
    BY <1>5 DEF CloseAfterUnknownMessage, historyVars
  <2>2. /\ Others(t) /\ pc'[t] \in {"ready", "work"}
        /\ frame'[t].flush = 0 /\ frame'[t].flushCb = 0
        /\ shared'.connectFlushContainer = shared.connectFlushContainer
    BY <2>1, CloseInternalEffect
  <2> QED
    BY <1>q, <2>1, <2>2, FlushQuiet
<1>6. CASE CompleteFlush(t) \/ InvokeFlushCallback(t)
  BY <1>6, CompleteFlushSafe, InvokeFlushCallbackSafe
<1>7. ASSUME Works(t), ~CompleteFlush(t), ~InvokeFlushCallback(t) PROVE FlushInv'
  <2>1. /\ Others(t) /\ pc'[t] \in {"ready", "work"}
        /\ shared' = shared /\ queued' = queued
        /\ frame'[t].flush = frame[t].flush /\ frame'[t].flushCb = frame[t].flushCb
    BY <1>7, WorksEffect
  <2>2. container' = container /\ flushCbs' = flushCbs
    BY <1>7
    DEF Works, InvokeCallback, SetConnectPromise, CloseConnection, ScheduleClearTask,
        DropHandle, historyVars
  <2> QED
    BY <1>q, <2>1, <2>2, FlushQuiet
<1> QED
  BY <1>1, <1>2, <1>3, <1>4, <1>5, <1>6, <1>7 DEF Step, Works

LEMMA LoopEventsFlush ==
    ASSUME TypeOK, SafetyInv, AttemptsKnown, FlushInv, NEW l \in Loops, NEW k \in Attempts,
           LoopEvents(l, k), \A j \in Attempts : Fresh(j)' => Fresh(j)
    PROVE  FlushInv'
<1>0. l \in Threads
  BY DEF Threads
<1>q. \A j \in queued : Named(j)
  BY DEF Named
<1>1. CASE SetupSucceeds(l, k)
  BY <1>1, SetupSucceedsFlush
<1>2. CASE SetupFails(l, k) \/ ShutdownCompletes(l, k)
  <2>1. \E e : MoveToDisconnected(l, e)
    BY <1>2 DEF SetupFails, ShutdownCompletes, ConnectionShutdown
  <2>2. queued' = queued /\ container' = container /\ flushCbs' = flushCbs
    BY <1>2 DEF SetupFails, ShutdownCompletes, ConnectionShutdown, historyVars
  <2>3. /\ Others(l) /\ pc'[l] \in {"ready", "work"}
        /\ frame'[l].flush = 0 /\ frame'[l].flushCb = 0
        /\ shared'.connectFlushContainer = 0
    BY <1>0, <2>1, MoveToDisconnectedEffect
  <2> QED
    BY <1>0, <1>q, <2>2, <2>3, FlushQuiet
<1>3. ASSUME NEW f, Continue(l, f), f.flush = 0, f.flushCb = 0,
             shared'.connectFlushContainer = shared.connectFlushContainer,
             queued' = queued, container' = container, flushCbs' = flushCbs
      PROVE  FlushInv'
  <2>1. Others(l) /\ pc'[l] \in {"ready", "work"} /\ frame'[l] = f
    BY <1>0, <1>3, ContinueFrame
  <2> QED
    BY <1>0, <1>3, <1>q, <2>1, FlushQuiet
<1>4. CASE SetupAbandoned(l, k)
  <2> DEFINE f == [NoWork EXCEPT !.close = k]
  <2>1. f.flush = 0 /\ f.flushCb = 0
    BY DEF NoWork
  <2>2. /\ Continue(l, f) /\ shared'.connectFlushContainer = shared.connectFlushContainer
        /\ queued' = queued /\ container' = container /\ flushCbs' = flushCbs
    BY <1>4 DEF SetupAbandoned, historyVars, TypeOK, SharedStates
  <2> HIDE DEF f
  <2> QED
    BY <1>3, <2>1, <2>2
<1>5. CASE ConnackAccepted(l, k)
  <2> DEFINE f == [NoWork EXCEPT !.ctx = ConnectedContext(shared.callbackContext)]
  <2>1. f.flush = 0 /\ f.flushCb = 0
    BY DEF NoWork
  <2>2. /\ Continue(l, f) /\ shared'.connectFlushContainer = shared.connectFlushContainer
        /\ queued' = queued /\ container' = container /\ flushCbs' = flushCbs
    BY <1>5 DEF ConnackAccepted, clibVars, TypeOK, SharedStates
  <2> HIDE DEF f
  <2> QED
    BY <1>3, <2>1, <2>2
<1>6. ASSUME NEW ok \in BOOLEAN, ConnackRefused(l, k, ok) PROVE FlushInv'
  <2> DEFINE f == [NoWork EXCEPT
                     !.close = IF shared.currentState # "Disconnecting" THEN k ELSE 0]
  <2>1. f.flush = 0 /\ f.flushCb = 0
    BY DEF NoWork
  <2>2. /\ Continue(l, f) /\ shared'.connectFlushContainer = shared.connectFlushContainer
        /\ queued' = queued /\ container' = container /\ flushCbs' = flushCbs
    BY <1>6 DEF ConnackRefused, historyVars, TypeOK, SharedStates
  <2> HIDE DEF f
  <2> QED
    BY <1>3, <2>1, <2>2
<1>7. CASE Ping(l, k)
  <2>1. /\ shared' = shared /\ pc' = pc /\ frame' = frame /\ queued' = queued
        /\ container' = container /\ flushCbs' = flushCbs
    BY <1>7 DEF Ping, sdkVars, threadVars, clibVars
  <2>2. \A j \in Attempts : Named(j)' => Named(j)
    BY <2>1 DEF Named
  <2> QED
    BY <2>1, <2>2, FlushKept DEF FlushInv
<1>8. CASE UnknownMessage(l, k)
  <2>1. /\ Goto(l, "protocolError", NoWork) /\ shared' = shared /\ queued' = queued
        /\ container' = container /\ flushCbs' = flushCbs
    BY <1>8 DEF UnknownMessage, sdkVars, clibVars
  <2>2. Others(l) /\ pc'[l] = "protocolError" /\ frame'[l] = NoWork
    BY <1>0, <2>1, GotoFrame
  <2> QED
    BY <1>0, <1>q, <2>1, <2>2, NoWorkFields, FlushQuiet
<1>9. CASE ConnectFlushed(l, k)
  <2> DEFINE f == [NoWork EXCEPT !.flush = k]
  <2>1. f.flush = k /\ f.flushCb = 0
    BY DEF NoWork
  <2>2. /\ Continue(l, f) /\ shared' = shared /\ k \in queued /\ queued' = queued \ {k}
        /\ container' = container /\ flushCbs' = flushCbs
    BY <1>9 DEF ConnectFlushed, sdkVars, historyVars
  <2> HIDE DEF f
  <2>3. Others(l) /\ pc'[l] \in {"ready", "work"} /\ frame'[l] = f
    BY <1>0, <2>2, ContinueFrame
  <2>4. Named(frame'[l].flush) /\ \A j \in queued' : Named(j)
    BY <1>q, <2>1, <2>2, <2>3
  <2> QED
    BY <1>0, <2>1, <2>2, <2>3, <2>4, FlushQuiet
<1> QED
  BY <1>1, <1>2, <1>4, <1>5, <1>6, <1>7, <1>8, <1>9 DEF LoopEvents, SetupCompletes, Messages

LEMMA NextFlush ==
    ASSUME TypeOK, TypeOK', SafetyInv, AttemptsKnown, FlushInv, [Next]_vars PROVE FlushInv'
<1>1. \A k \in Attempts : Fresh(k)' => Fresh(k)
  BY NextFresh
<1>2. CASE UNCHANGED vars \/ RunClearTask \/ \E k \in Attempts : PeerCloses(k)
  <2>1. /\ shared' = shared /\ pc' = pc /\ frame' = frame /\ queued' = queued
        /\ container' = container /\ flushCbs' = flushCbs
    BY <1>2 DEF RunClearTask, PeerCloses, vars, sdkVars, threadVars, clibVars, historyVars
  <2>2. \A k \in Attempts : Named(k)' => Named(k)
    BY <2>1 DEF Named
  <2> QED
    BY <1>1, <2>1, <2>2, FlushKept DEF FlushInv
<1> QED
  BY <1>1, <1>2, AppCallsFlush, StepFlush, LoopEventsFlush DEF Next, Terminated

LEMMA FlushInvHolds == Spec => []FlushInv
<1>1. Init => FlushInv
  BY NullIsNoAttempt, NoWorkFields DEF Init, FlushInv, FlushOf, Named, Counted
<1>2. /\ TypeOK /\ TypeOK' /\ SafetyInv /\ AttemptsKnown /\ FlushInv /\ [Next]_vars
      => FlushInv'
  BY NextFlush
<1> QED
  BY <1>1, <1>2, TypeCorrect, SafetyInvHolds, AttemptsKnownHolds, PTL DEF Spec

(* The callback of the CONNECT message is made at most once, whichever of  *)
(* the flush and the destructor completes its container first.             *)
THEOREM FlushCallbackAtMostOnceHolds == Spec => []FlushCallbackAtMostOnce
<1>1. FlushInv => FlushCallbackAtMostOnce
  <2> SUFFICES ASSUME FlushInv, NEW k \in Attempts PROVE flushCbs[k] <= 1
    BY DEF FlushCallbackAtMostOnce
  <2>1. flushCbs[k] = 0 \/ flushCbs[k] = 1
    BY DEF FlushInv, FlushOf, Counted
  <2> QED
    BY <2>1
<1> QED
  BY <1>1, FlushInvHolds, PTL
=============================================================================
