------------------------ MODULE EventStreamConnection ------------------------
(***************************************************************************)
(* ClientConnectionImpl of eventstream_rpc/source/EventStreamClient.cpp.   *)
(*                                                                         *)
(* The application calls Connect, Close and (through the destructor of     *)
(* ClientConnection) Shutdown from its own threads.  The C library calls   *)
(* the connection back on event loops: each C connection is pinned to one  *)
(* loop, and the loop the binding schedules its own task on is another     *)
(* choice.  m_sharedStateLock is never held across a C call or a user      *)
(* callback, so an operation is a lock section followed by work done       *)
(* without the lock; other threads run in between.  One action is one lock *)
(* section, one C call or one user callback, and a thread's frame is the   *)
(* work it still has to do, in the order the code does it.  A user         *)
(* callback that calls back into the API is the interleaving in which      *)
(* another thread makes that call while this one is between two actions.   *)
(*                                                                         *)
(* Every Connect call has a number, its attempt.  The promise it returns,  *)
(* the C connection it asks for and the flush container of its CONNECT     *)
(* message carry the same number; 0 is a null pointer.                     *)
(***************************************************************************)
EXTENDS Integers, Sequences, FiniteSets

CONSTANTS
    AppThreads,     \* threads of the application
    Loops,          \* event loops of the client bootstrap
    MaxConnects,    \* bound on the number of Connect calls
    ShutdownCodes   \* error codes the C library may report at shutdown

Attempts == 1 .. MaxConnects
Threads == AppThreads \cup Loops

ASSUME ConnectionAssumption ==
    /\ MaxConnects \in Nat
    /\ IsFiniteSet(AppThreads) /\ IsFiniteSet(Loops) /\ AppThreads \cap Loops = {}
    /\ ShutdownCodes \subseteq {"ok", "err"}

VARIABLES
    shared,         \* m_sharedState, the fields guarded by m_sharedStateLock
    selfReference,  \* m_selfReference # nullptr
    handle,         \* ClientConnection::m_impl # nullptr
    pc,             \* where each thread is
    frame,          \* the work each thread has left
    scheduled,      \* AwsEventstreamConnectionImplClearSharedTask's on a loop
    calls,          \* number of Connect calls so far
    promise,        \* the promise of each attempt
    container,      \* the CONNECT message's OnMessageFlushCallbackContainer
    cconn,          \* C library: state of each attempt's C connection
    loopOf,         \* C library: the loop a C connection is pinned to
    refs,           \* C library: references the binding holds on it
    queued,         \* C library: attempts whose CONNECT is not flushed yet
    accepted,       \* history: attempts whose CONNECT_ACK was accepted
    cbs,            \* history: lifecycle callbacks made for each attempt
    flushCbs,       \* history: connect request callbacks made
    late            \* history: a callback was made after the destructor

sdkVars == <<shared, selfReference, handle, scheduled>>
threadVars == <<pc, frame>>
clibVars == <<cconn, loopOf, refs, queued>>
promiseVars == <<calls, promise>>
historyVars == <<accepted, cbs, flushCbs, late>>
vars == <<sdkVars, threadVars, clibVars, promiseVars, container, historyVars>>

-----------------------------------------------------------------------------
(* Data.  An RpcError is a base status and a CRT error code; of the code   *)
(* only zero ("ok") and non-zero ("err") are told apart.                   *)

ClientStates == {"Disconnected", "PendingConnect", "PendingConnack",
                 "Connected", "Disconnecting"}

Bases == {"SUCCESS", "CONNECTION_CLOSED", "CONNECTION_SETUP_FAILED",
          "CONNECTION_ACCESS_DENIED", "CONNECTION_ALREADY_ESTABLISHED",
          "NULL_PARAMETER", "CRT_ERROR"}
RpcErrors == [base: Bases, crt: {"ok", "err"}]

RpcError(base, crt) == [base |-> base, crt |-> crt]
Success == RpcError("SUCCESS", "ok")
Closed == RpcError("CONNECTION_CLOSED", "err")

(* A promise that was not handed out yet, or has no value yet.             *)
Unset == RpcError("UNSET", "ok")
Pending == RpcError("PENDING", "ok")

(* A ConnectionCallbackContext.  "SetConnectPromise" is the point of       *)
(* InvokeCallbacks between the user's callback and the promise.            *)
Contexts == [action: {"None", "CompleteConnectPromise", "SetConnectPromise",
                      "DisconnectionCallback"},
             error: RpcErrors, attempt: Attempts \cup {0}]

NoContext == [action |-> "None", error |-> Success, attempt |-> 0]

ConnectContext(k) ==
    [action |-> "CompleteConnectPromise", error |-> Success, attempt |-> k]

SetErrorNever(ctx, e) == ctx  \* mutant: the reason of a failure is lost
SetError(ctx, e) ==
    IF ctx.error.base = "SUCCESS" THEN [ctx EXCEPT !.error = e] ELSE ctx

(* TransitionToConnected: the context left behind, and the one returned.   *)
DisconnectContextWithPromise(ctx) ==  \* mutant: the promise is copied, not moved
    [action |-> "CompleteConnectPromise", error |-> Success,
     attempt |-> ctx.attempt]
DisconnectContextEmpty(ctx) == NoContext  \* mutant: nothing left to report the end
DisconnectContext(ctx) ==
    [action |-> "DisconnectionCallback", error |-> Success,
     attempt |-> ctx.attempt]
ConnectedContext(ctx) ==
    [action |-> "CompleteConnectPromise", error |-> Success,
     attempt |-> ctx.attempt]

(* What is left to do for a context that was moved out of shared state.    *)
Work(ctx) == IF ctx.action = "None" THEN NoContext ELSE ctx

(* Which user callback InvokeCallbacks makes for a context.                *)
CallbackOfMissing(ctx) ==  \* mutant: the error case is forgotten
    CASE ctx.action = "DisconnectionCallback" -> "OnDisconnect"
      [] ctx.action = "CompleteConnectPromise" /\ ctx.error.crt = "ok" -> "OnConnect"
      [] OTHER -> "nothing"
CallbackOf(ctx) ==
    CASE ctx.action = "DisconnectionCallback" -> "OnDisconnect"
      [] ctx.action = "CompleteConnectPromise" /\ ctx.error.crt = "err" -> "OnError"
      [] OTHER -> "OnConnect"

(* m_sharedState.                                                          *)
SharedStates == [underlyingConnection: Attempts \cup {0}, currentState: ClientStates,
                 desiredState: {"Disconnected", "Connected"},
                 callbackContext: Contexts, connectFlushContainer: Attempts \cup {0},
                 hasShutDown: BOOLEAN]

(* A thread is outside the connection ("ready"), before the C calls of     *)
(* Connect and s_onConnectionSetup, between the two halves of the unknown  *)
(* message's handling, or doing the work a lock section left it.           *)
Places == {"ready", "connect", "send", "protocolError", "work"}

(* The work a thread has left after a lock section, done in this order:    *)
(* callbacks of ctx, Complete(flush), its user callback, close and release *)
(* of a C connection, scheduling the task that drops the self reference,   *)
(* dropping ClientConnection::m_impl.  k is the attempt a thread works for *)
(* while it is at "connect" or "send".                                     *)
Frames == [k: Attempts \cup {0}, ctx: Contexts, flush: Attempts \cup {0},
           flushCb: Attempts \cup {0}, close: Attempts \cup {0},
           task: BOOLEAN, drop: BOOLEAN]

NoWork == [k |-> 0, ctx |-> NoContext, flush |-> 0, flushCb |-> 0,
           close |-> 0, task |-> FALSE, drop |-> FALSE]

Goto(t, l, f) ==
    /\ pc' = [pc EXCEPT ![t] = l]
    /\ frame' = [frame EXCEPT ![t] = f]

Continue(t, f) == Goto(t, IF f = NoWork THEN "ready" ELSE "work", f)

-----------------------------------------------------------------------------
Init ==
    /\ shared = [underlyingConnection |-> 0, currentState |-> "Disconnected",
                 desiredState |-> "Disconnected", callbackContext |-> NoContext,
                 connectFlushContainer |-> 0, hasShutDown |-> FALSE]
    /\ selfReference = FALSE
    /\ handle = TRUE
    /\ scheduled = 0
    /\ pc = [t \in Threads |-> "ready"]
    /\ frame = [t \in Threads |-> NoWork]
    /\ calls = 0
    /\ promise = [k \in Attempts |-> Unset]
    /\ container = [k \in Attempts |-> "none"]
    /\ cconn = [k \in Attempts |-> "none"]
    /\ loopOf \in [Attempts -> Loops]
    /\ refs = [k \in Attempts |-> 0]
    /\ queued = {}
    /\ accepted = {}
    /\ cbs = [k \in Attempts |-> <<>>]
    /\ flushCbs = [k \in Attempts |-> 0]
    /\ late = FALSE

(* The impl object exists while something owns a shared_ptr to it.         *)
Alive == handle \/ selfReference \/ scheduled > 0 \/ \E t \in Threads : frame[t].task

IsOpen == shared.currentState = "Connected"

-----------------------------------------------------------------------------
(* The fields MoveToDisconnected resets.                                   *)
ResetKeepingConnection(s) ==  \* mutant: the released connection stays
    [s EXCEPT !.currentState = "Disconnected", !.desiredState = "Disconnected",
              !.callbackContext = NoContext, !.connectFlushContainer = 0]
Reset(s) ==
    [s EXCEPT !.underlyingConnection = 0, !.currentState = "Disconnected",
              !.desiredState = "Disconnected", !.callbackContext = NoContext,
              !.connectFlushContainer = 0]

(* MoveToDisconnected up to the end of its lock section; the callbacks and *)
(* the scheduling of the clear task are the thread's remaining work.       *)
MoveToDisconnected(t, e) ==
    LET k == shared.underlyingConnection
        ctx == SetError(shared.callbackContext, e)
    IN  /\ shared' = Reset(shared)
        /\ refs' = [j \in Attempts |-> IF j = k THEN refs[j] - 1 ELSE refs[j]]
        /\ selfReference' = FALSE
        /\ Continue(t, [NoWork EXCEPT !.ctx = IF shared.hasShutDown THEN NoContext ELSE Work(ctx),
                                      !.task = TRUE])
        /\ UNCHANGED <<handle, scheduled>>

(* The states in which CloseInternal has a C connection to close.          *)
ClosableOnlyConnected == {"Connected"}  \* mutant: a handshake cannot be cut short
ClosableTooMany == {"Connected", "PendingConnack", "PendingConnect"}  \* mutant
Closable == {"Connected", "PendingConnack"}

(* CloseInternal up to the end of its lock section.                        *)
CloseInternal(t, isShutdown) ==
    LET closing == shared.currentState \in Closable
        ctx == SetError(shared.callbackContext, Closed)
    IN  /\ shared' =
             [shared EXCEPT
                !.desiredState = "Disconnected",
                !.currentState = IF closing THEN "Disconnecting" ELSE @,
                !.hasShutDown = @ \/ isShutdown,
                !.callbackContext = IF isShutdown THEN NoContext ELSE ctx,
                !.connectFlushContainer = IF isShutdown THEN 0 ELSE @]
        /\ refs' = [j \in Attempts |->
                      IF closing /\ j = shared.underlyingConnection
                      THEN refs[j] + 1 ELSE refs[j]]
        /\ Continue(t, [NoWork EXCEPT
                !.ctx = IF isShutdown THEN Work(ctx) ELSE NoContext,
                !.flush = IF isShutdown THEN shared.connectFlushContainer ELSE 0,
                !.close = IF closing THEN shared.underlyingConnection ELSE 0,
                !.drop = isShutdown])
        /\ UNCHANGED <<selfReference, handle, scheduled>>

-----------------------------------------------------------------------------
(* The application's calls.                                                *)

MayCall(t) == pc[t] = "ready" /\ handle /\ ~shared.hasShutDown

(* A new connection needs the last one to be over.                         *)
MayConnectTooEarly == shared.desiredState = "Disconnected"  \* mutant: it may be closing
MayConnect == shared.currentState = "Disconnected"

(* Connect with a configuration ConnectionConfig::Validate rejects.        *)
ConnectInvalid(t) ==
    /\ MayCall(t)
    /\ calls < MaxConnects
    /\ calls' = calls + 1
    /\ promise' = [promise EXCEPT ![calls + 1] = RpcError("NULL_PARAMETER", "err")]
    /\ UNCHANGED <<sdkVars, threadVars, clibVars, container, historyVars>>

(* Connect when a connection exists or is being set up.                    *)
ConnectRefused(t) ==
    /\ MayCall(t)
    /\ calls < MaxConnects
    /\ ~MayConnect
    /\ calls' = calls + 1
    /\ promise' = [promise EXCEPT ![calls + 1] =
                     RpcError("CONNECTION_ALREADY_ESTABLISHED", "ok")]
    /\ UNCHANGED <<sdkVars, threadVars, clibVars, container, historyVars>>

(* Connect's optimistic update of the shared state and the self reference. *)
OptimisticConnectUnowned(k) ==  \* mutant: the C layer's owner is not taken
    /\ shared' = [shared EXCEPT !.desiredState = "Connected",
                                !.currentState = "PendingConnect",
                                !.callbackContext = ConnectContext(k)]
    /\ UNCHANGED selfReference
OptimisticConnect(k) ==
    /\ shared' = [shared EXCEPT !.desiredState = "Connected",
                                !.currentState = "PendingConnect",
                                !.callbackContext = ConnectContext(k)]
    /\ selfReference' = TRUE

(* Connect's lock section; the C call is the thread's next step.           *)
ConnectBegin(t) ==
    /\ MayCall(t)
    /\ calls < MaxConnects
    /\ MayConnect
    /\ calls' = calls + 1
    /\ promise' = [promise EXCEPT ![calls + 1] = Pending]
    /\ OptimisticConnect(calls + 1)
    /\ Goto(t, "connect", [NoWork EXCEPT !.k = calls + 1])
    /\ UNCHANGED <<handle, scheduled, clibVars, container, historyVars>>

(* aws_event_stream_rpc_client_connection_connect starts an attempt ...    *)
ConnectStarts(t) ==
    /\ pc[t] = "connect"
    /\ cconn' = [cconn EXCEPT ![frame[t].k] = "connecting"]
    /\ Continue(t, NoWork)
    /\ UNCHANGED <<sdkVars, loopOf, refs, queued, promiseVars, container, historyVars>>

(* ... or fails, and Connect rolls its optimistic update back.             *)
ConnectFails(t) ==
    /\ pc[t] = "connect"
    /\ MoveToDisconnected(t, RpcError("CONNECTION_SETUP_FAILED", "err"))
    /\ UNCHANGED <<cconn, loopOf, queued, promiseVars, container, historyVars>>

Close(t) ==
    /\ MayCall(t)
    /\ CloseInternal(t, FALSE)
    /\ UNCHANGED <<cconn, loopOf, queued, promiseVars, container, historyVars>>

(* ~ClientConnection.  The application lets no call of its own run on      *)
(* while it destroys the object, but may destroy it in a callback made by  *)
(* such a call.                                                            *)
Shutdown(t) ==
    /\ MayCall(t)
    /\ \A u \in AppThreads : pc[u] = "ready" \/ frame[u].ctx.action = "SetConnectPromise"
    /\ CloseInternal(t, TRUE)
    /\ UNCHANGED <<cconn, loopOf, queued, promiseVars, container, historyVars>>

-----------------------------------------------------------------------------
(* Callbacks of the C library, each on the loop its connection is pinned   *)
(* to, and only when that loop has returned from the callback before.      *)

OnLoop(l, k) == pc[l] = "ready" /\ loopOf[k] = l

(* s_onConnectionSetup with an error.                                      *)
SetupFails(l, k) ==
    /\ OnLoop(l, k)
    /\ cconn[k] = "connecting"
    /\ cconn' = [cconn EXCEPT ![k] = "gone"]
    /\ MoveToDisconnected(l, RpcError("CRT_ERROR", "err"))
    /\ UNCHANGED <<loopOf, queued, promiseVars, container, historyVars>>

(* s_onConnectionSetup keeps a reference in shared state and one for the   *)
(* thread, and asks whether anybody closed the connection meanwhile.       *)
SetupReferencesOne == 1  \* mutant: the two uses share a reference
SetupReferences == 2
NeverClosedMeanwhile == FALSE  \* mutant: a Close during PendingConnect is lost
ClosedMeanwhile == shared.desiredState # "Connected"

(* s_onConnectionSetup: somebody closed the connection meanwhile.          *)
SetupAbandoned(l, k) ==
    /\ OnLoop(l, k)
    /\ cconn[k] = "connecting"
    /\ ClosedMeanwhile
    /\ cconn' = [cconn EXCEPT ![k] = "up"]
    /\ refs' = [refs EXCEPT ![k] = @ + SetupReferences]
    /\ shared' = [shared EXCEPT !.underlyingConnection = k,
                                !.currentState = "Disconnecting"]
    /\ Continue(l, [NoWork EXCEPT !.close = k])
    /\ UNCHANGED <<selfReference, handle, scheduled, loopOf, queued, promiseVars,
                   container, historyVars>>

(* s_onConnectionSetup: the optimistic update to PendingConnack.           *)
SetupSucceeds(l, k) ==
    /\ OnLoop(l, k)
    /\ cconn[k] = "connecting"
    /\ ~ClosedMeanwhile
    /\ cconn' = [cconn EXCEPT ![k] = "up"]
    /\ refs' = [refs EXCEPT ![k] = @ + SetupReferences]
    /\ container' = [container EXCEPT ![k] = "Incomplete"]
    /\ shared' = [shared EXCEPT !.underlyingConnection = k,
                                !.currentState = "PendingConnack",
                                !.connectFlushContainer = k]
    /\ Goto(l, "send", [NoWork EXCEPT !.k = k])
    /\ UNCHANGED <<selfReference, handle, scheduled, loopOf, queued, promiseVars,
                   historyVars>>

(* send_protocol_message takes the CONNECT message ...                     *)
SendConnect(l) ==
    /\ pc[l] = "send"
    /\ queued' = queued \cup {frame[l].k}
    /\ refs' = [refs EXCEPT ![frame[l].k] = @ - 1]
    /\ Continue(l, NoWork)
    /\ UNCHANGED <<sdkVars, cconn, loopOf, promiseVars, container, historyVars>>

(* ... or refuses it: the connection is closed with the reference that     *)
(* was held for the send.                                                  *)
SendConnectFails(l) ==
    /\ pc[l] = "send"
    /\ shared' = [shared EXCEPT
                    !.callbackContext = SetError(@, RpcError("CRT_ERROR", "err")),
                    !.currentState = "Disconnecting",
                    !.connectFlushContainer = 0]
    /\ Continue(l, [NoWork EXCEPT !.close = frame[l].k])
    /\ UNCHANGED <<selfReference, handle, scheduled, clibVars, promiseVars,
                   container, historyVars>>

(* s_onConnectionShutdown, after Close, a failure or the peer's close.     *)
ConnectionShutdown(l, k, code) ==
    /\ OnLoop(l, k)
    /\ cconn[k] = "closing"
    /\ cconn' = [cconn EXCEPT ![k] = "gone"]
    /\ MoveToDisconnected(l, RpcError("CONNECTION_CLOSED", code))
    /\ UNCHANGED <<loopOf, queued, promiseVars, container, historyVars>>

PeerCloses(k) ==
    /\ cconn[k] = "up"
    /\ cconn' = [cconn EXCEPT ![k] = "closing"]
    /\ UNCHANGED <<sdkVars, threadVars, loopOf, refs, queued, promiseVars,
                   container, historyVars>>

-----------------------------------------------------------------------------
(* s_onProtocolMessage.                                                    *)

Receives(l, k) == OnLoop(l, k) /\ cconn[k] \in {"up", "closing"}

AwaitsConnackTwice == shared.currentState \in {"PendingConnack", "Connected"}  \* mutant
AwaitsConnack == shared.currentState = "PendingConnack"

(* A CONNECT_ACK that completes the handshake.                             *)
ConnackAccepted(l, k) ==
    /\ Receives(l, k)
    /\ AwaitsConnack
    /\ shared' = [shared EXCEPT !.currentState = "Connected",
                                !.callbackContext = DisconnectContext(@)]
    /\ accepted' = accepted \cup {k}
    /\ Continue(l, [NoWork EXCEPT !.ctx = ConnectedContext(shared.callbackContext)])
    /\ UNCHANGED <<selfReference, handle, scheduled, clibVars, promiseVars,
                   container, cbs, flushCbs, late>>

(* A CONNECT_ACK that rejects, or that comes after the handshake.          *)
ConnackRefused(l, k, successfulAck) ==
    LET base == IF successfulAck THEN "CONNECTION_CLOSED" ELSE "CONNECTION_ACCESS_DENIED"
        closing == shared.currentState # "Disconnecting"
    IN  /\ Receives(l, k)
        /\ ~AwaitsConnack \/ ~successfulAck
        /\ shared' = [shared EXCEPT
                        !.callbackContext = IF shared.hasShutDown THEN @
                                            ELSE SetError(@, RpcError(base, "ok")),
                        !.desiredState = "Disconnected",
                        !.currentState = "Disconnecting"]
        /\ refs' = IF closing THEN [refs EXCEPT ![k] = @ + 1] ELSE refs
        /\ Continue(l, [NoWork EXCEPT !.close = IF closing THEN k ELSE 0])
        /\ UNCHANGED <<selfReference, handle, scheduled, cconn, loopOf, queued,
                       promiseVars, container, historyVars>>

(* PING calls the lifecycle handler and changes nothing else.              *)
Ping(l, k) ==
    /\ Receives(l, k)
    /\ late' = (late \/ ~handle)
    /\ UNCHANGED <<sdkVars, threadVars, clibVars, promiseVars, container,
                   accepted, cbs, flushCbs>>

(* Any other message: OnErrorCallback, then Close.                         *)
UnknownMessage(l, k) ==
    /\ Receives(l, k)
    /\ late' = (late \/ ~handle)
    /\ Goto(l, "protocolError", NoWork)
    /\ UNCHANGED <<sdkVars, clibVars, promiseVars, container, accepted, cbs, flushCbs>>

CloseAfterUnknownMessage(l) ==
    /\ pc[l] = "protocolError"
    /\ CloseInternal(l, FALSE)
    /\ UNCHANGED <<cconn, loopOf, queued, promiseVars, container, historyVars>>

(* s_protocolMessageCallback: the CONNECT message was written, or dropped. *)
ConnectFlushed(l, k) ==
    /\ OnLoop(l, k)
    /\ k \in queued
    /\ queued' = queued \ {k}
    /\ Continue(l, [NoWork EXCEPT !.flush = k])
    /\ UNCHANGED <<sdkVars, cconn, loopOf, refs, promiseVars, container, historyVars>>

-----------------------------------------------------------------------------
(* The work done after a lock section.                                     *)

(* InvokeCallbacks: the user's callback ...                                *)
InvokeCallback(t) ==
    LET ctx == frame[t].ctx
    IN  /\ pc[t] = "work"
        /\ ctx.action \in {"CompleteConnectPromise", "DisconnectionCallback"}
        /\ cbs' = [cbs EXCEPT ![ctx.attempt] = Append(@, CallbackOf(ctx))]
        /\ late' = (late \/ ~handle)
        /\ Continue(t, [frame[t] EXCEPT !.ctx =
                          IF ctx.action = "CompleteConnectPromise"
                          THEN [ctx EXCEPT !.action = "SetConnectPromise"]
                          ELSE NoContext])
        /\ UNCHANGED <<sdkVars, clibVars, promiseVars, container, accepted, flushCbs>>

(* ... then m_connectPromise.set_value.                                    *)
SetConnectPromise(t) ==
    LET ctx == frame[t].ctx
    IN  /\ pc[t] = "work"
        /\ ctx.action = "SetConnectPromise"
        /\ promise' = [promise EXCEPT ![ctx.attempt] = ctx.error]
        /\ Continue(t, [frame[t] EXCEPT !.ctx = NoContext])
        /\ UNCHANGED <<sdkVars, clibVars, calls, container, historyVars>>

CallbacksDone(t) == pc[t] = "work" /\ frame[t].ctx.action = "None"

(* The first to Complete a container wins.                                 *)
WinsAlways(k) == TRUE  \* mutant: no test
WinsLate(k) == container[k] = "Finished"  \* mutant: the test is inverted
Wins(k) == container[k] = "Incomplete"

(* OnMessageFlushCallbackContainer::Complete, lock section.                *)
CompleteFlush(t) ==
    LET k == frame[t].flush
    IN  /\ CallbacksDone(t)
        /\ k # 0
        /\ container' = [container EXCEPT ![k] = "Finished"]
        /\ Continue(t, [frame[t] EXCEPT
                          !.flush = 0,
                          !.flushCb = IF Wins(k) THEN k ELSE 0])
        /\ UNCHANGED <<sdkVars, clibVars, promiseVars, historyVars>>

(* OnMessageFlushCallbackContainer::Complete, the callback.                *)
InvokeFlushCallback(t) ==
    LET k == frame[t].flushCb
    IN  /\ CallbacksDone(t)
        /\ k # 0
        /\ flushCbs' = [flushCbs EXCEPT ![k] = @ + 1]
        /\ late' = (late \/ ~handle)
        /\ Continue(t, [frame[t] EXCEPT !.flushCb = 0])
        /\ UNCHANGED <<sdkVars, clibVars, promiseVars, container, accepted, cbs>>

FlushDone(t) == CallbacksDone(t) /\ frame[t].flush = 0 /\ frame[t].flushCb = 0

(* aws_event_stream_rpc_client_connection_close and _release.              *)
CloseConnection(t) ==
    LET k == frame[t].close
    IN  /\ FlushDone(t)
        /\ k # 0
        /\ cconn' = [cconn EXCEPT ![k] = IF @ = "up" THEN "closing" ELSE @]
        /\ refs' = [refs EXCEPT ![k] = @ - 1]
        /\ Continue(t, [frame[t] EXCEPT !.close = 0])
        /\ UNCHANGED <<sdkVars, loopOf, queued, promiseVars, container, historyVars>>

CloseDone(t) == FlushDone(t) /\ frame[t].close = 0

ScheduleClearTask(t) ==
    /\ CloseDone(t)
    /\ frame[t].task
    /\ scheduled' = scheduled + 1
    /\ Continue(t, [frame[t] EXCEPT !.task = FALSE])
    /\ UNCHANGED <<shared, selfReference, handle, clibVars, promiseVars, container,
                   historyVars>>

(* The end of ~ClientConnection: m_impl = nullptr.                         *)
DropHandle(t) ==
    /\ CloseDone(t)
    /\ frame[t].drop
    /\ handle' = FALSE
    /\ Continue(t, [frame[t] EXCEPT !.drop = FALSE])
    /\ UNCHANGED <<shared, selfReference, scheduled, clibVars, promiseVars, container,
                   historyVars>>

(* s_zeroSharedReference.                                                  *)
RunClearTask ==
    /\ scheduled > 0
    /\ scheduled' = scheduled - 1
    /\ UNCHANGED <<shared, selfReference, handle, threadVars, clibVars, promiseVars,
                   container, historyVars>>

-----------------------------------------------------------------------------
AppCalls(t) ==
    \/ ConnectInvalid(t) \/ ConnectRefused(t) \/ ConnectBegin(t)
    \/ Close(t) \/ Shutdown(t)

(* What a thread does without waiting for anyone.                          *)
Step(t) ==
    \/ ConnectStarts(t) \/ ConnectFails(t)
    \/ SendConnect(t) \/ SendConnectFails(t) \/ CloseAfterUnknownMessage(t)
    \/ InvokeCallback(t) \/ SetConnectPromise(t)
    \/ CompleteFlush(t) \/ InvokeFlushCallback(t)
    \/ CloseConnection(t) \/ ScheduleClearTask(t) \/ DropHandle(t)

SetupCompletes(l, k) == SetupFails(l, k) \/ SetupAbandoned(l, k) \/ SetupSucceeds(l, k)
ShutdownCompletes(l, k) == \E code \in ShutdownCodes : ConnectionShutdown(l, k, code)

Messages(l, k) ==
    \/ ConnackAccepted(l, k)
    \/ \E ok \in BOOLEAN : ConnackRefused(l, k, ok)
    \/ Ping(l, k) \/ UnknownMessage(l, k)

LoopEvents(l, k) ==
    \/ SetupCompletes(l, k) \/ ShutdownCompletes(l, k)
    \/ Messages(l, k) \/ ConnectFlushed(l, k)

(* Everything is over: the impl is destroyed and no C connection is left.  *)
Terminated ==
    /\ ~Alive
    /\ \A t \in Threads : pc[t] = "ready"
    /\ queued = {}
    /\ \A k \in Attempts : cconn[k] \in {"none", "gone"}
    /\ UNCHANGED vars

Next ==
    \/ \E t \in AppThreads : AppCalls(t)
    \/ \E t \in Threads : Step(t)
    \/ \E l \in Loops, k \in Attempts : LoopEvents(l, k)
    \/ \E k \in Attempts : PeerCloses(k)
    \/ RunClearTask
    \/ Terminated

Spec == Init /\ [][Next]_vars

(* Threads are scheduled and the C library completes what it accepted: a   *)
(* setup, the shutdown of a closed connection and a flush are on the       *)
(* loop's queue, which messages of the peer can delay and not starve.      *)
Fairness ==
    /\ \A t \in Threads : WF_vars(Step(t))
    /\ \A l \in Loops, k \in Attempts :
          /\ SF_vars(SetupCompletes(l, k))
          /\ SF_vars(ShutdownCompletes(l, k))
          /\ SF_vars(ConnectFlushed(l, k))
    /\ WF_vars(RunClearTask)

FairSpec == Spec /\ Fairness

-----------------------------------------------------------------------------
(* Properties.                                                             *)

(* A thread before one of the C calls works for some attempt.              *)
ThreadsOK ==
    /\ pc \in [Threads -> Places]
    /\ frame \in [Threads -> Frames]
    /\ \A t \in Threads : pc[t] \in {"connect", "send"} => frame[t].k # 0

(* Every variable has its type: the fields of m_sharedState, the work      *)
(* lists of the threads, and the C library's side.                         *)
TypeOK ==
    /\ shared \in SharedStates
    /\ selfReference \in BOOLEAN /\ handle \in BOOLEAN /\ scheduled \in Nat
    /\ ThreadsOK
    /\ calls \in 0 .. MaxConnects
    /\ promise \in [Attempts -> RpcErrors \cup {Unset, Pending}]
    /\ container \in [Attempts -> {"none", "Incomplete", "Finished"}]
    /\ cconn \in [Attempts -> {"none", "connecting", "up", "closing", "gone"}]
    /\ loopOf \in [Attempts -> Loops]
    /\ refs \in [Attempts -> Int]
    /\ queued \subseteq Attempts /\ accepted \subseteq Attempts
    /\ cbs \in [Attempts -> Seq({"OnConnect", "OnError", "OnDisconnect"})]
    /\ flushCbs \in [Attempts -> Nat]
    /\ late \in BOOLEAN

(* Contexts that will set the connect promise of attempt k.                *)
HoldsPromise(ctx, k) ==
    ctx.action \in {"CompleteConnectPromise", "SetConnectPromise"} /\ ctx.attempt = k

(* A promise without a value is held by exactly one callback context, the  *)
(* shared one or one a thread moved out of it, and a promise with a value  *)
(* by none: set_value is never called twice (it would throw in a noexcept  *)
(* function) and no Connect's future is abandoned, whatever Close,         *)
(* Shutdown, setup, CONNECT_ACK and shutdown callbacks race.               *)
ConnectPromiseHeldOnce ==
    \A k \in Attempts :
        LET holders == {t \in Threads : HoldsPromise(frame[t].ctx, k)}
            kept == HoldsPromise(shared.callbackContext, k)
        IN  IF promise[k] = Pending
            THEN \/ kept /\ holders = {}
                 \/ ~kept /\ \E t \in Threads : holders = {t}
            ELSE ~kept /\ holders = {}

(* The binding's references to a C connection are the shared one, those of *)
(* threads about to close it, and the one held while CONNECT is sent: none *)
(* is leaked and none released twice, over Close racing setup, CONNECT_ACK *)
(* and the rollback that turns the send's reference into the close's.      *)
ReferencesBalanced ==
    \A k \in Attempts :
        refs[k] = (IF shared.underlyingConnection = k THEN 1 ELSE 0)
                  + Cardinality({t \in Threads : frame[t].close = k})
                  + Cardinality({t \in Threads : pc[t] = "send" /\ frame[t].k = k})

(* The self reference keeps the impl alive while the C library may call it *)
(* back with its raw pointer, and while a thread has to come back to its   *)
(* shared state (invariant 4 of the comment above the class).              *)
ImplOutlivesCLayer ==
    /\ \A k \in Attempts : cconn[k] \in {"connecting", "up", "closing"} => selfReference
    /\ \A t \in Threads : pc[t] \in {"connect", "send", "protocolError"} => Alive

(* The AWS_FATAL_ASSERTs of s_onConnectionSetup: while the C library works *)
(* on a connect, nothing alters PendingConnect or the flush container.     *)
SetupAssertions ==
    \A k \in Attempts : cconn[k] = "connecting" =>
        /\ shared.currentState = "PendingConnect"
        /\ shared.connectFlushContainer = 0
        /\ \A j \in Attempts \ {k} : cconn[j] \in {"none", "gone"}

(* The C connection shared state points at (the one NewStream opens its    *)
(* streams on) is there in exactly the states that say so, and is one the  *)
(* C library has not shut down.                                            *)
UnderlyingCoherent ==
    LET k == shared.underlyingConnection
    IN  /\ k # 0 <=> shared.currentState \in {"PendingConnack", "Connected", "Disconnecting"}
        /\ k # 0 => cconn[k] \in {"up", "closing"}

(* A Close is never lost: no connection that was told to disconnect is     *)
(* waiting for a CONNECT_ACK or Connected, and in Disconnecting the C      *)
(* connection is closing or some thread is about to close it.              *)
CloseTakesEffect ==
    /\ shared.currentState \in {"PendingConnack", "Connected"}
          => shared.desiredState = "Connected"
    /\ shared.currentState = "Disconnecting" =>
          LET k == shared.underlyingConnection
          IN  \/ cconn[k] = "closing"
              \/ \E t \in Threads : frame[t].close = k

(* Connect's future says success only of an attempt whose CONNECT_ACK was  *)
(* accepted, never of one that was rejected, closed or shut down first.    *)
SuccessOnlyIfAccepted ==
    \A k \in Attempts : promise[k] = Success => k \in accepted

(* The lifecycle callbacks of an attempt: OnConnect then OnDisconnect, or  *)
(* one OnError.  Only the destructor can make the disconnect it            *)
(* synthesizes overtake the OnConnect of a loop between its lock section   *)
(* and its callback.                                                       *)
CallbackOrder ==
    \A k \in Attempts :
        \/ cbs[k] \in {<<>>, <<"OnError">>, <<"OnConnect">>, <<"OnConnect", "OnDisconnect">>}
        \/ /\ shared.hasShutDown
           /\ cbs[k] \in {<<"OnDisconnect">>, <<"OnDisconnect", "OnConnect">>}

(* The connect request callback is made at most once, though the C         *)
(* library's flush and the destructor both complete its container.         *)
FlushCallbackAtMostOnce ==
    \A k \in Attempts : flushCbs[k] <= 1

(* Close, Shutdown or a failure brings the connection to Disconnected.     *)
CloseCompletes ==
    shared.desiredState = "Disconnected" ~> shared.currentState = "Disconnected"

(* A Connect whose connection is to be disconnected gets its answer.       *)
ConnectResolves ==
    \A k \in Attempts :
        (promise[k] = Pending /\ shared.desiredState = "Disconnected") ~> promise[k] # Pending

(* The application hears of the end of every connection it had.            *)
DisconnectReported ==
    \A k \in Attempts :
        (k \in accepted /\ cconn[k] = "gone") ~> \E i \in DOMAIN cbs[k] : cbs[k][i] = "OnDisconnect"

(* Every CONNECT message handed to the C library has its callback.         *)
FlushReported ==
    \A k \in Attempts : k \in queued ~> flushCbs[k] = 1

(* After the destructor the impl is freed: the self reference is no leak.  *)
ImplFreed == shared.hasShutDown ~> ~Alive

(* The header's words on OnConnectCallback: "only invoked upon receiving a *)
(* CONNECT_ACK with the CONNECTION_ACCEPTED flag set by the server".       *)
OnConnectOnlyIfAccepted ==
    \A k \in Attempts :
        (\E i \in DOMAIN cbs[k] : cbs[k][i] = "OnConnect") => k \in accepted

(* The comment on Shutdown: "When this returns, no further callbacks will  *)
(* be made."                                                               *)
NoCallbackAfterShutdown == ~late

-----------------------------------------------------------------------------
(* The connection implements its contract.  An attempt is live from        *)
(* Connect's lock section to the end of its C connection.                  *)
IsLive(k) ==
    \/ cconn[k] \in {"connecting", "up", "closing"}
    \/ \E t \in Threads : pc[t] = "connect" /\ frame[t].k = k

PhaseOf(k) ==
    CASE k > calls -> "none"
      [] k <= calls /\ IsLive(k) -> IF k \in accepted THEN "open" ELSE "connecting"
      [] OTHER -> IF k \in accepted THEN "closed" ELSE "failed"

ResultOf(e) ==
    CASE e = Unset -> "none" [] e = Pending -> "pending"
      [] e = Success -> "success" [] OTHER -> "failure"

Contract == INSTANCE ConnectionContract WITH
    phase <- [k \in Attempts |-> PhaseOf(k)],
    result <- [k \in Attempts |-> ResultOf(promise[k])]

(* Attempts are served one at a time, each future gets one value and       *)
(* success only after the server accepted.                                 *)
ImplementsContract == Contract!Spec
=============================================================================
