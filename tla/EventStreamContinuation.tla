----------------------- MODULE EventStreamContinuation -----------------------
(***************************************************************************)
(* ClientContinuationImpl of eventstream_rpc/source/EventStreamClient.cpp: *)
(* one stream, from NewStream to the release of its C token, with the      *)
(* OnMessageFlushCallbackContainer of every message it sends.              *)
(*                                                                         *)
(* As in EventStreamConnection one action is one lock section, one C call  *)
(* or one user callback, and a thread's frame is the work it has left.     *)
(* The C library calls back on the connection's event loop.  Inner is that *)
(* loop's thread inside a stream handler callback, where the application   *)
(* may destroy the operation.                                              *)
(*                                                                         *)
(* Every Activate, SendStreamMessage and Close of the application has a    *)
(* number, its op: its flush container, its promise and, for Activate, its *)
(* result callback.  Op 0 is a null pointer, and also the Close that       *)
(* OnMessage and ShutDown make, whose future and callback nobody has.      *)
(***************************************************************************)
EXTENDS Integers, Sequences, FiniteSets

CONSTANTS
    AppThreads,     \* threads of the application
    Loop,           \* the connection's event loop
    Inner,          \* the same thread, inside a stream handler callback
    MaxOps,         \* bound on the application's operations
    SendMayFail     \* the C library may refuse a message on an open stream

Ops == 1 .. MaxOps
Op0 == Ops \cup {0}
Threads == AppThreads \cup {Loop, Inner}

ASSUME ContinuationAssumption ==
    /\ MaxOps \in Nat /\ IsFiniteSet(AppThreads)
    /\ Loop # Inner /\ Loop \notin AppThreads /\ Inner \notin AppThreads
    /\ SendMayFail \in BOOLEAN

VARIABLES
    shared,         \* m_sharedState
    valid,          \* m_continuationValid
    streamHandler,  \* m_streamHandler # nullptr
    handlerLock,    \* m_streamHandlerLock is held
    selfReference,  \* m_selfReference # nullptr
    handle,         \* ClientOperation::m_impl # nullptr
    shutDown,       \* ShutDown was called, and by which kind of thread
    pc, frame,      \* where each thread is, and the work it has left
    tasks,          \* AwsEventstreamContinuationReleaseTask's on a loop
    ops,            \* number of operations so far
    container,      \* flush container of each op
    resolved,       \* how often each op's promise and callback completed
    results,        \* how often each op's result callback was called
    token,          \* C library: state of the continuation token
    refs,           \* C library: references the binding holds on it
    ending,         \* C library: a TERMINATE_STREAM message passed
    queued,         \* C library: ops whose message is not flushed yet
    started,        \* history: ops the C library activated the stream for
    onStack         \* history: terminated inside a method of the impl

implVars == <<shared, valid, streamHandler, handlerLock, handle, shutDown>>
threadVars == <<pc, frame>>
opVars == <<ops, container, resolved, results>>
clibVars == <<token, ending, queued, started>>
refVars == <<refs, selfReference, onStack, tasks>>
vars == <<implVars, threadVars, opVars, clibVars, refVars>>

-----------------------------------------------------------------------------
States == {"None", "PendingActivate", "Activated", "PendingClose", "Closed"}

(* The work a thread has left, in the order the code does it: the result   *)
(* callback of an op, a stream message for the handler, the local token    *)
(* reference, the containers to Complete (won: the one whose lock section  *)
(* found it incomplete), scheduling the release of the token, a Close, the *)
(* end of a closed callback, the end of ~ClientOperation.  op, kind and    *)
(* prev belong to the call a thread makes into the C library.              *)
NoWork == [op |-> 0, kind |-> "none", prev |-> "None", resp |-> 0, stream |-> "none",
           tokenRef |-> FALSE, flushes |-> <<>>, won |-> 0, release |-> FALSE,
           close |-> FALSE, closed |-> FALSE, drop |-> FALSE]

Goto(t, l, f) ==
    /\ pc' = [pc EXCEPT ![t] = l]
    /\ frame' = [frame EXCEPT ![t] = f]

Continue(t, f) == Goto(t, IF f = NoWork THEN "ready" ELSE "work", f)

(* A null container and a container nobody looks at need no Complete.      *)
Flushes(op) == IF op = 0 THEN <<>> ELSE <<op>>

(* The call's own part of the frame is over; its container completes now.  *)
FailedKeepingToken(f) ==  \* mutant: the local reference leaks
    [f EXCEPT !.op = 0, !.kind = "none", !.prev = "None", !.flushes = Flushes(f.op)]
FailedSilently(f) ==  \* mutant: the container is deleted incomplete
    [f EXCEPT !.op = 0, !.kind = "none", !.prev = "None", !.tokenRef = TRUE]
Failed(f) == [f EXCEPT !.op = 0, !.kind = "none", !.prev = "None", !.tokenRef = TRUE,
                       !.flushes = Flushes(f.op)]
Accepted(f) == [f EXCEPT !.op = 0, !.kind = "none", !.prev = "None", !.tokenRef = TRUE]

-----------------------------------------------------------------------------
(* Initialize: the handler, and a self reference while there is a token.   *)
InitializedUnowned == streamHandler = TRUE /\ selfReference = FALSE  \* mutant
Initialized == streamHandler = TRUE /\ selfReference = valid

(* NewStream and Initialize: without a connection, or when the C library   *)
(* makes no stream, the continuation is born Closed.                       *)
Init ==
    /\ valid \in BOOLEAN
    /\ shared = [currentState |-> IF valid THEN "None" ELSE "Closed",
                 continuation |-> valid, activationContainer |-> 0,
                 activationResponse |-> 0, closeContainer |-> 0]
    /\ Initialized
    /\ handlerLock = FALSE
    /\ handle = TRUE
    /\ shutDown = "no"
    /\ pc = [t \in Threads |-> "ready"]
    /\ frame = [t \in Threads |-> NoWork]
    /\ tasks = 0
    /\ ops = 0
    /\ container = [o \in Ops |-> "none"]
    /\ resolved = [o \in Ops |-> 0]
    /\ results = [o \in Ops |-> 0]
    /\ token = IF valid THEN "fresh" ELSE "none"
    /\ refs = IF valid THEN 1 ELSE 0
    /\ ending = FALSE
    /\ queued = {}
    /\ started = {}
    /\ onStack = FALSE

ImplAlive == handle \/ selfReference

(* The application uses the operation until it destroys it.                *)
MayCall(t) == t \in AppThreads /\ pc[t] = "ready" /\ handle /\ shutDown = "no"

NewOp ==
    /\ ops < MaxOps
    /\ ops' = ops + 1
    /\ container' = [container EXCEPT ![ops + 1] = "Incomplete"]
    /\ UNCHANGED <<resolved, results>>

(* An operation refused under the lock: its container completes at once.   *)
Refused(t) ==
    /\ MayCall(t)
    /\ NewOp
    /\ Continue(t, [NoWork EXCEPT !.flushes = <<ops + 1>>])
    /\ UNCHANGED <<implVars, clibVars, refVars>>

-----------------------------------------------------------------------------
(* The activation is answered, failed or synthesized: shared state lets go *)
(* of its container and its result callback.                               *)
DropContainerOnly(s) == [s EXCEPT !.activationContainer = 0]  \* mutant
DropActivation(s) == [s EXCEPT !.activationContainer = 0, !.activationResponse = 0]

(* The result callback a handler moves out of shared state.                *)
ResponseUnlessClosing ==  \* mutant: lost when Close came first
    IF shared.currentState = "PendingClose" THEN 0 ELSE shared.activationResponse
Response == shared.activationResponse

ActivateRefused(t) == ~(shared.continuation /\ shared.currentState = "None") /\ Refused(t)

(* Activate's optimistic update.                                           *)
Activate(t) ==
    /\ MayCall(t)
    /\ shared.continuation /\ shared.currentState = "None"
    /\ NewOp
    /\ shared' = [shared EXCEPT !.currentState = "PendingActivate",
                                !.activationContainer = ops + 1,
                                !.activationResponse = ops + 1]
    /\ refs' = refs + 1
    /\ Goto(t, "call", [NoWork EXCEPT !.op = ops + 1, !.kind = "activate"])
    /\ UNCHANGED <<valid, streamHandler, handlerLock, handle, shutDown, clibVars,
                   selfReference, onStack, tasks>>

(* aws_event_stream_rpc_client_continuation_activate succeeds ...          *)
ActivateAccepted(t) ==
    /\ pc[t] = "call" /\ frame[t].kind = "activate"
    /\ token = "fresh"
    /\ token' = "open"
    /\ queued' = queued \cup {frame[t].op}
    /\ started' = started \cup {frame[t].op}
    /\ Continue(t, Accepted(frame[t]))
    /\ UNCHANGED <<implVars, opVars, ending, refVars>>

(* ... or fails, and the optimistic update is rolled back.                 *)
ActivateRollback(t) ==
    /\ pc[t] = "call" /\ frame[t].kind = "activate"
    /\ shared' = [DropActivation(shared) EXCEPT !.currentState = "None"]
    /\ Continue(t, Failed(frame[t]))
    /\ UNCHANGED <<valid, streamHandler, handlerLock, handle, shutDown, opVars,
                   clibVars, refVars>>

-----------------------------------------------------------------------------
SendRefused(t) ==
    ~(shared.continuation /\ shared.currentState = "Activated") /\ Refused(t)

SendStreamMessage(t) ==
    /\ MayCall(t)
    /\ shared.continuation /\ shared.currentState = "Activated"
    /\ NewOp
    /\ refs' = refs + 1
    /\ Goto(t, "call", [NoWork EXCEPT !.op = ops + 1, !.kind = "send"])
    /\ UNCHANGED <<implVars, clibVars, selfReference, onStack, tasks>>

-----------------------------------------------------------------------------
CanCloseActivated == shared.continuation /\ shared.currentState = "Activated"  \* mutant
CanClose == shared.continuation /\ shared.currentState \in {"PendingActivate", "Activated"}

CloseRefused(t) == ~CanClose /\ Refused(t)

(* Close's lock section, for an op of the application or for op 0.         *)
BeginClose(t, op, f) ==
    /\ shared' = [shared EXCEPT !.currentState = "PendingClose",
                                !.closeContainer = op]
    /\ refs' = refs + 1
    /\ Goto(t, "call", [f EXCEPT !.op = op, !.kind = "close",
                                 !.prev = shared.currentState, !.close = FALSE])
    /\ UNCHANGED <<valid, streamHandler, handlerLock, handle, shutDown, clibVars,
                   selfReference, onStack, tasks>>

Close(t) ==
    /\ MayCall(t)
    /\ CanClose
    /\ NewOp
    /\ BeginClose(t, ops + 1, NoWork)

(* aws_event_stream_rpc_client_continuation_send_message takes a message   *)
(* on an open stream; Close's message ends the stream.                     *)
SendAccepted(t) ==
    /\ pc[t] = "call" /\ frame[t].kind \in {"send", "close"}
    /\ token = "open"
    /\ queued' = queued \cup ({frame[t].op} \ {0})
    /\ ending' = (ending \/ frame[t].kind = "close")
    /\ Continue(t, Accepted(frame[t]))
    /\ UNCHANGED <<implVars, opVars, token, started, refVars>>

SendFails(t) ==
    /\ pc[t] = "call" /\ frame[t].kind \in {"send", "close"}
    /\ token # "open" \/ SendMayFail
    /\ IF frame[t].kind = "send" THEN Continue(t, Failed(frame[t]))
                                 ELSE Goto(t, "rollback", frame[t])
    /\ UNCHANGED <<implVars, opVars, clibVars, refVars>>

(* A failed Close restores the state it found, unless OnClosed was first.  *)
RestoredAlways(state, prev) == prev  \* mutant: a closed stream is revived
Restored(state, prev) == IF state = "Closed" THEN state ELSE prev

CloseRollback(t) ==
    /\ pc[t] = "rollback"
    /\ shared' = [shared EXCEPT
                    !.closeContainer = 0,
                    !.currentState = Restored(@, frame[t].prev)]
    /\ Continue(t, Failed(frame[t]))
    /\ UNCHANGED <<valid, streamHandler, handlerLock, handle, shutDown, opVars,
                   clibVars, refVars>>

-----------------------------------------------------------------------------
(* The handler goes under its lock, which the loop itself need not take.   *)
HandlerIgnoresLock(t) == t \in AppThreads \/ pc[Loop] = "inHandler"  \* mutant
HandlerFree(t) == \/ t \in AppThreads /\ ~handlerLock
                  \/ t = Inner /\ pc[Loop] = "inHandler"

(* ~ClientOperation: first the stream handler goes, under its lock unless  *)
(* the caller is the loop itself, or stays where no connection gave a      *)
(* loop; no call of the application is running.                            *)
ShutDown(t) ==
    /\ HandlerFree(t)
    /\ handle /\ shutDown = "no"
    /\ \A u \in AppThreads \cup {Inner} : pc[u] = "ready"
    /\ streamHandler' = FALSE \/ (~valid /\ UNCHANGED streamHandler)
    /\ shutDown' = IF t = Inner THEN "inHandler" ELSE "outside"
    /\ Goto(t, "gather", NoWork)
    /\ UNCHANGED <<shared, valid, handlerLock, handle, opVars, clibVars, refVars>>

(* Then, under the state lock, the callbacks to synthesize.                *)
ShutDownGather(t) ==
    LET fresh == shared.currentState = "None"
    IN  /\ pc[t] = "gather"
        /\ shared' = [DropActivation(shared) EXCEPT
                        !.currentState = IF fresh THEN "Closed" ELSE @,
                        !.continuation = IF fresh THEN FALSE ELSE @,
                        !.closeContainer = 0]
        /\ Continue(t, [NoWork EXCEPT
                        !.resp = Response,
                        !.flushes = Flushes(shared.activationContainer)
                                      \o Flushes(shared.closeContainer),
                        !.release = fresh, !.close = ~fresh, !.drop = TRUE])
        /\ UNCHANGED <<valid, streamHandler, handlerLock, handle, shutDown, opVars,
                       clibVars, refVars>>

-----------------------------------------------------------------------------
(* OnMessage.  A message is the initial response, an event of the stream,  *)
(* an error shape, or one DeserializeRawMessage can make nothing of; it    *)
(* may carry TERMINATE_STREAM.                                             *)
MessageKinds == {"response", "event", "error", "unmapped"}

OnMessage(m, terminate) ==
    LET isResponse == shared.currentState = "PendingActivate"
    IN  /\ pc[Loop] = "ready"
        /\ token = "open"
        /\ ending' = (ending \/ terminate)
        /\ IF isResponse
           THEN /\ shared' = [DropActivation(shared) EXCEPT
                       !.currentState = CASE m # "response" -> @
                                          [] terminate -> "PendingClose"
                                          [] OTHER -> "Activated"]
                /\ Continue(Loop, [NoWork EXCEPT !.resp = Response,
                                                 !.close = m # "response"])
           ELSE /\ Continue(Loop, [NoWork EXCEPT !.stream = m])
                /\ UNCHANGED shared
        /\ UNCHANGED <<valid, streamHandler, handlerLock, handle, shutDown, opVars,
                       token, queued, started, refVars>>

(* The handler lock is taken; without a handler nothing is called.         *)
EnterHandler ==
    /\ pc[Loop] = "work" /\ frame[Loop].stream # "none"
    /\ ~handlerLock
    /\ IF streamHandler
       THEN /\ handlerLock' = TRUE
            /\ Goto(Loop, "inHandler", frame[Loop])
       ELSE /\ Continue(Loop, [frame[Loop] EXCEPT !.stream = "none"])
            /\ UNCHANGED handlerLock
    /\ UNCHANGED <<shared, valid, streamHandler, handle, shutDown, opVars, clibVars,
                   refVars>>

(* OnStreamError's answer says whether to close; OnStreamEvent has none.   *)
LeaveHandler(shouldClose) ==
    /\ pc[Loop] = "inHandler"
    /\ pc[Inner] = "ready"
    /\ shouldClose => frame[Loop].stream # "event"
    /\ handlerLock' = FALSE
    /\ Continue(Loop, [frame[Loop] EXCEPT !.stream = "none", !.close = shouldClose])
    /\ UNCHANGED <<shared, valid, streamHandler, handle, shutDown, opVars, clibVars,
                   refVars>>

(* OnClosed: the stream ended, or its connection did.                      *)
OnClosed ==
    /\ pc[Loop] = "ready"
    /\ token = "open"
    /\ token' = "closing"
    /\ shared' = [DropActivation(shared) EXCEPT
                    !.currentState = "Closed", !.continuation = FALSE,
                    !.closeContainer = 0]
    /\ Continue(Loop, [NoWork EXCEPT
                    !.resp = Response,
                    !.flushes = Flushes(shared.activationContainer)
                                  \o Flushes(shared.closeContainer),
                    !.release = shared.continuation, !.closed = TRUE])
    /\ UNCHANGED <<valid, streamHandler, handlerLock, handle, shutDown, opVars,
                   ending, queued, started, refVars>>

(* s_protocolMessageCallback for a message the C library took.             *)
MessageFlushed(op) ==
    /\ pc[Loop] = "ready"
    /\ op \in queued
    /\ queued' = queued \ {op}
    /\ Continue(Loop, [NoWork EXCEPT !.flushes = <<op>>])
    /\ UNCHANGED <<implVars, opVars, token, ending, started, refVars>>

-----------------------------------------------------------------------------
(* The work done after a lock section.                                     *)

InvokeResult(t) ==
    /\ pc[t] = "work" /\ frame[t].resp # 0
    /\ results' = [results EXCEPT ![frame[t].resp] = @ + 1]
    /\ Continue(t, [frame[t] EXCEPT !.resp = 0])
    /\ UNCHANGED <<implVars, ops, container, resolved, clibVars, refVars>>

ResultDone(t) == pc[t] = "work" /\ frame[t].resp = 0 /\ frame[t].stream = "none"

(* Dropping a token reference: the last one makes the C library call       *)
(* s_OnContinuationTerminated before release returns.                      *)
DropTokenRef(tokenState, n) ==
    /\ refs' = n
    /\ selfReference' = (selfReference /\ ~(n = 0 /\ tokenState \in {"fresh", "closed"}))

(* The release at the end of Activate, SendStreamMessage and Close.        *)
ReleaseLocalRef(t) ==
    /\ ResultDone(t) /\ frame[t].tokenRef
    /\ DropTokenRef(token, refs - 1)
    /\ onStack' = (onStack \/ (selfReference /\ ~selfReference'))
    /\ Continue(t, [frame[t] EXCEPT !.tokenRef = FALSE])
    /\ UNCHANGED <<implVars, opVars, clibVars, tasks>>

LocalRefDone(t) == ResultDone(t) /\ ~frame[t].tokenRef

(* The first to Complete a container wins.                                 *)
WinsAlways(op) == TRUE  \* mutant: no test
Wins(op) == container[op] = "Incomplete"

(* OnMessageFlushCallbackContainer::Complete: the lock section ...         *)
CompleteFlush(t) ==
    LET op == Head(frame[t].flushes)
    IN  /\ LocalRefDone(t) /\ frame[t].won = 0 /\ frame[t].flushes # <<>>
        /\ container' = [container EXCEPT ![op] = "Finished"]
        /\ Continue(t, [frame[t] EXCEPT
                          !.flushes = Tail(@),
                          !.won = IF Wins(op) THEN op ELSE 0])
        /\ UNCHANGED <<implVars, ops, resolved, results, clibVars, refVars>>

(* ... and, for the first to come, the promise and the callback.           *)
ResolveFlush(t) ==
    /\ LocalRefDone(t) /\ frame[t].won # 0
    /\ resolved' = [resolved EXCEPT ![frame[t].won] = @ + 1]
    /\ Continue(t, [frame[t] EXCEPT !.won = 0])
    /\ UNCHANGED <<implVars, ops, container, results, clibVars, refVars>>

FlushesDone(t) == LocalRefDone(t) /\ frame[t].won = 0 /\ frame[t].flushes = <<>>

(* ReleaseContinuation schedules the release on some loop.                 *)
ReleaseContinuation(t) ==
    /\ FlushesDone(t) /\ frame[t].release
    /\ tasks' = tasks + 1
    /\ Continue(t, [frame[t] EXCEPT !.release = FALSE])
    /\ UNCHANGED <<implVars, opVars, clibVars, refs, selfReference, onStack>>

(* s_releaseContinuation.                                                  *)
RunReleaseTask ==
    /\ tasks > 0
    /\ tasks' = tasks - 1
    /\ DropTokenRef(token, refs - 1)
    /\ UNCHANGED <<implVars, threadVars, opVars, clibVars, onStack>>

ReleaseDone(t) == FlushesDone(t) /\ ~frame[t].release

(* The Close that OnMessage and ShutDown make.                             *)
CloseInternally(t) ==
    /\ ReleaseDone(t) /\ frame[t].close
    /\ IF CanClose
       THEN BeginClose(t, 0, frame[t])
       ELSE /\ Continue(t, [frame[t] EXCEPT !.close = FALSE])
            /\ UNCHANGED <<implVars, clibVars, refVars>>
    /\ UNCHANGED opVars

CloseDone(t) == ReleaseDone(t) /\ ~frame[t].close

(* The C library's closed callback returned: it lets go of the token.      *)
ClosedReturns ==
    /\ CloseDone(Loop) /\ frame[Loop].closed
    /\ token' = "closed"
    /\ DropTokenRef("closed", refs)
    /\ Continue(Loop, [frame[Loop] EXCEPT !.closed = FALSE])
    /\ UNCHANGED <<implVars, opVars, ending, queued, started, onStack, tasks>>

(* The end of ~ClientOperation: m_impl = nullptr.                          *)
DropHandle(t) ==
    /\ CloseDone(t) /\ frame[t].drop
    /\ handle' = FALSE
    /\ Continue(t, [frame[t] EXCEPT !.drop = FALSE])
    /\ UNCHANGED <<shared, valid, streamHandler, handlerLock, shutDown, opVars,
                   clibVars, refVars>>

-----------------------------------------------------------------------------
AppCalls(t) ==
    \/ ActivateRefused(t) \/ Activate(t)
    \/ SendRefused(t) \/ SendStreamMessage(t)
    \/ CloseRefused(t) \/ Close(t)

(* What a thread does without waiting for anyone.                          *)
Step(t) ==
    \/ ActivateAccepted(t) \/ ActivateRollback(t)
    \/ SendAccepted(t) \/ SendFails(t) \/ CloseRollback(t)
    \/ ShutDownGather(t)
    \/ InvokeResult(t) \/ ReleaseLocalRef(t)
    \/ CompleteFlush(t) \/ ResolveFlush(t)
    \/ ReleaseContinuation(t) \/ CloseInternally(t) \/ DropHandle(t)

LoopStep == EnterHandler \/ (\E b \in BOOLEAN : LeaveHandler(b)) \/ ClosedReturns

(* The operation is destroyed and nobody works for it any more.            *)
Terminated ==
    /\ ~handle
    /\ \A t \in Threads : pc[t] = "ready"
    /\ queued = {} /\ tasks = 0
    /\ token # "open"
    /\ UNCHANGED vars

Next ==
    \/ \E t \in AppThreads : AppCalls(t)
    \/ \E t \in AppThreads \cup {Inner} : ShutDown(t)
    \/ \E t \in Threads : Step(t)
    \/ LoopStep
    \/ \E m \in MessageKinds, b \in BOOLEAN : OnMessage(m, b)
    \/ OnClosed
    \/ \E op \in Ops : MessageFlushed(op)
    \/ RunReleaseTask
    \/ Terminated

Spec == Init /\ [][Next]_vars

(* Threads are scheduled, a stream handler returns, the C library flushes  *)
(* what it took and ends a stream after TERMINATE_STREAM; the peer's       *)
(* messages can delay that and not starve it.                              *)
Fairness ==
    /\ \A t \in Threads : WF_vars(Step(t))
    /\ WF_vars(LoopStep)
    /\ SF_vars(ending /\ OnClosed)
    /\ \A op \in Ops : SF_vars(MessageFlushed(op))
    /\ WF_vars(RunReleaseTask)

FairSpec == Spec /\ Fairness

-----------------------------------------------------------------------------
(* Properties.                                                             *)

Places == {"ready", "call", "rollback", "gather", "inHandler", "work"}
SharedStates ==
    [currentState: States, continuation: BOOLEAN,
     activationContainer: Op0, activationResponse: Op0, closeContainer: Op0]
Frames ==
    {f \in [op: Op0, kind: {"none", "activate", "send", "close"}, prev: States, resp: Op0,
            stream: MessageKinds \cup {"none"}, tokenRef: BOOLEAN, flushes: Seq(Ops),
            won: Op0, release: BOOLEAN, close: BOOLEAN, closed: BOOLEAN, drop: BOOLEAN] :
        f.kind \in {"activate", "send"} => f.op # 0}
ThreadsOK == pc \in [Threads -> Places] /\ frame \in [Threads -> Frames]

(* Every variable has its type.                                            *)
TypeOK ==
    /\ shared \in SharedStates
    /\ valid \in BOOLEAN /\ streamHandler \in BOOLEAN /\ handlerLock \in BOOLEAN
    /\ selfReference \in BOOLEAN /\ handle \in BOOLEAN /\ onStack \in BOOLEAN
    /\ ending \in BOOLEAN
    /\ shutDown \in {"no", "outside", "inHandler"}
    /\ ThreadsOK
    /\ tasks \in Nat /\ ops \in 0 .. MaxOps /\ refs \in Int
    /\ container \in [Ops -> {"none", "Incomplete", "Finished"}]
    /\ resolved \in [Ops -> Nat] /\ results \in [Ops -> Nat]
    /\ token \in {"none", "fresh", "open", "closing", "closed"}
    /\ queued \subseteq Ops /\ started \subseteq Ops

(* Every operation's promise completes once: it is complete, or exactly    *)
(* one thread is about to complete it, or the container is incomplete and  *)
(* a thread or the C library still has it.  A flush of the C library and   *)
(* the callbacks ShutDown and OnClosed synthesize race for it.             *)
PromiseCompletedOnce ==
    \A o \in Ops :
        LET won == {t \in Threads : frame[t].won = o}
        IN  CASE container[o] = "none" -> resolved[o] = 0 /\ won = {}
              [] container[o] = "Incomplete" ->
                   /\ resolved[o] = 0 /\ won = {}
                   /\ \/ o \in queued
                      \/ \E t \in Threads : \/ frame[t].op = o
                                            \/ \E i \in DOMAIN frame[t].flushes :
                                                  frame[t].flushes[i] = o
              [] OTHER -> \/ resolved[o] = 1 /\ won = {}
                          \/ resolved[o] = 0 /\ \E t \in Threads : won = {t}

(* The result callback of an activation the C library accepted is called   *)
(* once: it was called, or exactly one of shared state and the threads     *)
(* holds it, and after the stream is closed only a thread does.  An        *)
(* activation that was not accepted has only the failed future: its        *)
(* callback is never called and no thread takes it out of shared state.    *)
ResultHeldOnce ==
    \A o \in Ops :
        LET holders == {t \in Threads : frame[t].resp = o}
            kept == shared.activationResponse = o
        IN  IF o \in started
            THEN /\ results[o] + Cardinality(holders) + (IF kept THEN 1 ELSE 0) = 1
                 /\ token = "closed" => ~kept
            ELSE results[o] = 0 /\ holders = {}

(* The binding's references to the token are the shared one, those local   *)
(* to a call, and those on their way to a release task.                    *)
TokenReferencesBalanced ==
    refs = (IF shared.continuation THEN 1 ELSE 0) + tasks
           + Cardinality({t \in Threads : pc[t] \in {"call", "rollback"}})
           + Cardinality({t \in Threads : frame[t].tokenRef})
           + Cardinality({t \in Threads : frame[t].release})

(* The impl outlives every C callback that carries its address, and every  *)
(* thread that has to come back to its state or its handler lock.          *)
ImplOutlivesToken ==
    /\ token \in {"open", "closing"} \/ refs > 0 => selfReference
    /\ \A t \in Threads : pc[t] \in {"call", "rollback", "gather", "inHandler"} => ImplAlive

(* "streaming events/errors are not emitted after ShutDown is called": the *)
(* operation is gone while its handler runs only if the handler's own      *)
(* thread destroyed it.                                                    *)
NoStreamEventAfterShutDown ==
    pc[Loop] = "inHandler" /\ ~handle => shutDown = "inHandler"

(* What shared state says of the stream is what the C library knows: no    *)
(* token is lost before its stream is over, Activated is said of a stream  *)
(* that was activated, None of one that was not.                           *)
StateMatchesToken ==
    /\ shared.continuation <=> shared.currentState # "Closed"
    /\ shared.currentState = "None" => token = "fresh"
    /\ shared.currentState = "Activated" => token = "open"
    /\ token = "open" => shared.continuation

(* Every operation of the application gets its answer.                     *)
OpsResolve == \A o \in Ops : ops >= o ~> resolved[o] = 1

(* A destroyed operation is freed: its stream is closed or released, and   *)
(* the self reference dropped.  The exception is the state that            *)
(* RollbackAllowsActivate is violated by, PendingActivate of a token that  *)
(* no call is left to activate: ShutDown then closes instead of releasing, *)
(* the C close fails and is rolled back, and nothing ever frees the impl.  *)
NeverToClose ==
    /\ shared.currentState = "PendingActivate" /\ token = "fresh"
    /\ \A t \in Threads : frame[t].kind # "activate"
ShutDownFrees == ~handle ~> ~ImplAlive \/ NeverToClose

(* Once the stream is over, an accepted activation has had its result.     *)
ResultDelivered ==
    \A o \in Ops : (o \in started /\ (token = "closed" \/ ~handle)) ~> results[o] = 1

(* The comment on optimistic updates: "If the C call to activate() fails,  *)
(* then we roll back from PENDING_ACTIVATE, allowing future callers to     *)
(* again try and activate the continuation."                               *)
RollbackAllowsActivate ==
    (token = "fresh" /\ shutDown = "no" /\ \A t \in Threads : pc[t] = "ready")
        => shared.currentState = "None"

(* The comment on the release task: it makes it "impossible to trigger the *)
(* termination callback in a callstack that includes                       *)
(* ClientContinuationImpl methods or state".                               *)
TerminatedOffStack == ~onStack
-----------------------------------------------------------------------------
(* The continuation implements its operation's contract.                   *)
StreamNow ==
    IF token = "open" THEN "open" ELSE IF shared.continuation THEN "fresh" ELSE "over"

Operation == INSTANCE OperationContract WITH
    stream <- StreamNow,
    calls <- {o \in Ops : container[o] # "none"},
    answers <- resolved,
    activations <- started,
    results <- results,
    freed <- ~ImplAlive

(* Each call is answered at most once, an activation opens the stream      *)
(* before it is answered, and its result is reported once, before the impl *)
(* is freed, which no open stream is.                                      *)
ImplementsOperation == Operation!Spec
=============================================================================
