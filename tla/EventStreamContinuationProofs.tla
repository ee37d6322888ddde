-------------------- MODULE EventStreamContinuationProofs --------------------
(***************************************************************************)
(* Theorems about EventStreamContinuation for any number of threads and of *)
(* operations: types, the state machine of the stream, the references to   *)
(* its token and the lifetime of the impl.                                 *)
(***************************************************************************)
EXTENDS EventStreamContinuation, FiniteSetTheorems, TLAPS

-----------------------------------------------------------------------------
(* Types of the work lists.                                                *)

LEMMA OpsNotNull == 0 \notin Ops /\ Ops \subseteq Op0 /\ Op0 \subseteq Nat
BY ContinuationAssumption DEF Ops, Op0

LEMMA NewOpType ==
    ASSUME TypeOK, NewOp
    PROVE  /\ ops + 1 \in Ops /\ ops' = ops + 1 /\ ops' \in 0 .. MaxOps
           /\ container' \in [Ops -> {"none", "Incomplete", "Finished"}]
           /\ UNCHANGED <<resolved, results>>
BY ContinuationAssumption DEF NewOp, TypeOK, Ops

LEMMA NoWorkType == NoWork \in Frames
BY DEF NoWork, Frames, Op0, States, MessageKinds

LEMMA FlushesType ==
    ASSUME NEW a \in Op0, NEW b \in Op0
    PROVE  Flushes(a) \in Seq(Ops) /\ Flushes(a) \o Flushes(b) \in Seq(Ops)
<1>1. \A o \in Op0 : Flushes(o) \in Seq(Ops)
  BY DEF Flushes, Op0
<1> QED
  BY <1>1

LEMMA CallOverType ==
    ASSUME NEW f \in Frames PROVE Failed(f) \in Frames /\ Accepted(f) \in Frames
<1>1. f.op \in Op0 /\ 0 \in Op0 /\ "None" \in States
  BY DEF Frames, Op0, States
<1>2. Flushes(f.op) \in Seq(Ops)
  BY <1>1, FlushesType
<1> QED
  BY <1>1, <1>2 DEF Failed, Accepted, Frames

LEMMA GotoType ==
    ASSUME ThreadsOK, NEW t \in Threads, NEW l \in Places, NEW f \in Frames, Goto(t, l, f)
    PROVE  ThreadsOK'
BY DEF Goto, ThreadsOK

LEMMA ContinueType ==
    ASSUME ThreadsOK, NEW t \in Threads, NEW f \in Frames, Continue(t, f)
    PROVE  ThreadsOK'
BY GotoType DEF Continue, Places

LEMMA DropActivationType ==
    ASSUME NEW s \in SharedStates, NEW state \in States, NEW b \in BOOLEAN, NEW c \in Op0
    PROVE  /\ DropActivation(s) \in SharedStates
           /\ [DropActivation(s) EXCEPT !.currentState = state] \in SharedStates
           /\ [DropActivation(s) EXCEPT !.currentState = state, !.continuation = b,
                                        !.closeContainer = c] \in SharedStates
BY DEF DropActivation, SharedStates, Op0

-----------------------------------------------------------------------------
(* Type correctness.                                                       *)

LEMMA RefusedType == ASSUME TypeOK, NEW t \in AppThreads, Refused(t) PROVE TypeOK'
<1>1. t \in Threads
  BY DEF Threads
<1>2. [NoWork EXCEPT !.flushes = <<ops + 1>>] \in Frames
  <2>1. <<ops + 1>> \in Seq(Ops)
    BY NewOpType DEF Refused
  <2> QED
    BY <2>1, NoWorkType DEF Frames
<1>3. ThreadsOK'
  BY <1>1, <1>2, ContinueType DEF Refused, TypeOK
<1> QED
  BY <1>3, NewOpType DEF Refused, TypeOK, implVars, clibVars, refVars

LEMMA BeginCloseType ==
    ASSUME TypeOK, NEW t \in Threads, NEW op \in Op0, NEW f \in Frames, BeginClose(t, op, f)
    PROVE  /\ shared' \in SharedStates /\ refs' \in Int /\ ThreadsOK'
           /\ UNCHANGED <<valid, streamHandler, handlerLock, handle, shutDown, clibVars,
                          selfReference, onStack, tasks>>
<1> DEFINE g == [f EXCEPT !.op = op, !.kind = "close", !.prev = shared.currentState,
                          !.close = FALSE]
<1>1. shared.currentState \in States
  BY DEF TypeOK, SharedStates
<1>2. g \in Frames
  BY <1>1 DEF Frames
<1>3. Goto(t, "call", g)
  BY DEF BeginClose
<1> HIDE DEF g
<1>4. ThreadsOK'
  BY <1>2, <1>3, GotoType DEF Places, TypeOK
<1>5. shared' \in SharedStates
  BY DEF BeginClose, TypeOK, SharedStates, States
<1> QED
  BY <1>4, <1>5 DEF BeginClose, TypeOK

LEMMA AppCallsType ==
    ASSUME TypeOK, NEW t \in AppThreads, AppCalls(t) PROVE TypeOK'
<1>0. t \in Threads
  BY DEF Threads
<1>1. CASE Refused(t)
  BY <1>1, RefusedType
<1>2. CASE Activate(t)
  <2> DEFINE f == [NoWork EXCEPT !.op = ops + 1, !.kind = "activate"]
  <2>1. ops + 1 \in Ops
    BY <1>2, NewOpType DEF Activate
  <2>2. f \in Frames
    BY <2>1, NoWorkType, OpsNotNull DEF Frames, Op0
  <2>3. Goto(t, "call", f)
    BY <1>2 DEF Activate
  <2> HIDE DEF f
  <2>4. ThreadsOK'
    BY <1>0, <2>2, <2>3, GotoType DEF Places, TypeOK
  <2>5. shared' \in SharedStates
    BY <1>2, <2>1 DEF Activate, TypeOK, SharedStates, States, Op0
  <2> QED
    BY <1>2, <2>4, <2>5, NewOpType DEF Activate, TypeOK, clibVars
<1>3. CASE SendStreamMessage(t)
  <2> DEFINE f == [NoWork EXCEPT !.op = ops + 1, !.kind = "send"]
  <2>1. ops + 1 \in Ops
    BY <1>3, NewOpType DEF SendStreamMessage
  <2>2. f \in Frames
    BY <2>1, NoWorkType, OpsNotNull DEF Frames, Op0
  <2>3. Goto(t, "call", f)
    BY <1>3 DEF SendStreamMessage
  <2> HIDE DEF f
  <2>4. ThreadsOK'
    BY <1>0, <2>2, <2>3, GotoType DEF Places, TypeOK
  <2> QED
    BY <1>3, <2>4, NewOpType DEF SendStreamMessage, TypeOK, implVars, clibVars
<1>4. CASE Close(t)
  <2>1. ops + 1 \in Op0 /\ BeginClose(t, ops + 1, NoWork) /\ NewOp
    BY <1>4, NewOpType DEF Close, Op0
  <2>2. /\ shared' \in SharedStates /\ refs' \in Int /\ ThreadsOK'
        /\ UNCHANGED <<valid, streamHandler, handlerLock, handle, shutDown, clibVars,
                       selfReference, onStack, tasks>>
    BY <1>0, <2>1, NoWorkType, BeginCloseType
  <2> QED
    BY <2>1, <2>2, NewOpType DEF TypeOK, clibVars
<1> QED
  BY <1>1, <1>2, <1>3, <1>4 DEF AppCalls, ActivateRefused, SendRefused, CloseRefused

LEMMA StepType ==
    ASSUME TypeOK, NEW t \in Threads, Step(t) PROVE TypeOK'
<1> USE DEF TypeOK
<1>f. frame[t] \in Frames /\ NoWork \in Frames
  BY NoWorkType DEF ThreadsOK
<1>c. Failed(frame[t]) \in Frames /\ Accepted(frame[t]) \in Frames
  BY <1>f, CallOverType
<1>o. /\ frame[t].op \in Op0 /\ frame[t].won \in Op0 /\ frame[t].resp \in Op0
      /\ frame[t].prev \in States /\ frame[t].flushes \in Seq(Ops)
  BY <1>f DEF Frames
<1>1. CASE ActivateAccepted(t)
  <2>1. ThreadsOK'
    BY <1>1, <1>c, ContinueType DEF ActivateAccepted
  <2>2. frame[t].op \in Ops
    BY <1>1, <1>f, <1>o DEF ActivateAccepted, Frames, Op0
  <2> QED
    BY <1>1, <2>1, <2>2 DEF ActivateAccepted, implVars, opVars, refVars
<1>2. CASE ActivateRollback(t)
  <2>1. ThreadsOK'
    BY <1>2, <1>c, ContinueType DEF ActivateRollback
  <2>2. shared' \in SharedStates
    BY <1>2, DropActivationType DEF ActivateRollback, States, Op0
  <2> QED
    BY <1>2, <2>1, <2>2 DEF ActivateRollback, opVars, clibVars, refVars
<1>3. CASE SendAccepted(t)
  <2>1. ThreadsOK'
    BY <1>3, <1>c, ContinueType DEF SendAccepted
  <2>2. {frame[t].op} \ {0} \subseteq Ops
    BY <1>o DEF Op0
  <2>3. ending' \in BOOLEAN
    BY <1>3, Zenon DEF SendAccepted
  <2> QED
    BY <1>3, <2>1, <2>2, <2>3 DEF SendAccepted, implVars, opVars, refVars
<1>4. CASE SendFails(t)
  <2>1. ThreadsOK'
    BY <1>4, <1>c, <1>f, ContinueType, GotoType DEF SendFails, Places
  <2> QED
    BY <1>4, <2>1 DEF SendFails, implVars, opVars, clibVars, refVars
<1>5. CASE CloseRollback(t)
  <2>1. ThreadsOK'
    BY <1>5, <1>c, ContinueType DEF CloseRollback
  <2>2. shared' \in SharedStates
    BY <1>5, <1>o DEF CloseRollback, Restored, SharedStates, Op0
  <2> QED
    BY <1>5, <2>1, <2>2 DEF CloseRollback, opVars, clibVars, refVars
<1>6. CASE ShutDownGather(t)
  <2> DEFINE fresh == shared.currentState = "None"
             f == [NoWork EXCEPT
                     !.resp = Response,
                     !.flushes = Flushes(shared.activationContainer)
                                   \o Flushes(shared.closeContainer),
                     !.release = fresh, !.close = ~fresh, !.drop = TRUE]
  <2>1. Response \in Op0 /\ shared.activationContainer \in Op0 /\ shared.closeContainer \in Op0
    BY DEF Response, SharedStates
  <2>2. Flushes(shared.activationContainer) \o Flushes(shared.closeContainer) \in Seq(Ops)
    BY <2>1, FlushesType
  <2>3. f \in Frames
    <3>1. \A r \in Op0, c \in Seq(Ops), b \in BOOLEAN, d \in BOOLEAN :
              [NoWork EXCEPT !.resp = r, !.flushes = c, !.release = b, !.close = d,
                             !.drop = TRUE] \in Frames
      BY ZenonT(60), <1>f DEF Frames
    <3>2. fresh \in BOOLEAN /\ (~fresh) \in BOOLEAN
      OBVIOUS
    <3> HIDE DEF fresh
    <3> QED
      BY <2>1, <2>2, <3>1, <3>2
  <2>4. Continue(t, f)
    BY <1>6 DEF ShutDownGather
  <2> HIDE DEF f
  <2>5. ThreadsOK'
    BY <2>3, <2>4, ContinueType
  <2>6. shared' \in SharedStates
    BY <1>6 DEF ShutDownGather, DropActivation, SharedStates, States, Op0
  <2> QED
    BY <1>6, <2>5, <2>6 DEF ShutDownGather, opVars, clibVars, refVars
<1>7. CASE InvokeResult(t)
  <2>1. [frame[t] EXCEPT !.resp = 0] \in Frames
    BY <1>f DEF Frames, Op0
  <2>2. ThreadsOK'
    BY <1>7, <2>1, ContinueType DEF InvokeResult
  <2>3. frame[t].resp \in Ops
    BY <1>7, <1>o DEF InvokeResult, Op0
  <2>4. results' \in [Ops -> Nat]
    BY <1>7, <2>3 DEF InvokeResult
  <2> QED
    BY <1>7, <2>2, <2>4 DEF InvokeResult, implVars, clibVars, refVars
<1>8. CASE ReleaseLocalRef(t)
  <2>1. [frame[t] EXCEPT !.tokenRef = FALSE] \in Frames
    BY <1>f DEF Frames
  <2>2. ThreadsOK'
    BY <1>8, <2>1, ContinueType DEF ReleaseLocalRef
  <2>3. selfReference' \in BOOLEAN /\ onStack' \in BOOLEAN
    BY <1>8, Zenon DEF ReleaseLocalRef, DropTokenRef
  <2> QED
    BY <1>8, <2>2, <2>3 DEF ReleaseLocalRef, DropTokenRef, implVars, opVars, clibVars
<1>9. CASE CompleteFlush(t)
  <2> DEFINE op == Head(frame[t].flushes)
             f == [frame[t] EXCEPT !.flushes = Tail(@), !.won = IF Wins(op) THEN op ELSE 0]
  <2>1. op \in Ops /\ Tail(frame[t].flushes) \in Seq(Ops)
    BY <1>9, <1>o DEF CompleteFlush
  <2>2. f \in Frames
    <3>1. (IF Wins(op) THEN op ELSE 0) \in Op0
      BY <2>1 DEF Op0
    <3> HIDE DEF op
    <3> QED
      BY <1>f, <2>1, <3>1 DEF Frames
  <2>3. Continue(t, f)
    BY <1>9 DEF CompleteFlush
  <2>4. container' = [container EXCEPT ![op] = "Finished"]
    BY <1>9 DEF CompleteFlush
  <2> HIDE DEF f, op
  <2>5. ThreadsOK'
    BY <2>2, <2>3, ContinueType
  <2> QED
    BY ZenonT(60), <1>9, <2>4, <2>5 DEF CompleteFlush, implVars, clibVars, refVars
<1>10. CASE ResolveFlush(t)
  <2>1. [frame[t] EXCEPT !.won = 0] \in Frames
    BY <1>f DEF Frames, Op0
  <2>2. ThreadsOK'
    BY <1>10, <2>1, ContinueType DEF ResolveFlush
  <2>3. resolved' \in [Ops -> Nat]
    BY <1>10, <1>o DEF ResolveFlush, Op0
  <2> QED
    BY <1>10, <2>2, <2>3 DEF ResolveFlush, implVars, clibVars, refVars
<1>11. CASE ReleaseContinuation(t)
  <2>1. [frame[t] EXCEPT !.release = FALSE] \in Frames
    BY <1>f DEF Frames
  <2>2. ThreadsOK'
    BY <1>11, <2>1, ContinueType DEF ReleaseContinuation
  <2> QED
    BY <1>11, <2>2 DEF ReleaseContinuation, implVars, opVars, clibVars
<1>12. CASE CloseInternally(t)
  <2>1. CASE CanClose
    <3>1. BeginClose(t, 0, frame[t]) /\ 0 \in Op0
      BY <1>12, <2>1 DEF CloseInternally, Op0
    <3>2. /\ shared' \in SharedStates /\ refs' \in Int /\ ThreadsOK'
          /\ UNCHANGED <<valid, streamHandler, handlerLock, handle, shutDown, clibVars,
                         selfReference, onStack, tasks>>
      BY <1>f, <3>1, BeginCloseType
    <3> QED
      BY <1>12, <3>2 DEF CloseInternally, opVars, clibVars
  <2>2. CASE ~CanClose
    <3>1. [frame[t] EXCEPT !.close = FALSE] \in Frames
      BY <1>f DEF Frames
    <3>2. ThreadsOK'
      BY <1>12, <2>2, <3>1, ContinueType DEF CloseInternally
    <3> QED
      BY <1>12, <2>2, <3>2 DEF CloseInternally, implVars, opVars, clibVars, refVars
  <2> QED
    BY <2>1, <2>2
<1>13. CASE DropHandle(t)
  <2>1. [frame[t] EXCEPT !.drop = FALSE] \in Frames
    BY <1>f DEF Frames
  <2>2. ThreadsOK'
    BY <1>13, <2>1, ContinueType DEF DropHandle
  <2> QED
    BY <1>13, <2>2 DEF DropHandle, opVars, clibVars, refVars
<1> QED
  BY <1>1, <1>2, <1>3, <1>4, <1>5, <1>6, <1>7, <1>8, <1>9, <1>10, <1>11, <1>12, <1>13 DEF Step

LEMMA LoopType ==
    ASSUME TypeOK, Loop \in Threads,
           \/ LoopStep \/ OnClosed
           \/ \E m \in MessageKinds, b \in BOOLEAN : OnMessage(m, b)
           \/ \E op \in Ops : MessageFlushed(op)
    PROVE  TypeOK'
<1> USE DEF TypeOK
<1>f. frame[Loop] \in Frames /\ NoWork \in Frames
  BY NoWorkType DEF ThreadsOK
<1>s. /\ Response \in Op0 /\ shared.activationContainer \in Op0
      /\ shared.closeContainer \in Op0 /\ shared.continuation \in BOOLEAN
      /\ shared.currentState \in States
  BY DEF Response, SharedStates
<1>1. CASE EnterHandler
  <2>1. [frame[Loop] EXCEPT !.stream = "none"] \in Frames
    BY <1>f DEF Frames
  <2>2. ThreadsOK'
    BY <1>1, <1>f, <2>1, ContinueType, GotoType DEF EnterHandler, Places
  <2> QED
    BY <1>1, <2>2 DEF EnterHandler, opVars, clibVars, refVars
<1>2. ASSUME NEW b \in BOOLEAN, LeaveHandler(b) PROVE TypeOK'
  <2>1. [frame[Loop] EXCEPT !.stream = "none", !.close = b] \in Frames
    BY <1>f DEF Frames
  <2>2. ThreadsOK'
    BY <1>2, <2>1, ContinueType DEF LeaveHandler
  <2> QED
    BY <1>2, <2>2 DEF LeaveHandler, opVars, clibVars, refVars
<1>3. CASE ClosedReturns
  <2>1. [frame[Loop] EXCEPT !.closed = FALSE] \in Frames
    BY <1>f DEF Frames
  <2>2. ThreadsOK'
    BY <1>3, <2>1, ContinueType DEF ClosedReturns
  <2>3. selfReference' \in BOOLEAN
    BY <1>3, Zenon DEF ClosedReturns, DropTokenRef
  <2> QED
    BY <1>3, <2>2, <2>3 DEF ClosedReturns, DropTokenRef, implVars, opVars
<1>4. CASE OnClosed
  <2> DEFINE f == [NoWork EXCEPT
                    !.resp = Response,
                    !.flushes = Flushes(shared.activationContainer)
                                  \o Flushes(shared.closeContainer),
                    !.release = shared.continuation, !.closed = TRUE]
  <2>1. Flushes(shared.activationContainer) \o Flushes(shared.closeContainer) \in Seq(Ops)
    BY <1>s, FlushesType
  <2>2. f \in Frames
    BY <1>f, <1>s, <2>1 DEF Frames
  <2>3. Continue(Loop, f)
    BY <1>4 DEF OnClosed
  <2> HIDE DEF f
  <2>4. ThreadsOK'
    BY <2>2, <2>3, ContinueType
  <2>5. shared' \in SharedStates
    BY <1>4, DropActivationType DEF OnClosed, States, Op0
  <2> QED
    BY <1>4, <2>4, <2>5 DEF OnClosed, opVars, refVars
<1>5. ASSUME NEW m \in MessageKinds, NEW b \in BOOLEAN, OnMessage(m, b) PROVE TypeOK'
  <2>1. /\ [NoWork EXCEPT !.resp = Response, !.close = m # "response"] \in Frames
        /\ [NoWork EXCEPT !.stream = m] \in Frames
    BY ZenonT(60), <1>f, <1>s DEF Frames
  <2>2. ThreadsOK'
    BY <1>5, <2>1, ContinueType DEF OnMessage
  <2>3. shared' \in SharedStates
    <3>1. CASE shared.currentState = "PendingActivate"
      <4> DEFINE state == CASE m # "response" -> shared.currentState
                            [] b -> "PendingClose"
                            [] OTHER -> "Activated"
      <4>1. state \in States
        BY <1>s DEF States
      <4>2. shared' = [DropActivation(shared) EXCEPT !.currentState = state]
        BY <1>5, <3>1 DEF OnMessage, DropActivation, SharedStates
      <4> HIDE DEF state
      <4> QED
        BY <1>s, <4>1, <4>2, DropActivationType
    <3>2. CASE shared.currentState # "PendingActivate"
      BY <1>5, <3>2 DEF OnMessage
    <3> QED
      BY <3>1, <3>2
  <2>4. ending' \in BOOLEAN
    BY <1>5, Zenon DEF OnMessage
  <2> QED
    BY <1>5, <2>2, <2>3, <2>4 DEF OnMessage, opVars, refVars
<1>6. ASSUME NEW op \in Ops, MessageFlushed(op) PROVE TypeOK'
  <2>1. <<op>> \in Seq(Ops)
    OBVIOUS
  <2>2. [NoWork EXCEPT !.flushes = <<op>>] \in Frames
    BY <1>f, <2>1 DEF Frames
  <2>3. ThreadsOK'
    BY <1>6, <2>2, ContinueType DEF MessageFlushed
  <2> QED
    BY <1>6, <2>3 DEF MessageFlushed, implVars, opVars, refVars
<1> QED
  BY <1>1, <1>2, <1>3, <1>4, <1>5, <1>6 DEF LoopStep

LEMMA ShutDownType ==
    ASSUME TypeOK, NEW t \in Threads, ShutDown(t) PROVE TypeOK'
<1>1. ThreadsOK'
  BY NoWorkType, GotoType DEF ShutDown, TypeOK, Places
<1>2. streamHandler' \in BOOLEAN
  BY DEF ShutDown, TypeOK
<1> QED
  BY <1>1, <1>2 DEF ShutDown, TypeOK, opVars, clibVars, refVars

LEMMA RunReleaseTaskType == ASSUME TypeOK, RunReleaseTask PROVE TypeOK'
<1>1. selfReference' \in BOOLEAN
  BY Zenon DEF RunReleaseTask, DropTokenRef
<1> QED
  BY <1>1 DEF RunReleaseTask, DropTokenRef, TypeOK, ThreadsOK, implVars, threadVars, opVars,
              clibVars

LEMMA UnchangedType == ASSUME TypeOK, UNCHANGED vars PROVE TypeOK'
BY DEF TypeOK, ThreadsOK, vars, implVars, threadVars, opVars, clibVars, refVars

LEMMA ThreadsOfLoop == Loop \in Threads /\ Inner \in Threads /\ AppThreads \subseteq Threads
BY DEF Threads

LEMMA NextType == ASSUME TypeOK, [Next]_vars PROVE TypeOK'
<1>1. ASSUME NEW t \in AppThreads, AppCalls(t) PROVE TypeOK'
  BY <1>1, AppCallsType
<1>2. ASSUME NEW t \in AppThreads \cup {Inner}, ShutDown(t) PROVE TypeOK'
  BY <1>2, ThreadsOfLoop, ShutDownType
<1>3. ASSUME NEW t \in Threads, Step(t) PROVE TypeOK'
  BY <1>3, StepType
<1>4. CASE \/ LoopStep \/ OnClosed
           \/ \E m \in MessageKinds, b \in BOOLEAN : OnMessage(m, b)
           \/ \E op \in Ops : MessageFlushed(op)
  BY <1>4, ThreadsOfLoop, LoopType
<1>5. CASE RunReleaseTask
  BY <1>5, RunReleaseTaskType
<1>6. CASE Terminated \/ UNCHANGED vars
  BY <1>6, UnchangedType DEF Terminated
<1> QED
  BY <1>1, <1>2, <1>3, <1>4, <1>5, <1>6 DEF Next

LEMMA InitType == Init => TypeOK
<1> SUFFICES ASSUME Init PROVE TypeOK
  OBVIOUS
<1>1. shared \in SharedStates
  BY DEF Init, SharedStates, States, Op0
<1>2. ThreadsOK
  BY NoWorkType DEF Init, ThreadsOK, Places
<1>3. valid \in BOOLEAN /\ selfReference \in BOOLEAN /\ streamHandler \in BOOLEAN
  BY DEF Init, Initialized
<1>4. ops \in 0 .. MaxOps
  BY ContinuationAssumption DEF Init
<1>5. refs \in Int /\ token \in {"none", "fresh", "open", "closing", "closed"}
  BY DEF Init
<1>6. /\ container \in [Ops -> {"none", "Incomplete", "Finished"}]
      /\ resolved \in [Ops -> Nat] /\ results \in [Ops -> Nat]
  BY DEF Init
<1>7. /\ handlerLock \in BOOLEAN /\ handle \in BOOLEAN /\ onStack \in BOOLEAN
      /\ ending \in BOOLEAN
  BY Zenon DEF Init
<1>8. /\ shutDown \in {"no", "outside", "inHandler"} /\ tasks \in Nat
      /\ queued \subseteq Ops /\ started \subseteq Ops
  BY DEF Init
<1> QED
  BY <1>1, <1>2, <1>3, <1>4, <1>5, <1>6, <1>7, <1>8 DEF TypeOK

(* Every reachable state is well typed: shared state, the work of every    *)
(* thread, the containers and promises and the C library's token, for any  *)
(* number of threads and operations.                                       *)
THEOREM TypeCorrect == Spec => []TypeOK
BY InitType, NextType, PTL DEF Spec
=============================================================================
