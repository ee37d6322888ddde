-------------------- MODULE EventStreamContinuationSafety --------------------
(***************************************************************************)
(* Safety of EventStreamContinuation for any number of threads and of      *)
(* operations: the inductive invariant behind StateMatchesToken,           *)
(* TokenReferencesBalanced, ImplOutlivesToken, NoStreamEventAfterShutDown, *)
(* PromiseCompletedOnce and ResultHeldOnce; and the refinement of          *)
(* OperationContract.                                                      *)
(***************************************************************************)
EXTENDS EventStreamContinuationProofs

-----------------------------------------------------------------------------
(* A thread does its work in order: it makes a call with nothing else to   *)
(* do but what comes after it, only the loop has a message for the stream  *)
(* handler, and it has that message alone.                                 *)

InCall(t) == pc[t] \in {"call", "rollback"}
NoCall(f) == f.op = 0 /\ f.kind = "none" /\ f.prev = "None"
OnlyStream(t, f) == f.stream # "none" => t = Loop /\ f = [NoWork EXCEPT !.stream = f.stream]
OnlyCall(f) ==
    /\ f.kind # "none" /\ f.resp = 0 /\ f.stream = "none" /\ ~f.tokenRef
    /\ f.flushes = <<>> /\ f.won = 0 /\ ~f.release /\ ~f.close

WorkInOrder ==
    \A t \in Threads :
        /\ pc[t] \in {"ready", "gather"} => frame[t] = NoWork
        /\ ~InCall(t) => NoCall(frame[t])
        /\ InCall(t) => OnlyCall(frame[t])
        /\ pc[t] = "rollback" => frame[t].kind = "close"
        /\ pc[t] = "inHandler" => t = Loop /\ frame[t].stream # "none"
        /\ OnlyStream(t, frame[t])

LEMMA GotoEffect ==
    ASSUME TypeOK, NEW t \in Threads, NEW l, NEW f, Goto(t, l, f)
    PROVE  /\ pc'[t] = l /\ frame'[t] = f
           /\ \A u \in Threads : u # t => pc'[u] = pc[u] /\ frame'[u] = frame[u]
BY DEF Goto, TypeOK, ThreadsOK

LEMMA ContinueEffect ==
    ASSUME TypeOK, NEW t \in Threads, NEW f, Continue(t, f)
    PROVE  /\ pc'[t] \in {"ready", "work"} /\ frame'[t] = f
           /\ pc'[t] = "ready" <=> f = NoWork
           /\ \A u \in Threads : u # t => pc'[u] = pc[u] /\ frame'[u] = frame[u]
BY GotoEffect DEF Continue

LEMMA ContinueInOrder ==
    ASSUME TypeOK, WorkInOrder, NEW t \in Threads, NEW f, Continue(t, f),
           NoCall(f), OnlyStream(t, f)
    PROVE  WorkInOrder'
<1>1. /\ pc'[t] \in {"ready", "work"} /\ frame'[t] = f
      /\ pc'[t] = "ready" <=> f = NoWork
      /\ \A u \in Threads : u # t => pc'[u] = pc[u] /\ frame'[u] = frame[u]
  BY ContinueEffect
<1> QED
  BY <1>1 DEF WorkInOrder, InCall, OnlyStream

LEMMA GotoInOrder ==
    ASSUME TypeOK, WorkInOrder, NEW t \in Threads, NEW f, NEW l, Goto(t, l, f),
           \/ l = "gather" /\ f = NoWork
           \/ l \in {"call", "rollback"} /\ OnlyCall(f) /\ (l = "rollback" => f.kind = "close")
           \/ l = "inHandler" /\ t = Loop /\ NoCall(f) /\ f.stream # "none" /\ OnlyStream(t, f)
    PROVE  WorkInOrder'
<1>1. /\ pc'[t] = l /\ frame'[t] = f
      /\ \A u \in Threads : u # t => pc'[u] = pc[u] /\ frame'[u] = frame[u]
  BY GotoEffect
<1>2. NoCall(NoWork) /\ OnlyStream(t, NoWork) /\ (OnlyCall(f) => OnlyStream(t, f))
  BY DEF NoCall, OnlyStream, OnlyCall, NoWork
<1> QED
  BY <1>1, <1>2 DEF WorkInOrder, InCall, OnlyStream

(* What a thread has left after its call and after its work.               *)
LEMMA CallOver ==
    ASSUME NEW f \in Frames, OnlyCall(f), NEW t
    PROVE  /\ \A g \in {Failed(f), Accepted(f)} :
                  /\ NoCall(g) /\ OnlyStream(t, g) /\ g # NoWork
                  /\ g.resp = 0 /\ g.stream = "none" /\ g.tokenRef /\ g.won = 0
                  /\ ~g.release /\ ~g.close /\ g.closed = f.closed /\ g.drop = f.drop
           /\ Failed(f).flushes = Flushes(f.op) /\ Accepted(f).flushes = <<>>
<1>1. \A g \in {Failed(f), Accepted(f)} :
                  /\ NoCall(g)
                  /\ g.resp = 0 /\ g.stream = "none" /\ g.tokenRef /\ g.won = 0
                  /\ ~g.release /\ ~g.close /\ g.closed = f.closed /\ g.drop = f.drop
  BY ZenonT(40) DEF OnlyCall, Failed, Accepted, NoCall, Frames
<1>2. Failed(f).flushes = Flushes(f.op) /\ Accepted(f).flushes = <<>>
  BY DEF OnlyCall, Failed, Accepted, Frames
<1>3. ~NoWork.tokenRef
  BY DEF NoWork
<1> QED
  BY <1>1, <1>2, <1>3 DEF OnlyStream

(* The work a thread does after a lock section.                            *)
Works(t) ==
    \/ InvokeResult(t) \/ ReleaseLocalRef(t) \/ CompleteFlush(t) \/ ResolveFlush(t)
    \/ ReleaseContinuation(t) \/ (CloseInternally(t) /\ ~CanClose) \/ DropHandle(t)

LEMMA WorksFrame ==
    ASSUME TypeOK, WorkInOrder, NEW t \in Threads, Works(t)
    PROVE  \E f \in Frames :
              /\ pc[t] = "work" /\ Continue(t, f) /\ NoCall(f)
              /\ f.stream = "none" /\ frame[t].stream = "none" /\ f.closed = frame[t].closed
              /\ f.drop => frame[t].drop
              /\ UNCHANGED <<shared, valid, streamHandler, handlerLock, shutDown, ops, clibVars>>
<1>2. frame[t] \in Frames
  BY DEF TypeOK, ThreadsOK
<1>3. pc[t] = "work" => NoCall(frame[t]) /\ OnlyStream(t, frame[t])
  BY DEF WorkInOrder, InCall
<1>4. CASE InvokeResult(t)
  <2> DEFINE f == [frame[t] EXCEPT !.resp = 0]
  <2>1. frame[t].stream = "none"
    BY <1>3, <1>4 DEF InvokeResult, OnlyStream, NoWork
  <2>2. f \in Frames
    BY <1>2 DEF Frames, Op0
  <2>3. NoCall(f) /\ f.stream = "none" /\ f.closed = frame[t].closed /\ f.drop = frame[t].drop
    BY <1>2, <1>3, <1>4, <2>1 DEF InvokeResult, NoCall, Frames
  <2> QED
    BY <1>4, <2>1, <2>2, <2>3 DEF InvokeResult, implVars, clibVars
<1>5. CASE ReleaseLocalRef(t)
  <2> DEFINE f == [frame[t] EXCEPT !.tokenRef = FALSE]
  <2>1. pc[t] = "work" /\ frame[t].stream = "none"
    BY <1>5 DEF ReleaseLocalRef, ResultDone
  <2>2. f \in Frames
    BY <1>2 DEF Frames
  <2>3. NoCall(f) /\ f.stream = "none" /\ f.closed = frame[t].closed /\ f.drop = frame[t].drop
    BY <1>2, <1>3, <2>1 DEF NoCall, Frames
  <2> QED
    BY <1>5, <2>1, <2>2, <2>3 DEF ReleaseLocalRef, implVars, opVars, clibVars
<1>6. CASE CompleteFlush(t)
  <2> DEFINE op == Head(frame[t].flushes)
             f == [frame[t] EXCEPT !.flushes = Tail(@), !.won = IF Wins(op) THEN op ELSE 0]
  <2>1. pc[t] = "work" /\ frame[t].stream = "none"
    BY <1>6 DEF CompleteFlush, LocalRefDone, ResultDone
  <2>2. f \in Frames
    <3>1. op \in Ops /\ Tail(frame[t].flushes) \in Seq(Ops)
      BY <1>2, <1>6 DEF CompleteFlush, Frames
    <3>2. (IF Wins(op) THEN op ELSE 0) \in Op0
      BY <3>1 DEF Op0
    <3> HIDE DEF op
    <3> QED
      BY <1>2, <3>1, <3>2 DEF Frames
  <2>3. NoCall(f) /\ f.stream = "none" /\ f.closed = frame[t].closed /\ f.drop = frame[t].drop
    BY <1>2, <1>3, <2>1 DEF NoCall, Frames
  <2>4. Continue(t, f) /\ UNCHANGED <<implVars, ops, resolved, results, clibVars, refVars>>
    BY <1>6 DEF CompleteFlush
  <2> HIDE DEF f
  <2> QED
    BY <2>1, <2>2, <2>3, <2>4 DEF implVars, clibVars
<1>7. CASE ResolveFlush(t)
  <2> DEFINE f == [frame[t] EXCEPT !.won = 0]
  <2>1. pc[t] = "work" /\ frame[t].stream = "none"
    BY <1>7 DEF ResolveFlush, LocalRefDone, ResultDone
  <2>2. f \in Frames
    BY <1>2 DEF Frames, Op0
  <2>3. NoCall(f) /\ f.stream = "none" /\ f.closed = frame[t].closed /\ f.drop = frame[t].drop
    BY <1>2, <1>3, <2>1 DEF NoCall, Frames
  <2> QED
    BY <1>7, <2>1, <2>2, <2>3 DEF ResolveFlush, implVars, clibVars
<1>8. CASE ReleaseContinuation(t)
  <2> DEFINE f == [frame[t] EXCEPT !.release = FALSE]
  <2>1. pc[t] = "work" /\ frame[t].stream = "none"
    BY <1>8 DEF ReleaseContinuation, FlushesDone, LocalRefDone, ResultDone
  <2>2. f \in Frames
    BY <1>2 DEF Frames
  <2>3. NoCall(f) /\ f.stream = "none" /\ f.closed = frame[t].closed /\ f.drop = frame[t].drop
    BY <1>2, <1>3, <2>1 DEF NoCall, Frames
  <2> QED
    BY <1>8, <2>1, <2>2, <2>3 DEF ReleaseContinuation, implVars, opVars, clibVars
<1>9. CASE CloseInternally(t) /\ ~CanClose
  <2> DEFINE f == [frame[t] EXCEPT !.close = FALSE]
  <2>1. pc[t] = "work" /\ frame[t].stream = "none"
    BY <1>9 DEF CloseInternally, ReleaseDone, FlushesDone, LocalRefDone, ResultDone
  <2>2. f \in Frames
    BY <1>2 DEF Frames
  <2>3. NoCall(f) /\ f.stream = "none" /\ f.closed = frame[t].closed /\ f.drop = frame[t].drop
    BY <1>2, <1>3, <2>1 DEF NoCall, Frames
  <2> QED
    BY <1>9, <2>1, <2>2, <2>3 DEF CloseInternally, implVars, opVars, clibVars
<1>10. CASE DropHandle(t)
  <2> DEFINE f == [frame[t] EXCEPT !.drop = FALSE]
  <2>1. pc[t] = "work" /\ frame[t].stream = "none"
    BY <1>10 DEF DropHandle, CloseDone, ReleaseDone, FlushesDone, LocalRefDone, ResultDone
  <2>2. f \in Frames
    BY <1>2 DEF Frames
  <2>3. NoCall(f) /\ f.stream = "none" /\ f.closed = frame[t].closed /\ ~f.drop
    BY <1>2, <1>3, <2>1 DEF NoCall, Frames
  <2> QED
    BY <1>10, <2>1, <2>2, <2>3 DEF DropHandle, opVars, clibVars
<1> QED
  BY <1>4, <1>5, <1>6, <1>7, <1>8, <1>9, <1>10 DEF Works

(* Every other step, with the frame the thread is left with.               *)
LEMMA CallInOrder ==
    ASSUME TypeOK, WorkInOrder, NEW t \in Threads, Refused(t) \/ Activate(t) \/ SendStreamMessage(t) \/ Close(t)
    PROVE  WorkInOrder'
<1>1. CASE Refused(t)
  <2> DEFINE f == [NoWork EXCEPT !.flushes = <<ops + 1>>]
  <2>1. NoCall(f) /\ f.stream = "none"
    BY DEF NoWork, NoCall
  <2>2. Continue(t, f)
    BY <1>1 DEF Refused
  <2> HIDE DEF f
  <2> QED
    BY <2>1, <2>2, ContinueInOrder DEF OnlyStream
<1>2. CASE Activate(t)
  <2> DEFINE f == [NoWork EXCEPT !.op = ops + 1, !.kind = "activate"]
  <2>1. OnlyCall(f)
    BY DEF NoWork, OnlyCall
  <2>2. Goto(t, "call", f)
    BY <1>2 DEF Activate
  <2> HIDE DEF f
  <2> QED
    BY <2>1, <2>2, GotoInOrder
<1>3. CASE SendStreamMessage(t)
  <2> DEFINE f == [NoWork EXCEPT !.op = ops + 1, !.kind = "send"]
  <2>1. OnlyCall(f)
    BY DEF NoWork, OnlyCall
  <2>2. Goto(t, "call", f)
    BY <1>3 DEF SendStreamMessage
  <2> HIDE DEF f
  <2> QED
    BY <2>1, <2>2, GotoInOrder
<1>4. CASE Close(t)
  <2> DEFINE f == [NoWork EXCEPT !.op = ops + 1, !.kind = "close",
                                 !.prev = shared.currentState, !.close = FALSE]
  <2>1. OnlyCall(f)
    BY DEF NoWork, OnlyCall
  <2>2. Goto(t, "call", f)
    BY <1>4 DEF Close, BeginClose
  <2> HIDE DEF f
  <2> QED
    BY <2>1, <2>2, GotoInOrder
<1> QED
  BY <1>1, <1>2, <1>3, <1>4

(* A call into the C library returns.                                      *)
Returns(t) ==
    \/ ActivateAccepted(t) \/ ActivateRollback(t) \/ SendAccepted(t)
    \/ (SendFails(t) /\ frame[t].kind = "send") \/ CloseRollback(t)

LEMMA ReturnsEffect ==
    ASSUME TypeOK, WorkInOrder, NEW t \in Threads, Returns(t)
    PROVE  /\ InCall(t) /\ frame[t] \in Frames /\ OnlyCall(frame[t])
           /\ \E f \in {Failed(frame[t]), Accepted(frame[t])} : Continue(t, f)
           /\ ActivateAccepted(t) \/ SendAccepted(t) => Continue(t, Accepted(frame[t]))
           /\ ~(ActivateAccepted(t) \/ SendAccepted(t)) => Continue(t, Failed(frame[t]))
<1>1. frame[t] \in Frames
  BY DEF TypeOK, ThreadsOK
<1>2. InCall(t)
  BY DEF Returns, ActivateAccepted, ActivateRollback, SendAccepted, SendFails, CloseRollback,
         InCall
<1>3. OnlyCall(frame[t])
  BY <1>2 DEF WorkInOrder
<1>4. /\ ActivateAccepted(t) \/ SendAccepted(t) => Continue(t, Accepted(frame[t]))
      /\ ~(ActivateAccepted(t) \/ SendAccepted(t)) => Continue(t, Failed(frame[t]))
  BY DEF Returns, ActivateAccepted, ActivateRollback, SendAccepted, SendFails, CloseRollback
<1> QED
  BY <1>1, <1>2, <1>3, <1>4

LEMMA StepInOrder ==
    ASSUME TypeOK, WorkInOrder, NEW t \in Threads, Step(t) PROVE WorkInOrder'
<1>f. frame[t] \in Frames
  BY DEF TypeOK, ThreadsOK
<1>1. CASE Returns(t)
  <2>1. PICK f \in {Failed(frame[t]), Accepted(frame[t])} : Continue(t, f)
    BY <1>1, ReturnsEffect
  <2>2. NoCall(f) /\ OnlyStream(t, f)
    BY <1>1, <1>f, ReturnsEffect, CallOver
  <2> QED
    BY <2>1, <2>2, ContinueInOrder
<1>2. CASE SendFails(t) /\ frame[t].kind # "send"
  <2>1. OnlyCall(frame[t]) /\ frame[t].kind = "close" /\ Goto(t, "rollback", frame[t])
    BY <1>2 DEF SendFails, WorkInOrder, InCall
  <2> QED
    BY <2>1, GotoInOrder
<1>3. CASE ShutDownGather(t)
  <2> DEFINE fresh == shared.currentState = "None"
             f == [NoWork EXCEPT
                     !.resp = Response,
                     !.flushes = Flushes(shared.activationContainer)
                                   \o Flushes(shared.closeContainer),
                     !.release = fresh, !.close = ~fresh, !.drop = TRUE]
  <2>1. NoCall(f) /\ f.stream = "none"
    BY DEF NoWork, NoCall
  <2>2. Continue(t, f)
    BY <1>3 DEF ShutDownGather
  <2> HIDE DEF f
  <2> QED
    BY <2>1, <2>2, ContinueInOrder DEF OnlyStream
<1>4. CASE CloseInternally(t) /\ CanClose
  <2> DEFINE f == [frame[t] EXCEPT !.op = 0, !.kind = "close",
                                   !.prev = shared.currentState, !.close = FALSE]
  <2>1. OnlyCall(f)
    BY <1>4, <1>f
    DEF CloseInternally, ReleaseDone, FlushesDone, LocalRefDone, ResultDone, OnlyCall, Frames
  <2>2. Goto(t, "call", f)
    BY <1>4 DEF CloseInternally, BeginClose
  <2> HIDE DEF f
  <2> QED
    BY <2>1, <2>2, GotoInOrder
<1>5. CASE Works(t)
  <2>1. PICK f \in Frames : Continue(t, f) /\ NoCall(f) /\ f.stream = "none"
    BY <1>5, WorksFrame
  <2> QED
    BY <2>1, ContinueInOrder DEF OnlyStream
<1> QED
  BY <1>1, <1>2, <1>3, <1>4, <1>5 DEF Step, Returns, Works

LEMMA LoopInOrder ==
    ASSUME TypeOK, WorkInOrder,
           \/ LoopStep \/ OnClosed
           \/ \E m \in MessageKinds, b \in BOOLEAN : OnMessage(m, b)
           \/ \E op \in Ops : MessageFlushed(op)
    PROVE  WorkInOrder'
<1>f. Loop \in Threads /\ frame[Loop] \in Frames
  BY ThreadsOfLoop DEF TypeOK, ThreadsOK
<1>1. CASE EnterHandler
  <2>1. NoCall(frame[Loop]) /\ OnlyStream(Loop, frame[Loop]) /\ frame[Loop].stream # "none"
    BY <1>1, <1>f DEF EnterHandler, WorkInOrder, InCall
  <2>2. CASE streamHandler
    BY <1>1, <1>f, <2>1, <2>2, GotoInOrder DEF EnterHandler
  <2>3. CASE ~streamHandler
    <3> DEFINE f == [frame[Loop] EXCEPT !.stream = "none"]
    <3>1. NoCall(f) /\ f.stream = "none"
      BY <1>f, <2>1 DEF NoCall, Frames
    <3>2. Continue(Loop, f)
      BY <1>1, <2>3 DEF EnterHandler
    <3> HIDE DEF f
    <3> QED
      BY <1>f, <3>1, <3>2, ContinueInOrder DEF OnlyStream
  <2> QED
    BY <2>2, <2>3
<1>2. ASSUME NEW b \in BOOLEAN, LeaveHandler(b) PROVE WorkInOrder'
  <2> DEFINE f == [frame[Loop] EXCEPT !.stream = "none", !.close = b]
  <2>1. NoCall(frame[Loop])
    BY <1>2, <1>f DEF LeaveHandler, WorkInOrder, InCall
  <2>2. NoCall(f) /\ f.stream = "none"
    BY <1>f, <2>1 DEF NoCall, Frames
  <2>3. Continue(Loop, f)
    BY <1>2 DEF LeaveHandler
  <2> HIDE DEF f
  <2> QED
    BY <1>f, <2>2, <2>3, ContinueInOrder DEF OnlyStream
<1>3. CASE ClosedReturns
  <2> DEFINE f == [frame[Loop] EXCEPT !.closed = FALSE]
  <2>1. NoCall(frame[Loop]) /\ frame[Loop].stream = "none"
    BY <1>3, <1>f
    DEF ClosedReturns, CloseDone, ReleaseDone, FlushesDone, LocalRefDone, ResultDone,
        WorkInOrder, InCall
  <2>2. NoCall(f) /\ f.stream = "none"
    BY <1>f, <2>1 DEF NoCall, Frames
  <2>3. Continue(Loop, f)
    BY <1>3 DEF ClosedReturns
  <2> HIDE DEF f
  <2> QED
    BY <1>f, <2>2, <2>3, ContinueInOrder DEF OnlyStream
<1>4. CASE OnClosed
  <2> DEFINE f == [NoWork EXCEPT
                    !.resp = Response,
                    !.flushes = Flushes(shared.activationContainer)
                                  \o Flushes(shared.closeContainer),
                    !.release = shared.continuation, !.closed = TRUE]
  <2>1. NoCall(f) /\ f.stream = "none"
    BY DEF NoWork, NoCall
  <2>2. Continue(Loop, f)
    BY <1>4 DEF OnClosed
  <2> HIDE DEF f
  <2> QED
    BY <1>f, <2>1, <2>2, ContinueInOrder DEF OnlyStream
<1>5. ASSUME NEW m \in MessageKinds, NEW b \in BOOLEAN, OnMessage(m, b) PROVE WorkInOrder'
  <2>1. \E f \in {[NoWork EXCEPT !.resp = Response, !.close = m # "response"],
                  [NoWork EXCEPT !.stream = m]} : Continue(Loop, f)
    BY <1>5 DEF OnMessage
  <2>2. \A f \in {[NoWork EXCEPT !.resp = Response, !.close = m # "response"],
                  [NoWork EXCEPT !.stream = m]} : NoCall(f) /\ OnlyStream(Loop, f)
    BY DEF NoWork, NoCall, OnlyStream
  <2> QED
    BY <1>f, <2>1, <2>2, ContinueInOrder
<1>6. ASSUME NEW op \in Ops, MessageFlushed(op) PROVE WorkInOrder'
  <2> DEFINE f == [NoWork EXCEPT !.flushes = <<op>>]
  <2>1. NoCall(f) /\ f.stream = "none"
    BY DEF NoWork, NoCall
  <2>2. Continue(Loop, f)
    BY <1>6 DEF MessageFlushed
  <2> HIDE DEF f
  <2> QED
    BY <1>f, <2>1, <2>2, ContinueInOrder DEF OnlyStream
<1> QED
  BY <1>1, <1>2, <1>3, <1>4, <1>5, <1>6 DEF LoopStep

LEMMA NextInOrder ==
    ASSUME TypeOK, WorkInOrder, [Next]_vars PROVE WorkInOrder'
<1>1. ASSUME NEW t \in AppThreads, AppCalls(t) PROVE WorkInOrder'
  BY <1>1, CallInOrder, ThreadsOfLoop DEF AppCalls, ActivateRefused, SendRefused, CloseRefused
<1>2. ASSUME NEW t \in AppThreads \cup {Inner}, ShutDown(t) PROVE WorkInOrder'
  BY <1>2, GotoInOrder, ThreadsOfLoop DEF ShutDown
<1>3. ASSUME NEW t \in Threads, Step(t) PROVE WorkInOrder'
  BY <1>3, StepInOrder
<1>4. CASE \/ LoopStep \/ OnClosed
           \/ \E m \in MessageKinds, b \in BOOLEAN : OnMessage(m, b)
           \/ \E op \in Ops : MessageFlushed(op)
  BY <1>4, LoopInOrder
<1>5. CASE RunReleaseTask \/ Terminated \/ UNCHANGED vars
  BY <1>5 DEF RunReleaseTask, Terminated, vars, threadVars, WorkInOrder, InCall
<1> QED
  BY <1>1, <1>2, <1>3, <1>4, <1>5 DEF Next

-----------------------------------------------------------------------------
(* What each step leaves its thread with, and that it moves no other.      *)

Others(t) == \A u \in Threads \ {t} : pc'[u] = pc[u] /\ frame'[u] = frame[u]
Idle(t) == pc[t] = "ready" /\ frame[t] = NoWork
NoRefs(f) == ~f.tokenRef /\ ~f.release
NoOps(f) == f.resp = 0 /\ f.flushes = <<>> /\ f.won = 0

LEMMA NoWorkFields ==
    /\ NoCall(NoWork) /\ NoRefs(NoWork) /\ NoOps(NoWork) /\ NoWork.stream = "none"
    /\ ~NoWork.close /\ ~NoWork.closed /\ ~NoWork.drop
BY DEF NoWork, NoCall, NoRefs, NoOps

LEMMA RefusedEffect ==
    ASSUME TypeOK, WorkInOrder, NEW t \in Threads, Refused(t)
    PROVE  /\ Idle(t) /\ Others(t) /\ pc'[t] \in {"ready", "work"}
           /\ NoCall(frame'[t]) /\ NoRefs(frame'[t])
           /\ frame'[t].resp = 0 /\ frame'[t].won = 0 /\ frame'[t].flushes = <<ops + 1>>
           /\ frame'[t].stream = "none" /\ ~frame'[t].closed /\ ~frame'[t].drop
<1> DEFINE f == [NoWork EXCEPT !.flushes = <<ops + 1>>]
<1>1. /\ NoCall(f) /\ NoRefs(f) /\ f.resp = 0 /\ f.won = 0 /\ f.flushes = <<ops + 1>>
      /\ f.stream = "none" /\ ~f.closed /\ ~f.drop
  BY DEF NoWork, NoCall, NoRefs
<1>2. Continue(t, f)
  BY DEF Refused
<1> HIDE DEF f
<1>3. Idle(t)
  BY DEF Refused, MayCall, WorkInOrder, Idle
<1> QED
  BY <1>1, <1>2, <1>3, ContinueEffect DEF Others

LEMMA CallsEffect ==
    ASSUME TypeOK, WorkInOrder, NEW t \in Threads,
           Activate(t) \/ SendStreamMessage(t) \/ Close(t)
    PROVE  /\ Idle(t) /\ Others(t) /\ pc'[t] = "call"
           /\ frame'[t].op = ops + 1 /\ NoRefs(frame'[t]) /\ NoOps(frame'[t])
           /\ frame'[t].stream = "none" /\ ~frame'[t].closed /\ ~frame'[t].drop
           /\ frame'[t].kind = IF Activate(t) THEN "activate"
                               ELSE IF SendStreamMessage(t) THEN "send" ELSE "close"
           /\ Close(t) => frame'[t].prev = shared.currentState
<1> DEFINE g(kind) == [NoWork EXCEPT !.op = ops + 1, !.kind = kind]
           h == [NoWork EXCEPT !.op = ops + 1, !.kind = "close",
                               !.prev = shared.currentState, !.close = FALSE]
<1>1. \A f \in {g("activate"), g("send"), h} :
          /\ f.op = ops + 1 /\ NoRefs(f) /\ NoOps(f)
          /\ f.stream = "none" /\ ~f.closed /\ ~f.drop
  BY DEF NoWork, NoRefs, NoOps
<1>2. /\ g("activate").kind = "activate" /\ g("send").kind = "send"
      /\ h.kind = "close" /\ h.prev = shared.currentState
  BY DEF NoWork
<1>3. /\ Activate(t) => Goto(t, "call", g("activate"))
      /\ SendStreamMessage(t) => Goto(t, "call", g("send"))
      /\ Close(t) => Goto(t, "call", h)
  BY DEF Activate, SendStreamMessage, Close, BeginClose
<1>4. /\ Activate(t) => ~SendStreamMessage(t)
      /\ Activate(t) => shared.currentState = "None"
      /\ SendStreamMessage(t) => shared.currentState = "Activated"
      /\ Close(t) => shared.currentState \in {"PendingActivate", "Activated"}
  BY DEF Activate, SendStreamMessage, Close, CanClose
<1>5. ~(SendStreamMessage(t) /\ Close(t))
  <2> SUFFICES ASSUME SendStreamMessage(t), Close(t) PROVE FALSE
    OBVIOUS
  <2>1. frame'[t] = g("send") /\ frame'[t] = h
    BY <1>3, GotoEffect
  <2> QED
    BY <1>2, <2>1
<1> HIDE DEF g, h
<1>6. Idle(t)
  BY DEF Activate, SendStreamMessage, Close, MayCall, WorkInOrder, Idle
<1> QED
  BY <1>1, <1>2, <1>3, <1>4, <1>5, <1>6, GotoEffect DEF Others

LEMMA CloseInternallyEffect ==
    ASSUME TypeOK, WorkInOrder, NEW t \in Threads, CloseInternally(t), CanClose
    PROVE  /\ pc[t] = "work" /\ NoRefs(frame[t]) /\ NoOps(frame[t])
           /\ frame[t].stream = "none" /\ frame[t].op = 0
           /\ Others(t) /\ pc'[t] = "call"
           /\ frame'[t].op = 0 /\ NoRefs(frame'[t]) /\ NoOps(frame'[t])
           /\ frame'[t].kind = "close" /\ frame'[t].prev = shared.currentState
           /\ frame'[t].stream = "none"
           /\ frame'[t].closed = frame[t].closed /\ frame'[t].drop = frame[t].drop
<1> DEFINE f == [frame[t] EXCEPT !.op = 0, !.kind = "close",
                                 !.prev = shared.currentState, !.close = FALSE]
<1>1. frame[t] \in Frames
  BY DEF TypeOK, ThreadsOK
<1>2. /\ pc[t] = "work" /\ NoRefs(frame[t]) /\ NoOps(frame[t]) /\ frame[t].stream = "none"
  BY DEF CloseInternally, ReleaseDone, FlushesDone, LocalRefDone, ResultDone, NoRefs, NoOps
<1>3. /\ f.op = 0 /\ f.kind = "close" /\ f.prev = shared.currentState
      /\ NoRefs(f) /\ NoOps(f) /\ f.stream = "none"
      /\ f.closed = frame[t].closed /\ f.drop = frame[t].drop
  BY <1>1, <1>2 DEF Frames, NoRefs, NoOps
<1>4. Goto(t, "call", f)
  BY DEF CloseInternally, BeginClose
<1> HIDE DEF f
<1>5. frame[t].op = 0
  BY <1>2 DEF WorkInOrder, InCall, NoCall
<1> QED
  BY <1>2, <1>3, <1>4, <1>5, GotoEffect DEF Others

LEMMA ReturnEffect ==
    ASSUME TypeOK, WorkInOrder, NEW t \in Threads, Returns(t)
    PROVE  /\ InCall(t) /\ NoRefs(frame[t]) /\ NoOps(frame[t]) /\ frame[t].stream = "none"
           /\ Others(t) /\ pc'[t] = "work"
           /\ NoCall(frame'[t]) /\ frame'[t].tokenRef /\ ~frame'[t].release
           /\ frame'[t].resp = 0 /\ frame'[t].won = 0 /\ frame'[t].stream = "none"
           /\ frame'[t].flushes = IF ActivateAccepted(t) \/ SendAccepted(t) THEN <<>>
                                  ELSE Flushes(frame[t].op)
           /\ frame'[t].closed = frame[t].closed /\ frame'[t].drop = frame[t].drop
<1>1. /\ InCall(t) /\ frame[t] \in Frames /\ OnlyCall(frame[t])
      /\ ActivateAccepted(t) \/ SendAccepted(t) => Continue(t, Accepted(frame[t]))
      /\ ~(ActivateAccepted(t) \/ SendAccepted(t)) => Continue(t, Failed(frame[t]))
  BY ReturnsEffect
<1>2. /\ \A g \in {Failed(frame[t]), Accepted(frame[t])} :
             /\ NoCall(g) /\ g # NoWork
             /\ g.resp = 0 /\ g.stream = "none" /\ g.tokenRef /\ g.won = 0
             /\ ~g.release /\ g.closed = frame[t].closed /\ g.drop = frame[t].drop
      /\ Failed(frame[t]).flushes = Flushes(frame[t].op) /\ Accepted(frame[t]).flushes = <<>>
  BY <1>1, CallOver
<1>3. CASE ActivateAccepted(t) \/ SendAccepted(t)
  <2>1. Continue(t, Accepted(frame[t]))
    BY <1>1, <1>3
  <2> QED
    BY <1>1, <1>2, <1>3, <2>1, ContinueEffect DEF Others, OnlyCall, NoRefs, NoOps
<1>4. CASE ~(ActivateAccepted(t) \/ SendAccepted(t))
  <2>1. Continue(t, Failed(frame[t]))
    BY <1>1, <1>4
  <2> QED
    BY <1>1, <1>2, <1>4, <2>1, ContinueEffect DEF Others, OnlyCall, NoRefs, NoOps
<1> QED
  BY <1>3, <1>4

LEMMA CloseFailsEffect ==
    ASSUME TypeOK, WorkInOrder, NEW t \in Threads, SendFails(t), frame[t].kind # "send"
    PROVE  /\ pc[t] = "call" /\ pc'[t] = "rollback" /\ frame[t].kind = "close"
           /\ frame'[t] = frame[t] /\ Others(t)
BY GotoEffect DEF SendFails, Others

LEMMA WorksEffect ==
    ASSUME TypeOK, WorkInOrder, NEW t \in Threads, Works(t)
    PROVE  /\ pc[t] = "work" /\ pc'[t] \in {"ready", "work"} /\ Others(t)
           /\ NoCall(frame[t]) /\ NoCall(frame'[t])
           /\ frame'[t].stream = "none" /\ frame[t].stream = "none"
           /\ frame'[t].closed = frame[t].closed /\ (frame'[t].drop => frame[t].drop)
           /\ UNCHANGED <<shared, valid, streamHandler, handlerLock, shutDown, ops, clibVars>>
<1>1. PICK f \in Frames :
              /\ pc[t] = "work" /\ Continue(t, f) /\ NoCall(f)
              /\ f.stream = "none" /\ frame[t].stream = "none" /\ f.closed = frame[t].closed
              /\ f.drop => frame[t].drop
              /\ UNCHANGED <<shared, valid, streamHandler, handlerLock, shutDown, ops, clibVars>>
  BY WorksFrame
<1>2. NoCall(frame[t])
  BY <1>1 DEF WorkInOrder, InCall
<1> QED
  BY <1>1, <1>2, ContinueEffect DEF Others

LEMMA ShutDownEffect ==
    ASSUME TypeOK, WorkInOrder, NEW t \in AppThreads \cup {Inner}, ShutDown(t)
    PROVE  Idle(t) /\ Others(t) /\ pc'[t] = "gather" /\ frame'[t] = NoWork
BY GotoEffect, ThreadsOfLoop DEF ShutDown, WorkInOrder, Idle, Others

LEMMA GatherEffect ==
    ASSUME TypeOK, WorkInOrder, NEW t \in Threads, ShutDownGather(t)
    PROVE  /\ pc[t] = "gather" /\ frame[t] = NoWork /\ Others(t) /\ pc'[t] \in {"ready", "work"}
           /\ NoCall(frame'[t]) /\ ~frame'[t].tokenRef
           /\ frame'[t].release = (shared.currentState = "None")
           /\ frame'[t].resp = Response /\ frame'[t].won = 0
           /\ frame'[t].flushes = Flushes(shared.activationContainer)
                                     \o Flushes(shared.closeContainer)
           /\ frame'[t].stream = "none" /\ ~frame'[t].closed /\ frame'[t].drop
<1> DEFINE fresh == shared.currentState = "None"
           f == [NoWork EXCEPT
                     !.resp = Response,
                     !.flushes = Flushes(shared.activationContainer)
                                   \o Flushes(shared.closeContainer),
                     !.release = fresh, !.close = ~fresh, !.drop = TRUE]
<1>1. /\ NoCall(f) /\ ~f.tokenRef /\ f.release = fresh /\ f.resp = Response /\ f.won = 0
      /\ f.flushes = Flushes(shared.activationContainer) \o Flushes(shared.closeContainer)
      /\ f.stream = "none" /\ ~f.closed /\ f.drop
  BY DEF NoWork, NoCall
<1>2. Continue(t, f)
  BY DEF ShutDownGather
<1> HIDE DEF f
<1>3. pc[t] = "gather" /\ frame[t] = NoWork
  BY DEF ShutDownGather, WorkInOrder
<1> QED
  BY <1>1, <1>2, <1>3, ContinueEffect DEF Others

-----------------------------------------------------------------------------
(* The same for the event loop's own steps.                                *)

LEMMA HandlerEffect ==
    ASSUME TypeOK, WorkInOrder, EnterHandler \/ \E b \in BOOLEAN : LeaveHandler(b)
    PROVE  /\ pc[Loop] \in {"work", "inHandler"} /\ frame[Loop].stream # "none"
           /\ NoRefs(frame[Loop]) /\ NoOps(frame[Loop]) /\ NoCall(frame[Loop])
           /\ ~frame[Loop].closed /\ ~frame[Loop].drop
           /\ Others(Loop) /\ pc'[Loop] \in {"ready", "work", "inHandler"}
           /\ NoRefs(frame'[Loop]) /\ NoOps(frame'[Loop]) /\ NoCall(frame'[Loop])
           /\ ~frame'[Loop].closed /\ ~frame'[Loop].drop
           /\ pc'[Loop] = "inHandler" <=> EnterHandler /\ streamHandler
<1>f. Loop \in Threads /\ frame[Loop] \in Frames
  BY ThreadsOfLoop DEF TypeOK, ThreadsOK
<1>1. frame[Loop].stream # "none" /\ pc[Loop] \in {"work", "inHandler"}
  BY <1>f DEF EnterHandler, LeaveHandler, WorkInOrder
<1>2. frame[Loop] = [NoWork EXCEPT !.stream = frame[Loop].stream]
  BY <1>f, <1>1 DEF WorkInOrder, OnlyStream
<1> DEFINE Plain(f) == NoRefs(f) /\ NoOps(f) /\ NoCall(f) /\ ~f.closed /\ ~f.drop
           g(b) == [frame[Loop] EXCEPT !.stream = "none", !.close = b]
           h == [frame[Loop] EXCEPT !.stream = "none"]
<1>3. Plain(frame[Loop])
  BY <1>2 DEF NoWork, NoRefs, NoOps, NoCall
<1>4. Plain(h) /\ \A b \in BOOLEAN : Plain(g(b))
  BY <1>3, <1>f DEF Frames, NoRefs, NoOps, NoCall
<1>5. CASE EnterHandler /\ streamHandler
  <2>1. Goto(Loop, "inHandler", frame[Loop])
    BY <1>5 DEF EnterHandler
  <2> HIDE DEF Plain, g, h
  <2>2. Others(Loop) /\ pc'[Loop] = "inHandler" /\ Plain(frame'[Loop])
    BY <1>f, <1>3, <2>1, GotoEffect DEF Others
  <2> QED
    BY <1>1, <1>3, <1>5, <2>2 DEF Plain
<1>6. CASE EnterHandler /\ ~streamHandler
  <2>1. Continue(Loop, h)
    BY <1>6 DEF EnterHandler
  <2> HIDE DEF Plain, g, h
  <2>2. Others(Loop) /\ pc'[Loop] \in {"ready", "work"} /\ Plain(frame'[Loop])
    BY <1>f, <1>4, <2>1, ContinueEffect DEF Others
  <2> QED
    BY <1>1, <1>3, <1>6, <2>2 DEF Plain
<1>7. ASSUME NEW b \in BOOLEAN, LeaveHandler(b), ~EnterHandler
      PROVE  Others(Loop) /\ pc'[Loop] \in {"ready", "work"} /\ Plain(frame'[Loop])
  <2>1. Continue(Loop, g(b))
    BY <1>7 DEF LeaveHandler
  <2> HIDE DEF Plain, g, h
  <2> QED
    BY <1>f, <1>4, <2>1, ContinueEffect DEF Others
<1> QED
  BY <1>1, <1>3, <1>5, <1>6, <1>7

LEMMA ClosedReturnsEffect ==
    ASSUME TypeOK, WorkInOrder, ClosedReturns
    PROVE  /\ pc[Loop] = "work" /\ frame[Loop].closed
           /\ NoRefs(frame[Loop]) /\ NoOps(frame[Loop]) /\ NoCall(frame[Loop])
           /\ Others(Loop) /\ pc'[Loop] \in {"ready", "work"}
           /\ NoRefs(frame'[Loop]) /\ NoOps(frame'[Loop]) /\ NoCall(frame'[Loop])
           /\ frame'[Loop].stream = "none" /\ ~frame'[Loop].closed
           /\ frame'[Loop].drop = frame[Loop].drop
<1>f. Loop \in Threads /\ frame[Loop] \in Frames
  BY ThreadsOfLoop DEF TypeOK, ThreadsOK
<1> DEFINE f == [frame[Loop] EXCEPT !.closed = FALSE]
<1>1. /\ pc[Loop] = "work" /\ frame[Loop].closed /\ frame[Loop].stream = "none"
      /\ NoRefs(frame[Loop]) /\ NoOps(frame[Loop])
  BY DEF ClosedReturns, CloseDone, ReleaseDone, FlushesDone, LocalRefDone, ResultDone,
         NoRefs, NoOps
<1>2. NoCall(frame[Loop])
  BY <1>f, <1>1 DEF WorkInOrder, InCall
<1>3. /\ NoRefs(f) /\ NoOps(f) /\ NoCall(f) /\ f.stream = "none" /\ ~f.closed
      /\ f.drop = frame[Loop].drop
  BY <1>f, <1>1, <1>2 DEF Frames, NoRefs, NoOps, NoCall
<1>4. Continue(Loop, f)
  BY DEF ClosedReturns
<1> HIDE DEF f
<1> QED
  BY <1>f, <1>1, <1>2, <1>3, <1>4, ContinueEffect DEF Others

LEMMA OnClosedEffect ==
    ASSUME TypeOK, WorkInOrder, OnClosed
    PROVE  /\ Idle(Loop) /\ Others(Loop) /\ pc'[Loop] \in {"ready", "work"}
           /\ NoCall(frame'[Loop]) /\ ~frame'[Loop].tokenRef
           /\ frame'[Loop].release = shared.continuation
           /\ frame'[Loop].resp = Response /\ frame'[Loop].won = 0
           /\ frame'[Loop].flushes = Flushes(shared.activationContainer)
                                        \o Flushes(shared.closeContainer)
           /\ frame'[Loop].stream = "none" /\ frame'[Loop].closed /\ ~frame'[Loop].drop
<1> DEFINE f == [NoWork EXCEPT
                    !.resp = Response,
                    !.flushes = Flushes(shared.activationContainer)
                                  \o Flushes(shared.closeContainer),
                    !.release = shared.continuation, !.closed = TRUE]
<1>1. /\ NoCall(f) /\ ~f.tokenRef /\ f.release = shared.continuation
      /\ f.resp = Response /\ f.won = 0
      /\ f.flushes = Flushes(shared.activationContainer) \o Flushes(shared.closeContainer)
      /\ f.stream = "none" /\ f.closed /\ ~f.drop
  BY DEF NoWork, NoCall
<1>2. Continue(Loop, f)
  BY DEF OnClosed
<1> HIDE DEF f
<1>3. Idle(Loop)
  BY ThreadsOfLoop DEF OnClosed, WorkInOrder, Idle
<1> QED
  BY <1>1, <1>2, <1>3, ContinueEffect, ThreadsOfLoop DEF Others

LEMMA OnMessageEffect ==
    ASSUME TypeOK, WorkInOrder, NEW m \in MessageKinds, NEW b \in BOOLEAN, OnMessage(m, b)
    PROVE  /\ Idle(Loop) /\ Others(Loop) /\ pc'[Loop] \in {"ready", "work"}
           /\ NoCall(frame'[Loop]) /\ NoRefs(frame'[Loop])
           /\ frame'[Loop].resp = (IF shared.currentState = "PendingActivate" THEN Response ELSE 0)
           /\ frame'[Loop].won = 0 /\ frame'[Loop].flushes = <<>>
           /\ ~frame'[Loop].closed /\ ~frame'[Loop].drop
<1> DEFINE g == [NoWork EXCEPT !.resp = Response, !.close = m # "response"]
           h == [NoWork EXCEPT !.stream = m]
<1>1. \A f \in {g, h} : /\ NoCall(f) /\ NoRefs(f) /\ f.won = 0 /\ f.flushes = <<>>
                       /\ ~f.closed /\ ~f.drop
  BY DEF NoWork, NoCall, NoRefs
<1>2. g.resp = Response /\ h.resp = 0
  BY DEF NoWork
<1>3. IF shared.currentState = "PendingActivate" THEN Continue(Loop, g) ELSE Continue(Loop, h)
  BY DEF OnMessage
<1> HIDE DEF g, h
<1>4. Idle(Loop)
  BY ThreadsOfLoop DEF OnMessage, WorkInOrder, Idle
<1> QED
  BY <1>1, <1>2, <1>3, <1>4, ContinueEffect, ThreadsOfLoop DEF Others

LEMMA FlushedEffect ==
    ASSUME TypeOK, WorkInOrder, NEW op \in Ops, MessageFlushed(op)
    PROVE  /\ Idle(Loop) /\ Others(Loop) /\ pc'[Loop] \in {"ready", "work"}
           /\ NoCall(frame'[Loop]) /\ NoRefs(frame'[Loop])
           /\ frame'[Loop].resp = 0 /\ frame'[Loop].won = 0 /\ frame'[Loop].flushes = <<op>>
           /\ frame'[Loop].stream = "none" /\ ~frame'[Loop].closed /\ ~frame'[Loop].drop
<1> DEFINE f == [NoWork EXCEPT !.flushes = <<op>>]
<1>1. /\ NoCall(f) /\ NoRefs(f) /\ f.resp = 0 /\ f.won = 0 /\ f.flushes = <<op>>
      /\ f.stream = "none" /\ ~f.closed /\ ~f.drop
  BY DEF NoWork, NoCall, NoRefs
<1>2. Continue(Loop, f)
  BY DEF MessageFlushed
<1> HIDE DEF f
<1>3. Idle(Loop)
  BY ThreadsOfLoop DEF MessageFlushed, WorkInOrder, Idle
<1> QED
  BY <1>1, <1>2, <1>3, ContinueEffect, ThreadsOfLoop DEF Others

-----------------------------------------------------------------------------
(* The steps of the system, by their effect.                               *)
LEMMA StepCases ==
    ASSUME [Next]_vars
    PROVE  \/ \E t \in AppThreads :
                 Refused(t) \/ Activate(t) \/ SendStreamMessage(t) \/ Close(t)
           \/ \E t \in AppThreads \cup {Inner} : ShutDown(t)
           \/ \E t \in Threads :
                 \/ Returns(t) \/ (SendFails(t) /\ frame[t].kind # "send")
                 \/ ShutDownGather(t) \/ (CloseInternally(t) /\ CanClose) \/ Works(t)
           \/ EnterHandler \/ (\E b \in BOOLEAN : LeaveHandler(b))
           \/ ClosedReturns \/ OnClosed
           \/ \E m \in MessageKinds, b \in BOOLEAN : OnMessage(m, b)
           \/ \E op \in Ops : MessageFlushed(op)
           \/ RunReleaseTask
           \/ UNCHANGED vars
<1>1. ASSUME NEW t \in AppThreads, AppCalls(t)
      PROVE  Refused(t) \/ Activate(t) \/ SendStreamMessage(t) \/ Close(t)
  BY <1>1 DEF AppCalls, ActivateRefused, SendRefused, CloseRefused
<1>2. ASSUME NEW t \in Threads, Step(t)
      PROVE  \/ Returns(t) \/ (SendFails(t) /\ frame[t].kind # "send")
             \/ ShutDownGather(t) \/ (CloseInternally(t) /\ CanClose) \/ Works(t)
  BY <1>2 DEF Step, Returns, Works
<1>3. Terminated => UNCHANGED vars
  BY DEF Terminated
<1> QED
  BY <1>1, <1>2, <1>3 DEF Next, LoopStep

-----------------------------------------------------------------------------
(* One thread destroys the operation, once, and holds its handle until the *)
(* destructor ends.                                                        *)

Leaving(t) == pc[t] = "gather" \/ frame[t].drop
OneShutDown ==
    /\ shutDown = "no" => handle /\ \A t \in Threads : ~Leaving(t)
    /\ \A t \in Threads : Leaving(t) => handle
    /\ \A t, u \in Threads : Leaving(t) /\ Leaving(u) => t = u

LEMMA SteadyShutDown ==
    ASSUME OneShutDown, UNCHANGED <<handle, shutDown>>,
           \A t \in Threads : Leaving(t)' => Leaving(t)
    PROVE  OneShutDown'
BY DEF OneShutDown

(* A step of one thread that does not begin or end the destructor.         *)
LEMMA OthersShutDown ==
    ASSUME OneShutDown, UNCHANGED <<handle, shutDown>>, NEW t \in Threads, Others(t),
           Leaving(t)' => Leaving(t)
    PROVE  OneShutDown'
BY SteadyShutDown DEF Others, Leaving

LEMMA NextOneShutDown ==
    ASSUME TypeOK, WorkInOrder, OneShutDown, [Next]_vars PROVE OneShutDown'
<1>l. Loop \in Threads /\ AppThreads \subseteq Threads /\ Inner \in Threads
  BY ThreadsOfLoop
<1>1. ASSUME NEW t \in AppThreads, Refused(t) PROVE OneShutDown'
  <2>1. Others(t) /\ ~Leaving(t)'
    BY <1>l, <1>1, RefusedEffect DEF Leaving
  <2> QED
    BY <1>l, <1>1, <2>1, OthersShutDown DEF Refused, implVars
<1>2. ASSUME NEW t \in AppThreads, Activate(t) \/ SendStreamMessage(t) \/ Close(t)
      PROVE  OneShutDown'
  <2>1. Others(t) /\ ~Leaving(t)'
    BY <1>l, <1>2, CallsEffect DEF Leaving
  <2>2. UNCHANGED <<handle, shutDown>>
    BY <1>2 DEF Activate, SendStreamMessage, Close, BeginClose, implVars
  <2> QED
    BY <1>l, <2>1, <2>2, OthersShutDown
<1>3. ASSUME NEW t \in AppThreads \cup {Inner}, ShutDown(t) PROVE OneShutDown'
  <2>1. Others(t) /\ pc'[t] = "gather"
    BY <1>3, ShutDownEffect
  <2>2. handle /\ shutDown = "no" /\ handle' = handle /\ shutDown' # "no"
    BY <1>3 DEF ShutDown
  <2> QED
    BY <1>l, <2>1, <2>2 DEF OneShutDown, Leaving, Others
<1>4. ASSUME NEW t \in Threads, Returns(t) PROVE OneShutDown'
  <2>1. Others(t) /\ (Leaving(t)' => Leaving(t))
    BY <1>4, ReturnEffect DEF Leaving
  <2>2. UNCHANGED <<handle, shutDown>>
    BY <1>4 DEF Returns, ActivateAccepted, ActivateRollback, SendAccepted, SendFails,
                CloseRollback, implVars
  <2> QED
    BY <2>1, <2>2, OthersShutDown
<1>5. ASSUME NEW t \in Threads, SendFails(t), frame[t].kind # "send" PROVE OneShutDown'
  <2>1. Others(t) /\ (Leaving(t)' => Leaving(t))
    BY <1>5, CloseFailsEffect DEF Leaving
  <2> QED
    BY <1>5, <2>1, OthersShutDown DEF SendFails, implVars
<1>6. ASSUME NEW t \in Threads, ShutDownGather(t) PROVE OneShutDown'
  <2>1. Others(t) /\ Leaving(t)
    BY <1>6, GatherEffect DEF Leaving
  <2> QED
    BY <1>6, <2>1, OthersShutDown DEF ShutDownGather
<1>7. ASSUME NEW t \in Threads, CloseInternally(t), CanClose PROVE OneShutDown'
  <2>1. Others(t) /\ (Leaving(t)' => Leaving(t))
    BY <1>7, CloseInternallyEffect DEF Leaving
  <2> QED
    BY <1>7, <2>1, OthersShutDown DEF CloseInternally, BeginClose
<1>8. ASSUME NEW t \in Threads, Works(t) PROVE OneShutDown'
  <2>1. Others(t) /\ (Leaving(t)' => Leaving(t)) /\ UNCHANGED shutDown
    BY <1>8, WorksEffect DEF Leaving
  <2>2. CASE DropHandle(t)
    <3> DEFINE f == [frame[t] EXCEPT !.drop = FALSE]
    <3>1. ~f.drop
      BY DEF TypeOK, ThreadsOK, Frames
    <3>2. Continue(t, f) /\ frame[t].drop
      BY <2>2 DEF DropHandle
    <3> HIDE DEF f
    <3>3. ~Leaving(t)' /\ Leaving(t)
      BY <3>1, <3>2, ContinueEffect DEF Leaving
    <3> QED
      BY <2>1, <3>3 DEF OneShutDown, Others, Leaving
  <2>3. CASE ~DropHandle(t)
    <3>1. UNCHANGED handle
      BY <1>8, <2>3 DEF Works, InvokeResult, ReleaseLocalRef, CompleteFlush, ResolveFlush,
                        ReleaseContinuation, CloseInternally, implVars
    <3> QED
      BY <2>1, <3>1, OthersShutDown
  <2> QED
    BY <2>2, <2>3
<1>9. CASE EnterHandler \/ \E b \in BOOLEAN : LeaveHandler(b)
  <2>1. Others(Loop) /\ ~Leaving(Loop)'
    BY <1>9, HandlerEffect DEF Leaving
  <2> QED
    BY <1>l, <1>9, <2>1, OthersShutDown DEF EnterHandler, LeaveHandler
<1>10. CASE ClosedReturns
  <2>1. Others(Loop) /\ (Leaving(Loop)' => Leaving(Loop))
    BY <1>10, ClosedReturnsEffect DEF Leaving
  <2> QED
    BY <1>l, <1>10, <2>1, OthersShutDown DEF ClosedReturns, implVars
<1>11. CASE OnClosed
  <2>1. Others(Loop) /\ ~Leaving(Loop)'
    BY <1>11, OnClosedEffect DEF Leaving
  <2> QED
    BY <1>l, <1>11, <2>1, OthersShutDown DEF OnClosed
<1>12. ASSUME NEW m \in MessageKinds, NEW b \in BOOLEAN, OnMessage(m, b) PROVE OneShutDown'
  <2>1. Others(Loop) /\ ~Leaving(Loop)'
    BY <1>12, OnMessageEffect DEF Leaving
  <2> QED
    BY <1>l, <1>12, <2>1, OthersShutDown DEF OnMessage
<1>13. ASSUME NEW op \in Ops, MessageFlushed(op) PROVE OneShutDown'
  <2>1. Others(Loop) /\ ~Leaving(Loop)'
    BY <1>13, FlushedEffect DEF Leaving
  <2> QED
    BY <1>l, <1>13, <2>1, OthersShutDown DEF MessageFlushed, implVars
<1>14. CASE RunReleaseTask \/ UNCHANGED vars
  BY <1>14, SteadyShutDown DEF RunReleaseTask, vars, implVars, threadVars, Leaving
<1> QED
  BY <1>1, <1>2, <1>3, <1>4, <1>5, <1>6, <1>7, <1>8, <1>9, <1>10, <1>11, <1>12, <1>13, <1>14, StepCases

-----------------------------------------------------------------------------
(* The state machine of the stream and the token of the C library.         *)

Activating(t) == pc[t] = "call" /\ frame[t].kind = "activate"
Closing(t) == InCall(t) /\ frame[t].kind = "close"

(* One activation at a time is with the C library, and it finds there the  *)
(* fresh token and its own callback in shared state.                       *)
OneActivation ==
    /\ \A t \in Threads : Activating(t) =>
          /\ t \in AppThreads /\ shutDown = "no"
          /\ token = "fresh" /\ shared.currentState \in {"PendingActivate", "PendingClose"}
          /\ shared.activationResponse = frame[t].op
    /\ \A t, u \in Threads : Activating(t) /\ Activating(u) => t = u

(* What a failed Close would restore is still so, or the stream is over.   *)
Restorable ==
    \A t \in Threads : Closing(t) =>
        /\ frame[t].prev \in {"PendingActivate", "Activated"}
        /\ frame[t].prev = "Activated" => token = "open" \/ shared.currentState = "Closed"

StreamOver == token \in {"none", "closing", "closed"} => shared.currentState = "Closed"

(* The loop is in the middle of a callback of the C library.               *)
LoopBusy ==
    /\ frame[Loop].stream # "none" => token = "open"
    /\ \A t \in Threads : frame[t].closed => t = Loop /\ token = "closing"

StreamInv == OneActivation /\ Restorable /\ StreamOver /\ LoopBusy /\ StateMatchesToken

(* A step of one thread that enters no call and leaves the stream alone.   *)
LEMMA QuietStream ==
    ASSUME StreamInv, NEW t \in Threads, Others(t), UNCHANGED <<shared, token, shutDown>>,
           InCall(t)' => /\ InCall(t) /\ frame'[t] = frame[t]
                         /\ pc'[t] = "call" => pc[t] = "call",
           frame'[t].closed => frame[t].closed,
           t = Loop /\ frame'[t].stream # "none" => frame[t].stream # "none"
    PROVE  StreamInv'
<1>1. \A u \in Threads : /\ Activating(u)' => Activating(u) /\ frame'[u] = frame[u]
                         /\ Closing(u)' => Closing(u) /\ frame'[u] = frame[u]
                         /\ frame'[u].closed => frame[u].closed
  BY DEF Activating, Closing, InCall, Others
<1>2. frame'[Loop].stream # "none" => frame[Loop].stream # "none"
  BY ThreadsOfLoop DEF Others
<1>3. OneActivation'
  BY <1>1 DEF StreamInv, OneActivation
<1>4. Restorable' /\ StreamOver'
  BY <1>1 DEF StreamInv, Restorable, StreamOver
<1>5. LoopBusy'
  BY <1>1, <1>2 DEF StreamInv, LoopBusy
<1>6. StateMatchesToken'
  BY DEF StreamInv, StateMatchesToken
<1> QED
  BY <1>3, <1>4, <1>5, <1>6 DEF StreamInv

LEMMA ActivateStream ==
    ASSUME TypeOK, WorkInOrder, StreamInv, NEW t \in AppThreads, Activate(t) PROVE StreamInv'
<1>1. /\ t \in Threads /\ Others(t) /\ pc'[t] = "call" /\ frame'[t].op = ops + 1
      /\ frame'[t].kind = "activate" /\ frame'[t].stream = "none" /\ ~frame'[t].closed
  BY CallsEffect, ThreadsOfLoop
<1>2. /\ shared.currentState = "None" /\ shared'.currentState = "PendingActivate"
      /\ shared.continuation /\ shared'.continuation = shared.continuation
      /\ shared'.activationResponse = ops + 1
      /\ shutDown = "no" /\ UNCHANGED <<token, shutDown>>
  BY DEF Activate, MayCall, clibVars, TypeOK, SharedStates
<1>3. token = "fresh" /\ \A u \in Threads : ~Activating(u)
  BY <1>2 DEF StreamInv, OneActivation, StateMatchesToken
<1>4. OneActivation'
  BY <1>1, <1>2, <1>3 DEF OneActivation, Activating, Others
<1>5. Restorable' /\ StreamOver' /\ LoopBusy'
  <2>1. \A u \in Threads : Closing(u)' => Closing(u) /\ frame'[u] = frame[u]
    BY <1>1 DEF Closing, InCall, Others
  <2>2. \A u \in Threads : frame'[u].closed => frame[u].closed
    BY <1>1 DEF Others
  <2>3. frame'[Loop].stream # "none" => frame[Loop].stream # "none"
    BY <1>1, ThreadsOfLoop DEF Others
  <2> QED
    BY <1>2, <1>3, <2>1, <2>2, <2>3 DEF StreamInv, Restorable, StreamOver, LoopBusy
<1>6. StateMatchesToken'
  BY <1>2, <1>3 DEF StateMatchesToken
<1> QED
  BY <1>4, <1>5, <1>6 DEF StreamInv

LEMMA CloseStream ==
    ASSUME TypeOK, WorkInOrder, StreamInv, NEW t \in Threads,
           Close(t) \/ (CloseInternally(t) /\ CanClose)
    PROVE  StreamInv'
<1>1. /\ Others(t) /\ pc'[t] = "call" /\ frame'[t].kind = "close"
      /\ frame'[t].prev = shared.currentState /\ frame'[t].stream = "none"
      /\ frame'[t].closed => frame[t].closed
  <2>1. CASE Close(t)
    <3>1. shared.currentState \notin {"None"} /\ shared'.currentState = "PendingClose"
      BY <2>1 DEF Close, CanClose, BeginClose, TypeOK, SharedStates
    <3>2. ~Activate(t)
      BY <3>1 DEF Activate
    <3>3. ~SendStreamMessage(t)
      <4> SUFFICES ASSUME SendStreamMessage(t) PROVE FALSE
        OBVIOUS
      <4>1. shared' = shared /\ shared.currentState = "Activated"
        BY DEF SendStreamMessage, implVars
      <4> QED
        BY <3>1, <4>1
    <3> QED
      BY <2>1, <3>2, <3>3, CallsEffect
  <2>2. CASE CloseInternally(t) /\ CanClose
    BY <2>2, CloseInternallyEffect
  <2> QED
    BY <2>1, <2>2
<1>2. /\ shared.continuation /\ shared'.continuation = shared.continuation
      /\ shared.currentState \in {"PendingActivate", "Activated"}
      /\ shared'.currentState = "PendingClose"
      /\ shared'.activationResponse = shared.activationResponse
      /\ UNCHANGED <<token, shutDown>>
  BY DEF Close, CloseInternally, CanClose, BeginClose, clibVars, TypeOK, SharedStates
<1>3. \A u \in Threads : Activating(u)' => Activating(u) /\ frame'[u] = frame[u]
  BY <1>1 DEF Activating, Others
<1>4. OneActivation'
  BY <1>2, <1>3 DEF StreamInv, OneActivation
<1>5. Restorable'
  <2>1. \A u \in Threads : u # t /\ Closing(u)' => Closing(u) /\ frame'[u] = frame[u]
    BY <1>1 DEF Closing, InCall, Others
  <2> QED
    BY <1>1, <1>2, <2>1 DEF StreamInv, Restorable, StateMatchesToken
<1>6. StreamOver'
  BY <1>2 DEF StreamInv, StreamOver
<1>7. LoopBusy'
  <2>1. frame'[Loop].stream # "none" => frame[Loop].stream # "none"
    BY <1>1, ThreadsOfLoop DEF Others
  <2> QED
    BY <1>1, <1>2, <2>1 DEF StreamInv, LoopBusy, Others
<1>8. StateMatchesToken'
  BY <1>2 DEF StreamInv, StateMatchesToken
<1> QED
  BY <1>4, <1>5, <1>6, <1>7, <1>8 DEF StreamInv

LEMMA ReturnsStream ==
    ASSUME TypeOK, WorkInOrder, StreamInv, NEW t \in Threads, Returns(t) PROVE StreamInv'
<1>1. /\ InCall(t) /\ frame[t].stream = "none" /\ Others(t) /\ pc'[t] = "work"
      /\ frame'[t].stream = "none" /\ frame'[t].closed = frame[t].closed
  BY ReturnEffect
<1>2. \A u \in Threads : /\ Activating(u)' => u # t /\ Activating(u) /\ frame'[u] = frame[u]
                         /\ Closing(u)' => Closing(u) /\ frame'[u] = frame[u]
                         /\ frame'[u].closed => frame[u].closed
  BY <1>1 DEF Activating, Closing, InCall, Others
<1>3. frame'[Loop].stream # "none" => frame[Loop].stream # "none"
  BY <1>1, ThreadsOfLoop DEF Others
<1>4. CASE SendAccepted(t) \/ SendFails(t)
  <2>1. UNCHANGED <<shared, token, shutDown>>
    BY <1>4 DEF SendAccepted, SendFails, implVars, clibVars
  <2> QED
    BY <1>1, <2>1, QuietStream DEF InCall
<1>5. CASE ActivateAccepted(t)
  <2>1. /\ Activating(t) /\ token' = "open" /\ UNCHANGED <<shared, shutDown>>
    BY <1>5 DEF ActivateAccepted, Activating, implVars
  <2>2. /\ token = "fresh" /\ shared.currentState \in {"PendingActivate", "PendingClose"}
        /\ \A u \in Threads : Activating(u) => u = t
    BY <2>1 DEF StreamInv, OneActivation
  <2>3. OneActivation'
    BY <1>2, <2>2 DEF OneActivation
  <2>4. Restorable' /\ StreamOver' /\ LoopBusy'
    BY <1>2, <1>3, <2>1, <2>2 DEF StreamInv, Restorable, StreamOver, LoopBusy
  <2>5. StateMatchesToken'
    BY <2>1, <2>2 DEF StreamInv, StateMatchesToken
  <2> QED
    BY <2>3, <2>4, <2>5 DEF StreamInv
<1>6. CASE ActivateRollback(t)
  <2>1. /\ Activating(t) /\ UNCHANGED <<token, shutDown>>
        /\ shared'.currentState = "None" /\ shared'.continuation = shared.continuation
    BY <1>6 DEF ActivateRollback, DropActivation, Activating, clibVars, TypeOK, SharedStates
  <2>2. /\ token = "fresh" /\ shared.currentState \in {"PendingActivate", "PendingClose"}
        /\ \A u \in Threads : Activating(u) => u = t
    BY <2>1 DEF StreamInv, OneActivation
  <2>3. OneActivation'
    BY <1>2, <2>2 DEF OneActivation
  <2>4. Restorable' /\ StreamOver' /\ LoopBusy'
    BY <1>2, <1>3, <2>1, <2>2 DEF StreamInv, Restorable, StreamOver, LoopBusy
  <2>5. StateMatchesToken'
    BY <2>1, <2>2 DEF StreamInv, StateMatchesToken
  <2> QED
    BY <2>3, <2>4, <2>5 DEF StreamInv
<1>7. CASE CloseRollback(t)
  <2>1. /\ Closing(t) /\ UNCHANGED <<token, shutDown>>
        /\ shared'.currentState = (IF shared.currentState = "Closed" THEN "Closed"
                                   ELSE frame[t].prev)
        /\ shared'.continuation = shared.continuation
        /\ shared'.activationResponse = shared.activationResponse
    BY <1>7 DEF CloseRollback, Restored, Closing, InCall, WorkInOrder, clibVars, TypeOK, SharedStates
  <2>2. /\ frame[t].prev \in {"PendingActivate", "Activated"}
        /\ frame[t].prev = "Activated" => token = "open" \/ shared.currentState = "Closed"
    BY <2>1 DEF StreamInv, Restorable
  <2>3. OneActivation'
    BY <1>2, <2>1, <2>2 DEF StreamInv, OneActivation
  <2>4. Restorable' /\ StreamOver' /\ LoopBusy'
    BY <1>2, <1>3, <2>1, <2>2 DEF StreamInv, Restorable, StreamOver, LoopBusy
  <2>5. StateMatchesToken'
    BY <2>1, <2>2 DEF StreamInv, StateMatchesToken
  <2> QED
    BY <2>3, <2>4, <2>5 DEF StreamInv
<1> QED
  BY <1>4, <1>5, <1>6, <1>7 DEF Returns

LEMMA ShutDownStream ==
    ASSUME TypeOK, WorkInOrder, StreamInv, NEW t \in AppThreads \cup {Inner}, ShutDown(t)
    PROVE  StreamInv'
<1>1. t \in Threads /\ Others(t) /\ pc'[t] = "gather" /\ frame'[t] = NoWork /\ Idle(t)
  BY ShutDownEffect, ThreadsOfLoop
<1>2. /\ UNCHANGED <<shared, token>>
      /\ \A u \in AppThreads : pc[u] = "ready"
  BY DEF ShutDown, clibVars
<1>3. \A u \in Threads : /\ ~Activating(u) /\ ~Activating(u)'
                         /\ Closing(u)' => Closing(u) /\ frame'[u] = frame[u]
                         /\ frame'[u].closed => frame[u].closed
  BY <1>1, <1>2 DEF Activating, Closing, InCall, Others, StreamInv, OneActivation, Idle
<1>4. frame'[Loop].stream # "none" => frame[Loop].stream # "none"
  BY <1>1, ThreadsOfLoop DEF Others, Idle
<1>5. OneActivation'
  BY <1>3 DEF OneActivation
<1>6. Restorable' /\ StreamOver' /\ LoopBusy' /\ StateMatchesToken'
  BY <1>2, <1>3, <1>4 DEF StreamInv, Restorable, StreamOver, LoopBusy, StateMatchesToken
<1> QED
  BY <1>5, <1>6 DEF StreamInv

LEMMA GatherStream ==
    ASSUME TypeOK, WorkInOrder, OneShutDown, StreamInv, NEW t \in Threads, ShutDownGather(t)
    PROVE  StreamInv'
<1>1. /\ pc[t] = "gather" /\ Others(t) /\ pc'[t] \in {"ready", "work"}
      /\ frame'[t].stream = "none" /\ ~frame'[t].closed
  BY GatherEffect
<1>2. /\ UNCHANGED <<token, shutDown>>
      /\ shared'.currentState = (IF shared.currentState = "None" THEN "Closed"
                                 ELSE shared.currentState)
      /\ shared'.continuation = (IF shared.currentState = "None" THEN FALSE
                                 ELSE shared.continuation)
  BY DEF ShutDownGather, DropActivation, clibVars, TypeOK, SharedStates
<1>3. \A u \in Threads : ~Activating(u)
  BY <1>1 DEF OneShutDown, Leaving, StreamInv, OneActivation
<1>4. \A u \in Threads : /\ ~Activating(u)'
                         /\ Closing(u)' => Closing(u) /\ frame'[u] = frame[u]
                         /\ frame'[u].closed => frame[u].closed
  BY <1>1, <1>3 DEF Activating, Closing, InCall, Others
<1>5. frame'[Loop].stream # "none" => frame[Loop].stream # "none"
  BY <1>1, ThreadsOfLoop DEF Others
<1>6. OneActivation'
  BY <1>4 DEF OneActivation
<1>7. Restorable' /\ StreamOver' /\ LoopBusy'
  BY <1>2, <1>4, <1>5 DEF StreamInv, Restorable, StreamOver, LoopBusy
<1>8. StateMatchesToken'
  BY <1>2 DEF StreamInv, StateMatchesToken
<1> QED
  BY <1>6, <1>7, <1>8 DEF StreamInv

LEMMA LoopStream ==
    ASSUME TypeOK, WorkInOrder, StreamInv,
           \/ ClosedReturns \/ OnClosed
           \/ \E m \in MessageKinds, b \in BOOLEAN : OnMessage(m, b)
    PROVE  StreamInv'
<1>l. Loop \in Threads
  BY ThreadsOfLoop
<1>1. CASE ClosedReturns
  <2>1. /\ frame[Loop].closed /\ Others(Loop) /\ pc'[Loop] \in {"ready", "work"}
        /\ frame'[Loop].stream = "none" /\ ~frame'[Loop].closed
    BY <1>1, ClosedReturnsEffect
  <2>2. token = "closing" /\ token' = "closed" /\ UNCHANGED <<shared, shutDown>>
    BY <1>l, <1>1, <2>1 DEF ClosedReturns, implVars, StreamInv, LoopBusy
  <2>3. shared.currentState = "Closed" /\ \A u \in Threads : ~Activating(u)
    BY <2>2 DEF StreamInv, StreamOver, OneActivation
  <2>4. \A u \in Threads : /\ ~Activating(u)' /\ ~frame'[u].closed
                           /\ Closing(u)' => Closing(u) /\ frame'[u] = frame[u]
    BY <2>1, <2>3 DEF Activating, Closing, InCall, Others, StreamInv, LoopBusy
  <2>5. OneActivation' /\ Restorable' /\ StreamOver' /\ LoopBusy'
    BY <2>1, <2>2, <2>3, <2>4 DEF StreamInv, OneActivation, Restorable, StreamOver, LoopBusy
  <2>6. StateMatchesToken'
    BY <2>2, <2>3 DEF StreamInv, StateMatchesToken
  <2> QED
    BY <2>5, <2>6 DEF StreamInv
<1>2. CASE OnClosed
  <2>1. /\ Others(Loop) /\ pc'[Loop] \in {"ready", "work"} /\ frame'[Loop].stream = "none"
    BY <1>2, OnClosedEffect
  <2>2. /\ token = "open" /\ token' = "closing" /\ UNCHANGED shutDown
        /\ shared'.currentState = "Closed" /\ ~shared'.continuation
    BY <1>2 DEF OnClosed, DropActivation, TypeOK, SharedStates
  <2>3. \A u \in Threads : ~Activating(u) /\ ~frame[u].closed
    BY <2>2 DEF StreamInv, OneActivation, LoopBusy
  <2>4. \A u \in Threads : /\ ~Activating(u)' /\ (frame'[u].closed => u = Loop)
                           /\ Closing(u)' => Closing(u) /\ frame'[u] = frame[u]
    BY <2>1, <2>3 DEF Activating, Closing, InCall, Others
  <2>5. OneActivation' /\ Restorable' /\ StreamOver' /\ LoopBusy'
    BY <2>1, <2>2, <2>4 DEF StreamInv, OneActivation, Restorable, StreamOver, LoopBusy
  <2>6. StateMatchesToken'
    BY <2>2 DEF StateMatchesToken
  <2> QED
    BY <2>5, <2>6 DEF StreamInv
<1>3. ASSUME NEW m \in MessageKinds, NEW b \in BOOLEAN, OnMessage(m, b) PROVE StreamInv'
  <2>1. /\ Others(Loop) /\ pc'[Loop] \in {"ready", "work"} /\ ~frame'[Loop].closed
    BY <1>3, OnMessageEffect
  <2>2. /\ token = "open" /\ UNCHANGED <<token, shutDown>>
        /\ shared'.continuation = shared.continuation
        /\ \/ shared'.currentState = shared.currentState
           \/ shared.currentState = "PendingActivate"
              /\ shared'.currentState \in {"PendingActivate", "PendingClose", "Activated"}
    <3>1. CASE shared.currentState = "PendingActivate"
      BY <1>3, <3>1 DEF OnMessage, DropActivation, TypeOK, SharedStates
    <3>2. CASE shared.currentState # "PendingActivate"
      BY <1>3, <3>2 DEF OnMessage
    <3> QED
      BY <3>1, <3>2
  <2>3. \A u \in Threads : ~Activating(u) /\ ~frame[u].closed
    BY <2>2 DEF StreamInv, OneActivation, LoopBusy
  <2>4. \A u \in Threads : /\ ~Activating(u)' /\ ~frame'[u].closed
                           /\ Closing(u)' => Closing(u) /\ frame'[u] = frame[u]
    BY <2>1, <2>3 DEF Activating, Closing, InCall, Others
  <2>5. OneActivation' /\ Restorable' /\ StreamOver' /\ LoopBusy'
    BY <2>1, <2>2, <2>4 DEF StreamInv, OneActivation, Restorable, StreamOver, LoopBusy
  <2>6. StateMatchesToken'
    BY <2>2 DEF StreamInv, StateMatchesToken
  <2> QED
    BY <2>5, <2>6 DEF StreamInv
<1> QED
  BY <1>1, <1>2, <1>3

LEMMA NextStream ==
    ASSUME TypeOK, WorkInOrder, OneShutDown, StreamInv, [Next]_vars PROVE StreamInv'
<1>l. Loop \in Threads /\ AppThreads \subseteq Threads
  BY ThreadsOfLoop
<1>1. ASSUME NEW t \in AppThreads, Refused(t) PROVE StreamInv'
  <2>1. /\ Others(t) /\ ~InCall(t)' /\ ~frame'[t].closed /\ frame'[t].stream = "none"
    BY <1>l, <1>1, RefusedEffect DEF InCall
  <2>2. UNCHANGED <<shared, token, shutDown>>
    BY <1>1 DEF Refused, implVars, clibVars
  <2> QED
    BY <1>l, <2>1, <2>2, QuietStream
<1>2. ASSUME NEW t \in AppThreads, SendStreamMessage(t) PROVE StreamInv'
  <2>1. /\ Others(t) /\ pc'[t] = "call" /\ ~frame'[t].closed /\ frame'[t].stream = "none"
        /\ frame'[t].kind = "send"
    <3>1. ~Activate(t)
      BY <1>2 DEF Activate, SendStreamMessage
    <3> QED
      BY <1>l, <1>2, <3>1, CallsEffect
  <2>2. UNCHANGED <<shared, token, shutDown>>
    BY <1>2 DEF SendStreamMessage, implVars, clibVars
  <2>3. \A u \in Threads : /\ Activating(u)' => Activating(u) /\ frame'[u] = frame[u]
                           /\ Closing(u)' => Closing(u) /\ frame'[u] = frame[u]
                           /\ frame'[u].closed => frame[u].closed
    BY <1>l, <2>1 DEF Activating, Closing, InCall, Others
  <2>4. frame'[Loop].stream # "none" => frame[Loop].stream # "none"
    BY <1>l, <2>1 DEF Others
  <2> QED
    BY <2>2, <2>3, <2>4
    DEF StreamInv, OneActivation, Restorable, StreamOver, LoopBusy, StateMatchesToken
<1>3. ASSUME NEW t \in Threads, SendFails(t), frame[t].kind # "send" PROVE StreamInv'
  <2>1. UNCHANGED <<shared, token, shutDown>>
    BY <1>3 DEF SendFails, implVars, clibVars
  <2> QED
    BY <1>3, <2>1, CloseFailsEffect, QuietStream DEF InCall
<1>4. ASSUME NEW t \in Threads, Works(t) PROVE StreamInv'
  <2>1. UNCHANGED <<shared, token, shutDown>> /\ ~InCall(t)'
    BY <1>4, WorksEffect DEF clibVars, InCall
  <2> QED
    BY <1>4, <2>1, WorksEffect, QuietStream
<1>5. CASE EnterHandler \/ \E b \in BOOLEAN : LeaveHandler(b)
  <2>1. UNCHANGED <<shared, token, shutDown>>
    BY <1>5 DEF EnterHandler, LeaveHandler, clibVars
  <2>2. /\ Others(Loop) /\ ~InCall(Loop)' /\ ~frame'[Loop].closed /\ frame[Loop].stream # "none"
    BY <1>5, HandlerEffect DEF InCall
  <2> QED
    BY <1>l, <2>1, <2>2, QuietStream
<1>6. ASSUME NEW op \in Ops, MessageFlushed(op) PROVE StreamInv'
  <2>1. UNCHANGED <<shared, token, shutDown>>
    BY <1>6 DEF MessageFlushed, implVars
  <2>2. /\ Others(Loop) /\ ~InCall(Loop)' /\ ~frame'[Loop].closed /\ frame'[Loop].stream = "none"
    BY <1>6, FlushedEffect DEF InCall
  <2> QED
    BY <1>l, <2>1, <2>2, QuietStream
<1>7. CASE RunReleaseTask \/ UNCHANGED vars
  <2>1. UNCHANGED <<shared, token, shutDown, pc, frame>>
    BY <1>7 DEF RunReleaseTask, vars, implVars, threadVars, clibVars
  <2> QED
    BY <2>1 DEF StreamInv, OneActivation, Restorable, StreamOver, LoopBusy, StateMatchesToken,
                Activating, Closing, InCall
<1> QED
  BY <1>l, <1>1, <1>2, <1>3, <1>4, <1>5, <1>6, <1>7, StepCases, ActivateStream, CloseStream,
     ShutDownStream, ReturnsStream, GatherStream, LoopStream

-----------------------------------------------------------------------------
(* Counting the references, thread by thread.                              *)

LEMMA ThreadsFinite == IsFiniteSet(Threads)
<1>1. IsFiniteSet({Loop}) /\ IsFiniteSet({Inner})
  BY FS_Singleton
<1>2. IsFiniteSet({Loop, Inner})
  <2>1. {Loop, Inner} = {Loop} \cup {Inner}
    OBVIOUS
  <2> QED
    BY <1>1, <2>1, FS_Union
<1> QED
  BY <1>2, ContinuationAssumption, FS_Union DEF Threads

LEMMA OneMemberChanges ==
    ASSUME NEW A \in SUBSET Threads, NEW B \in SUBSET Threads, NEW t \in Threads,
           \A u \in Threads \ {t} : u \in A <=> u \in B
    PROVE  /\ Cardinality(A) \in Nat /\ Cardinality(B) \in Nat
           /\ Cardinality(B) = Cardinality(A) + (IF t \in B THEN 1 ELSE 0)
                                              - (IF t \in A THEN 1 ELSE 0)
<1>1. IsFiniteSet(A) /\ IsFiniteSet(B)
  BY ThreadsFinite, FS_Subset
<1>2. Cardinality(A) \in Nat /\ Cardinality(B) \in Nat
  BY <1>1, FS_CardinalityType
<1>3. A \ {t} = B \ {t}
  OBVIOUS
<1>4. /\ Cardinality(A \ {t}) = IF t \in A THEN Cardinality(A) - 1 ELSE Cardinality(A)
      /\ Cardinality(B \ {t}) = IF t \in B THEN Cardinality(B) - 1 ELSE Cardinality(B)
  BY <1>1, FS_RemoveElement
<1> QED
  BY <1>2, <1>3, <1>4

Callers == {t \in Threads : pc[t] \in {"call", "rollback"}}
LocalRefs == {t \in Threads : frame[t].tokenRef}
Releasers == {t \in Threads : frame[t].release}
One(b) == IF b THEN 1 ELSE 0
Own(t) == One(InCall(t)) + One(frame[t].tokenRef) + One(frame[t].release)
Held == Cardinality(Callers) + Cardinality(LocalRefs) + Cardinality(Releasers)

LEMMA BalanceIs ==
    ASSUME TypeOK
    PROVE  /\ Held \in Nat
           /\ TokenReferencesBalanced <=> refs = One(shared.continuation) + tasks + Held
<1>1. Cardinality(Callers) \in Nat /\ Cardinality(LocalRefs) \in Nat /\ Cardinality(Releasers) \in Nat
  BY ThreadsFinite, FS_Subset, FS_CardinalityType DEF Callers, LocalRefs, Releasers
<1>2. TokenReferencesBalanced <=>
        refs = One(shared.continuation) + tasks + Cardinality(Callers) + Cardinality(LocalRefs)
               + Cardinality(Releasers)
  BY DEF TokenReferencesBalanced, Callers, LocalRefs, Releasers, One
<1>3. One(shared.continuation) \in Nat /\ tasks \in Nat /\ refs \in Int
  BY DEF One, TypeOK
<1> QED
  BY <1>1, <1>2, <1>3 DEF Held

(* A step of one thread changes only that thread's part.                   *)
LEMMA HeldChanges ==
    ASSUME TypeOK, NEW t \in Threads, Others(t)
    PROVE  /\ Held \in Nat /\ Held' \in Nat /\ Own(t) \in 0 .. 3 /\ Own(t)' \in 0 .. 3
           /\ Held' = Held + Own(t)' - Own(t)
<1>1. /\ Cardinality(Callers) \in Nat /\ Cardinality(Callers') \in Nat
      /\ Cardinality(Callers') = Cardinality(Callers) + One(InCall(t)') - One(InCall(t))
  <2>1. /\ Callers \in SUBSET Threads /\ Callers' \in SUBSET Threads
        /\ \A u \in Threads \ {t} : u \in Callers <=> u \in Callers'
        /\ t \in Callers <=> InCall(t)
        /\ t \in Callers' <=> InCall(t)'
    BY DEF Callers, InCall, Others
  <2> QED
    BY <2>1, OneMemberChanges DEF One
<1>2. /\ Cardinality(LocalRefs) \in Nat /\ Cardinality(LocalRefs') \in Nat
      /\ Cardinality(LocalRefs') = Cardinality(LocalRefs) + One(frame'[t].tokenRef)
                                                          - One(frame[t].tokenRef)
  <2>1. /\ LocalRefs \in SUBSET Threads /\ LocalRefs' \in SUBSET Threads
        /\ \A u \in Threads \ {t} : u \in LocalRefs <=> u \in LocalRefs'
        /\ t \in LocalRefs <=> frame[t].tokenRef
        /\ t \in LocalRefs' <=> frame'[t].tokenRef
    BY DEF LocalRefs, Others
  <2> QED
    BY <2>1, OneMemberChanges DEF One
<1>3. /\ Cardinality(Releasers) \in Nat /\ Cardinality(Releasers') \in Nat
      /\ Cardinality(Releasers') = Cardinality(Releasers) + One(frame'[t].release)
                                                          - One(frame[t].release)
  <2>1. /\ Releasers \in SUBSET Threads /\ Releasers' \in SUBSET Threads
        /\ \A u \in Threads \ {t} : u \in Releasers <=> u \in Releasers'
        /\ t \in Releasers <=> frame[t].release
        /\ t \in Releasers' <=> frame'[t].release
    BY DEF Releasers, Others
  <2> QED
    BY <2>1, OneMemberChanges DEF One
<1>4. \A b : One(b) \in {0, 1}
  BY DEF One
<1> HIDE DEF Callers, LocalRefs, Releasers
<1> QED
  BY <1>1, <1>2, <1>3, <1>4 DEF Held, Own

(* A thread that holds a reference is counted.                             *)
LEMMA HeldByOne ==
    ASSUME TypeOK, TokenReferencesBalanced, NEW t \in Threads,
           InCall(t) \/ frame[t].tokenRef \/ frame[t].release
    PROVE  refs > 0
<1>1. /\ Callers \in SUBSET Threads /\ LocalRefs \in SUBSET Threads
      /\ Releasers \in SUBSET Threads
  BY DEF Callers, LocalRefs, Releasers
<1>2. \A A \in SUBSET Threads : Cardinality(A) \in Nat /\ (A # {} => Cardinality(A) # 0)
  BY ThreadsFinite, FS_Subset, FS_CardinalityType, FS_EmptySet
<1>3. Callers # {} \/ LocalRefs # {} \/ Releasers # {}
  BY DEF Callers, LocalRefs, Releasers, InCall
<1>4. Held > 0
  <2> HIDE DEF Callers, LocalRefs, Releasers
  <2> QED
    BY <1>1, <1>2, <1>3 DEF Held
<1>5. One(shared.continuation) \in Nat /\ tasks \in Nat
  BY DEF One, TypeOK
<1> QED
  BY <1>4, <1>5, BalanceIs

-----------------------------------------------------------------------------
(* The references to the token, and the self reference they keep.          *)

SelfOwned == token \in {"open", "closing"} \/ refs > 0 => selfReference
LifeInv == TokenReferencesBalanced /\ SelfOwned

LEMMA BalanceStep ==
    ASSUME TypeOK, TypeOK', TokenReferencesBalanced, NEW t \in Threads, Others(t),
           refs' + One(shared.continuation) + tasks + Own(t)
             = refs + One(shared'.continuation) + tasks' + Own(t)'
    PROVE  TokenReferencesBalanced'
<1>1. /\ Held \in Nat /\ Held' \in Nat /\ Own(t) \in 0 .. 3 /\ Own(t)' \in 0 .. 3
      /\ Held' = Held + Own(t)' - Own(t)
  BY HeldChanges
<1>2. refs = One(shared.continuation) + tasks + Held
  BY BalanceIs
<1>3. /\ refs \in Int /\ refs' \in Int /\ tasks \in Nat /\ tasks' \in Nat
      /\ One(shared.continuation) \in {0, 1} /\ One(shared'.continuation) \in {0, 1}
  BY DEF TypeOK, One
<1>4. refs' = One(shared'.continuation) + tasks' + Held'
  BY <1>1, <1>2, <1>3
<1>5. TokenReferencesBalanced' <=> refs' = One(shared'.continuation) + tasks' + Held'
  <2>1. /\ Cardinality(Callers') \in Nat /\ Cardinality(LocalRefs') \in Nat
        /\ Cardinality(Releasers') \in Nat
    BY ThreadsFinite, FS_Subset, FS_CardinalityType DEF Callers, LocalRefs, Releasers
  <2>2. TokenReferencesBalanced' <=>
          refs' = One(shared'.continuation) + tasks' + Cardinality(Callers')
                  + Cardinality(LocalRefs') + Cardinality(Releasers')
    BY DEF TokenReferencesBalanced, Callers, LocalRefs, Releasers, One
  <2>3. tasks' \in Nat
    BY DEF TypeOK
  <2> HIDE DEF Callers, LocalRefs, Releasers
  <2> QED
    BY <1>3, <2>1, <2>2, <2>3 DEF Held
<1> QED
  BY <1>4, <1>5

(* A thread outside a call, with no reference in its frame, owns none.     *)
LEMMA OwnNone ==
    ASSUME NEW t \in Threads
    PROVE  /\ ~InCall(t) /\ NoRefs(frame[t]) => Own(t) = 0
           /\ pc'[t] \notin {"call", "rollback"} /\ NoRefs(frame'[t]) => Own(t)' = 0
BY DEF Own, One, InCall, NoRefs

LEMMA SharedReference ==
    ASSUME TypeOK, LifeInv, shared.continuation \/ tasks > 0 PROVE refs > 0
<1>1. One(shared.continuation) + tasks > 0 /\ One(shared.continuation) + tasks \in Nat
  BY DEF One, TypeOK
<1> QED
  BY <1>1, BalanceIs DEF LifeInv, TypeOK

(* A step that takes no reference and drops none.                          *)
LEMMA QuietLife ==
    ASSUME TypeOK, TypeOK', LifeInv, NEW t \in Threads, Others(t), Own(t)' = Own(t),
           UNCHANGED <<refs, tasks, selfReference>>,
           shared'.continuation = shared.continuation,
           token' \in {"open", "closing"} => token \in {"open", "closing"} \/ refs > 0
    PROVE  LifeInv'
<1>1. TokenReferencesBalanced'
  BY BalanceStep DEF LifeInv, TypeOK
<1> QED
  BY <1>1 DEF LifeInv, SelfOwned

LEMMA CallsLife ==
    ASSUME TypeOK, TypeOK', WorkInOrder, LifeInv, NEW t \in Threads,
           \/ Activate(t) \/ SendStreamMessage(t) \/ Close(t)
           \/ CloseInternally(t) /\ CanClose
    PROVE  LifeInv'
<1>1. Others(t) /\ Own(t) = 0 /\ Own(t)' = 1
  <2>1. CASE Activate(t) \/ SendStreamMessage(t) \/ Close(t)
    BY <2>1, CallsEffect, NoWorkFields DEF Own, One, InCall, Idle, NoRefs
  <2>2. CASE CloseInternally(t) /\ CanClose
    BY <2>2, CloseInternallyEffect DEF Own, One, InCall, NoRefs
  <2> QED
    BY <2>1, <2>2
<1>2. /\ refs' = refs + 1 /\ UNCHANGED <<tasks, selfReference, token>>
      /\ shared.continuation /\ shared'.continuation = shared.continuation
  BY DEF Activate, SendStreamMessage, Close, CloseInternally, BeginClose, CanClose, implVars,
         clibVars, TypeOK, SharedStates
<1>3. TokenReferencesBalanced'
  BY <1>1, <1>2, BalanceStep DEF LifeInv, TypeOK, One
<1>4. selfReference
  BY <1>2, SharedReference DEF LifeInv, SelfOwned
<1> QED
  BY <1>2, <1>3, <1>4 DEF LifeInv, SelfOwned

LEMMA ReturnsLife ==
    ASSUME TypeOK, TypeOK', WorkInOrder, LifeInv, NEW t \in Threads, Returns(t)
    PROVE  LifeInv'
<1>1. Others(t) /\ Own(t) = 1 /\ Own(t)' = 1 /\ InCall(t)
  BY ReturnEffect DEF Own, One, InCall, NoRefs
<1>2. /\ UNCHANGED <<refs, tasks, selfReference>>
      /\ shared'.continuation = shared.continuation
  BY DEF Returns, ActivateAccepted, ActivateRollback, SendAccepted, SendFails, CloseRollback,
         DropActivation, implVars, refVars, TypeOK, SharedStates
<1>3. refs > 0
  BY <1>1, HeldByOne DEF LifeInv
<1> QED
  BY <1>1, <1>2, <1>3, QuietLife

(* Dropping the last reference while the C library still calls back keeps  *)
(* the self reference.                                                     *)
LEMMA DropLife ==
    ASSUME TypeOK, LifeInv, refs > 0, DropTokenRef(token, refs - 1), UNCHANGED token
    PROVE  SelfOwned'
<1>1. selfReference /\ refs \in Int
  BY DEF LifeInv, SelfOwned, TypeOK
<1>2. /\ refs' = refs - 1 /\ token' = token
      /\ selfReference' = (selfReference /\ ~(refs - 1 = 0 /\ token \in {"fresh", "closed"}))
  BY DEF DropTokenRef
<1>3. CASE refs - 1 = 0 /\ token \in {"fresh", "closed"}
  BY <1>2, <1>3 DEF SelfOwned
<1>4. CASE ~(refs - 1 = 0 /\ token \in {"fresh", "closed"})
  BY <1>1, <1>2, <1>4 DEF SelfOwned
<1> QED
  BY <1>3, <1>4

LEMMA WorksLife ==
    ASSUME TypeOK, TypeOK', WorkInOrder, LifeInv, NEW t \in Threads, Works(t)
    PROVE  LifeInv'
<1>f. frame[t] \in Frames
  BY DEF TypeOK, ThreadsOK
<1>1. /\ Others(t) /\ ~InCall(t) /\ ~InCall(t)'
      /\ UNCHANGED <<shared, token>>
  BY WorksEffect DEF InCall, clibVars
<1>2. CASE ReleaseLocalRef(t)
  <2>1. frame'[t] = [frame[t] EXCEPT !.tokenRef = FALSE] /\ frame[t].tokenRef
    BY <1>2, ContinueEffect DEF ReleaseLocalRef
  <2>2. Own(t) = Own(t)' + 1 /\ Own(t)' \in {0, 1}
    BY <1>1, <1>f, <2>1 DEF Own, One, Frames
  <2>3. refs' = refs - 1 /\ tasks' = tasks /\ DropTokenRef(token, refs - 1)
    BY <1>2 DEF ReleaseLocalRef, DropTokenRef
  <2>4. TokenReferencesBalanced'
    BY <1>1, <2>2, <2>3, BalanceStep DEF LifeInv, TypeOK, One
  <2>5. refs > 0
    BY <2>1, HeldByOne DEF LifeInv
  <2> QED
    BY <1>1, <2>3, <2>4, <2>5, DropLife DEF LifeInv
<1>3. CASE ReleaseContinuation(t)
  <2>1. frame'[t] = [frame[t] EXCEPT !.release = FALSE] /\ frame[t].release
    BY <1>3, ContinueEffect DEF ReleaseContinuation
  <2>2. Own(t) = Own(t)' + 1 /\ Own(t)' \in {0, 1}
    BY <1>1, <1>f, <2>1 DEF Own, One, Frames
  <2>3. refs' = refs /\ tasks' = tasks + 1 /\ UNCHANGED selfReference
    BY <1>3 DEF ReleaseContinuation
  <2>4. TokenReferencesBalanced'
    BY <1>1, <2>2, <2>3, BalanceStep DEF LifeInv, TypeOK, One
  <2> QED
    BY <1>1, <2>3, <2>4 DEF LifeInv, SelfOwned
<1>4. CASE ~ReleaseLocalRef(t) /\ ~ReleaseContinuation(t)
  <2>1. \E f \in {[frame[t] EXCEPT !.resp = 0], [frame[t] EXCEPT !.won = 0],
                  [frame[t] EXCEPT !.close = FALSE], [frame[t] EXCEPT !.drop = FALSE]}
             \cup {[frame[t] EXCEPT !.flushes = Tail(@), !.won = o] : o \in Op0} :
            Continue(t, f)
    <3>1. CASE CompleteFlush(t)
      <4>1. (IF Wins(Head(frame[t].flushes)) THEN Head(frame[t].flushes) ELSE 0) \in Op0
        BY <1>f, <3>1 DEF CompleteFlush, Frames, Op0
      <4> QED
        BY <3>1, <4>1 DEF CompleteFlush
    <3> QED
      BY <1>4, <3>1 DEF Works, InvokeResult, ResolveFlush, CloseInternally, DropHandle
  <2>2. frame'[t].tokenRef = frame[t].tokenRef /\ frame'[t].release = frame[t].release
    <3>1. PICK f : /\ Continue(t, f)
                   /\ f.tokenRef = frame[t].tokenRef /\ f.release = frame[t].release
      <4> DEFINE g(o) == [frame[t] EXCEPT !.flushes = Tail(@), !.won = o]
      <4>1. \A o \in Op0 : /\ g(o).tokenRef = frame[t].tokenRef
                            /\ g(o).release = frame[t].release
        BY <1>f DEF Frames
      <4>2. \A f \in {[frame[t] EXCEPT !.resp = 0], [frame[t] EXCEPT !.won = 0],
                       [frame[t] EXCEPT !.close = FALSE], [frame[t] EXCEPT !.drop = FALSE]} :
              f.tokenRef = frame[t].tokenRef /\ f.release = frame[t].release
        BY <1>f DEF Frames
      <4>3. CASE \E o \in Op0 : Continue(t, g(o))
        <5> HIDE DEF g
        <5> QED
          BY <4>1, <4>3
      <4>4. CASE ~\E o \in Op0 : Continue(t, g(o))
        BY <2>1, <4>2, <4>4
      <4> QED
        BY <4>3, <4>4
    <3> QED
      BY <3>1, ContinueEffect
  <2>3. Own(t)' = Own(t)
    <3>1. InCall(t)' = InCall(t)
      BY <1>1 DEF InCall
    <3> QED
      BY <2>2, <3>1 DEF Own
  <2>4. UNCHANGED <<refs, tasks, selfReference>>
    BY <1>4 DEF Works, InvokeResult, CompleteFlush, ResolveFlush, CloseInternally, DropHandle,
                refVars
  <2> QED
    BY <1>1, <2>3, <2>4, QuietLife
<1> QED
  BY <1>2, <1>3, <1>4

LEMMA NextLife ==
    ASSUME TypeOK, TypeOK', WorkInOrder, StreamInv, LifeInv, [Next]_vars PROVE LifeInv'
<1>l. Loop \in Threads /\ AppThreads \subseteq Threads /\ Inner \in Threads
  BY ThreadsOfLoop
<1>1. ASSUME NEW t \in AppThreads, Refused(t) PROVE LifeInv'
  <2>1. Others(t) /\ Own(t)' = Own(t)
    BY <1>l, <1>1, RefusedEffect, NoWorkFields, OwnNone DEF Idle, InCall
  <2>2. UNCHANGED <<shared, token, refs, tasks, selfReference>>
    BY <1>1 DEF Refused, implVars, clibVars, refVars
  <2> QED
    BY <1>l, <2>1, <2>2, QuietLife
<1>2. ASSUME NEW t \in AppThreads \cup {Inner}, ShutDown(t) PROVE LifeInv'
  <2>1. Others(t) /\ Own(t)' = Own(t)
    BY <1>l, <1>2, ShutDownEffect, NoWorkFields, OwnNone DEF Idle, InCall
  <2>2. UNCHANGED <<shared, token, refs, tasks, selfReference>>
    BY <1>2 DEF ShutDown, clibVars, refVars
  <2> QED
    BY <1>l, <2>1, <2>2, QuietLife
<1>3. ASSUME NEW t \in Threads, SendFails(t), frame[t].kind # "send" PROVE LifeInv'
  <2>1. Others(t) /\ Own(t)' = Own(t)
    <3>1. Others(t) /\ frame'[t] = frame[t] /\ InCall(t) /\ InCall(t)'
      BY <1>3, CloseFailsEffect DEF InCall
    <3> QED
      BY <3>1 DEF Own, One
  <2>2. UNCHANGED <<shared, token, refs, tasks, selfReference>>
    BY <1>3 DEF SendFails, implVars, clibVars, refVars
  <2> QED
    BY <2>1, <2>2, QuietLife
<1>4. ASSUME NEW t \in Threads, ShutDownGather(t) PROVE LifeInv'
  <2>1. /\ Others(t) /\ Own(t) = 0 /\ Own(t)' = One(shared.currentState = "None")
    <3>1. Others(t) /\ Own(t) = 0
      BY <1>4, GatherEffect, NoWorkFields, OwnNone DEF InCall
    <3>2. /\ pc'[t] \notin {"call", "rollback"} /\ ~frame'[t].tokenRef
          /\ frame'[t].release <=> shared.currentState = "None"
      BY <1>4, GatherEffect
    <3>3. One(InCall(t)') = 0 /\ One(frame'[t].tokenRef) = 0
      BY <3>2 DEF InCall, One
    <3>4. /\ One(frame'[t].release) = One(shared.currentState = "None")
          /\ One(frame'[t].release) \in {0, 1}
      BY <3>2 DEF One
    <3> QED
      BY <3>1, <3>3, <3>4 DEF Own
  <2>2. /\ UNCHANGED <<token, refs, tasks, selfReference>>
        /\ shared'.continuation = (IF shared.currentState = "None" THEN FALSE
                                   ELSE shared.continuation)
    BY <1>4 DEF ShutDownGather, DropActivation, clibVars, refVars, TypeOK, SharedStates
  <2>3. shared.currentState = "None" => shared.continuation
    BY DEF StreamInv, StateMatchesToken
  <2>4. One(shared.continuation) = One(shared'.continuation) + Own(t)'
    BY <2>1, <2>2, <2>3 DEF One
  <2>5. Own(t)' \in {0, 1} /\ One(shared'.continuation) \in {0, 1}
    BY <2>1 DEF One
  <2>6. refs' + One(shared.continuation) + tasks + Own(t)
          = refs + One(shared'.continuation) + tasks' + Own(t)'
    <3> refs \in Int /\ tasks \in Nat
      BY DEF TypeOK
    <3>1. refs' = refs /\ tasks' = tasks /\ Own(t) = 0
      BY <2>1, <2>2
    <3> QED
      BY <2>4, <2>5, <3>1
  <2>7. TokenReferencesBalanced'
    BY <2>1, <2>6, BalanceStep DEF LifeInv
  <2> QED
    BY <2>2, <2>7 DEF LifeInv, SelfOwned
<1>5. CASE EnterHandler \/ \E b \in BOOLEAN : LeaveHandler(b)
  <2>1. Others(Loop) /\ Own(Loop)' = Own(Loop)
    BY <1>l, <1>5, HandlerEffect, OwnNone DEF InCall
  <2>2. UNCHANGED <<shared, token, refs, tasks, selfReference>>
    BY <1>5 DEF EnterHandler, LeaveHandler, clibVars, refVars
  <2> QED
    BY <1>l, <2>1, <2>2, QuietLife
<1>6. CASE ClosedReturns
  <2>1. Others(Loop) /\ Own(Loop) = 0 /\ Own(Loop)' = 0
    BY <1>6, ClosedReturnsEffect DEF Own, One, InCall, NoRefs
  <2>2. /\ UNCHANGED <<shared, refs, tasks>> /\ token' = "closed"
        /\ refs > 0 /\ selfReference => selfReference'
    BY <1>6 DEF ClosedReturns, DropTokenRef, implVars, TypeOK
  <2>3. TokenReferencesBalanced'
    BY <1>l, <2>1, <2>2, BalanceStep DEF LifeInv, TypeOK
  <2> QED
    BY <2>2, <2>3 DEF LifeInv, SelfOwned
<1>7. CASE OnClosed
  <2>1. Others(Loop) /\ Own(Loop) = 0 /\ Own(Loop)' = One(shared.continuation)
    BY <1>7, OnClosedEffect, NoWorkFields DEF Own, One, Idle, InCall, NoRefs
  <2>2. /\ UNCHANGED <<refs, tasks, selfReference>> /\ ~shared'.continuation
        /\ token = "open"
    BY <1>7 DEF OnClosed, DropActivation, refVars, TypeOK, SharedStates
  <2>3. TokenReferencesBalanced'
    BY <1>l, <2>1, <2>2, BalanceStep DEF LifeInv, TypeOK, One
  <2> QED
    BY <2>2, <2>3 DEF LifeInv, SelfOwned
<1>8. ASSUME NEW m \in MessageKinds, NEW b \in BOOLEAN, OnMessage(m, b) PROVE LifeInv'
  <2>1. Others(Loop) /\ Own(Loop)' = Own(Loop)
    BY <1>l, <1>8, OnMessageEffect, NoWorkFields, OwnNone DEF Idle, InCall
  <2>2. /\ UNCHANGED <<token, refs, tasks, selfReference>>
        /\ shared'.continuation = shared.continuation
    <3>1. CASE shared.currentState = "PendingActivate"
      BY <1>8, <3>1 DEF OnMessage, DropActivation, refVars, TypeOK, SharedStates
    <3>2. CASE shared.currentState # "PendingActivate"
      BY <1>8, <3>2 DEF OnMessage, refVars
    <3> QED
      BY <3>1, <3>2
  <2> QED
    BY <1>l, <2>1, <2>2, QuietLife
<1>9. ASSUME NEW op \in Ops, MessageFlushed(op) PROVE LifeInv'
  <2>1. Others(Loop) /\ Own(Loop)' = Own(Loop)
    BY <1>l, <1>9, FlushedEffect, NoWorkFields, OwnNone DEF Idle, InCall
  <2>2. UNCHANGED <<shared, token, refs, tasks, selfReference>>
    BY <1>9 DEF MessageFlushed, implVars, refVars
  <2> QED
    BY <1>l, <2>1, <2>2, QuietLife
<1>10. CASE RunReleaseTask
  <2>1. /\ UNCHANGED <<shared, token, pc, frame>> /\ tasks > 0 /\ tasks' = tasks - 1
        /\ refs' = refs - 1 /\ DropTokenRef(token, refs - 1)
    BY <1>10 DEF RunReleaseTask, DropTokenRef, implVars, threadVars, clibVars
  <2>2. TokenReferencesBalanced'
    <3>1. Others(Loop) /\ Own(Loop)' = Own(Loop) /\ Own(Loop) \in 0 .. 3
      BY <2>1 DEF Others, Own, InCall, One
    <3> QED
      BY <1>l, <2>1, <3>1, BalanceStep DEF LifeInv, TypeOK, One
  <2>3. refs > 0
    BY <2>1, SharedReference
  <2> QED
    BY <2>1, <2>2, <2>3, DropLife DEF LifeInv
<1>11. CASE UNCHANGED vars
  BY <1>11 DEF vars, implVars, threadVars, clibVars, refVars, LifeInv, SelfOwned,
               TokenReferencesBalanced
<1> QED
  BY <1>l, <1>1, <1>2, <1>3, <1>4, <1>5, <1>6, <1>7, <1>8, <1>9, <1>10, <1>11, StepCases,
     CallsLife, ReturnsLife, WorksLife
-----------------------------------------------------------------------------
(* The stream handler, its lock and the end of the operation.              *)

HandlerInv ==
    /\ handlerLock <=> pc[Loop] = "inHandler"
    /\ ~valid => token = "none"
    /\ shutDown = "outside" => pc[Loop] # "inHandler" /\ (valid => ~streamHandler)

(* A step of one thread outside the handler.                               *)
LEMMA QuietHandler ==
    ASSUME HandlerInv, NEW t \in Threads, Others(t),
           UNCHANGED <<handlerLock, valid, streamHandler, shutDown>>,
           pc[t] # "inHandler", pc'[t] # "inHandler", token = "none" => token' = "none"
    PROVE  HandlerInv'
<1>1. pc'[Loop] = "inHandler" <=> pc[Loop] = "inHandler"
  BY ThreadsOfLoop DEF Others
<1> QED
  BY <1>1 DEF HandlerInv

LEMMA NextHandler ==
    ASSUME TypeOK, WorkInOrder, StreamInv, HandlerInv, [Next]_vars PROVE HandlerInv'
<1>l. Loop \in Threads /\ AppThreads \subseteq Threads /\ Inner \in Threads /\ Loop # Inner
  BY ThreadsOfLoop, ContinuationAssumption
<1>1. ASSUME NEW t \in AppThreads, Refused(t) PROVE HandlerInv'
  <2>1. UNCHANGED <<handlerLock, valid, streamHandler, shutDown, token>>
    BY <1>1 DEF Refused, implVars, clibVars
  <2>2. Others(t) /\ pc[t] # "inHandler" /\ pc'[t] # "inHandler"
    BY <1>l, <1>1, RefusedEffect DEF Idle
  <2> QED
    BY <1>l, <2>1, <2>2, QuietHandler
<1>2. ASSUME NEW t \in AppThreads, Activate(t) \/ SendStreamMessage(t) \/ Close(t)
      PROVE  HandlerInv'
  <2>1. UNCHANGED <<handlerLock, valid, streamHandler, shutDown, token>>
    BY <1>2 DEF Activate, SendStreamMessage, Close, BeginClose, implVars, clibVars
  <2>2. Others(t) /\ pc[t] # "inHandler" /\ pc'[t] # "inHandler"
    BY <1>l, <1>2, CallsEffect DEF Idle
  <2> QED
    BY <1>l, <2>1, <2>2, QuietHandler
<1>3. ASSUME NEW t \in AppThreads \cup {Inner}, ShutDown(t) PROVE HandlerInv'
  <2>1. /\ UNCHANGED <<handlerLock, valid, token>>
        /\ valid => ~streamHandler'
        /\ shutDown' = IF t = Inner THEN "inHandler" ELSE "outside"
        /\ t # Inner => ~handlerLock
    BY <1>3 DEF ShutDown, HandlerFree, clibVars
  <2>2. pc'[Loop] = pc[Loop]
    BY <1>l, <1>3, ShutDownEffect, ContinuationAssumption DEF Others
  <2> QED
    BY <2>1, <2>2 DEF HandlerInv
<1>4. ASSUME NEW t \in Threads, Returns(t) PROVE HandlerInv'
  <2>1. UNCHANGED <<handlerLock, valid, streamHandler, shutDown>>
    BY <1>4 DEF Returns, ActivateAccepted, ActivateRollback, SendAccepted, SendFails,
                CloseRollback, implVars
  <2>2. token = "none" => token' = "none"
    BY <1>4 DEF Returns, ActivateAccepted, ActivateRollback, SendAccepted, SendFails,
                CloseRollback, clibVars
  <2>3. Others(t) /\ pc[t] # "inHandler" /\ pc'[t] # "inHandler"
    BY <1>4, ReturnEffect DEF InCall
  <2> QED
    BY <2>1, <2>2, <2>3, QuietHandler
<1>5. ASSUME NEW t \in Threads, SendFails(t), frame[t].kind # "send" PROVE HandlerInv'
  <2>1. UNCHANGED <<handlerLock, valid, streamHandler, shutDown, token>>
    BY <1>5 DEF SendFails, implVars, clibVars
  <2>2. Others(t) /\ pc[t] # "inHandler" /\ pc'[t] # "inHandler"
    BY <1>5, CloseFailsEffect
  <2> QED
    BY <2>1, <2>2, QuietHandler
<1>6. ASSUME NEW t \in Threads, ShutDownGather(t) PROVE HandlerInv'
  <2>1. UNCHANGED <<handlerLock, valid, streamHandler, shutDown, token>>
    BY <1>6 DEF ShutDownGather, clibVars
  <2>2. Others(t) /\ pc[t] # "inHandler" /\ pc'[t] # "inHandler"
    BY <1>6, GatherEffect
  <2> QED
    BY <2>1, <2>2, QuietHandler
<1>7. ASSUME NEW t \in Threads, CloseInternally(t), CanClose PROVE HandlerInv'
  <2>1. UNCHANGED <<handlerLock, valid, streamHandler, shutDown, token>>
    BY <1>7 DEF CloseInternally, BeginClose, clibVars
  <2>2. Others(t) /\ pc[t] # "inHandler" /\ pc'[t] # "inHandler"
    BY <1>7, CloseInternallyEffect
  <2> QED
    BY <2>1, <2>2, QuietHandler
<1>8. ASSUME NEW t \in Threads, Works(t) PROVE HandlerInv'
  <2>1. UNCHANGED <<handlerLock, valid, streamHandler, shutDown, token>>
    BY <1>8, WorksEffect DEF clibVars
  <2>2. Others(t) /\ pc[t] # "inHandler" /\ pc'[t] # "inHandler"
    BY <1>8, WorksEffect
  <2> QED
    BY <2>1, <2>2, QuietHandler
<1>9. CASE EnterHandler
  <2>1. UNCHANGED <<valid, streamHandler, shutDown, token>>
    BY <1>9 DEF EnterHandler, clibVars
  <2>2. pc'[Loop] = "inHandler" <=> streamHandler
    BY <1>9, HandlerEffect
  <2>3. ~handlerLock /\ handlerLock' = streamHandler
    BY <1>9 DEF EnterHandler, HandlerInv, TypeOK
  <2>4. token = "open"
    BY <1>9 DEF EnterHandler, StreamInv, LoopBusy
  <2> QED
    BY <2>1, <2>2, <2>3, <2>4 DEF HandlerInv
<1>10. ASSUME NEW b \in BOOLEAN, LeaveHandler(b) PROVE HandlerInv'
  <2>1. UNCHANGED <<valid, streamHandler, shutDown, token>> /\ handlerLock' = FALSE
    BY <1>10 DEF LeaveHandler, clibVars
  <2>2. pc'[Loop] # "inHandler"
    BY <1>l, <1>10, ContinueEffect DEF LeaveHandler
  <2> QED
    BY <2>1, <2>2 DEF HandlerInv
<1>11. CASE ClosedReturns \/ OnClosed
  <2>1. UNCHANGED <<handlerLock, valid, streamHandler, shutDown>>
    BY <1>11 DEF ClosedReturns, OnClosed, implVars
  <2>2. token # "none"
    BY <1>11, <1>l DEF ClosedReturns, OnClosed, StreamInv, LoopBusy
  <2>3. Others(Loop) /\ pc[Loop] # "inHandler" /\ pc'[Loop] # "inHandler"
    BY <1>11, ClosedReturnsEffect, OnClosedEffect DEF Idle
  <2> QED
    BY <1>l, <2>1, <2>2, <2>3, QuietHandler
<1>12. ASSUME NEW m \in MessageKinds, NEW b \in BOOLEAN, OnMessage(m, b) PROVE HandlerInv'
  <2>1. UNCHANGED <<handlerLock, valid, streamHandler, shutDown, token>>
    BY <1>12 DEF OnMessage
  <2>2. Others(Loop) /\ pc[Loop] # "inHandler" /\ pc'[Loop] # "inHandler"
    BY <1>12, OnMessageEffect DEF Idle
  <2> QED
    BY <1>l, <2>1, <2>2, QuietHandler
<1>13. ASSUME NEW op \in Ops, MessageFlushed(op) PROVE HandlerInv'
  <2>1. UNCHANGED <<handlerLock, valid, streamHandler, shutDown, token>>
    BY <1>13 DEF MessageFlushed, implVars
  <2>2. Others(Loop) /\ pc[Loop] # "inHandler" /\ pc'[Loop] # "inHandler"
    BY <1>13, FlushedEffect DEF Idle
  <2> QED
    BY <1>l, <2>1, <2>2, QuietHandler
<1>14. CASE RunReleaseTask \/ UNCHANGED vars
  BY <1>14 DEF RunReleaseTask, vars, implVars, threadVars, clibVars, HandlerInv
<1> QED
  BY <1>1, <1>2, <1>3, <1>4, <1>5, <1>6, <1>7, <1>8, <1>9, <1>10, <1>11, <1>12, <1>13, <1>14,
     StepCases

(* What the parts say together of the impl's life and of its handler.      *)
LEMMA LifeAndHandler ==
    ASSUME TypeOK, WorkInOrder, OneShutDown, StreamInv, LifeInv, HandlerInv
    PROVE  ImplOutlivesToken /\ NoStreamEventAfterShutDown
<1>1. ASSUME NEW t \in Threads, InCall(t) PROVE selfReference
  BY <1>1, HeldByOne DEF LifeInv, SelfOwned
<1>2. ASSUME NEW t \in Threads, pc[t] = "gather" PROVE handle
  BY <1>2 DEF OneShutDown, Leaving
<1>3. ASSUME NEW t \in Threads, pc[t] = "inHandler" PROVE selfReference
  BY <1>3 DEF WorkInOrder, StreamInv, LoopBusy, LifeInv, SelfOwned
<1>4. ImplOutlivesToken
  BY <1>1, <1>2, <1>3 DEF ImplOutlivesToken, ImplAlive, InCall, LifeInv, SelfOwned
<1>5. NoStreamEventAfterShutDown
  BY DEF NoStreamEventAfterShutDown, HandlerInv, OneShutDown, TypeOK
<1> QED
  BY <1>4, <1>5
-----------------------------------------------------------------------------
(* Who has a container: the frame of the thread that will complete it or   *)
(* give it to the C library, and the C library until it flushed it.        *)

InFlushes(o, s) == \E i \in DOMAIN s : s[i] = o
Has(f, o) == f.op = o \/ InFlushes(o, f.flushes)

(* Every number in use is that of an operation of the application so far.  *)
OpsKnown ==
    /\ \A o \in Ops : container[o] = "none" <=> o > ops
    /\ \A t \in Threads, o \in Ops : Has(frame[t], o) => o <= ops
    /\ \A o \in queued : o <= ops
    /\ shared.activationContainer <= ops /\ shared.closeContainer <= ops

NoWinner(o) == \A t \in Threads : frame[t].won # o
PromiseFor(o) ==
    /\ container[o] = "none" => resolved[o] = 0 /\ NoWinner(o)
    /\ container[o] = "Incomplete" =>
          /\ resolved[o] = 0 /\ NoWinner(o)
          /\ o \in queued \/ \E t \in Threads : Has(frame[t], o)
    /\ container[o] = "Finished" =>
          \/ resolved[o] = 1 /\ NoWinner(o)
          \/ resolved[o] = 0 /\ \E t \in Threads : \A u \in Threads : frame[u].won = o <=> u = t
PromiseInv == OpsKnown /\ \A o \in Ops : PromiseFor(o)

LEMMA PromiseIs == ASSUME TypeOK, PromiseInv PROVE PromiseCompletedOnce
<1> SUFFICES ASSUME NEW o \in Ops
             PROVE  LET won == {t \in Threads : frame[t].won = o}
                    IN  CASE container[o] = "none" -> resolved[o] = 0 /\ won = {}
                          [] container[o] = "Incomplete" ->
                               /\ resolved[o] = 0 /\ won = {}
                               /\ \/ o \in queued
                                  \/ \E t \in Threads : \/ frame[t].op = o
                                                        \/ \E i \in DOMAIN frame[t].flushes :
                                                              frame[t].flushes[i] = o
                          [] OTHER -> \/ resolved[o] = 1 /\ won = {}
                                      \/ resolved[o] = 0 /\ \E t \in Threads : won = {t}
  BY DEF PromiseCompletedOnce
<1> DEFINE won == {t \in Threads : frame[t].won = o}
<1>1. PromiseFor(o) /\ container[o] \in {"none", "Incomplete", "Finished"}
  BY DEF PromiseInv, TypeOK
<1>2. NoWinner(o) => won = {}
  BY DEF NoWinner
<1>3. \A t \in Threads : (\A u \in Threads : frame[u].won = o <=> u = t) => won = {t}
  OBVIOUS
<1>4. CASE container[o] = "none"
  BY <1>1, <1>2, <1>4 DEF PromiseFor
<1>5. CASE container[o] = "Incomplete"
  BY <1>1, <1>2, <1>5 DEF PromiseFor, Has, InFlushes
<1>6. CASE container[o] = "Finished"
  <2>1. \/ resolved[o] = 1 /\ won = {}
        \/ resolved[o] = 0 /\ \E t \in Threads : won = {t}
    BY <1>1, <1>2, <1>3, <1>6 DEF PromiseFor
  <2> QED
    BY <1>6, <2>1
<1> QED
  BY <1>1, <1>4, <1>5, <1>6

LEMMA ConcatHas ==
    ASSUME NEW r \in Seq(Ops), NEW s \in Seq(Ops), NEW o \in Ops, InFlushes(o, r \o s)
    PROVE  InFlushes(o, r) \/ InFlushes(o, s)
<1>1. PICK i \in 1 .. Len(r) + Len(s) : (r \o s)[i] = o
  BY DEF InFlushes
<1>2. CASE i <= Len(r)
  BY <1>1, <1>2 DEF InFlushes
<1>3. CASE i > Len(r)
  <2>1. i - Len(r) \in DOMAIN s /\ (r \o s)[i] = s[i - Len(r)]
    BY <1>1, <1>3
  <2> QED
    BY <1>1, <2>1 DEF InFlushes
<1> QED
  BY <1>2, <1>3

LEMMA FlushesHave ==
    ASSUME NEW a \in Op0, NEW b \in Op0, NEW o \in Ops
    PROVE  /\ InFlushes(o, Flushes(a)) <=> o = a
           /\ InFlushes(o, Flushes(a) \o Flushes(b)) => o = a \/ o = b
           /\ ~InFlushes(o, <<>>) /\ (InFlushes(o, <<a>>) <=> o = a)
<1>1. o # 0
  BY OpsNotNull
<1>2. ~InFlushes(o, <<>>) /\ \A c \in Op0 : InFlushes(o, <<c>>) <=> o = c
  <2>1. DOMAIN <<>> = {} /\ \A c \in Op0 : DOMAIN <<c>> = {1} /\ <<c>>[1] = c
    OBVIOUS
  <2> QED
    BY <2>1 DEF InFlushes
<1>3. \A c \in Op0 : InFlushes(o, Flushes(c)) <=> o = c
  BY <1>1, <1>2 DEF Flushes
<1>4. Flushes(a) \in Seq(Ops) /\ Flushes(b) \in Seq(Ops)
  BY FlushesType
<1>5. InFlushes(o, Flushes(a) \o Flushes(b)) => o = a \/ o = b
  BY <1>3, <1>4, ConcatHas
<1> QED
  BY <1>2, <1>3, <1>5

LEMMA TailHas ==
    ASSUME NEW s \in Seq(Ops), s # <<>>, NEW o \in Ops
    PROVE  InFlushes(o, s) <=> o = Head(s) \/ InFlushes(o, Tail(s))
<1>1. /\ Len(s) \in Nat \ {0} /\ DOMAIN s = 1 .. Len(s) /\ Head(s) = s[1]
      /\ DOMAIN Tail(s) = 1 .. Len(s) - 1
      /\ \A i \in 1 .. Len(s) - 1 : Tail(s)[i] = s[i + 1]
  OBVIOUS
<1>2. ASSUME NEW i \in DOMAIN s, s[i] = o, i # 1 PROVE InFlushes(o, Tail(s))
  <2>1. i - 1 \in DOMAIN Tail(s) /\ Tail(s)[i - 1] = s[i]
    BY <1>1, <1>2
  <2> QED
    BY <1>2, <2>1 DEF InFlushes
<1>3. ASSUME NEW i \in DOMAIN Tail(s), Tail(s)[i] = o PROVE InFlushes(o, s)
  <2>1. i + 1 \in DOMAIN s /\ s[i + 1] = o
    BY <1>1, <1>3
  <2> QED
    BY <2>1 DEF InFlushes
<1>4. 1 \in DOMAIN s
  BY <1>1
<1> QED
  BY <1>1, <1>2, <1>3, <1>4 DEF InFlushes

LEMMA NothingHeld ==
    ASSUME NEW f, f.op = 0, f.flushes = <<>>, NEW o \in Ops PROVE ~Has(f, o)
BY OpsNotNull DEF Has, InFlushes

LEMMA IdleHasNothing ==
    ASSUME NEW t \in Threads, Idle(t), NEW o \in Ops PROVE ~Has(frame[t], o) /\ frame[t].won = 0
BY NoWorkFields, NothingHeld DEF Idle, NoCall, NoOps

(* A step of one thread that completes no container.                       *)
LEMMA QuietPromise ==
    ASSUME TypeOK, PromiseInv, NEW t \in Threads, Others(t),
           UNCHANGED <<ops, container, resolved>>, frame'[t].won = frame[t].won,
           \A o \in Ops : Has(frame[t], o) \/ o \in queued => Has(frame'[t], o) \/ o \in queued',
           \A o \in Ops : Has(frame'[t], o) => o <= ops,
           \A o \in queued' : o <= ops,
           shared'.activationContainer <= ops /\ shared'.closeContainer <= ops
    PROVE  PromiseInv'
<1>1. \A u \in Threads : frame'[u].won = frame[u].won
  BY DEF Others
<1>2. \A u \in Threads \ {t}, o \in Ops : Has(frame'[u], o) <=> Has(frame[u], o)
  BY DEF Others
<1>3. OpsKnown'
  <2>1. \A u \in Threads, o \in Ops : Has(frame'[u], o) => o <= ops
    BY <1>2 DEF PromiseInv, OpsKnown
  <2> HIDE DEF Has
  <2> QED
    BY <2>1 DEF PromiseInv, OpsKnown
<1>4. ASSUME NEW o \in Ops PROVE PromiseFor(o)'
  <2>1. PromiseFor(o)
    BY DEF PromiseInv
  <2>2. NoWinner(o)' <=> NoWinner(o)
    BY <1>1 DEF NoWinner
  <2>3. o \in queued \/ (\E u \in Threads : Has(frame[u], o))
          => o \in queued' \/ (\E u \in Threads : Has(frame'[u], o))
    BY <1>2
  <2>4. (\E v \in Threads : \A u \in Threads : frame[u].won = o <=> u = v)
          => (\E v \in Threads : \A u \in Threads : frame'[u].won = o <=> u = v)
    BY <1>1
  <2> QED
    BY <2>1, <2>2, <2>3, <2>4 DEF PromiseFor
<1> QED
  BY <1>3, <1>4 DEF PromiseInv

(* A call of the application and its new container.                        *)
LEMMA NewPromise ==
    ASSUME TypeOK, PromiseInv, NEW t \in Threads, Idle(t), Others(t), NewOp,
           frame'[t].won = 0, \A o \in Ops : Has(frame'[t], o) <=> o = ops + 1,
           UNCHANGED queued,
           shared'.activationContainer <= ops + 1 /\ shared'.closeContainer <= ops + 1
    PROVE  PromiseInv'
<1>n. /\ ops \in Nat /\ ops + 1 \in Ops /\ ops' = ops + 1 /\ UNCHANGED resolved
      /\ container' = [container EXCEPT ![ops + 1] = "Incomplete"]
      /\ container \in [Ops -> {"none", "Incomplete", "Finished"}] /\ Ops \subseteq Nat
  BY ContinuationAssumption DEF NewOp, TypeOK, Ops
<1>t. \A o \in Ops : ~Has(frame[t], o) /\ frame[t].won # o
  BY IdleHasNothing, OpsNotNull
<1>1. \A u \in Threads, o \in Ops : frame'[u].won = o <=> frame[u].won = o
  BY <1>t, OpsNotNull DEF Others
<1>2. \A u \in Threads \ {t}, o \in Ops : Has(frame'[u], o) <=> Has(frame[u], o)
  BY DEF Others
<1>3. OpsKnown'
  <2>1. \A u \in Threads, o \in Ops : Has(frame'[u], o) => o <= ops + 1
    <3> SUFFICES ASSUME NEW u \in Threads, NEW o \in Ops, Has(frame'[u], o)
                 PROVE  o <= ops + 1
      OBVIOUS
    <3> o \in Nat
      BY <1>n
    <3> HIDE DEF Has
    <3>1. CASE u = t
      BY <1>n, <3>1
    <3>2. CASE u # t
      <4>1. o <= ops
        BY <1>2, <3>2 DEF PromiseInv, OpsKnown
      <4> QED
        BY <1>n, <4>1
    <3> QED
      BY <3>1, <3>2
  <2>2. \A o \in Ops : container'[o] = "none" <=> o > ops + 1
    BY <1>n DEF PromiseInv, OpsKnown
  <2>3. \A o \in queued : o <= ops + 1
    BY <1>n DEF PromiseInv, OpsKnown, TypeOK
  <2> HIDE DEF Has
  <2> QED
    BY <1>n, <2>1, <2>2, <2>3 DEF OpsKnown
<1>4. ASSUME NEW o \in Ops PROVE PromiseFor(o)'
  <2>1. PromiseFor(o) /\ (container[ops + 1] = "none")
    BY <1>n DEF PromiseInv, OpsKnown
  <2>2. NoWinner(o)' <=> NoWinner(o)
    BY <1>1 DEF NoWinner
  <2>3. CASE o = ops + 1
    <3>1. container'[o] = "Incomplete" /\ resolved'[o] = 0 /\ NoWinner(o)'
      BY <1>n, <2>1, <2>2, <2>3 DEF PromiseFor
    <3>2. Has(frame'[t], o)
      BY <2>3
    <3> QED
      BY <3>1, <3>2 DEF PromiseFor
  <2>4. CASE o # ops + 1
    <3>1. container'[o] = container[o] /\ resolved'[o] = resolved[o]
      BY <1>n, <2>4
    <3>2. o \in queued \/ (\E u \in Threads : Has(frame[u], o))
            => o \in queued' \/ (\E u \in Threads : Has(frame'[u], o))
      BY <1>2, <1>t
    <3>3. (\E v \in Threads : \A u \in Threads : frame[u].won = o <=> u = v)
            => (\E v \in Threads : \A u \in Threads : frame'[u].won = o <=> u = v)
      BY <1>1
    <3> QED
      BY <2>1, <2>2, <3>1, <3>2, <3>3 DEF PromiseFor
  <2> QED
    BY <2>3, <2>4
<1> QED
  BY <1>3, <1>4 DEF PromiseInv
LEMMA CallsPromise ==
    ASSUME TypeOK, TypeOK', WorkInOrder, PromiseInv, NEW t \in Threads,
           Refused(t) \/ Activate(t) \/ SendStreamMessage(t) \/ Close(t)
    PROVE  PromiseInv'
<1>n. NewOp /\ ops \in Nat /\ ops + 1 \in Ops
  BY ContinuationAssumption
     DEF Refused, Activate, SendStreamMessage, Close, NewOp, TypeOK, Ops
<1>s. shared.activationContainer <= ops /\ shared.closeContainer <= ops
  BY DEF PromiseInv, OpsKnown
<1>1. /\ shared'.activationContainer \in {shared.activationContainer, ops + 1}
      /\ shared'.closeContainer \in {shared.closeContainer, ops + 1}
  BY DEF Refused, Activate, SendStreamMessage, Close, BeginClose, implVars, TypeOK, SharedStates
<1>2. shared'.activationContainer <= ops + 1 /\ shared'.closeContainer <= ops + 1
  <2>1. /\ shared.activationContainer \in Nat /\ shared.closeContainer \in Nat
    BY OpsNotNull DEF TypeOK, SharedStates
  <2> QED
    BY <1>n, <1>s, <1>1, <2>1
<1>3. UNCHANGED queued
  BY DEF Refused, Activate, SendStreamMessage, Close, BeginClose, clibVars
<1>4. Idle(t) /\ Others(t) /\ frame'[t].won = 0
  BY RefusedEffect, CallsEffect DEF NoOps
<1>5. \A o \in Ops : Has(frame'[t], o) <=> o = ops + 1
  <2>1. CASE Refused(t)
    <3>1. frame'[t].flushes = <<ops + 1>> /\ frame'[t].op = 0
      BY <2>1, RefusedEffect DEF NoCall
    <3> QED
      BY <1>n, <3>1, FlushesHave, OpsNotNull DEF Has, Op0
  <2>2. CASE Activate(t) \/ SendStreamMessage(t) \/ Close(t)
    <3>1. frame'[t].op = ops + 1 /\ frame'[t].flushes = <<>>
      BY <2>2, CallsEffect DEF NoOps
    <3> QED
      BY ZenonT(60), <3>1, FlushesHave DEF Has, Op0
  <2> QED
    BY <2>1, <2>2
<1> QED
  BY <1>2, <1>3, <1>4, <1>5, <1>n, NewPromise

(* A step that leaves a thread's containers as they are.                   *)
LEMMA SamePromise ==
    ASSUME TypeOK, PromiseInv, NEW t \in Threads, Others(t),
           UNCHANGED <<ops, container, resolved, queued>>,
           frame'[t].won = frame[t].won, frame'[t].op = frame[t].op,
           frame'[t].flushes = frame[t].flushes,
           shared'.activationContainer \in {0, shared.activationContainer},
           shared'.closeContainer \in {0, shared.closeContainer}
    PROVE  PromiseInv'
<1>1. \A o \in Ops : Has(frame'[t], o) <=> Has(frame[t], o)
  BY DEF Has
<1>2. \A o \in Ops : Has(frame[t], o) => o <= ops
  BY DEF PromiseInv, OpsKnown
<1>3. (\A o \in queued' : o <= ops) /\ ops \in Nat
  BY DEF PromiseInv, OpsKnown, TypeOK
<1>4. shared'.activationContainer <= ops /\ shared'.closeContainer <= ops
  BY <1>3 DEF PromiseInv, OpsKnown
<1>5. \A o \in Ops : Has(frame[t], o) \/ o \in queued => Has(frame'[t], o) \/ o \in queued'
  BY <1>1
<1>6. \A o \in Ops : Has(frame'[t], o) => o <= ops
  BY <1>1, <1>2
<1> HIDE DEF Has
<1> QED
  BY <1>3, <1>4, <1>5, <1>6, QuietPromise

(* The call returns: its container goes to the C library, or completes.    *)
LEMMA ReturnsPromise ==
    ASSUME TypeOK, WorkInOrder, PromiseInv, NEW t \in Threads, Returns(t)
    PROVE  PromiseInv'
<1>f. frame[t] \in Frames /\ frame[t].op \in Op0 /\ Ops \subseteq Nat
  BY DEF TypeOK, ThreadsOK, Frames, Ops
<1>1. /\ Others(t) /\ frame[t].won = 0 /\ frame'[t].won = 0
      /\ frame[t].flushes = <<>> /\ frame'[t].op = 0
      /\ frame'[t].flushes = IF ActivateAccepted(t) \/ SendAccepted(t) THEN <<>>
                             ELSE Flushes(frame[t].op)
  BY ReturnEffect DEF NoOps, NoCall
<1>2. UNCHANGED <<ops, container, resolved>>
  BY DEF Returns, ActivateAccepted, ActivateRollback, SendAccepted, SendFails, CloseRollback, opVars
<1>3. /\ shared'.activationContainer \in {0, shared.activationContainer}
      /\ shared'.closeContainer \in {0, shared.closeContainer}
  BY DEF Returns, ActivateAccepted, ActivateRollback, SendAccepted, SendFails, CloseRollback,
         implVars, DropActivation, TypeOK, SharedStates
<1>4. \A o \in Ops : Has(frame[t], o) <=> o = frame[t].op
  <2>1. \A o : ~InFlushes(o, <<>>)
    BY DEF InFlushes
  <2> QED
    BY <1>1, <2>1 DEF Has
<1>5. CASE ActivateAccepted(t) \/ SendAccepted(t)
  <2>1. queued' \in {queued \cup {frame[t].op}, queued \cup ({frame[t].op} \ {0})}
    BY <1>5 DEF ActivateAccepted, SendAccepted
  <2>2. ActivateAccepted(t) => frame[t].op # 0
    BY <1>f DEF ActivateAccepted, Frames
  <2>3. queued' = queued \cup ({frame[t].op} \ {0})
    BY <1>5, <2>2 DEF ActivateAccepted, SendAccepted
  <2>4. \A o \in Ops : ~Has(frame'[t], o)
    BY <1>1, <1>5, NothingHeld
  <2>5. \A o \in queued' : o <= ops
    BY <1>f, <1>4, <2>3 DEF PromiseInv, OpsKnown, TypeOK, Op0
  <2>6. \A o \in Ops : Has(frame[t], o) \/ o \in queued => o \in queued'
    BY <1>4, <2>3, OpsNotNull
  <2>7. shared'.activationContainer <= ops /\ shared'.closeContainer <= ops
    BY <1>3 DEF PromiseInv, OpsKnown, TypeOK
  <2> HIDE DEF Has
  <2> QED
    BY <1>1, <1>2, <2>4, <2>5, <2>6, <2>7, QuietPromise
<1>6. CASE ~(ActivateAccepted(t) \/ SendAccepted(t))
  <2>1. UNCHANGED queued
    BY <1>6 DEF Returns, ActivateRollback, SendFails, CloseRollback, clibVars
  <2>2. \A o \in Ops : Has(frame'[t], o) <=> Has(frame[t], o)
    <3>1. \A o \in Ops : InFlushes(o, Flushes(frame[t].op)) <=> o = frame[t].op
      BY <1>f, FlushesHave
    <3>2. frame'[t].op = 0 /\ frame'[t].flushes = Flushes(frame[t].op)
      BY <1>1, <1>6
    <3>3. \A o \in Ops : Has(frame'[t], o) <=> o = frame[t].op
      BY <3>1, <3>2, OpsNotNull DEF Has
    <3> HIDE DEF Has
    <3> QED
      BY <1>4, <3>3
  <2>3. \A o \in Ops : Has(frame'[t], o) => o <= ops
    BY <2>2 DEF PromiseInv, OpsKnown
  <2>4. \A o \in queued' : o <= ops
    BY <2>1 DEF PromiseInv, OpsKnown
  <2>5. shared'.activationContainer <= ops /\ shared'.closeContainer <= ops
    BY <1>3 DEF PromiseInv, OpsKnown, TypeOK
  <2>6. \A o \in Ops : Has(frame[t], o) \/ o \in queued => Has(frame'[t], o) \/ o \in queued'
    BY <2>1, <2>2
  <2> HIDE DEF Has
  <2> QED
    BY <1>1, <1>2, <2>3, <2>4, <2>5, <2>6, QuietPromise
<1> QED
  BY <1>5, <1>6

(* ShutDown and OnClosed take the containers of shared state.              *)
LEMMA TakenPromise ==
    ASSUME TypeOK, PromiseInv, NEW t \in Threads, Idle(t) \/ frame[t] = NoWork, Others(t),
           UNCHANGED <<ops, container, resolved, queued>>, frame'[t].won = 0, frame'[t].op = 0,
           frame'[t].flushes = Flushes(shared.activationContainer)
                                 \o Flushes(shared.closeContainer),
           shared'.activationContainer = 0, shared'.closeContainer = 0
    PROVE  PromiseInv'
<1>1. /\ shared.activationContainer \in Op0 /\ shared.closeContainer \in Op0 /\ ops \in Nat
      /\ shared.activationContainer <= ops /\ shared.closeContainer <= ops
  BY DEF PromiseInv, OpsKnown, TypeOK, SharedStates
<1>2. frame[t].won = 0 /\ \A o \in Ops : ~Has(frame[t], o)
  BY NoWorkFields, NothingHeld DEF Idle, NoCall, NoOps
<1>3. \A o \in Ops : Has(frame'[t], o) => o <= ops
  <2> SUFFICES ASSUME NEW o \in Ops, Has(frame'[t], o) PROVE o <= ops
    OBVIOUS
  <2>1. o = shared.activationContainer \/ o = shared.closeContainer
    <3>1. /\ frame'[t].op # o
          /\ frame'[t].flushes = Flushes(shared.activationContainer)
                                   \o Flushes(shared.closeContainer)
      BY OpsNotNull
    <3>2. InFlushes(o, Flushes(shared.activationContainer) \o Flushes(shared.closeContainer))
      BY <3>1 DEF Has
    <3> QED
      BY <1>1, <3>2, FlushesHave
  <2> QED
    BY <1>1, <2>1
<1>4. \A o \in queued' : o <= ops
  BY DEF PromiseInv, OpsKnown
<1>5. shared'.activationContainer <= ops /\ shared'.closeContainer <= ops
  BY <1>1
<1> HIDE DEF Has
<1> QED
  BY <1>2, <1>3, <1>4, <1>5, QuietPromise
(* CompleteFlush: the lock section that finds out who is first.            *)
LEMMA CompletePromise ==
    ASSUME TypeOK, WorkInOrder, PromiseInv, NEW t \in Threads, CompleteFlush(t)
    PROVE  PromiseInv'
<1> DEFINE op == Head(frame[t].flushes)
           win == IF Wins(op) THEN op ELSE 0
<1>f. /\ frame[t] \in Frames /\ frame[t].flushes \in Seq(Ops) /\ frame[t].flushes # <<>>
      /\ frame[t].won = 0
  BY DEF TypeOK, ThreadsOK, Frames, CompleteFlush
<1>1. op \in Ops /\ op # 0
  BY <1>f, OpsNotNull
<1>2. /\ UNCHANGED <<ops, resolved, queued, shared>>
      /\ container' = [container EXCEPT ![op] = "Finished"]
  BY DEF CompleteFlush, implVars, clibVars
<1>3. /\ Others(t) /\ frame'[t].flushes = Tail(frame[t].flushes)
      /\ frame'[t].won = win /\ frame'[t].op = frame[t].op
  <2>1. Continue(t, [frame[t] EXCEPT !.flushes = Tail(@), !.won = win])
    BY DEF CompleteFlush
  <2> HIDE DEF op, win
  <2>2. frame'[t] = [frame[t] EXCEPT !.flushes = Tail(@), !.won = win] /\ Others(t)
    BY <2>1, ContinueEffect DEF Others
  <2> QED
    BY <1>f, <2>2 DEF Frames
<1>4. \A o \in Ops : Has(frame[t], o) <=> o = op \/ Has(frame'[t], o)
  BY <1>f, <1>3, TailHas DEF Has
<1>5. \A u \in Threads \ {t} : \A o \in Ops : Has(frame'[u], o) <=> Has(frame[u], o)
  BY <1>3 DEF Others
<1>6. Has(frame[t], op)
  BY <1>1, <1>4
<1> HIDE DEF op, Has
<1>7. op <= ops /\ container[op] # "none" /\ ops \in Nat /\ op \in Nat
  BY <1>1, <1>6 DEF PromiseInv, OpsKnown, TypeOK, Ops
<1>8. OpsKnown'
  <2>1. \A u \in Threads, o \in Ops : Has(frame'[u], o) => o <= ops
    BY <1>4, <1>5 DEF PromiseInv, OpsKnown
  <2>2. \A o \in Ops : container'[o] = "none" <=> container[o] = "none"
    BY <1>2, <1>7 DEF TypeOK
  <2> QED
    BY <1>2, <2>1, <2>2 DEF PromiseInv, OpsKnown
<1>9. ASSUME NEW o \in Ops PROVE PromiseFor(o)'
  <2>1. PromiseFor(o) /\ container[o] \in {"none", "Incomplete", "Finished"}
    BY DEF PromiseInv, TypeOK
  <2>2. \A u \in Threads \ {t} : frame'[u].won = frame[u].won
    BY <1>3 DEF Others
  <2>3. CASE o # op
    <3>1. container'[o] = container[o] /\ resolved'[o] = resolved[o]
      BY <1>2, <2>3 DEF TypeOK
    <3>2. \A u \in Threads : frame'[u].won = o <=> frame[u].won = o
      BY <1>f, <1>3, <2>2, <2>3, OpsNotNull
    <3>3. o \in queued \/ (\E u \in Threads : Has(frame[u], o))
            => o \in queued' \/ (\E u \in Threads : Has(frame'[u], o))
      BY <1>2, <1>4, <1>5, <2>3
    <3>4. NoWinner(o)' <=> NoWinner(o)
      BY <3>2 DEF NoWinner
    <3>5. (\E v \in Threads : \A u \in Threads : frame[u].won = o <=> u = v)
            => (\E v \in Threads : \A u \in Threads : frame'[u].won = o <=> u = v)
      BY <3>2
    <3> QED
      BY <2>1, <3>1, <3>3, <3>4, <3>5 DEF PromiseFor
  <2>4. CASE o = op /\ container[o] = "Incomplete"
    <3>1. container'[o] = "Finished" /\ resolved'[o] = 0 /\ NoWinner(o)
      BY <1>2, <2>1, <2>4 DEF PromiseFor, TypeOK
    <3>2. frame'[t].won = o
      BY <1>3, <2>4 DEF Wins
    <3>3. \A u \in Threads : frame'[u].won = o <=> u = t
      BY <2>2, <3>1, <3>2 DEF NoWinner
    <3> QED
      BY <3>1, <3>3 DEF PromiseFor
  <2>5. CASE o = op /\ container[o] = "Finished"
    <3>1. container'[o] = "Finished" /\ resolved'[o] = resolved[o]
      BY <1>2, <2>5 DEF TypeOK
    <3>2. frame'[t].won = 0
      BY <1>3, <2>5 DEF Wins
    <3>3. \A u \in Threads : frame'[u].won = o <=> frame[u].won = o
      BY <1>f, <2>2, <3>2
    <3>4. NoWinner(o)' <=> NoWinner(o)
      BY <3>3 DEF NoWinner
    <3>5. (\E v \in Threads : \A u \in Threads : frame[u].won = o <=> u = v)
            => (\E v \in Threads : \A u \in Threads : frame'[u].won = o <=> u = v)
      BY <3>3
    <3> QED
      BY <2>1, <2>5, <3>1, <3>4, <3>5 DEF PromiseFor
  <2> QED
    BY <1>7, <2>1, <2>3, <2>4, <2>5
<1> QED
  BY <1>8, <1>9 DEF PromiseInv

(* ResolveFlush: the winner completes the promise.                         *)
LEMMA ResolvePromise ==
    ASSUME TypeOK, WorkInOrder, PromiseInv, NEW t \in Threads, ResolveFlush(t)
    PROVE  PromiseInv'
<1> DEFINE op == frame[t].won
<1>f. frame[t] \in Frames /\ op \in Ops
  BY DEF TypeOK, ThreadsOK, Frames, ResolveFlush, Op0
<1>1. /\ UNCHANGED <<ops, container, queued, shared>>
      /\ resolved' = [resolved EXCEPT ![op] = @ + 1]
  BY DEF ResolveFlush, implVars, clibVars
<1>2. /\ Others(t) /\ frame'[t].flushes = frame[t].flushes
      /\ frame'[t].won = 0 /\ frame'[t].op = frame[t].op
  <2>1. frame'[t] = [frame[t] EXCEPT !.won = 0] /\ Others(t)
    BY ContinueEffect DEF ResolveFlush, Others
  <2> QED
    BY <1>f, <2>1 DEF Frames
<1>3. \A u \in Threads, o \in Ops : Has(frame'[u], o) <=> Has(frame[u], o)
  BY <1>2 DEF Others, Has
<1>4. PromiseFor(op) /\ container[op] \in {"none", "Incomplete", "Finished"} /\ ~NoWinner(op)
  BY <1>f DEF PromiseInv, TypeOK, NoWinner
<1>5. /\ container[op] = "Finished" /\ resolved[op] = 0
      /\ \A u \in Threads : frame[u].won = op <=> u = t
  BY <1>4 DEF PromiseFor
<1> HIDE DEF Has
<1>6. OpsKnown'
  BY <1>1, <1>3 DEF PromiseInv, OpsKnown
<1>7. \A u \in Threads \ {t} : frame'[u].won = frame[u].won
  BY <1>2 DEF Others
<1>8. ASSUME NEW o \in Ops PROVE PromiseFor(o)'
  <2>1. CASE o = op
    <3>1. container'[o] = "Finished" /\ resolved'[o] = 1
      BY <1>1, <1>5, <2>1 DEF TypeOK
    <3>2. NoWinner(o)'
      BY <1>2, <1>5, <1>7, <1>f, <2>1, OpsNotNull DEF NoWinner
    <3> QED
      BY <3>1, <3>2 DEF PromiseFor
  <2>2. CASE o # op
    <3>1. container'[o] = container[o] /\ resolved'[o] = resolved[o] /\ queued' = queued
      BY <1>1, <2>2 DEF TypeOK
    <3>2. \A u \in Threads : frame'[u].won = o <=> frame[u].won = o
      BY <1>2, <1>7, <2>2, OpsNotNull
    <3>3. NoWinner(o)' <=> NoWinner(o)
      BY <3>2 DEF NoWinner
    <3>4. (\E v \in Threads : \A u \in Threads : frame[u].won = o <=> u = v)
            => (\E v \in Threads : \A u \in Threads : frame'[u].won = o <=> u = v)
      BY <3>2
    <3>5. (\E u \in Threads : Has(frame[u], o)) => (\E u \in Threads : Has(frame'[u], o))
      BY <1>3
    <3>6. PromiseFor(o)
      BY DEF PromiseInv
    <3> QED
      BY <3>1, <3>3, <3>4, <3>5, <3>6 DEF PromiseFor
  <2> QED
    BY <2>1, <2>2
<1> QED
  BY <1>6, <1>8 DEF PromiseInv

LEMMA WorksPromise ==
    ASSUME TypeOK, WorkInOrder, PromiseInv, NEW t \in Threads, Works(t)
    PROVE  PromiseInv'
<1>1. CASE CompleteFlush(t) \/ ResolveFlush(t)
  BY <1>1, CompletePromise, ResolvePromise
<1>2. CASE ~CompleteFlush(t) /\ ~ResolveFlush(t)
  <2>f. frame[t] \in Frames
    BY DEF TypeOK, ThreadsOK
  <2>1. \E f \in {[frame[t] EXCEPT !.resp = 0], [frame[t] EXCEPT !.tokenRef = FALSE],
                  [frame[t] EXCEPT !.release = FALSE], [frame[t] EXCEPT !.close = FALSE],
                  [frame[t] EXCEPT !.drop = FALSE]} : Continue(t, f)
    BY <1>2 DEF Works, InvokeResult, ReleaseLocalRef, ReleaseContinuation, CloseInternally,
                DropHandle
  <2>2. /\ frame'[t].won = frame[t].won /\ frame'[t].op = frame[t].op
        /\ frame'[t].flushes = frame[t].flushes
    BY <2>f, <2>1, ContinueEffect DEF Frames
  <2>3. Others(t) /\ UNCHANGED <<shared, ops, queued>>
    BY WorksEffect DEF clibVars
  <2>4. UNCHANGED <<container, resolved>>
    BY <1>2 DEF Works, InvokeResult, ReleaseLocalRef, ReleaseContinuation, CloseInternally,
                DropHandle, opVars
  <2> QED
    BY <2>2, <2>3, <2>4, SamePromise
<1> QED
  BY <1>1, <1>2
LEMMA NextPromise ==
    ASSUME TypeOK, TypeOK', WorkInOrder, PromiseInv, [Next]_vars PROVE PromiseInv'
<1>l. Loop \in Threads /\ AppThreads \subseteq Threads /\ Inner \in Threads
  BY ThreadsOfLoop
<1>1. ASSUME NEW t \in AppThreads \cup {Inner}, ShutDown(t) PROVE PromiseInv'
  <2>1. UNCHANGED <<shared, ops, container, resolved, queued>>
    BY <1>1 DEF ShutDown, opVars, clibVars
  <2>2. Others(t) /\ frame'[t] = frame[t]
    BY <1>1, ShutDownEffect DEF Idle
  <2> QED
    BY <1>l, <2>1, <2>2, SamePromise
<1>2. ASSUME NEW t \in Threads, SendFails(t), frame[t].kind # "send" PROVE PromiseInv'
  <2>1. UNCHANGED <<shared, ops, container, resolved, queued>>
    BY <1>2 DEF SendFails, implVars, opVars, clibVars
  <2>2. Others(t) /\ frame'[t] = frame[t]
    BY <1>2, CloseFailsEffect
  <2> QED
    BY <2>1, <2>2, SamePromise
<1>3. ASSUME NEW t \in Threads, ShutDownGather(t) PROVE PromiseInv'
  <2>1. /\ UNCHANGED <<ops, container, resolved, queued>>
        /\ shared'.activationContainer = 0 /\ shared'.closeContainer = 0
    BY <1>3 DEF ShutDownGather, DropActivation, opVars, clibVars, TypeOK, SharedStates
  <2>2. /\ frame[t] = NoWork /\ Others(t) /\ frame'[t].won = 0 /\ frame'[t].op = 0
        /\ frame'[t].flushes = Flushes(shared.activationContainer)
                                 \o Flushes(shared.closeContainer)
    BY <1>3, GatherEffect DEF NoCall
  <2> QED
    BY <2>1, <2>2, TakenPromise
<1>4. CASE OnClosed
  <2>1. /\ UNCHANGED <<ops, container, resolved, queued>>
        /\ shared'.activationContainer = 0 /\ shared'.closeContainer = 0
    BY <1>4 DEF OnClosed, DropActivation, opVars, TypeOK, SharedStates
  <2>2. /\ Idle(Loop) /\ Others(Loop) /\ frame'[Loop].won = 0 /\ frame'[Loop].op = 0
        /\ frame'[Loop].flushes = Flushes(shared.activationContainer)
                                    \o Flushes(shared.closeContainer)
    BY <1>4, OnClosedEffect DEF NoCall
  <2> QED
    BY <1>l, <2>1, <2>2, TakenPromise
<1>5. ASSUME NEW t \in Threads, CloseInternally(t), CanClose PROVE PromiseInv'
  <2>1. /\ UNCHANGED <<ops, container, resolved, queued>>
        /\ shared'.activationContainer = shared.activationContainer
        /\ shared'.closeContainer = 0
    BY <1>5 DEF CloseInternally, BeginClose, opVars, clibVars, TypeOK, SharedStates
  <2>2. /\ Others(t) /\ frame'[t].won = frame[t].won /\ frame'[t].op = frame[t].op
        /\ frame'[t].flushes = frame[t].flushes
    BY <1>5, CloseInternallyEffect DEF NoOps
  <2> QED
    BY <2>1, <2>2, SamePromise
<1>6. CASE EnterHandler \/ \E b \in BOOLEAN : LeaveHandler(b)
  <2>1. UNCHANGED <<shared, ops, container, resolved, queued>>
    BY <1>6 DEF EnterHandler, LeaveHandler, opVars, clibVars
  <2>2. /\ Others(Loop) /\ frame'[Loop].won = frame[Loop].won
        /\ frame'[Loop].op = frame[Loop].op /\ frame'[Loop].flushes = frame[Loop].flushes
    BY <1>6, HandlerEffect DEF NoOps, NoCall
  <2> QED
    BY <1>l, <2>1, <2>2, SamePromise
<1>7. CASE ClosedReturns
  <2>1. UNCHANGED <<shared, ops, container, resolved, queued>>
    BY <1>7 DEF ClosedReturns, implVars, opVars
  <2>2. /\ Others(Loop) /\ frame'[Loop].won = frame[Loop].won
        /\ frame'[Loop].op = frame[Loop].op /\ frame'[Loop].flushes = frame[Loop].flushes
    BY <1>7, ClosedReturnsEffect DEF NoOps, NoCall
  <2> QED
    BY <1>l, <2>1, <2>2, SamePromise
<1>8. ASSUME NEW m \in MessageKinds, NEW b \in BOOLEAN, OnMessage(m, b) PROVE PromiseInv'
  <2>1. /\ UNCHANGED <<ops, container, resolved, queued>>
    BY <1>8 DEF OnMessage, opVars
  <2>2. /\ shared'.activationContainer \in {0, shared.activationContainer}
        /\ shared'.closeContainer = shared.closeContainer
    <3>1. CASE shared.currentState = "PendingActivate"
      BY <1>8, <3>1 DEF OnMessage, DropActivation, TypeOK, SharedStates
    <3>2. CASE shared.currentState # "PendingActivate"
      BY <1>8, <3>2 DEF OnMessage
    <3> QED
      BY <3>1, <3>2
  <2>3. /\ Others(Loop) /\ frame'[Loop].won = frame[Loop].won
        /\ frame'[Loop].op = frame[Loop].op /\ frame'[Loop].flushes = frame[Loop].flushes
    BY <1>8, OnMessageEffect, NoWorkFields DEF Idle, NoOps, NoCall
  <2> QED
    BY <1>l, <2>1, <2>2, <2>3, SamePromise
<1>9. ASSUME NEW op \in Ops, MessageFlushed(op) PROVE PromiseInv'
  <2>1. /\ UNCHANGED <<shared, ops, container, resolved>>
        /\ op \in queued /\ queued' = queued \ {op}
    BY <1>9 DEF MessageFlushed, implVars, opVars
  <2>2. /\ Idle(Loop) /\ Others(Loop) /\ frame'[Loop].won = 0
        /\ frame'[Loop].op = 0 /\ frame'[Loop].flushes = <<op>>
    BY <1>9, FlushedEffect DEF NoCall
  <2>3. frame[Loop].won = 0 /\ \A o \in Ops : ~Has(frame[Loop], o)
    BY <1>l, <2>2, IdleHasNothing
  <2>4. \A o \in Ops : Has(frame'[Loop], o) <=> o = op
    BY <2>2, FlushesHave, OpsNotNull DEF Has
  <2>5. \A o \in queued : o <= ops
    BY DEF PromiseInv, OpsKnown
  <2>6. shared'.activationContainer <= ops /\ shared'.closeContainer <= ops
    BY <2>1 DEF PromiseInv, OpsKnown
  <2>7. /\ \A o \in Ops : Has(frame[Loop], o) \/ o \in queued => Has(frame'[Loop], o) \/ o \in queued'
        /\ \A o \in Ops : Has(frame'[Loop], o) => o <= ops
        /\ \A o \in queued' : o <= ops
    BY <2>1, <2>3, <2>4, <2>5
  <2> HIDE DEF Has
  <2> QED
    BY <1>l, <2>1, <2>2, <2>3, <2>6, <2>7, QuietPromise
<1>10. CASE RunReleaseTask \/ UNCHANGED vars
  <2>1. UNCHANGED <<shared, ops, container, resolved, queued, pc, frame>>
    BY <1>10 DEF RunReleaseTask, vars, implVars, threadVars, opVars, clibVars
  <2>2. Others(Loop)
    BY <2>1 DEF Others
  <2> QED
    BY <1>l, <2>1, <2>2, SamePromise
<1> QED
  BY <1>l, <1>1, <1>2, <1>3, <1>4, <1>5, <1>6, <1>7, <1>8, <1>9, <1>10, StepCases,
     CallsPromise, ReturnsPromise, WorksPromise

-----------------------------------------------------------------------------
(* The result callback of an activation, from shared state to its caller.  *)

NoHolder(o) == \A t \in Threads : frame[t].resp # o
Kept(o) == shared.activationResponse = o
ResultFor(o) ==
    IF o \in started
    THEN \/ results[o] = 1 /\ NoHolder(o) /\ ~Kept(o)
         \/ /\ results[o] = 0 /\ ~Kept(o)
            /\ \E t \in Threads : \A u \in Threads : frame[u].resp = o <=> u = t
         \/ results[o] = 0 /\ NoHolder(o) /\ Kept(o)
    ELSE results[o] = 0 /\ NoHolder(o)

(* What shared state keeps belongs to an activation that was accepted, or  *)
(* to the one that is with the C library.                                  *)
KeptIsActive ==
    \/ shared.activationResponse \in started \cup {0}
    \/ \E t \in Threads : Activating(t) /\ frame[t].op = shared.activationResponse

ResultInv ==
    /\ \A o \in Ops : ResultFor(o)
    /\ token \in {"none", "fresh"} => started = {}
    /\ token \in {"closing", "closed"} => shared.activationResponse = 0
    /\ KeptIsActive

LEMMA ResultIs == ASSUME TypeOK, ResultInv PROVE ResultHeldOnce
<1> SUFFICES ASSUME NEW o \in Ops
             PROVE  LET holders == {t \in Threads : frame[t].resp = o}
                        kept == shared.activationResponse = o
                    IN  IF o \in started
                        THEN /\ results[o] + Cardinality(holders) + (IF kept THEN 1 ELSE 0) = 1
                             /\ token = "closed" => ~kept
                        ELSE results[o] = 0 /\ holders = {}
  BY DEF ResultHeldOnce
<1> DEFINE holders == {t \in Threads : frame[t].resp = o}
           kept == shared.activationResponse = o
<1>1. ResultFor(o) /\ o # 0
  BY OpsNotNull DEF ResultInv
<1>2. token = "closed" => ~kept
  BY <1>1 DEF ResultInv
<1>3. NoHolder(o) => holders = {} /\ Cardinality(holders) = 0
  BY FS_EmptySet DEF NoHolder
<1>4. \A t \in Threads : (\A u \in Threads : frame[u].resp = o <=> u = t) => Cardinality(holders) = 1
  <2> TAKE t \in Threads
  <2> HAVE \A u \in Threads : frame[u].resp = o <=> u = t
  <2>1. holders = {t}
    OBVIOUS
  <2> QED
    BY <2>1, FS_Singleton
<1>5. CASE o \in started
  <2>1. \/ results[o] = 1 /\ Cardinality(holders) = 0 /\ ~kept
        \/ results[o] = 0 /\ Cardinality(holders) = 1 /\ ~kept
        \/ results[o] = 0 /\ Cardinality(holders) = 0 /\ kept
    <3> HIDE DEF holders
    <3> QED
      BY <1>1, <1>3, <1>4, <1>5 DEF ResultFor, Kept
  <2>2. results[o] + Cardinality(holders) + (IF kept THEN 1 ELSE 0) = 1
    <3> HIDE DEF holders
    <3> QED
      BY <2>1
  <2> QED
    BY <1>2, <1>5, <2>2
<1>6. CASE o \notin started
  BY <1>1, <1>3, <1>6 DEF ResultFor
<1> QED
  BY <1>5, <1>6
(* A step of one thread that takes no result callback and calls none.      *)
LEMMA QuietResult ==
    ASSUME ResultInv, NEW t \in Threads, Others(t), UNCHANGED <<results, started>>,
           shared'.activationResponse = shared.activationResponse,
           frame'[t].resp = frame[t].resp,
           token' \in {"none", "fresh"} => token \in {"none", "fresh"},
           token' \in {"closing", "closed"} => token \in {"closing", "closed"},
           Activating(t) => pc'[t] = "call" /\ frame'[t] = frame[t]
    PROVE  ResultInv'
<1>1. \A u \in Threads : frame'[u].resp = frame[u].resp
  BY DEF Others
<1>2. ASSUME NEW o \in Ops PROVE ResultFor(o)'
  <2>1. NoHolder(o)' <=> NoHolder(o)
    BY <1>1 DEF NoHolder
  <2>2. Kept(o)' <=> Kept(o)
    BY DEF Kept
  <2>3. (\E v \in Threads : \A u \in Threads : frame[u].resp = o <=> u = v)
          => (\E v \in Threads : \A u \in Threads : frame'[u].resp = o <=> u = v)
    BY <1>1
  <2>4. ResultFor(o)
    BY DEF ResultInv
  <2> QED
    BY <2>1, <2>2, <2>3, <2>4 DEF ResultFor
<1>3. \A u \in Threads : Activating(u) => Activating(u)' /\ frame'[u].op = frame[u].op
  BY DEF Activating, Others
<1>4. KeptIsActive'
  BY <1>3 DEF ResultInv, KeptIsActive
<1> QED
  BY <1>2, <1>4 DEF ResultInv

(* A handler takes the result callback out of shared state.                *)
LEMMA TakenResult ==
    ASSUME TypeOK, ResultInv, NEW t \in Threads, Others(t), UNCHANGED <<results, started>>,
           frame[t].resp = 0, frame'[t].resp = Response, shared'.activationResponse = 0,
           \A u \in Threads : ~Activating(u),
           token' \in {"none", "fresh"} => token \in {"none", "fresh"}
    PROVE  ResultInv'
<1>1. Response \in started \cup {0} /\ Response = shared.activationResponse
  BY DEF Response, ResultInv, KeptIsActive
<1>2. \A u \in Threads \ {t} : frame'[u].resp = frame[u].resp
  BY DEF Others
<1>3. ASSUME NEW o \in Ops PROVE ResultFor(o)'
  <2>1. ResultFor(o) /\ o # 0 /\ ~Kept(o)'
    BY OpsNotNull DEF ResultInv, Kept
  <2>2. CASE o = Response
    <3>1. o \in started /\ Kept(o)
      BY <1>1, <2>1, <2>2 DEF Kept
    <3>2. results[o] = 0 /\ NoHolder(o)
      BY <2>1, <3>1 DEF ResultFor
    <3>3. \A u \in Threads : frame'[u].resp = o <=> u = t
      BY <1>2, <2>2, <3>2 DEF NoHolder
    <3> QED
      BY <2>1, <3>1, <3>2, <3>3 DEF ResultFor
  <2>3. CASE o # Response
    <3>1. ~Kept(o)
      BY <1>1, <2>3 DEF Kept
    <3>2. \A u \in Threads : frame'[u].resp = o <=> frame[u].resp = o
      BY <1>2, <2>1, <2>3
    <3>3. NoHolder(o)' <=> NoHolder(o)
      BY <3>2 DEF NoHolder
    <3>4. (\E v \in Threads : \A u \in Threads : frame[u].resp = o <=> u = v)
            => (\E v \in Threads : \A u \in Threads : frame'[u].resp = o <=> u = v)
      BY <3>2
    <3> QED
      BY <2>1, <3>1, <3>3, <3>4 DEF ResultFor
  <2> QED
    BY <2>2, <2>3
<1>4. KeptIsActive'
  BY DEF KeptIsActive
<1> QED
  BY <1>3, <1>4 DEF ResultInv

(* Activate: nothing was accepted, and nothing is while the call is made.  *)
LEMMA ActivateResult ==
    ASSUME TypeOK, WorkInOrder, StreamInv, ResultInv, NEW t \in Threads, Activate(t)
    PROVE  ResultInv'
<1>1. /\ Idle(t) /\ Others(t) /\ pc'[t] = "call" /\ frame'[t].kind = "activate"
      /\ frame'[t].op = ops + 1 /\ frame'[t].resp = 0
  BY CallsEffect DEF NoOps
<1>2. /\ UNCHANGED <<results, started, token>> /\ shared.currentState = "None"
      /\ shared'.activationResponse = ops + 1
  BY DEF Activate, NewOp, clibVars, TypeOK, SharedStates
<1>3. token = "fresh" /\ started = {}
  BY <1>2 DEF StreamInv, StateMatchesToken, ResultInv
<1>4. \A u \in Threads : frame'[u].resp = frame[u].resp
  BY <1>1, NoWorkFields DEF Others, Idle, NoOps
<1>5. \A o \in Ops : ResultFor(o)'
  BY <1>2, <1>3, <1>4 DEF ResultInv, ResultFor, NoHolder
<1>6. KeptIsActive'
  BY <1>1, <1>2 DEF KeptIsActive, Activating
<1> QED
  BY <1>2, <1>3, <1>5, <1>6 DEF ResultInv

(* ... until the C library answers: it accepts the callback shared state   *)
(* keeps, or Activate drops that callback.                                 *)
LEMMA AnsweredResult ==
    ASSUME TypeOK, WorkInOrder, StreamInv, ResultInv, NEW t \in Threads,
           ActivateAccepted(t) \/ ActivateRollback(t)
    PROVE  ResultInv'
<1>a. Returns(t) /\ Activating(t)
  BY DEF Returns, ActivateAccepted, ActivateRollback, Activating
<1>1. /\ token = "fresh" /\ shared.activationResponse = frame[t].op
      /\ frame[t].op \in Ops /\ started = {}
  BY <1>a DEF StreamInv, OneActivation, ResultInv, Activating, TypeOK, ThreadsOK, Frames, Op0
<1>2. \A u \in Threads : frame'[u].resp = frame[u].resp
  BY <1>a, ReturnEffect DEF Others, NoOps
<1>3. UNCHANGED results
  BY DEF ActivateAccepted, ActivateRollback, opVars
<1>4. \A o \in Ops : results[o] = 0 /\ NoHolder(o) /\ NoHolder(o)'
  BY <1>1, <1>2 DEF ResultInv, ResultFor, NoHolder
<1>5. CASE ActivateAccepted(t)
  <2>1. token' = "open" /\ started' = {frame[t].op} /\ UNCHANGED shared
    BY <1>1, <1>5 DEF ActivateAccepted, implVars
  <2>2. \A o \in Ops : ResultFor(o)'
    BY <1>1, <1>3, <1>4, <2>1 DEF ResultFor, Kept
  <2>3. KeptIsActive'
    BY <1>1, <2>1 DEF KeptIsActive
  <2> QED
    BY <2>1, <2>2, <2>3 DEF ResultInv
<1>6. CASE ActivateRollback(t)
  <2>1. UNCHANGED <<token, started>> /\ shared'.activationResponse = 0
    BY <1>6 DEF ActivateRollback, DropActivation, clibVars, TypeOK, SharedStates
  <2>2. \A o \in Ops : ResultFor(o)'
    BY <1>1, <1>3, <1>4, <2>1 DEF ResultFor
  <2>3. KeptIsActive'
    BY <2>1 DEF KeptIsActive
  <2> QED
    BY <1>1, <2>1, <2>2, <2>3 DEF ResultInv
<1> QED
  BY <1>5, <1>6

LEMMA InvokeResultResult ==
    ASSUME TypeOK, WorkInOrder, ResultInv, NEW t \in Threads, InvokeResult(t)
    PROVE  ResultInv'
<1> DEFINE op == frame[t].resp
<1>f. frame[t] \in Frames /\ op \in Ops /\ op # 0
  BY OpsNotNull DEF TypeOK, ThreadsOK, Frames, InvokeResult, Op0
<1>1. /\ UNCHANGED <<shared, token, started>>
      /\ results' = [results EXCEPT ![op] = @ + 1]
  BY DEF InvokeResult, implVars, clibVars
<1>2. /\ Others(t) /\ frame'[t].resp = 0 /\ pc[t] = "work"
  <2>1. frame'[t] = [frame[t] EXCEPT !.resp = 0] /\ Others(t) /\ pc[t] = "work"
    BY ContinueEffect DEF InvokeResult, Others
  <2> QED
    BY <1>f, <2>1 DEF Frames
<1>3. ResultFor(op) /\ ~NoHolder(op)
  BY <1>f DEF ResultInv, NoHolder
<1>4. /\ op \in started /\ results[op] = 0 /\ ~Kept(op)
      /\ \A u \in Threads : frame[u].resp = op <=> u = t
  BY <1>3 DEF ResultFor
<1>5. \A u \in Threads \ {t} : frame'[u].resp = frame[u].resp
  BY <1>2 DEF Others
<1>6. ASSUME NEW o \in Ops PROVE ResultFor(o)'
  <2>1. Kept(o)' <=> Kept(o)
    BY <1>1 DEF Kept
  <2>2. CASE o = op
    <3>1. results'[o] = 1 /\ o \in started' /\ ~Kept(o)'
      BY <1>1, <1>4, <2>1, <2>2 DEF TypeOK
    <3>2. NoHolder(o)'
      BY <1>f, <1>2, <1>4, <1>5, <2>2 DEF NoHolder
    <3> QED
      BY <3>1, <3>2 DEF ResultFor
  <2>3. CASE o # op
    <3>1. results'[o] = results[o] /\ started' = started
      BY <1>1, <2>3 DEF TypeOK
    <3>2. \A u \in Threads : frame'[u].resp = o <=> frame[u].resp = o
      BY <1>2, <1>5, <2>3, OpsNotNull
    <3>3. NoHolder(o)' <=> NoHolder(o)
      BY <3>2 DEF NoHolder
    <3>4. (\E v \in Threads : \A u \in Threads : frame[u].resp = o <=> u = v)
            => (\E v \in Threads : \A u \in Threads : frame'[u].resp = o <=> u = v)
      BY <3>2
    <3>5. ResultFor(o)
      BY DEF ResultInv
    <3> QED
      BY <2>1, <3>1, <3>3, <3>4, <3>5 DEF ResultFor
  <2> QED
    BY <2>2, <2>3
<1>7. KeptIsActive'
  <2>1. \A u \in Threads : Activating(u) => Activating(u)' /\ frame'[u].op = frame[u].op
    BY <1>2 DEF Activating, Others
  <2> QED
    BY <1>1, <2>1 DEF ResultInv, KeptIsActive
<1> QED
  BY <1>1, <1>6, <1>7 DEF ResultInv
LEMMA ReturnsResult ==
    ASSUME TypeOK, WorkInOrder, StreamInv, ResultInv, NEW t \in Threads, Returns(t)
    PROVE  ResultInv'
<1>1. CASE ActivateAccepted(t) \/ ActivateRollback(t)
  BY <1>1, AnsweredResult
<1>2. CASE ~(ActivateAccepted(t) \/ ActivateRollback(t))
  <2>1. UNCHANGED <<results, started, token>>
    BY <1>2 DEF Returns, SendAccepted, SendFails, CloseRollback, opVars, clibVars
  <2>2. shared'.activationResponse = shared.activationResponse
    BY <1>2 DEF Returns, SendAccepted, SendFails, CloseRollback, implVars, TypeOK, SharedStates
  <2>3. Others(t) /\ frame'[t].resp = frame[t].resp
    BY ReturnEffect DEF NoOps
  <2>4. ~Activating(t)
    BY <1>2 DEF Returns, SendAccepted, SendFails, CloseRollback, Activating
  <2> QED
    BY <2>1, <2>2, <2>3, <2>4, QuietResult
<1> QED
  BY <1>1, <1>2

LEMMA WorksResult ==
    ASSUME TypeOK, WorkInOrder, ResultInv, NEW t \in Threads, Works(t)
    PROVE  ResultInv'
<1>1. CASE InvokeResult(t)
  BY <1>1, InvokeResultResult
<1>2. CASE ~InvokeResult(t)
  <2>f. frame[t] \in Frames
    BY DEF TypeOK, ThreadsOK
  <2>1. Others(t) /\ pc[t] = "work" /\ UNCHANGED <<shared, token, started>>
    BY WorksEffect DEF clibVars
  <2>2. UNCHANGED results
    BY <1>2 DEF Works, ReleaseLocalRef, CompleteFlush, ResolveFlush, ReleaseContinuation,
                CloseInternally, DropHandle, opVars
  <2>3. frame'[t].resp = frame[t].resp
    <3>1. CASE CompleteFlush(t)
      <4> DEFINE win == IF Wins(Head(frame[t].flushes)) THEN Head(frame[t].flushes) ELSE 0
      <4>1. Continue(t, [frame[t] EXCEPT !.flushes = Tail(@), !.won = win])
        BY <3>1 DEF CompleteFlush
      <4> HIDE DEF win
      <4>2. frame'[t] = [frame[t] EXCEPT !.flushes = Tail(@), !.won = win]
        BY <4>1, ContinueEffect
      <4> QED
        BY <2>f, <4>2 DEF Frames
    <3>2. CASE ~CompleteFlush(t)
      <4>1. \E f \in {[frame[t] EXCEPT !.tokenRef = FALSE], [frame[t] EXCEPT !.won = 0],
                      [frame[t] EXCEPT !.release = FALSE], [frame[t] EXCEPT !.close = FALSE],
                      [frame[t] EXCEPT !.drop = FALSE]} : Continue(t, f)
        BY <1>2, <3>2 DEF Works, ReleaseLocalRef, ResolveFlush, ReleaseContinuation,
                          CloseInternally, DropHandle
      <4> QED
        BY <2>f, <4>1, ContinueEffect DEF Frames
    <3> QED
      BY <3>1, <3>2
  <2>4. ~Activating(t)
    BY <2>1 DEF Activating
  <2> QED
    BY <2>1, <2>2, <2>3, <2>4, QuietResult
<1> QED
  BY <1>1, <1>2

LEMMA NextResult ==
    ASSUME TypeOK, WorkInOrder, OneShutDown, StreamInv, ResultInv, [Next]_vars
    PROVE  ResultInv'
<1>l. Loop \in Threads /\ AppThreads \subseteq Threads /\ Inner \in Threads
  BY ThreadsOfLoop
<1>a. token # "fresh" \/ shutDown # "no" => \A u \in Threads : ~Activating(u)
  BY DEF StreamInv, OneActivation
<1>1. ASSUME NEW t \in AppThreads, Refused(t) \/ SendStreamMessage(t) \/ Close(t)
      PROVE  ResultInv'
  <2>1. UNCHANGED <<results, started, token>>
    BY <1>1 DEF Refused, SendStreamMessage, Close, BeginClose, NewOp, clibVars
  <2>2. shared'.activationResponse = shared.activationResponse
    BY <1>1 DEF Refused, SendStreamMessage, Close, BeginClose, implVars, TypeOK, SharedStates
  <2>3. Idle(t) /\ Others(t) /\ frame'[t].resp = 0
    BY <1>1, <1>l, RefusedEffect, CallsEffect DEF NoOps
  <2>4. frame[t].resp = 0 /\ ~Activating(t)
    BY <2>3, NoWorkFields DEF Idle, NoOps, Activating
  <2> QED
    BY <1>l, <2>1, <2>2, <2>3, <2>4, QuietResult
<1>2. ASSUME NEW t \in AppThreads \cup {Inner}, ShutDown(t) PROVE ResultInv'
  <2>1. UNCHANGED <<shared, results, started, token>>
    BY <1>2 DEF ShutDown, opVars, clibVars
  <2>2. Others(t) /\ frame'[t] = frame[t] /\ ~Activating(t)
    BY <1>2, ShutDownEffect DEF Idle, Activating
  <2> QED
    BY <1>l, <2>1, <2>2, QuietResult
<1>3. ASSUME NEW t \in Threads, SendFails(t), frame[t].kind # "send" PROVE ResultInv'
  <2>1. UNCHANGED <<shared, results, started, token>>
    BY <1>3 DEF SendFails, implVars, opVars, clibVars
  <2>2. Others(t) /\ frame'[t] = frame[t] /\ ~Activating(t)
    BY <1>3, CloseFailsEffect DEF Activating
  <2> QED
    BY <2>1, <2>2, QuietResult
<1>4. ASSUME NEW t \in Threads, ShutDownGather(t) PROVE ResultInv'
  <2>1. UNCHANGED <<results, started, token>> /\ shared'.activationResponse = 0
    BY <1>4 DEF ShutDownGather, DropActivation, opVars, clibVars, TypeOK, SharedStates
  <2>2. Others(t) /\ frame[t].resp = 0 /\ frame'[t].resp = Response /\ pc[t] = "gather"
    BY <1>4, GatherEffect, NoWorkFields DEF NoOps
  <2>3. \A u \in Threads : ~Activating(u)
    BY <1>a, <2>2 DEF OneShutDown, Leaving
  <2> QED
    BY <2>1, <2>2, <2>3, TakenResult
<1>5. ASSUME NEW t \in Threads, CloseInternally(t), CanClose PROVE ResultInv'
  <2>1. /\ UNCHANGED <<results, started, token>>
        /\ shared'.activationResponse = shared.activationResponse
    BY <1>5 DEF CloseInternally, BeginClose, opVars, clibVars, TypeOK, SharedStates
  <2>2. Others(t) /\ frame'[t].resp = frame[t].resp /\ ~Activating(t)
    BY <1>5, CloseInternallyEffect DEF NoOps, Activating
  <2> QED
    BY <2>1, <2>2, QuietResult
<1>6. CASE EnterHandler \/ \E b \in BOOLEAN : LeaveHandler(b)
  <2>1. UNCHANGED <<shared, results, started, token>>
    BY <1>6 DEF EnterHandler, LeaveHandler, opVars, clibVars
  <2>2. Others(Loop) /\ frame'[Loop].resp = frame[Loop].resp /\ ~Activating(Loop)
    BY <1>6, HandlerEffect DEF NoOps, Activating
  <2> QED
    BY <1>l, <2>1, <2>2, QuietResult
<1>7. CASE ClosedReturns
  <2>1. UNCHANGED <<shared, results, started>> /\ token' = "closed"
    BY <1>7 DEF ClosedReturns, implVars, opVars
  <2>2. /\ Others(Loop) /\ frame'[Loop].resp = frame[Loop].resp /\ ~Activating(Loop)
        /\ token = "closing"
    BY <1>7, <1>l, ClosedReturnsEffect DEF NoOps, Activating, StreamInv, LoopBusy
  <2> QED
    BY <1>l, <2>1, <2>2, QuietResult
<1>8. CASE OnClosed
  <2>1. /\ UNCHANGED <<results, started>> /\ shared'.activationResponse = 0
        /\ token = "open" /\ token' = "closing"
    BY <1>8 DEF OnClosed, DropActivation, opVars, TypeOK, SharedStates
  <2>2. Others(Loop) /\ frame[Loop].resp = 0 /\ frame'[Loop].resp = Response
    BY <1>8, OnClosedEffect, NoWorkFields DEF NoOps, Idle
  <2> QED
    BY <1>l, <1>a, <2>1, <2>2, TakenResult
<1>9. ASSUME NEW m \in MessageKinds, NEW b \in BOOLEAN, OnMessage(m, b) PROVE ResultInv'
  <2>1. UNCHANGED <<results, started, token>> /\ token = "open"
    BY <1>9 DEF OnMessage, opVars
  <2>2. /\ Idle(Loop) /\ Others(Loop) /\ frame[Loop].resp = 0
        /\ frame'[Loop].resp = (IF shared.currentState = "PendingActivate" THEN Response ELSE 0)
    BY <1>9, OnMessageEffect, NoWorkFields DEF Idle, NoOps
  <2>3. CASE shared.currentState = "PendingActivate"
    <3>1. shared'.activationResponse = 0
      BY <1>9, <2>3 DEF OnMessage, DropActivation, TypeOK, SharedStates
    <3> QED
      BY <1>l, <1>a, <2>1, <2>2, <2>3, <3>1, TakenResult
  <2>4. CASE shared.currentState # "PendingActivate"
    <3>1. UNCHANGED shared /\ ~Activating(Loop)
      BY <1>9, <2>2, <2>4 DEF OnMessage, Activating, Idle
    <3> QED
      BY <1>l, <2>1, <2>2, <2>4, <3>1, QuietResult
  <2> QED
    BY <2>3, <2>4
<1>10. ASSUME NEW op \in Ops, MessageFlushed(op) PROVE ResultInv'
  <2>1. UNCHANGED <<shared, results, started, token>>
    BY <1>10 DEF MessageFlushed, implVars, opVars
  <2>2. Others(Loop) /\ frame'[Loop].resp = frame[Loop].resp /\ ~Activating(Loop)
    BY <1>10, FlushedEffect, NoWorkFields DEF Idle, NoOps, Activating
  <2> QED
    BY <1>l, <2>1, <2>2, QuietResult
<1>11. CASE RunReleaseTask \/ UNCHANGED vars
  <2>1. UNCHANGED <<shared, results, started, token, pc, frame>>
    BY <1>11 DEF RunReleaseTask, vars, implVars, threadVars, opVars, clibVars
  <2>2. Others(Loop) /\ (Activating(Loop) => pc'[Loop] = "call")
    BY <2>1 DEF Others, Activating
  <2> QED
    BY <1>l, <2>1, <2>2, QuietResult
<1> QED
  BY <1>l, <1>1, <1>2, <1>3, <1>4, <1>5, <1>6, <1>7, <1>8, <1>9, <1>10, <1>11, StepCases,
     ActivateResult, ReturnsResult, WorksResult

-----------------------------------------------------------------------------
(* The inductive invariant, and the properties it implies.                 *)

SafetyInv ==
    /\ TypeOK /\ WorkInOrder /\ OneShutDown /\ StreamInv
    /\ LifeInv /\ HandlerInv /\ PromiseInv /\ ResultInv

LEMMA InitSafety == Init => SafetyInv
<1> SUFFICES ASSUME Init PROVE SafetyInv
  OBVIOUS
<1>t. TypeOK
  BY InitType
<1>l. Loop \in Threads
  BY ThreadsOfLoop
<1>1. /\ \A t \in Threads : pc[t] = "ready" /\ frame[t] = NoWork
      /\ \A t \in Threads : frame[t].op = 0 /\ frame[t].kind = "none" /\ frame[t].stream = "none"
                            /\ ~frame[t].tokenRef /\ ~frame[t].release /\ ~frame[t].closed
                            /\ ~frame[t].drop /\ frame[t].won = 0 /\ frame[t].resp = 0
  BY NoWorkFields DEF Init, NoCall, NoRefs, NoOps
<1>2. WorkInOrder
  BY <1>1, NoWorkFields DEF WorkInOrder, InCall, OnlyStream
<1>3. OneShutDown
  BY <1>1 DEF Init, OneShutDown, Leaving
<1>4. /\ shared.currentState = (IF valid THEN "None" ELSE "Closed") /\ shared.continuation = valid
      /\ shared.activationContainer = 0 /\ shared.activationResponse = 0
      /\ shared.closeContainer = 0
      /\ token = (IF valid THEN "fresh" ELSE "none") /\ refs = (IF valid THEN 1 ELSE 0)
      /\ valid \in BOOLEAN /\ selfReference = valid /\ ~handlerLock /\ shutDown = "no"
      /\ tasks = 0
  BY DEF Init, Initialized
<1>5. StreamInv
  BY <1>l, <1>1, <1>4 DEF StreamInv, OneActivation, Restorable, StreamOver, LoopBusy,
                          StateMatchesToken, Activating, Closing, InCall
<1>6. LifeInv
  <2>1. Callers = {} /\ LocalRefs = {} /\ Releasers = {}
    BY <1>1 DEF Callers, LocalRefs, Releasers
  <2>2. TokenReferencesBalanced
    <3>1. Held = 0
      BY <2>1, FS_EmptySet DEF Held
    <3>2. refs = One(shared.continuation) + tasks + 0
      BY <1>4 DEF One
    <3> QED
      BY <1>t, <3>1, <3>2, BalanceIs
  <2>3. SelfOwned
    BY <1>4 DEF SelfOwned
  <2> QED
    BY <2>2, <2>3 DEF LifeInv
<1>7. HandlerInv
  BY <1>l, <1>1, <1>4 DEF HandlerInv
<1>8. PromiseInv
  <2>1. /\ \A o \in Ops : container[o] = "none" /\ resolved[o] = 0
        /\ ops = 0 /\ queued = {}
    BY DEF Init
  <2>2. \A o \in Ops : o > 0
    BY DEF Ops
  <2>3. OpsKnown
    BY <1>1, <1>4, <2>1, <2>2, IdleHasNothing DEF OpsKnown, Idle
  <2>4. \A o \in Ops : PromiseFor(o)
    BY <1>1, <2>1, OpsNotNull DEF PromiseFor, NoWinner
  <2> QED
    BY <2>3, <2>4 DEF PromiseInv
<1>9. ResultInv
  <2>1. started = {} /\ \A o \in Ops : results[o] = 0
    BY DEF Init
  <2> QED
    BY <1>1, <1>4, <2>1, OpsNotNull DEF ResultInv, ResultFor, NoHolder, KeptIsActive
<1> QED
  BY <1>t, <1>2, <1>3, <1>5, <1>6, <1>7, <1>8, <1>9 DEF SafetyInv

LEMMA NextSafety == SafetyInv /\ [Next]_vars => SafetyInv'
<1> SUFFICES ASSUME SafetyInv, [Next]_vars PROVE SafetyInv'
  OBVIOUS
<1>1. TypeOK /\ TypeOK'
  BY NextType DEF SafetyInv
<1>2. WorkInOrder' /\ OneShutDown' /\ StreamInv'
  BY NextInOrder, NextOneShutDown, NextStream DEF SafetyInv
<1>3. LifeInv' /\ HandlerInv'
  BY <1>1, NextLife, NextHandler DEF SafetyInv
<1>4. PromiseInv' /\ ResultInv'
  BY <1>1, NextPromise, NextResult DEF SafetyInv
<1> QED
  BY <1>1, <1>2, <1>3, <1>4 DEF SafetyInv

LEMMA Safety == Spec => []SafetyInv
BY InitSafety, NextSafety, PTL DEF Spec

(* ClientContinuationImpl's shared state says of the stream what the C     *)
(* library knows, whatever Activate, Close, their rollbacks, OnMessage,    *)
(* OnClosed and ShutDown do to it in whatever order.                       *)
THEOREM StateMatchesTokenHolds == Spec => []StateMatchesToken
<1>1. SafetyInv => StateMatchesToken
  BY DEF SafetyInv, StreamInv
<1> QED
  BY <1>1, Safety, PTL

(* Every reference ClientContinuationImpl takes on its token, around the   *)
(* C calls, in shared state and in release tasks, is dropped once.         *)
THEOREM TokenReferencesBalancedHolds == Spec => []TokenReferencesBalanced
<1>1. SafetyInv => TokenReferencesBalanced
  BY DEF SafetyInv, LifeInv
<1> QED
  BY <1>1, Safety, PTL

(* m_selfReference keeps the impl while the C library may call it back or  *)
(* one of its own methods has still to come back to its state.             *)
THEOREM ImplOutlivesTokenHolds == Spec => []ImplOutlivesToken
<1>1. SafetyInv => ImplOutlivesToken
  BY LifeAndHandler DEF SafetyInv
<1> QED
  BY <1>1, Safety, PTL

(* After ~ClientOperation no OnStreamEvent or OnStreamError runs, unless   *)
(* that handler destroyed its own operation.                               *)
THEOREM NoStreamEventAfterShutDownHolds == Spec => []NoStreamEventAfterShutDown
<1>1. SafetyInv => NoStreamEventAfterShutDown
  BY LifeAndHandler DEF SafetyInv
<1> QED
  BY <1>1, Safety, PTL

(* OnMessageFlushCallbackContainer::Complete completes the promise of each *)
(* Activate, SendStreamMessage and Close once, and no container is lost,   *)
(* however many threads have one and race for it.                          *)
THEOREM PromiseCompletedOnceHolds == Spec => []PromiseCompletedOnce
<1>1. SafetyInv => PromiseCompletedOnce
  BY PromiseIs DEF SafetyInv
<1> QED
  BY <1>1, Safety, PTL

(* The result callback of an accepted activation is in one place until it  *)
(* is called once; that of a failed one is never called.                   *)
THEOREM ResultHeldOnceHolds == Spec => []ResultHeldOnce
<1>1. SafetyInv => ResultHeldOnce
  BY ResultIs DEF SafetyInv
<1> QED
  BY <1>1, Safety, PTL

-----------------------------------------------------------------------------
(* The operation's contract.  An activation with the C library is not      *)
(* answered yet, and nobody but its own thread can answer it; whoever has  *)
(* a result callback to call keeps the operation alive.                    *)

ActivationPending ==
    \A t \in Threads : Activating(t) =>
        /\ container[frame[t].op] = "Incomplete" /\ frame[t].op \notin queued
        /\ \A u \in Threads \ {t} : ~Has(frame[u], frame[t].op)
ReporterKeepsAlive ==
    \A t \in Threads : frame[t].resp # 0 =>
        frame[t].drop \/ (t = Loop /\ token \in {"open", "closing"})
ContractInv == ActivationPending /\ ReporterKeepsAlive

(* A step of one thread that makes no activation and reaches no other's.   *)
LEMMA OthersActivation ==
    ASSUME ActivationPending, NEW t \in Threads, Others(t), ~Activating(t)',
           \A u \in Threads \ {t} : Activating(u) =>
               /\ container'[frame[u].op] = "Incomplete" /\ frame[u].op \notin queued'
               /\ ~Has(frame'[t], frame[u].op)
    PROVE  ActivationPending'
<1> SUFFICES ASSUME NEW u \in Threads, Activating(u)'
             PROVE  /\ container'[frame'[u].op] = "Incomplete" /\ frame'[u].op \notin queued'
                    /\ \A v \in Threads \ {u} : ~Has(frame'[v], frame'[u].op)
  BY DEF ActivationPending
<1>1. u # t /\ pc'[u] = pc[u] /\ frame'[u] = frame[u] /\ Activating(u)
  BY DEF Others, Activating
<1>2. \A v \in Threads \ {u, t} : ~Has(frame'[v], frame'[u].op)
  <2>1. \A v \in Threads \ {t} : frame'[v] = frame[v]
    BY DEF Others
  <2> HIDE DEF Has
  <2> QED
    BY <1>1, <2>1 DEF ActivationPending
<1> HIDE DEF Has
<1> QED
  BY <1>1, <1>2

LEMMA ActivatingOp ==
    ASSUME TypeOK, PromiseInv, NEW t \in Threads, Activating(t)
    PROVE  frame[t].op \in Ops /\ frame[t].op <= ops /\ Has(frame[t], frame[t].op)
<1>1. frame[t].op \in Ops
  BY DEF Activating, TypeOK, ThreadsOK, Frames, Op0
<1>2. Has(frame[t], frame[t].op)
  BY DEF Has
<1> QED
  BY <1>1, <1>2 DEF PromiseInv, OpsKnown

(* A step that leaves containers alone and takes none it did not have.     *)
LEMMA QuietActivation ==
    ASSUME TypeOK, PromiseInv, ActivationPending, NEW t \in Threads, Others(t), ~Activating(t)',
           UNCHANGED container,
           \A u \in Threads \ {t} : Activating(u) => frame[u].op \notin queued' \ queued,
           \A u \in Threads \ {t} :
               Activating(u) /\ Has(frame'[t], frame[u].op) =>
                   Has(frame[t], frame[u].op) \/ frame[u].op \in queued
    PROVE  ActivationPending'
<1>1. ASSUME NEW u \in Threads \ {t}, Activating(u)
      PROVE  /\ container'[frame[u].op] = "Incomplete" /\ frame[u].op \notin queued'
             /\ ~Has(frame'[t], frame[u].op)
  <2>1. /\ container[frame[u].op] = "Incomplete" /\ frame[u].op \notin queued
        /\ ~Has(frame[t], frame[u].op)
    BY <1>1 DEF ActivationPending
  <2> HIDE DEF Has
  <2> QED
    BY <1>1, <2>1
<1> QED
  BY <1>1, OthersActivation

(* While an activation is with the C library nobody takes the containers   *)
(* of shared state.                                                        *)
LEMMA NoActivation ==
    ASSUME \A t \in Threads : ~Activating(t)' PROVE ActivationPending'
BY DEF ActivationPending

(* A call of the application: its container is new.                        *)
LEMMA CallsActivation ==
    ASSUME TypeOK, TypeOK', WorkInOrder, StreamInv, StreamInv', PromiseInv, ActivationPending,
           NEW t \in AppThreads, Refused(t) \/ Activate(t) \/ SendStreamMessage(t) \/ Close(t)
    PROVE  ActivationPending'
<1>l. t \in Threads
  BY ThreadsOfLoop
<1>n. NewOp /\ ops \in Nat /\ ops + 1 \in Ops /\ UNCHANGED queued
  BY ContinuationAssumption
     DEF Refused, Activate, SendStreamMessage, Close, BeginClose, NewOp, TypeOK, Ops, clibVars
<1>c. container' = [container EXCEPT ![ops + 1] = "Incomplete"] /\ DOMAIN container = Ops
  BY <1>n DEF NewOp, TypeOK
<1>1. Others(t) /\ Idle(t)
  BY <1>l, RefusedEffect, CallsEffect
<1>2. \A o \in Ops : Has(frame'[t], o) => o = ops + 1
  <2>1. CASE Refused(t)
    <3>1. frame'[t].flushes = <<ops + 1>> /\ frame'[t].op = 0
      BY <1>l, <2>1, RefusedEffect DEF NoCall
    <3> QED
      BY <1>n, <3>1, FlushesHave, OpsNotNull DEF Has, Op0
  <2>2. CASE Activate(t) \/ SendStreamMessage(t) \/ Close(t)
    <3>1. frame'[t].op = ops + 1 /\ frame'[t].flushes = <<>>
      BY <1>l, <2>2, CallsEffect DEF NoOps
    <3> QED
      BY ZenonT(60), <3>1, FlushesHave DEF Has, Op0
  <2> QED
    BY <2>1, <2>2
<1> HIDE DEF Has
<1>3. ASSUME NEW u \in Threads \ {t}, Activating(u)
      PROVE  /\ container'[frame[u].op] = "Incomplete" /\ frame[u].op \notin queued'
             /\ ~Has(frame'[t], frame[u].op)
  <2>1. frame[u].op \in Ops /\ frame[u].op <= ops
    BY <1>3, ActivatingOp
  <2>2. container[frame[u].op] = "Incomplete" /\ frame[u].op \notin queued
    BY <1>3 DEF ActivationPending
  <2>3. frame[u].op # ops + 1 /\ frame[u].op \in Nat
    BY <1>n, <2>1 DEF Ops
  <2> QED
    BY <1>2, <1>n, <1>c, <2>1, <2>2, <2>3
<1>4. CASE Activating(t)'
  <2>1. Activate(t) /\ frame'[t].op = ops + 1
    <3>1. frame'[t].kind = "activate" /\ pc'[t] = "call"
      BY <1>4 DEF Activating
    <3>2. ~Refused(t)
      BY <1>l, <3>1, RefusedEffect DEF NoCall
    <3> QED
      BY <1>l, <3>1, <3>2, CallsEffect
  <2>2. \A u \in Threads : Activating(u)' => u = t
    BY <1>l, <1>4 DEF StreamInv, OneActivation
  <2>3. \A u \in Threads \ {t} : ~Has(frame'[u], ops + 1)
    <3>1. \A u \in Threads, o \in Ops : Has(frame[u], o) => o <= ops
      BY DEF PromiseInv, OpsKnown
    <3>2. ~(ops + 1 <= ops)
      BY <1>n
    <3> QED
      BY <1>1, <1>n, <3>1, <3>2 DEF Others
  <2>4. ops + 1 \notin queued'
    <3>1. \A o \in queued : o <= ops
      BY DEF PromiseInv, OpsKnown
    <3> QED
      BY <1>n, <3>1
  <2>5. container'[ops + 1] = "Incomplete"
    BY <1>n, <1>c
  <2> QED
    BY <2>1, <2>2, <2>3, <2>4, <2>5 DEF ActivationPending
<1>5. CASE ~Activating(t)'
  BY <1>l, <1>1, <1>3, <1>5, OthersActivation
<1> QED
  BY <1>4, <1>5

LEMMA WorksActivation ==
    ASSUME TypeOK, WorkInOrder, PromiseInv, ActivationPending, NEW t \in Threads, Works(t)
    PROVE  ActivationPending'
<1>f. frame[t] \in Frames
  BY DEF TypeOK, ThreadsOK
<1>1. Others(t) /\ ~Activating(t)' /\ UNCHANGED queued
  BY WorksEffect DEF Activating, clibVars
<1>2. CASE CompleteFlush(t)
  <2> DEFINE op == Head(frame[t].flushes)
             win == IF Wins(op) THEN op ELSE 0
  <2>1. /\ frame[t].flushes \in Seq(Ops) /\ frame[t].flushes # <<>>
        /\ container' = [container EXCEPT ![op] = "Finished"]
    BY <1>f, <1>2 DEF Frames, CompleteFlush
  <2>2. /\ frame'[t].flushes = Tail(frame[t].flushes) /\ frame'[t].op = frame[t].op
    <3>1. Continue(t, [frame[t] EXCEPT !.flushes = Tail(@), !.won = win])
      BY <1>2 DEF CompleteFlush
    <3> HIDE DEF op, win
    <3>2. frame'[t] = [frame[t] EXCEPT !.flushes = Tail(@), !.won = win]
      BY <3>1, ContinueEffect
    <3> QED
      BY <1>f, <3>2 DEF Frames
  <2>3. \A o \in Ops : Has(frame[t], o) <=> o = op \/ Has(frame'[t], o)
    BY <2>1, <2>2, TailHas DEF Has
  <2> HIDE DEF op, Has
  <2>4. ASSUME NEW u \in Threads \ {t}, Activating(u)
        PROVE  /\ container'[frame[u].op] = "Incomplete" /\ frame[u].op \notin queued'
               /\ ~Has(frame'[t], frame[u].op)
    <3>1. frame[u].op \in Ops
      BY <2>4, ActivatingOp
    <3>2. /\ container[frame[u].op] = "Incomplete" /\ frame[u].op \notin queued
          /\ ~Has(frame[t], frame[u].op)
      BY <2>4 DEF ActivationPending
    <3>3. frame[u].op # op /\ ~Has(frame'[t], frame[u].op)
      BY <2>3, <3>1, <3>2
    <3> QED
      BY <1>1, <2>1, <3>1, <3>2, <3>3 DEF TypeOK
  <2> QED
    BY <1>1, <2>4, OthersActivation
<1>3. CASE ~CompleteFlush(t)
  <2>1. UNCHANGED container
    BY <1>3 DEF Works, InvokeResult, ReleaseLocalRef, ResolveFlush, ReleaseContinuation,
                CloseInternally, DropHandle, opVars
  <2>2. \E f \in {[frame[t] EXCEPT !.resp = 0], [frame[t] EXCEPT !.tokenRef = FALSE],
                  [frame[t] EXCEPT !.won = 0], [frame[t] EXCEPT !.release = FALSE],
                  [frame[t] EXCEPT !.close = FALSE], [frame[t] EXCEPT !.drop = FALSE]} :
            Continue(t, f)
    BY <1>3 DEF Works, InvokeResult, ReleaseLocalRef, ResolveFlush, ReleaseContinuation,
                CloseInternally, DropHandle
  <2>3. frame'[t].op = frame[t].op /\ frame'[t].flushes = frame[t].flushes
    BY <1>f, <2>2, ContinueEffect DEF Frames
  <2>4. \A o : Has(frame'[t], o) <=> Has(frame[t], o)
    BY <2>3 DEF Has
  <2> HIDE DEF Has
  <2> QED
    BY <1>1, <2>1, <2>4, QuietActivation
<1> QED
  BY <1>2, <1>3

(* The call returns: its own operation is no other activation's.           *)
LEMMA ReturnsActivation ==
    ASSUME TypeOK, WorkInOrder, PromiseInv, ActivationPending, NEW t \in Threads, Returns(t)
    PROVE  ActivationPending'
<1>f. frame[t] \in Frames /\ frame[t].op \in Op0
  BY DEF TypeOK, ThreadsOK, Frames
<1>1. /\ Others(t) /\ ~Activating(t)' /\ frame'[t].op = 0
      /\ frame'[t].flushes \in {<<>>, Flushes(frame[t].op)}
  BY ReturnEffect DEF NoCall, Activating
<1>2. UNCHANGED container
  BY DEF Returns, ActivateAccepted, ActivateRollback, SendAccepted, SendFails, CloseRollback, opVars
<1>3. queued' \ queued \subseteq {frame[t].op}
  BY DEF Returns, ActivateAccepted, ActivateRollback, SendAccepted, SendFails, CloseRollback,
         clibVars
<1>4. \A o \in Ops : Has(frame'[t], o) => o = frame[t].op
  <2>1. \A o \in Ops : /\ ~InFlushes(o, <<>>)
                       /\ InFlushes(o, Flushes(frame[t].op)) => o = frame[t].op
    BY <1>f, FlushesHave
  <2> QED
    BY <1>1, <2>1, OpsNotNull DEF Has
<1>5. ASSUME NEW u \in Threads \ {t}, Activating(u)
      PROVE  frame[u].op # frame[t].op /\ frame[u].op \in Ops
  BY <1>5, ActivatingOp DEF ActivationPending, Has
<1> HIDE DEF Has
<1> QED
  BY <1>1, <1>2, <1>3, <1>4, <1>5, QuietActivation

LEMMA NextActivation ==
    ASSUME TypeOK, TypeOK', WorkInOrder, OneShutDown, StreamInv, StreamInv', PromiseInv,
           ActivationPending, [Next]_vars
    PROVE  ActivationPending'
<1>l. Loop \in Threads /\ AppThreads \subseteq Threads /\ Inner \in Threads
  BY ThreadsOfLoop
<1>a. token # "fresh" \/ shutDown # "no" => \A u \in Threads : ~Activating(u)
  BY DEF StreamInv, OneActivation
<1>b. token' # "fresh" \/ shutDown' # "no" => \A u \in Threads : ~Activating(u)'
  BY DEF StreamInv, OneActivation
<1>1. ASSUME NEW t \in AppThreads \cup {Inner}, ShutDown(t) PROVE ActivationPending'
  BY <1>1, <1>b, NoActivation DEF ShutDown
<1>2. ASSUME NEW t \in Threads, SendFails(t), frame[t].kind # "send" PROVE ActivationPending'
  <2>1. UNCHANGED <<container, queued>>
    BY <1>2 DEF SendFails, opVars, clibVars
  <2>2. Others(t) /\ frame'[t] = frame[t] /\ ~Activating(t)'
    BY <1>2, CloseFailsEffect DEF Activating
  <2> QED
    BY <2>1, <2>2, QuietActivation
<1>3. ASSUME NEW t \in Threads, ShutDownGather(t) PROVE ActivationPending'
  <2>1. shutDown # "no" /\ UNCHANGED shutDown
    BY <1>3, <1>l, GatherEffect DEF ShutDownGather, OneShutDown, Leaving
  <2> QED
    BY <1>b, <2>1, NoActivation
<1>4. CASE OnClosed
  BY <1>4, <1>b, NoActivation DEF OnClosed
<1>5. ASSUME NEW t \in Threads, CloseInternally(t), CanClose PROVE ActivationPending'
  <2>1. UNCHANGED <<container, queued>>
    BY <1>5 DEF CloseInternally, BeginClose, opVars, clibVars
  <2>2. /\ Others(t) /\ ~Activating(t)' /\ frame'[t].op = frame[t].op
        /\ frame'[t].flushes = frame[t].flushes
    BY <1>5, CloseInternallyEffect DEF NoOps, Activating
  <2>3. \A o : Has(frame'[t], o) <=> Has(frame[t], o)
    BY <2>2 DEF Has
  <2> HIDE DEF Has
  <2> QED
    BY <2>1, <2>2, <2>3, QuietActivation
<1>6. CASE EnterHandler \/ \E b \in BOOLEAN : LeaveHandler(b)
  <2>1. UNCHANGED <<container, queued>>
    BY <1>6 DEF EnterHandler, LeaveHandler, opVars, clibVars
  <2>2. /\ Others(Loop) /\ ~Activating(Loop)' /\ frame'[Loop].op = frame[Loop].op
        /\ frame'[Loop].flushes = frame[Loop].flushes
    BY <1>6, HandlerEffect DEF NoOps, NoCall, Activating
  <2>3. \A o : Has(frame'[Loop], o) <=> Has(frame[Loop], o)
    BY <2>2 DEF Has
  <2> HIDE DEF Has
  <2> QED
    BY <1>l, <2>1, <2>2, <2>3, QuietActivation
<1>7. CASE ClosedReturns
  BY <1>7, <1>b, NoActivation DEF ClosedReturns
<1>8. ASSUME NEW m \in MessageKinds, NEW b \in BOOLEAN, OnMessage(m, b) PROVE ActivationPending'
  BY <1>8, <1>b, NoActivation DEF OnMessage
<1>9. ASSUME NEW op \in Ops, MessageFlushed(op) PROVE ActivationPending'
  <2>1. UNCHANGED container /\ op \in queued /\ queued' = queued \ {op}
    BY <1>9 DEF MessageFlushed, opVars
  <2>2. /\ Others(Loop) /\ ~Activating(Loop)' /\ frame'[Loop].op = 0
        /\ frame'[Loop].flushes = <<op>>
    BY <1>9, FlushedEffect DEF NoCall, Activating
  <2>3. \A o \in Ops : Has(frame'[Loop], o) => o = op
    BY <2>2, FlushesHave, OpsNotNull DEF Has, Op0
  <2>4. \A u \in Threads : Activating(u) => frame[u].op \in Ops
    BY ActivatingOp
  <2> HIDE DEF Has
  <2> QED
    BY <1>l, <2>1, <2>2, <2>3, <2>4, QuietActivation
<1>10. CASE RunReleaseTask \/ UNCHANGED vars
  <2>1. UNCHANGED <<container, queued, pc, frame>>
    BY <1>10 DEF RunReleaseTask, vars, threadVars, opVars, clibVars
  <2> QED
    BY <2>1 DEF ActivationPending, Activating, Has
<1> QED
  BY <1>l, <1>1, <1>2, <1>3, <1>4, <1>5, <1>6, <1>7, <1>8, <1>9, <1>10, StepCases,
     CallsActivation, ReturnsActivation, WorksActivation

(* Only InvokeResult works while there is a result callback to call.       *)
LEMMA WorksReporter ==
    ASSUME TypeOK, WorkInOrder, NEW t \in Threads, Works(t)
    PROVE  frame'[t].resp = 0
<1>f. frame[t] \in Frames
  BY DEF TypeOK, ThreadsOK
<1>1. CASE InvokeResult(t)
  <2>1. frame'[t] = [frame[t] EXCEPT !.resp = 0]
    BY <1>1, ContinueEffect DEF InvokeResult
  <2> QED
    BY <1>f, <2>1 DEF Frames
<1>2. CASE CompleteFlush(t)
  <2> DEFINE win == IF Wins(Head(frame[t].flushes)) THEN Head(frame[t].flushes) ELSE 0
  <2>1. /\ Continue(t, [frame[t] EXCEPT !.flushes = Tail(@), !.won = win])
        /\ frame[t].resp = 0
    BY <1>2 DEF CompleteFlush, LocalRefDone, ResultDone
  <2> HIDE DEF win
  <2>2. frame'[t] = [frame[t] EXCEPT !.flushes = Tail(@), !.won = win]
    BY <2>1, ContinueEffect
  <2> QED
    BY <1>f, <2>1, <2>2 DEF Frames
<1>3. CASE ~InvokeResult(t) /\ ~CompleteFlush(t)
  <2>1. frame[t].resp = 0
    BY <1>3 DEF Works, ReleaseLocalRef, ResolveFlush, ReleaseContinuation, CloseInternally,
                DropHandle, CloseDone, ReleaseDone, FlushesDone, LocalRefDone, ResultDone
  <2>2. \E f \in {[frame[t] EXCEPT !.tokenRef = FALSE], [frame[t] EXCEPT !.won = 0],
                  [frame[t] EXCEPT !.release = FALSE], [frame[t] EXCEPT !.close = FALSE],
                  [frame[t] EXCEPT !.drop = FALSE]} : Continue(t, f)
    BY <1>3 DEF Works, ReleaseLocalRef, ResolveFlush, ReleaseContinuation, CloseInternally,
                DropHandle
  <2> QED
    BY <1>f, <2>1, <2>2, ContinueEffect DEF Frames
<1> QED
  BY <1>1, <1>2, <1>3

LEMMA OthersReporter ==
    ASSUME ReporterKeepsAlive, NEW t \in Threads, Others(t),
           frame'[t].resp # 0 => frame'[t].drop \/ (t = Loop /\ token' \in {"open", "closing"}),
           t # Loop /\ token \in {"open", "closing"} => token' \in {"open", "closing"}
    PROVE  ReporterKeepsAlive'
BY DEF ReporterKeepsAlive, Others

LEMMA NextReporter ==
    ASSUME TypeOK, WorkInOrder, ReporterKeepsAlive, [Next]_vars PROVE ReporterKeepsAlive'
<1>l. Loop \in Threads /\ AppThreads \subseteq Threads /\ Inner \in Threads
  BY ThreadsOfLoop
<1>1. ASSUME NEW t \in AppThreads, Refused(t) \/ Activate(t) \/ SendStreamMessage(t) \/ Close(t)
      PROVE  ReporterKeepsAlive'
  <2>1. UNCHANGED token
    BY <1>1 DEF Refused, Activate, SendStreamMessage, Close, BeginClose, clibVars
  <2>2. Others(t) /\ frame'[t].resp = 0
    BY <1>1, <1>l, RefusedEffect, CallsEffect DEF NoOps
  <2> QED
    BY <1>l, <2>1, <2>2, OthersReporter
<1>2. ASSUME NEW t \in AppThreads \cup {Inner}, ShutDown(t) PROVE ReporterKeepsAlive'
  <2>1. UNCHANGED token
    BY <1>2 DEF ShutDown, clibVars
  <2>2. Others(t) /\ frame'[t].resp = 0
    BY <1>2, ShutDownEffect, NoWorkFields DEF NoOps
  <2> QED
    BY <1>l, <2>1, <2>2, OthersReporter
<1>3. ASSUME NEW t \in Threads, Returns(t) PROVE ReporterKeepsAlive'
  <2>1. token \in {"open", "closing"} => token' \in {"open", "closing"}
    BY <1>3 DEF Returns, ActivateAccepted, ActivateRollback, SendAccepted, SendFails,
                CloseRollback, clibVars
  <2>2. Others(t) /\ frame'[t].resp = 0
    BY <1>3, ReturnEffect
  <2> QED
    BY <2>1, <2>2, OthersReporter
<1>4. ASSUME NEW t \in Threads, SendFails(t), frame[t].kind # "send" PROVE ReporterKeepsAlive'
  <2>1. UNCHANGED token
    BY <1>4 DEF SendFails, clibVars
  <2>2. Others(t) /\ frame'[t].resp = 0
    BY <1>4, CloseFailsEffect DEF WorkInOrder, InCall, OnlyCall
  <2> QED
    BY <2>1, <2>2, OthersReporter
<1>5. ASSUME NEW t \in Threads, ShutDownGather(t) PROVE ReporterKeepsAlive'
  <2>1. UNCHANGED token
    BY <1>5 DEF ShutDownGather, clibVars
  <2>2. Others(t) /\ frame'[t].drop
    BY <1>5, GatherEffect
  <2> QED
    BY <2>1, <2>2, OthersReporter
<1>6. ASSUME NEW t \in Threads, CloseInternally(t), CanClose PROVE ReporterKeepsAlive'
  <2>1. UNCHANGED token
    BY <1>6 DEF CloseInternally, BeginClose, clibVars
  <2>2. Others(t) /\ frame'[t].resp = 0
    BY <1>6, CloseInternallyEffect DEF NoOps
  <2> QED
    BY <2>1, <2>2, OthersReporter
<1>7. ASSUME NEW t \in Threads, Works(t) PROVE ReporterKeepsAlive'
  <2>1. UNCHANGED token /\ Others(t) /\ frame'[t].resp = 0
    BY <1>7, WorksEffect, WorksReporter DEF clibVars
  <2> QED
    BY <2>1, OthersReporter
<1>8. CASE (EnterHandler \/ \E b \in BOOLEAN : LeaveHandler(b)) \/ ClosedReturns
  <2>1. Others(Loop) /\ frame'[Loop].resp = 0
    BY <1>8, HandlerEffect, ClosedReturnsEffect DEF NoOps
  <2> QED
    BY <1>l, <2>1, OthersReporter
<1>9. CASE OnClosed
  <2>1. Others(Loop) /\ token' = "closing"
    BY <1>9, OnClosedEffect DEF OnClosed
  <2> QED
    BY <1>l, <2>1, OthersReporter
<1>10. ASSUME NEW m \in MessageKinds, NEW b \in BOOLEAN, OnMessage(m, b)
       PROVE  ReporterKeepsAlive'
  <2>1. Others(Loop) /\ token' = "open"
    BY <1>10, OnMessageEffect DEF OnMessage
  <2> QED
    BY <1>l, <2>1, OthersReporter
<1>11. ASSUME NEW op \in Ops, MessageFlushed(op) PROVE ReporterKeepsAlive'
  <2>1. Others(Loop) /\ frame'[Loop].resp = 0
    BY <1>11, FlushedEffect
  <2> QED
    BY <1>l, <2>1, OthersReporter
<1>12. CASE RunReleaseTask \/ UNCHANGED vars
  <2>1. UNCHANGED <<token, pc, frame>>
    BY <1>12 DEF RunReleaseTask, vars, threadVars, clibVars
  <2> QED
    BY <2>1 DEF ReporterKeepsAlive
<1> QED
  BY <1>1, <1>2, <1>3, <1>4, <1>5, <1>6, <1>7, <1>8, <1>9, <1>10, <1>11, <1>12, StepCases

LEMMA InitContract == Init => ContractInv
<1> SUFFICES ASSUME Init PROVE ContractInv
  OBVIOUS
<1>1. \A t \in Threads : pc[t] = "ready" /\ frame[t].resp = 0
  BY NoWorkFields DEF Init, NoOps
<1> QED
  BY <1>1 DEF ContractInv, ActivationPending, ReporterKeepsAlive, Activating

LEMMA ContractInvHolds == Spec => []ContractInv
<1>1. SafetyInv /\ SafetyInv' /\ ContractInv /\ [Next]_vars => ContractInv'
  BY NextActivation, NextReporter DEF SafetyInv, ContractInv
<1> QED
  BY <1>1, InitContract, Safety, PTL DEF Spec

(* An impl that is gone has nothing left to report and no stream.          *)
LEMMA GoneIsDone ==
    SafetyInv /\ ContractInv /\ ~ImplAlive
      => StreamNow = "over" /\ \A o \in started : results[o] = 1
<1> SUFFICES ASSUME SafetyInv, ContractInv, ~ImplAlive
             PROVE  StreamNow = "over" /\ \A o \in started : results[o] = 1
  OBVIOUS
<1>1. ~handle /\ ~selfReference
  BY DEF ImplAlive
<1>2. token \notin {"open", "closing"} /\ ~(refs > 0)
  BY <1>1 DEF SafetyInv, LifeInv, SelfOwned
<1>3. StreamNow = "over"
  BY <1>2, SharedReference DEF SafetyInv, StreamNow
<1>4. ASSUME NEW o \in started, results[o] # 1 PROVE FALSE
  <2>1. o \in Ops /\ results[o] = 0 /\ o # 0
    BY <1>4, OpsNotNull DEF SafetyInv, TypeOK, ResultInv, ResultFor
  <2>2. token = "closed" /\ shared.activationResponse = 0
    BY <1>2, <1>4, <2>1 DEF SafetyInv, ResultInv, TypeOK
  <2>3. ResultFor(o) /\ ~Kept(o)
    BY <2>1, <2>2 DEF SafetyInv, ResultInv, Kept
  <2>4. PICK t \in Threads : frame[t].resp = o
    BY <1>4, <2>1, <2>3 DEF ResultFor
  <2>5. frame[t].drop
    BY <2>1, <2>2, <2>4 DEF ContractInv, ReporterKeepsAlive
  <2> QED
    BY <1>1, <2>5 DEF SafetyInv, OneShutDown, Leaving
<1> QED
  BY <1>3, <1>4

-----------------------------------------------------------------------------
(* The actions of the contract, told by the stream and by the counts of    *)
(* answers and results.                                                    *)

CallsMade == {o \in Ops : container[o] # "none"}
CallsStay == CallsMade' = CallsMade
Stays == StreamNow' = StreamNow /\ ImplAlive' = ImplAlive

LEMMA OperationStutters ==
    ASSUME CallsStay, Stays, UNCHANGED <<resolved, started, results>>
    PROVE  UNCHANGED Operation!vars
BY DEF CallsStay, CallsMade, Stays, Operation!vars

LEMMA OperationCalls ==
    ASSUME NEW k \in Ops, ImplAlive, Stays, UNCHANGED <<resolved, started, results>>,
           k \notin CallsMade, CallsMade' = CallsMade \cup {k}
    PROVE  Operation!Call(k)
BY DEF Stays, CallsMade, Operation!Call

LEMMA OperationOpens ==
    ASSUME NEW k \in Ops, CallsStay, ImplAlive' = ImplAlive, UNCHANGED <<resolved, results>>,
           StreamNow = "fresh", StreamNow' = "open",
           k \in CallsMade \ started, resolved[k] = 0, started' = started \cup {k}
    PROVE  Operation!Open(k)
BY DEF CallsStay, CallsMade, Operation!Open

LEMMA OperationEnds ==
    ASSUME CallsStay, UNCHANGED <<resolved, started, results>>, ImplAlive' = ImplAlive,
           StreamNow # "over", StreamNow' = "over"
    PROVE  Operation!End
BY DEF CallsStay, CallsMade, Operation!End

LEMMA OperationAnswers ==
    ASSUME NEW k \in Ops, CallsStay, Stays, UNCHANGED <<started, results>>,
           k \in CallsMade, resolved[k] = 0, resolved' = [resolved EXCEPT ![k] = @ + 1]
    PROVE  Operation!Answer(k)
BY DEF CallsStay, CallsMade, Stays, Operation!Answer

LEMMA OperationReports ==
    ASSUME NEW k \in Ops, CallsStay, Stays, UNCHANGED <<resolved, started>>,
           k \in started, results[k] = 0, results' = [results EXCEPT ![k] = @ + 1]
    PROVE  Operation!Report(k)
BY DEF CallsStay, CallsMade, Stays, Operation!Report

(* The last of handle and self reference goes when all is done.            *)
LEMMA OperationFrees ==
    ASSUME SafetyInv', ContractInv', CallsStay, UNCHANGED <<resolved, started, results>>,
           StreamNow' = StreamNow, handle' => handle, selfReference' => selfReference,
           TypeOK
    PROVE  Operation!Next \/ UNCHANGED Operation!vars
<1>0. handle \in BOOLEAN /\ selfReference \in BOOLEAN
      /\ handle' \in BOOLEAN /\ selfReference' \in BOOLEAN
  BY DEF TypeOK, SafetyInv
<1>1. CASE ImplAlive' = ImplAlive
  BY <1>1, OperationStutters DEF Stays
<1>2. CASE ImplAlive' # ImplAlive
  <2>1. ImplAlive /\ ~ImplAlive'
    BY <1>0, <1>2 DEF ImplAlive
  <2>2. StreamNow' = "over" /\ \A o \in started' : results'[o] = 1
    <3>1. (SafetyInv /\ ContractInv /\ ~ImplAlive
            => StreamNow = "over" /\ \A o \in started : results[o] = 1)'
      BY GoneIsDone, PTL
    <3> QED
      BY <2>1, <3>1
  <2>3. StreamNow = "over" /\ \A o \in started : results[o] = 1
    BY <2>2
  <2>4. Operation!Free
    BY <2>1, <2>3 DEF CallsStay, CallsMade, Operation!Free
  <2> QED
    BY <2>4 DEF Operation!Next
<1> QED
  BY <1>1, <1>2

-----------------------------------------------------------------------------
(* Every step is one of the contract's, or a stutter.                      *)

MapsKept ==
    /\ UNCHANGED <<container, resolved, started, results>>
    /\ token' = "open" <=> token = "open"
    /\ shared'.continuation = shared.continuation

LEMMA MapsKeptStay ==
    MapsKept => CallsStay /\ StreamNow' = StreamNow /\ UNCHANGED <<resolved, started, results>>
BY DEF MapsKept, CallsStay, CallsMade, StreamNow

LEMMA QuietOperation ==
    ASSUME MapsKept, UNCHANGED <<handle, selfReference>> PROVE UNCHANGED Operation!vars
BY MapsKeptStay, OperationStutters DEF Stays, ImplAlive

LEMMA DroppingOperation ==
    ASSUME TypeOK, SafetyInv', ContractInv', MapsKept,
           handle' => handle, selfReference' => selfReference
    PROVE  Operation!Next \/ UNCHANGED Operation!vars
BY MapsKeptStay, OperationFrees

LEMMA CallsOperation ==
    ASSUME SafetyInv, NEW t \in AppThreads,
           Refused(t) \/ Activate(t) \/ SendStreamMessage(t) \/ Close(t)
    PROVE  Operation!Next
<1>n. NewOp /\ handle /\ ops \in Nat /\ ops + 1 \in Ops
  BY ContinuationAssumption
     DEF Refused, Activate, SendStreamMessage, Close, MayCall, NewOp, SafetyInv, TypeOK, Ops
<1>1. /\ container' = [container EXCEPT ![ops + 1] = "Incomplete"] /\ DOMAIN container = Ops
      /\ UNCHANGED <<resolved, results>>
  BY <1>n DEF NewOp, SafetyInv, TypeOK
<1>2. UNCHANGED <<started, token, handle, selfReference>>
  BY DEF Refused, Activate, SendStreamMessage, Close, BeginClose, implVars, clibVars, refVars
<1>3. shared'.continuation = shared.continuation
  BY DEF Refused, Activate, SendStreamMessage, Close, BeginClose, implVars, SafetyInv, TypeOK,
         SharedStates
<1>4. Stays /\ ImplAlive
  BY <1>n, <1>2, <1>3 DEF Stays, StreamNow, ImplAlive
<1>5. PICK k \in Ops : k = ops + 1
  BY <1>n
<1>6. container[k] = "none"
  BY <1>n, <1>5 DEF SafetyInv, PromiseInv, OpsKnown
<1>7. k \notin CallsMade /\ CallsMade' = CallsMade \cup {k}
  BY <1>1, <1>5, <1>6 DEF CallsMade
<1> QED
  BY <1>1, <1>2, <1>4, <1>7, OperationCalls DEF Operation!Next

LEMMA ReturnsOperation ==
    ASSUME SafetyInv, ContractInv, NEW t \in Threads, Returns(t)
    PROVE  Operation!Next \/ UNCHANGED Operation!vars
<1>1. CASE ActivateAccepted(t)
  <2>1. Activating(t)
    BY <1>1 DEF ActivateAccepted, Activating
  <2>2. PICK k \in Ops : k = frame[t].op
    BY <2>1, ActivatingOp DEF SafetyInv
  <2>3. /\ token = "fresh" /\ shared.currentState # "Closed"
        /\ started = {} /\ results[k] = 0
    BY <2>1, <2>2 DEF SafetyInv, StreamInv, OneActivation, ResultInv, ResultFor
  <2>4. /\ token' = "open" /\ started' = {k}
        /\ UNCHANGED <<shared, container, resolved, results, handle, selfReference>>
    BY <1>1, <2>2, <2>3 DEF ActivateAccepted, implVars, opVars, refVars
  <2>5. shared.continuation
    BY <2>3 DEF SafetyInv, StreamInv, StateMatchesToken
  <2>6. CallsStay /\ ImplAlive' = ImplAlive
    BY <2>4 DEF CallsStay, CallsMade, ImplAlive
  <2>7. StreamNow = "fresh" /\ StreamNow' = "open"
    BY <2>3, <2>4, <2>5 DEF StreamNow
  <2>8. container[k] = "Incomplete"
    BY <2>1, <2>2 DEF ContractInv, ActivationPending
  <2>9. k \in CallsMade \ started /\ resolved[k] = 0 /\ started' = started \cup {k}
    BY <2>3, <2>4, <2>8 DEF SafetyInv, PromiseInv, PromiseFor, CallsMade
  <2> QED
    BY <2>4, <2>6, <2>7, <2>9, OperationOpens DEF Operation!Next
<1>2. CASE ~ActivateAccepted(t)
  <2>1. UNCHANGED <<container, resolved, started, results, token, handle, selfReference>>
    BY <1>2 DEF Returns, ActivateRollback, SendAccepted, SendFails, CloseRollback, implVars,
                opVars, clibVars, refVars
  <2>2. shared'.continuation = shared.continuation
    BY <1>2 DEF Returns, ActivateRollback, SendAccepted, SendFails, CloseRollback, implVars,
                DropActivation, SafetyInv, TypeOK, SharedStates
  <2> QED
    BY <2>1, <2>2, QuietOperation DEF MapsKept
<1> QED
  BY <1>1, <1>2

(* ShutDown of a stream that was never activated, and OnClosed.            *)
LEMMA EndsOperation ==
    ASSUME SafetyInv, (\E t \in Threads : ShutDownGather(t)) \/ OnClosed
    PROVE  Operation!Next \/ UNCHANGED Operation!vars
<1>1. UNCHANGED <<container, resolved, started, results, handle, selfReference>>
  BY DEF ShutDownGather, OnClosed, implVars, opVars, clibVars, refVars
<1>2. CallsStay /\ ImplAlive' = ImplAlive
  BY <1>1 DEF CallsStay, CallsMade, ImplAlive
<1>3. CASE OnClosed
  <2>1. token = "open" /\ token' = "closing" /\ ~shared'.continuation
    BY <1>3 DEF OnClosed, DropActivation, SafetyInv, TypeOK, SharedStates
  <2>2. StreamNow = "open" /\ StreamNow' = "over"
    BY <2>1 DEF StreamNow
  <2> QED
    BY <1>1, <1>2, <2>2, OperationEnds DEF Operation!Next
<1>4. ASSUME NEW t \in Threads, ShutDownGather(t), shared.currentState = "None"
      PROVE  Operation!Next
  <2>1. /\ token = "fresh" /\ token' = "fresh"
        /\ shared.continuation /\ ~shared'.continuation
    BY <1>4 DEF ShutDownGather, DropActivation, clibVars, SafetyInv, StreamInv,
                StateMatchesToken, TypeOK, SharedStates
  <2>2. StreamNow = "fresh" /\ StreamNow' = "over"
    BY <2>1 DEF StreamNow
  <2> QED
    BY <1>1, <1>2, <2>2, OperationEnds DEF Operation!Next
<1>5. ASSUME NEW t \in Threads, ShutDownGather(t), shared.currentState # "None"
      PROVE  UNCHANGED Operation!vars
  <2>1. UNCHANGED token /\ shared'.continuation = shared.continuation
    BY <1>5 DEF ShutDownGather, DropActivation, clibVars, SafetyInv, TypeOK, SharedStates
  <2> QED
    BY <1>1, <2>1, QuietOperation DEF MapsKept
<1> QED
  BY <1>3, <1>4, <1>5

LEMMA WorksOperation ==
    ASSUME SafetyInv, SafetyInv', ContractInv', NEW t \in Threads, Works(t)
    PROVE  Operation!Next \/ UNCHANGED Operation!vars
<1>0. /\ UNCHANGED <<shared, token, started>> /\ frame[t] \in Frames
      /\ TypeOK
  BY WorksEffect DEF SafetyInv, clibVars, TypeOK, ThreadsOK
<1>1. CASE InvokeResult(t)
  <2>1. PICK k \in Ops : k = frame[t].resp
    BY <1>0, <1>1 DEF InvokeResult, Frames, Op0
  <2>2. /\ results' = [results EXCEPT ![k] = @ + 1]
        /\ UNCHANGED <<container, resolved, handle, selfReference>>
    BY <1>1, <2>1 DEF InvokeResult, implVars, refVars
  <2>3. k \in started /\ results[k] = 0
    BY <2>1 DEF SafetyInv, ResultInv, ResultFor, NoHolder
  <2>4. CallsStay /\ Stays
    BY <1>0, <2>2 DEF CallsStay, CallsMade, Stays, StreamNow, ImplAlive
  <2> QED
    BY <1>0, <2>2, <2>3, <2>4, OperationReports DEF Operation!Next
<1>2. CASE ResolveFlush(t)
  <2>1. PICK k \in Ops : k = frame[t].won
    BY <1>0, <1>2 DEF ResolveFlush, Frames, Op0
  <2>2. /\ resolved' = [resolved EXCEPT ![k] = @ + 1]
        /\ UNCHANGED <<container, results, handle, selfReference>>
    BY <1>2, <2>1 DEF ResolveFlush, implVars, refVars
  <2>3. container[k] = "Finished" /\ resolved[k] = 0
    BY <2>1 DEF SafetyInv, PromiseInv, PromiseFor, NoWinner, TypeOK
  <2>4. CallsStay /\ Stays /\ k \in CallsMade
    BY <1>0, <2>2, <2>3 DEF CallsStay, CallsMade, Stays, StreamNow, ImplAlive
  <2> QED
    BY <1>0, <2>2, <2>3, <2>4, OperationAnswers DEF Operation!Next
<1>3. CASE CompleteFlush(t)
  <2>1. PICK k \in Ops : k = Head(frame[t].flushes)
    BY <1>0, <1>3 DEF CompleteFlush, Frames
  <2>2. /\ container' = [container EXCEPT ![k] = "Finished"]
        /\ UNCHANGED <<resolved, results, handle, selfReference>>
    BY <1>3, <2>1 DEF CompleteFlush, implVars, refVars
  <2>3. container[k] # "none"
    <3>1. frame[t].flushes \in Seq(Ops) /\ frame[t].flushes # <<>>
      BY <1>0, <1>3 DEF CompleteFlush, Frames
    <3>2. Has(frame[t], k)
      BY <2>1, <3>1, TailHas DEF Has
    <3>3. k <= ops /\ k \in Nat /\ ops \in Nat
      BY <3>2 DEF SafetyInv, PromiseInv, OpsKnown, TypeOK, Ops
    <3> QED
      BY <3>3 DEF SafetyInv, PromiseInv, OpsKnown
  <2>4. \A o \in Ops : container'[o] = "none" <=> container[o] = "none"
    BY <2>2, <2>3 DEF SafetyInv, TypeOK
  <2>5. CallsStay /\ Stays
    BY <1>0, <2>2, <2>4 DEF CallsStay, CallsMade, Stays, StreamNow, ImplAlive
  <2> QED
    BY <1>0, <2>2, <2>5, OperationStutters
<1>4. CASE ReleaseLocalRef(t) \/ DropHandle(t)
  <2>1. UNCHANGED <<container, resolved, results>>
    BY <1>4 DEF ReleaseLocalRef, DropHandle, opVars
  <2>2. (handle' => handle) /\ (selfReference' => selfReference)
    <3>1. CASE ReleaseLocalRef(t)
      BY <3>1 DEF ReleaseLocalRef, DropTokenRef, implVars
    <3>2. CASE DropHandle(t)
      BY <3>2 DEF DropHandle, refVars
    <3> QED
      BY <1>4, <3>1, <3>2
  <2> QED
    BY <1>0, <2>1, <2>2, DroppingOperation DEF MapsKept
<1>5. CASE ReleaseContinuation(t) \/ (CloseInternally(t) /\ ~CanClose)
  <2>1. UNCHANGED <<container, resolved, results, handle, selfReference>>
    BY <1>5 DEF ReleaseContinuation, CloseInternally, implVars, opVars, refVars
  <2> QED
    BY <1>0, <2>1, QuietOperation DEF MapsKept
<1> QED
  BY <1>1, <1>2, <1>3, <1>4, <1>5 DEF Works

LEMMA NextOperation ==
    ASSUME SafetyInv, SafetyInv', ContractInv, ContractInv', [Next]_vars
    PROVE  Operation!Next \/ UNCHANGED Operation!vars
<1>t. TypeOK
  BY DEF SafetyInv
<1>1. CASE \/ \E t \in AppThreads \cup {Inner} : ShutDown(t)
           \/ \E t \in Threads : SendFails(t) /\ frame[t].kind # "send"
           \/ EnterHandler \/ \E b \in BOOLEAN : LeaveHandler(b)
  <2>1. UNCHANGED <<container, resolved, started, results, token, shared, handle, selfReference>>
    BY <1>1 DEF ShutDown, SendFails, EnterHandler, LeaveHandler, implVars, opVars, clibVars,
                refVars
  <2> QED
    BY <2>1, QuietOperation DEF MapsKept
<1>2. ASSUME NEW t \in Threads, CloseInternally(t), CanClose PROVE UNCHANGED Operation!vars
  <2>1. UNCHANGED <<container, resolved, started, results, token, handle, selfReference>>
    BY <1>2 DEF CloseInternally, BeginClose, opVars, clibVars
  <2>2. shared'.continuation = shared.continuation
    BY <1>2, <1>t DEF CloseInternally, BeginClose, TypeOK, SharedStates
  <2> QED
    BY <2>1, <2>2, QuietOperation DEF MapsKept
<1>3. ASSUME NEW m \in MessageKinds, NEW b \in BOOLEAN, OnMessage(m, b)
      PROVE  UNCHANGED Operation!vars
  <2>1. UNCHANGED <<container, resolved, started, results, token, handle, selfReference>>
    BY <1>3 DEF OnMessage, opVars, refVars
  <2>2. shared'.continuation = shared.continuation
    <3>1. CASE shared.currentState = "PendingActivate"
      BY <1>3, <1>t, <3>1 DEF OnMessage, DropActivation, TypeOK, SharedStates
    <3>2. CASE shared.currentState # "PendingActivate"
      BY <1>3, <3>2 DEF OnMessage
    <3> QED
      BY <3>1, <3>2
  <2> QED
    BY <2>1, <2>2, QuietOperation DEF MapsKept
<1>4. CASE (\E op \in Ops : MessageFlushed(op)) \/ UNCHANGED vars
  <2>1. UNCHANGED <<container, resolved, started, results, token, shared, handle, selfReference>>
    BY <1>4 DEF MessageFlushed, vars, implVars, opVars, clibVars, refVars
  <2> QED
    BY <2>1, QuietOperation DEF MapsKept
<1>5. CASE ClosedReturns \/ RunReleaseTask
  <2>1. UNCHANGED <<container, resolved, started, results, shared, handle>>
    BY <1>5 DEF ClosedReturns, RunReleaseTask, implVars, opVars, clibVars
  <2>2. selfReference' => selfReference
    BY <1>5 DEF ClosedReturns, RunReleaseTask, DropTokenRef
  <2>3. token' = "open" <=> token = "open"
    <3>1. CASE ClosedReturns
      BY <3>1, ClosedReturnsEffect, ThreadsOfLoop DEF ClosedReturns, SafetyInv, StreamInv, LoopBusy
    <3>2. CASE RunReleaseTask
      BY <3>2 DEF RunReleaseTask, clibVars
    <3> QED
      BY <1>5, <3>1, <3>2
  <2> QED
    BY <1>t, <2>1, <2>2, <2>3, DroppingOperation DEF MapsKept
<1> QED
  BY <1>1, <1>2, <1>3, <1>4, <1>5, StepCases, CallsOperation, ReturnsOperation, EndsOperation,
     WorksOperation

(* ClientContinuationImpl keeps the contract of ClientOperation: each call *)
(* is answered at most once, an activation opens the stream while it still *)
(* waits for its answer, and its result is reported, once, before the impl *)
(* is freed, which happens only when its stream is over.                   *)
THEOREM OperationImplemented == Spec => ImplementsOperation
<1>1. Init => Operation!Init
  <2> SUFFICES ASSUME Init PROVE Operation!Init
    OBVIOUS
  <2>1. /\ \A o \in Ops : container[o] = "none"
        /\ started = {} /\ resolved = [o \in Ops |-> 0] /\ results = [o \in Ops |-> 0]
        /\ handle /\ valid \in BOOLEAN /\ shared.continuation = valid
        /\ token = IF valid THEN "fresh" ELSE "none"
    BY DEF Init
  <2>2. StreamNow \in {"fresh", "over"} /\ ImplAlive
    BY <2>1 DEF StreamNow, ImplAlive
  <2> QED
    BY <2>1, <2>2 DEF Operation!Init
<1>2. SafetyInv /\ SafetyInv' /\ ContractInv /\ ContractInv' /\ [Next]_vars
        => [Operation!Next]_(Operation!vars)
  BY NextOperation
<1> QED
  BY <1>1, <1>2, Safety, ContractInvHolds, PTL DEF Spec, ImplementsOperation, Operation!Spec
=============================================================================
