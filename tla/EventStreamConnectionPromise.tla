--------------------- MODULE EventStreamConnectionPromise ---------------------
(***************************************************************************)
(* The connect promise of EventStreamConnection, for any sets of threads   *)
(* and loops and any number of Connect calls: it is kept by exactly one    *)
(* callback context until it has its value, and the value says success     *)
(* only of an attempt the server accepted.                                 *)
(***************************************************************************)
EXTENDS EventStreamConnectionSafety, SequenceTheorems

-----------------------------------------------------------------------------
(* The inductive invariant, on top of SafetyInv.                           *)

(* An attempt nobody asked for has no promise.                             *)
NoPromiseYet == \A k \in Attempts : k > calls => promise[k] = Unset

(* The context shared state keeps is the one currentState calls for, and   *)
(* is about the attempt that is under way.                                 *)
ContextOfState ==
    LET ctx == shared.callbackContext
    IN  /\ ctx.action # "SetConnectPromise"
        /\ shared.currentState = "Disconnected" \/ shared.hasShutDown => ctx.action = "None"
        /\ shared.currentState \in {"PendingConnect", "PendingConnack"} /\ ~shared.hasShutDown
              => ctx.action = "CompleteConnectPromise"
        /\ shared.hasShutDown => shared.desiredState = "Disconnected"
        /\ ctx.action # "None" =>
              /\ \A t \in Threads : pc[t] = "connect" => ctx.attempt = frame[t].k
              /\ \A k \in Attempts : InCLayer(k) => ctx.attempt = k

(* Work lists are only overwritten when no callback is left in them.       *)
NoCallbackLost == \A t \in Threads : pc[t] # "work" => frame[t].ctx.action = "None"

(* A thread on its way to report success does so of an accepted attempt.   *)
Earned(ctx) ==
    ctx.action \in {"CompleteConnectPromise", "SetConnectPromise"} /\ ctx.error = Success
        => ctx.attempt \in accepted
SuccessEarned == \A t \in Threads : Earned(frame[t].ctx)

PromiseInv ==
    /\ NoPromiseYet /\ ContextOfState /\ NoCallbackLost /\ SuccessEarned
    /\ ConnectPromiseHeldOnce /\ SuccessOnlyIfAccepted

-----------------------------------------------------------------------------
(* Who holds a promise.                                                    *)

(* ConnectPromiseHeldOnce of one attempt, without the set of holders.      *)
HeldOnce(k) ==
    LET kept == HoldsPromise(shared.callbackContext, k)
        held(t) == HoldsPromise(frame[t].ctx, k)
    IN  IF promise[k] = Pending
        THEN \/ kept /\ \A t \in Threads : ~held(t)
             \/ ~kept /\ \E t \in Threads : \A u \in Threads : held(u) <=> u = t
        ELSE ~kept /\ \A t \in Threads : ~held(t)

LEMMA HeldOnceMeaning == ConnectPromiseHeldOnce <=> \A k \in Attempts : HeldOnce(k)
<1> SUFFICES ASSUME NEW k \in Attempts
             PROVE  LET holders == {t \in Threads : HoldsPromise(frame[t].ctx, k)}
                        kept == HoldsPromise(shared.callbackContext, k)
                    IN  (IF promise[k] = Pending
                         THEN \/ kept /\ holders = {}
                              \/ ~kept /\ \E t \in Threads : holders = {t}
                         ELSE ~kept /\ holders = {}) <=> HeldOnce(k)
  BY DEF ConnectPromiseHeldOnce
<1> DEFINE held(t) == HoldsPromise(frame[t].ctx, k)
           holders == {t \in Threads : held(t)}
<1>1. holders = {} <=> \A t \in Threads : ~held(t)
  OBVIOUS
<1>2. ASSUME NEW t \in Threads
      PROVE  holders = {t} <=> \A u \in Threads : held(u) <=> u = t
  <2> HIDE DEF held
  <2> QED
    OBVIOUS
<1> QED
  BY <1>1, <1>2 DEF HeldOnce

LEMMA HeldOnceNext ==
    ASSUME \A k \in Attempts : HeldOnce(k)' PROVE ConnectPromiseHeldOnce'
<1>1. ConnectPromiseHeldOnce' <=> (\A k \in Attempts : HeldOnce(k))'
  BY HeldOnceMeaning, PTL
<1> QED
  BY <1>1

LEMMA NoContextHolds ==
    /\ NoContext.action = "None" /\ NoWork.ctx = NoContext
    /\ \A k : ~HoldsPromise(NoContext, k)
    /\ Earned(NoContext)
BY DEF NoContext, NoWork, HoldsPromise, Earned

LEMMA SetErrorHolds ==
    ASSUME NEW ctx \in Contexts, NEW e \in RpcErrors, e.base # "SUCCESS"
    PROVE  /\ SetError(ctx, e).action = ctx.action /\ SetError(ctx, e).attempt = ctx.attempt
           /\ SetError(ctx, e).error.base # "SUCCESS"
BY DEF SetError, Contexts, RpcErrors

(* Moving a context out of shared state moves its promise, and a context   *)
(* with an error set earns nothing.                                        *)
LEMMA WorkHolds ==
    ASSUME NEW ctx \in Contexts, NEW e \in RpcErrors, e.base # "SUCCESS",
           ctx.action # "SetConnectPromise"
    PROVE  /\ \A k : HoldsPromise(Work(SetError(ctx, e)), k) <=> HoldsPromise(ctx, k)
           /\ Earned(Work(SetError(ctx, e)))
<1>1. /\ SetError(ctx, e).action = ctx.action /\ SetError(ctx, e).attempt = ctx.attempt
      /\ SetError(ctx, e).error.base # "SUCCESS"
  BY SetErrorHolds
<1>2. Success.base = "SUCCESS"
  BY DEF Success, RpcError
<1> QED
  BY <1>1, <1>2, NoContextHolds DEF Work, HoldsPromise, Earned, NoContext

(* A step of thread t that sets no promise and passes contexts on: an      *)
(* attempt's promise is with shared state or t before and after, or with   *)
(* neither before and after.                                               *)
LEMMA PassOn ==
    ASSUME TypeOK, PromiseInv, NEW t \in Threads,
           \A u \in Threads : u # t => pc'[u] = pc[u] /\ frame'[u] = frame[u],
           UNCHANGED <<promise, calls>>, accepted \subseteq accepted',
           ContextOfState',
           pc'[t] # "work" => frame'[t].ctx.action = "None",
           Earned(frame[t].ctx)',
           \A k \in Attempts :
              LET kept == HoldsPromise(shared.callbackContext, k)
                  held == HoldsPromise(frame[t].ctx, k)
              IN  /\ ~(kept' /\ held')
                  /\ (kept' \/ held') <=> (kept \/ held)
    PROVE  PromiseInv'
<1>1. NoPromiseYet'
  BY DEF PromiseInv, NoPromiseYet
<1>2. NoCallbackLost'
  BY DEF PromiseInv, NoCallbackLost
<1>3. SuccessEarned'
  BY DEF PromiseInv, SuccessEarned, Earned
<1>4. SuccessOnlyIfAccepted'
  BY DEF PromiseInv, SuccessOnlyIfAccepted
<1>5. \A k \in Attempts : HeldOnce(k)'
  <2> SUFFICES ASSUME NEW k \in Attempts PROVE HeldOnce(k)'
    OBVIOUS
  <2> DEFINE kept == HoldsPromise(shared.callbackContext, k)
             held(u) == HoldsPromise(frame[u].ctx, k)
             keptAfter == HoldsPromise(shared'.callbackContext, k)
             heldAfter(u) == HoldsPromise(frame'[u].ctx, k)
  <2>1. \A u \in Threads : u # t => (heldAfter(u) <=> held(u))
    BY DEF HoldsPromise
  <2>2. ~(keptAfter /\ heldAfter(t)) /\ ((keptAfter \/ heldAfter(t)) <=> (kept \/ held(t)))
    BY DEF HoldsPromise
  <2>3. HeldOnce(k)
    BY HeldOnceMeaning DEF PromiseInv
  <2>4. IF promise[k] = Pending
        THEN \/ kept /\ \A u \in Threads : ~held(u)
             \/ ~kept /\ \E w \in Threads : \A u \in Threads : held(u) <=> u = w
        ELSE ~kept /\ \A u \in Threads : ~held(u)
    BY <2>3 DEF HeldOnce
  <2>5. HeldOnce(k)' <=> (IF promise[k] = Pending
        THEN \/ keptAfter /\ \A u \in Threads : ~heldAfter(u)
             \/ ~keptAfter /\ \E w \in Threads : \A u \in Threads : heldAfter(u) <=> u = w
        ELSE ~keptAfter /\ \A u \in Threads : ~heldAfter(u))
    BY DEF HeldOnce, HoldsPromise
  <2> HIDE DEF kept, held, keptAfter, heldAfter
  <2> QED
    BY <2>1, <2>2, <2>4, <2>5
<1>6. ConnectPromiseHeldOnce'
  BY <1>5, HeldOnceNext
<1> QED
  BY <1>1, <1>2, <1>3, <1>4, <1>6 DEF PromiseInv

(* A step of thread t that leaves every promise where it is.               *)
LEMMA NothingPassed ==
    ASSUME TypeOK, PromiseInv, NEW t \in Threads, pc[t] # "work",
           \A u \in Threads : u # t => pc'[u] = pc[u] /\ frame'[u] = frame[u],
           frame'[t].ctx = NoContext,
           UNCHANGED <<promise, calls, accepted>>,
           shared'.callbackContext.action = shared.callbackContext.action,
           shared'.callbackContext.attempt = shared.callbackContext.attempt,
           ContextOfState'
    PROVE  PromiseInv'
<1>1. frame[t].ctx.action = "None"
  BY DEF PromiseInv, NoCallbackLost
<1>2. frame'[t].ctx.action = "None" /\ Earned(frame[t].ctx)'
  BY NoContextHolds DEF NoContext, Earned
<1>3. \A k \in Attempts :
         /\ ~HoldsPromise(frame[t].ctx, k) /\ ~HoldsPromise(frame[t].ctx, k)'
         /\ HoldsPromise(shared.callbackContext, k)' <=> HoldsPromise(shared.callbackContext, k)
  BY <1>1, <1>2 DEF HoldsPromise
<1> QED
  BY <1>2, <1>3, PassOn

(* A step that touches neither contexts nor promises.                      *)
LEMMA ContextsUntouched ==
    ASSUME TypeOK, PromiseInv,
           UNCHANGED <<shared, pc, frame, promise, calls, accepted>>,
           \A k \in Attempts : InCLayer(k)' => InCLayer(k)
    PROVE  PromiseInv'
<1>1. ContextOfState'
  BY DEF PromiseInv, ContextOfState
<1>2. NoPromiseYet' /\ NoCallbackLost' /\ SuccessEarned' /\ SuccessOnlyIfAccepted'
  BY DEF PromiseInv, NoPromiseYet, NoCallbackLost, SuccessEarned, SuccessOnlyIfAccepted, Earned
<1>3. ConnectPromiseHeldOnce'
  BY DEF PromiseInv, ConnectPromiseHeldOnce, HoldsPromise
<1> QED
  BY <1>1, <1>2, <1>3 DEF PromiseInv

(* A step of a thread's remaining work other than the callbacks.           *)
LEMMA WorkGoesOn ==
    ASSUME TypeOK, PromiseInv, NEW t \in Threads, NEW f,
           Continue(t, f), pc[t] = "work", f.ctx = frame[t].ctx,
           UNCHANGED <<shared, promise, calls, accepted>>,
           \A k \in Attempts : InCLayer(k)' => InCLayer(k)
    PROVE  PromiseInv'
<1>1. /\ pc'[t] = IF f = NoWork THEN "ready" ELSE "work"
      /\ frame'[t] = f
      /\ \A u \in Threads : u # t => pc'[u] = pc[u] /\ frame'[u] = frame[u]
  BY ContinueEffect
<1>2. ContextOfState'
  BY <1>1 DEF PromiseInv, ContextOfState
<1>3. pc'[t] # "work" => frame'[t].ctx.action = "None"
  BY <1>1, NoContextHolds
<1>4. Earned(frame[t].ctx)'
  BY <1>1 DEF PromiseInv, SuccessEarned, Earned
<1>5. \A k \in Attempts :
         LET kept == HoldsPromise(shared.callbackContext, k)
             held == HoldsPromise(frame[t].ctx, k)
         IN  (kept' <=> kept) /\ (held' <=> held) /\ ~(kept /\ held)
  <2> SUFFICES ASSUME NEW k \in Attempts
               PROVE ~(HoldsPromise(shared.callbackContext, k) /\ HoldsPromise(frame[t].ctx, k))
    BY <1>1 DEF HoldsPromise
  <2>1. HeldOnce(k)
    BY HeldOnceMeaning DEF PromiseInv
  <2> QED
    BY <2>1 DEF HeldOnce
<1> QED
  BY <1>1, <1>2, <1>3, <1>4, <1>5, PassOn

-----------------------------------------------------------------------------
(* The lock sections that move a context out of shared state.              *)

LEMMA MoveToDisconnectedPromise ==
    ASSUME TypeOK, PromiseInv, NEW t \in Threads, NEW e \in RpcErrors, e.base # "SUCCESS",
           MoveToDisconnected(t, e), pc[t] # "work", UNCHANGED <<promise, calls, accepted>>
    PROVE  PromiseInv'
<1> DEFINE ctx == IF shared.hasShutDown THEN NoContext
                  ELSE Work(SetError(shared.callbackContext, e))
           f == [NoWork EXCEPT !.ctx = ctx, !.task = TRUE]
<1>1. f.ctx = ctx
  BY DEF NoWork
<1>2. Continue(t, f)
  BY DEF MoveToDisconnected
<1>3. shared.callbackContext \in Contexts
  BY DEF TypeOK, SharedStates
<1>4. /\ \A k \in Attempts :
            HoldsPromise(ctx, k) <=> HoldsPromise(shared.callbackContext, k)
      /\ Earned(ctx)
  <2>1. CASE shared.hasShutDown
    BY <2>1, NoContextHolds DEF PromiseInv, ContextOfState, HoldsPromise
  <2>2. CASE ~shared.hasShutDown
    BY <1>3, <2>2, WorkHolds DEF PromiseInv, ContextOfState
  <2> QED
    BY <2>1, <2>2
<1> HIDE DEF f, ctx
<1>5. /\ pc'[t] = IF f = NoWork THEN "ready" ELSE "work"
      /\ frame'[t] = f
      /\ \A u \in Threads : u # t => pc'[u] = pc[u] /\ frame'[u] = frame[u]
  BY <1>2, ContinueEffect
<1>6. /\ shared'.currentState = "Disconnected" /\ shared'.desiredState = "Disconnected"
      /\ shared'.callbackContext = NoContext
  BY DEF MoveToDisconnected, Reset, TypeOK, SharedStates
<1>7. ContextOfState'
  BY <1>6, NoContextHolds DEF ContextOfState
<1>8. pc'[t] # "work" => frame'[t].ctx.action = "None"
  BY <1>5, NoContextHolds
<1>9. Earned(frame[t].ctx)'
  BY <1>1, <1>4, <1>5 DEF Earned
<1>10. frame[t].ctx.action = "None"
  BY DEF PromiseInv, NoCallbackLost
<1>11. \A k \in Attempts :
          /\ ~HoldsPromise(frame[t].ctx, k) /\ ~HoldsPromise(shared.callbackContext, k)'
          /\ HoldsPromise(frame[t].ctx, k)' <=> HoldsPromise(shared.callbackContext, k)
  BY <1>1, <1>4, <1>5, <1>6, <1>10, NoContextHolds DEF HoldsPromise
<1> QED
  BY <1>5, <1>7, <1>8, <1>9, <1>11, PassOn

LEMMA CloseInternalPromise ==
    ASSUME TypeOK, PromiseInv, NEW t \in Threads, NEW isShutdown \in BOOLEAN,
           CloseInternal(t, isShutdown), pc[t] \in {"ready", "protocolError"},
           UNCHANGED <<promise, calls, accepted, cconn>>
    PROVE  PromiseInv'
<1> DEFINE closing == shared.currentState \in Closable
           old == shared.callbackContext
           ctx == SetError(old, Closed)
           f == [NoWork EXCEPT
                  !.ctx = IF isShutdown THEN Work(ctx) ELSE NoContext,
                  !.flush = IF isShutdown THEN shared.connectFlushContainer ELSE 0,
                  !.close = IF closing THEN shared.underlyingConnection ELSE 0,
                  !.drop = isShutdown]
<1>1. f.ctx = IF isShutdown THEN Work(ctx) ELSE NoContext
  BY DEF NoWork
<1>2. Continue(t, f)
  BY DEF CloseInternal
<1>3. old \in Contexts /\ Closed \in RpcErrors /\ Closed.base # "SUCCESS"
  BY ErrorTypes DEF TypeOK, SharedStates, Closed, RpcError
<1>4. ctx.action = old.action /\ ctx.attempt = old.attempt
  BY <1>3, SetErrorHolds
<1>5. /\ \A k \in Attempts : HoldsPromise(Work(ctx), k) <=> HoldsPromise(old, k)
      /\ Earned(Work(ctx))
  BY <1>3, WorkHolds DEF PromiseInv, ContextOfState
<1>6. /\ shared'.currentState = IF closing THEN "Disconnecting" ELSE shared.currentState
      /\ shared'.desiredState = "Disconnected"
      /\ shared'.hasShutDown <=> (shared.hasShutDown \/ isShutdown)
      /\ shared'.callbackContext = IF isShutdown THEN NoContext ELSE ctx
  BY DEF CloseInternal, TypeOK, SharedStates
<1> HIDE DEF f, ctx
<1>7. /\ pc'[t] = IF f = NoWork THEN "ready" ELSE "work"
      /\ frame'[t] = f
      /\ \A u \in Threads : u # t => pc'[u] = pc[u] /\ frame'[u] = frame[u]
  BY <1>2, ContinueEffect
<1>8. ContextOfState'
  <2>1. \A k \in Attempts : InCLayer(k)' <=> InCLayer(k)
    BY DEF InCLayer, IsUp
  <2>2. CASE isShutdown
    BY <1>6, <2>2, NoContextHolds DEF ContextOfState
  <2>3. CASE ~isShutdown
    BY <1>4, <1>6, <1>7, <2>1, <2>3 DEF PromiseInv, ContextOfState, Closable
  <2> QED
    BY <2>2, <2>3
<1>9. pc'[t] # "work" => frame'[t].ctx.action = "None"
  BY <1>7, NoContextHolds
<1>10. Earned(frame[t].ctx)'
  BY <1>1, <1>5, <1>7, NoContextHolds DEF Earned
<1>11. frame[t].ctx.action = "None"
  BY DEF PromiseInv, NoCallbackLost
<1>12. \A k \in Attempts :
          /\ ~HoldsPromise(frame[t].ctx, k)
          /\ HoldsPromise(frame[t].ctx, k)' <=> isShutdown /\ HoldsPromise(old, k)
          /\ HoldsPromise(shared.callbackContext, k)' <=> ~isShutdown /\ HoldsPromise(old, k)
  BY <1>1, <1>4, <1>5, <1>6, <1>7, <1>11, NoContextHolds DEF HoldsPromise
<1> QED
  BY <1>7, <1>8, <1>9, <1>10, <1>12, PassOn

-----------------------------------------------------------------------------
(* Connect answers at once.                                                *)
LEMMA AnsweredAtOnce ==
    ASSUME TypeOK, PromiseInv, calls < MaxConnects, NEW e \in RpcErrors, e # Success,
           calls' = calls + 1, promise' = [promise EXCEPT ![calls + 1] = e],
           UNCHANGED <<shared, pc, frame, accepted, cconn>>
    PROVE  PromiseInv'
<1>1. calls \in Nat /\ calls + 1 \in Attempts /\ Attempts \subseteq Int
  BY ConnectionAssumption DEF Attempts, TypeOK
<1>2. e # Pending /\ promise[calls + 1] # Pending
  BY <1>1 DEF PromiseInv, NoPromiseYet, Pending, Unset, RpcError, RpcErrors, Bases
<1>3. \A k \in Attempts : promise'[k] = IF k = calls + 1 THEN e ELSE promise[k]
  BY <1>1 DEF TypeOK
<1>4. NoPromiseYet'
  BY <1>1, <1>3 DEF PromiseInv, NoPromiseYet
<1>5. ContextOfState' /\ NoCallbackLost' /\ SuccessEarned'
  BY DEF PromiseInv, ContextOfState, NoCallbackLost, SuccessEarned, Earned, InCLayer, IsUp
<1>6. SuccessOnlyIfAccepted'
  BY <1>3 DEF PromiseInv, SuccessOnlyIfAccepted
<1>7. ConnectPromiseHeldOnce'
  BY <1>2, <1>3 DEF PromiseInv, ConnectPromiseHeldOnce, HoldsPromise
<1> QED
  BY <1>4, <1>5, <1>6, <1>7 DEF PromiseInv

LEMMA AppCallsPromise ==
    ASSUME TypeOK, SafetyInv, PromiseInv, NEW t \in AppThreads, AppCalls(t) PROVE PromiseInv'
<1>0. t \in Threads
  BY DEF Threads
<1>1. CASE ConnectInvalid(t)
  <2>1. /\ RpcError("NULL_PARAMETER", "err") \in RpcErrors
        /\ RpcError("NULL_PARAMETER", "err") # Success
    BY ErrorTypes DEF Bases, RpcError, Success
  <2> QED
    BY <1>1, <2>1, AnsweredAtOnce
    DEF ConnectInvalid, sdkVars, threadVars, clibVars, historyVars
<1>2. CASE ConnectRefused(t)
  <2>1. /\ RpcError("CONNECTION_ALREADY_ESTABLISHED", "ok") \in RpcErrors
        /\ RpcError("CONNECTION_ALREADY_ESTABLISHED", "ok") # Success
    BY ErrorTypes DEF Bases, RpcError, Success
  <2> QED
    BY <1>2, <2>1, AnsweredAtOnce
    DEF ConnectRefused, sdkVars, threadVars, clibVars, historyVars
<1>3. CASE ConnectBegin(t)
  <2> DEFINE k == calls + 1
             f == [NoWork EXCEPT !.k = k]
  <2>1. f.ctx = NoContext /\ f.k = k
    BY DEF NoWork
  <2>2. Goto(t, "connect", f)
    BY <1>3 DEF ConnectBegin
  <2>3. calls \in Nat /\ k \in Attempts /\ Attempts \subseteq Int
    BY <1>3, ConnectionAssumption DEF ConnectBegin, Attempts, TypeOK
  <2>4. /\ calls' = k /\ promise' = [promise EXCEPT ![k] = Pending]
        /\ UNCHANGED <<accepted, cconn>>
    BY <1>3 DEF ConnectBegin, clibVars, historyVars
  <2>5. shared.currentState = "Disconnected" /\ ~shared.hasShutDown /\ pc[t] = "ready"
    BY <1>3 DEF ConnectBegin, MayConnect, MayCall
  <2>6. /\ shared'.currentState = "PendingConnect"
        /\ shared'.hasShutDown = shared.hasShutDown
        /\ shared'.callbackContext = ConnectContext(k)
    BY <1>3 DEF ConnectBegin, OptimisticConnect, TypeOK, SharedStates
  <2>7. /\ ConnectContext(k).action = "CompleteConnectPromise"
        /\ \A j : HoldsPromise(ConnectContext(k), j) <=> j = k
        /\ ConnectContext(k).attempt = k
    BY DEF ConnectContext, HoldsPromise
  <2> HIDE DEF f, k
  <2>8. /\ pc'[t] = "connect" /\ frame'[t] = f
        /\ \A u \in Threads : u # t => pc'[u] = pc[u] /\ frame'[u] = frame[u]
    BY <1>0, <2>2, GotoEffect
  <2>9. /\ \A j \in Attempts : promise'[j] = IF j = k THEN Pending ELSE promise[j]
        /\ promise[k] = Unset /\ Unset # Pending /\ Pending # Success
    BY <2>3, <2>4 DEF k, TypeOK, PromiseInv, NoPromiseYet, Unset, Pending, Success, RpcError
  <2>10. NoPromiseYet'
    BY <2>3, <2>4, <2>9 DEF k, PromiseInv, NoPromiseYet
  <2>11. ContextOfState'
    <3>1. \A j \in Attempts : ~InCLayer(j)'
      BY <2>4, <2>5, NothingUnderWay DEF InCLayer, IsUp
    <3>2. \A u \in Threads : pc'[u] = "connect" => u = t
      BY <2>5, <2>8, NothingUnderWay
    <3>3. ~shared'.hasShutDown
      BY <2>5, <2>6
    <3> QED
      BY <2>1, <2>6, <2>7, <2>8, <3>1, <3>2, <3>3 DEF ContextOfState
  <2>12. NoCallbackLost'
    BY <2>1, <2>8, NoContextHolds DEF PromiseInv, NoCallbackLost
  <2>13. SuccessEarned'
    <3>1. Earned(frame[t].ctx)'
      BY <2>1, <2>8, NoContextHolds DEF Earned
    <3> QED
      BY <2>4, <2>8, <3>1 DEF PromiseInv, SuccessEarned, Earned
  <2>14. SuccessOnlyIfAccepted'
    BY <2>4, <2>9 DEF PromiseInv, SuccessOnlyIfAccepted
  <2>15. ConnectPromiseHeldOnce'
    <3>1. SUFFICES ASSUME NEW j \in Attempts PROVE HeldOnce(j)'
      BY HeldOnceNext
    <3>2. HeldOnce(j)
      BY HeldOnceMeaning DEF PromiseInv
    <3>3. ~HoldsPromise(shared.callbackContext, j) /\ ~HoldsPromise(frame[t].ctx, j)
      BY <1>0, <2>5 DEF PromiseInv, ContextOfState, NoCallbackLost, HoldsPromise
    <3>4. /\ ~HoldsPromise(frame[t].ctx, j)'
          /\ HoldsPromise(shared.callbackContext, j)' <=> j = k
          /\ \A u \in Threads : u # t =>
                 (HoldsPromise(frame[u].ctx, j)' <=> HoldsPromise(frame[u].ctx, j))
      BY <2>1, <2>6, <2>7, <2>8, NoContextHolds DEF HoldsPromise
    <3> QED
      BY <2>9, <3>2, <3>3, <3>4 DEF HeldOnce
  <2> QED
    BY <2>10, <2>11, <2>12, <2>13, <2>14, <2>15 DEF PromiseInv
<1>4. CASE Close(t)
  BY <1>0, <1>4, CloseInternalPromise DEF Close, MayCall, promiseVars, historyVars
<1>5. CASE Shutdown(t)
  BY <1>0, <1>5, CloseInternalPromise DEF Shutdown, MayCall, promiseVars, historyVars
<1> QED
  BY <1>1, <1>2, <1>3, <1>4, <1>5 DEF AppCalls

LEMMA StepPromise ==
    ASSUME TypeOK, SafetyInv, PromiseInv, NEW t \in Threads, Step(t) PROVE PromiseInv'
<1>f. frame[t] \in Frames /\ frame[t].ctx \in Contexts
  BY DEF TypeOK, ThreadsOK, Frames
<1>1. CASE ConnectStarts(t)
  <2>1. /\ pc'[t] = "ready" /\ frame'[t] = NoWork
        /\ \A u \in Threads : u # t => pc'[u] = pc[u] /\ frame'[u] = frame[u]
    BY <1>1, ContinueEffect DEF ConnectStarts
  <2>2. /\ pc[t] = "connect" /\ cconn' = [cconn EXCEPT ![frame[t].k] = "connecting"]
        /\ UNCHANGED <<shared, promise, calls, accepted>>
    BY <1>1 DEF ConnectStarts, sdkVars, promiseVars, historyVars
  <2>3. \A j \in Attempts : InCLayer(j)' => j = frame[t].k
    BY <2>2 DEF SafetyInv, OneAttempt, InCLayer, IsUp, TypeOK
  <2>4. ContextOfState'
    BY <2>1, <2>2, <2>3 DEF PromiseInv, ContextOfState
  <2> QED
    BY <2>1, <2>2, <2>4, NothingPassed, NoContextHolds
<1>2. CASE ConnectFails(t)
  <2>1. /\ RpcError("CONNECTION_SETUP_FAILED", "err") \in RpcErrors
        /\ RpcError("CONNECTION_SETUP_FAILED", "err").base # "SUCCESS"
    BY ErrorTypes DEF Bases, RpcError
  <2> QED
    BY <1>2, <2>1, MoveToDisconnectedPromise DEF ConnectFails, promiseVars, historyVars
<1>3. CASE SendConnect(t)
  <2>1. /\ pc'[t] = "ready" /\ frame'[t] = NoWork /\ pc[t] = "send"
        /\ \A u \in Threads : u # t => pc'[u] = pc[u] /\ frame'[u] = frame[u]
    BY <1>3, ContinueEffect DEF SendConnect
  <2>2. UNCHANGED <<shared, cconn, promise, calls, accepted>>
    BY <1>3 DEF SendConnect, sdkVars, promiseVars, historyVars
  <2>3. ContextOfState'
    BY <2>1, <2>2 DEF PromiseInv, ContextOfState, InCLayer, IsUp
  <2> QED
    BY <2>1, <2>2, <2>3, NothingPassed, NoContextHolds
<1>4. CASE SendConnectFails(t)
  <2> DEFINE f == [NoWork EXCEPT !.close = frame[t].k]
             e == RpcError("CRT_ERROR", "err")
             ctx == SetError(shared.callbackContext, e)
  <2>1. f.ctx = NoContext
    BY DEF NoWork
  <2>2. Continue(t, f) /\ pc[t] = "send" /\ UNCHANGED <<cconn, promise, calls, accepted>>
    BY <1>4 DEF SendConnectFails, clibVars, promiseVars, historyVars
  <2>3. e \in RpcErrors /\ e.base # "SUCCESS"
    BY ErrorTypes DEF Bases, RpcError
  <2>4. ctx.action = shared.callbackContext.action /\ ctx.attempt = shared.callbackContext.attempt
    BY <2>3, SetErrorHolds DEF TypeOK, SharedStates
  <2>5. /\ shared'.callbackContext = ctx /\ shared'.currentState = "Disconnecting"
        /\ shared'.desiredState = shared.desiredState
        /\ shared'.hasShutDown = shared.hasShutDown
    BY <1>4 DEF SendConnectFails, TypeOK, SharedStates
  <2> HIDE DEF f, e, ctx
  <2>6. /\ pc'[t] \in {"ready", "work"} /\ frame'[t] = f
        /\ \A u \in Threads : u # t => pc'[u] = pc[u] /\ frame'[u] = frame[u]
    BY <2>2, ContinueEffect
  <2>7. ContextOfState'
    <3>1. \A k \in Attempts : InCLayer(k)' <=> InCLayer(k)
      BY <2>2 DEF InCLayer, IsUp
    <3> QED
      BY <2>4, <2>5, <2>6, <3>1 DEF PromiseInv, ContextOfState
  <2> QED
    BY <2>1, <2>2, <2>4, <2>5, <2>6, <2>7, NothingPassed
<1>5. CASE CloseAfterUnknownMessage(t)
  BY <1>5, CloseInternalPromise DEF CloseAfterUnknownMessage, promiseVars, historyVars
<1>6. CASE InvokeCallback(t)
  <2> DEFINE ctx == frame[t].ctx
             after == IF ctx.action = "CompleteConnectPromise"
                      THEN [ctx EXCEPT !.action = "SetConnectPromise"] ELSE NoContext
             f == [frame[t] EXCEPT !.ctx = after]
  <2>1. f.ctx = after
    BY <1>f DEF Frames
  <2>2. /\ Continue(t, f) /\ pc[t] = "work"
        /\ ctx.action \in {"CompleteConnectPromise", "DisconnectionCallback"}
        /\ UNCHANGED <<shared, cconn, promise, calls, accepted>>
    BY <1>6 DEF InvokeCallback, sdkVars, clibVars, promiseVars
  <2>3. Earned(ctx) => Earned(after)
    BY <1>f, <2>2, NoContextHolds DEF Earned, Contexts
  <2>4. \A k \in Attempts : HoldsPromise(after, k) <=> HoldsPromise(ctx, k)
    BY <1>f, <2>2, NoContextHolds DEF HoldsPromise, Contexts
  <2>5. \A k \in Attempts : ~(HoldsPromise(shared.callbackContext, k) /\ HoldsPromise(ctx, k))
    <3>1. \A k \in Attempts : HeldOnce(k)
      BY HeldOnceMeaning DEF PromiseInv
    <3> QED
      BY <3>1 DEF HeldOnce
  <2>6. Earned(ctx)
    BY DEF PromiseInv, SuccessEarned
  <2>7. ctx = frame[t].ctx
    OBVIOUS
  <2> HIDE DEF f, after, ctx
  <2>8. /\ pc'[t] = IF f = NoWork THEN "ready" ELSE "work"
        /\ frame'[t] = f
        /\ \A u \in Threads : u # t => pc'[u] = pc[u] /\ frame'[u] = frame[u]
    BY <2>2, ContinueEffect
  <2>9. ContextOfState'
    BY <2>2, <2>8 DEF PromiseInv, ContextOfState, InCLayer, IsUp
  <2>10. pc'[t] # "work" => frame'[t].ctx.action = "None"
    BY <2>8, NoContextHolds
  <2>11. Earned(frame[t].ctx)'
    BY <2>1, <2>2, <2>3, <2>6, <2>8 DEF Earned
  <2>12. \A k \in Attempts :
           /\ HoldsPromise(shared.callbackContext, k)' <=> HoldsPromise(shared.callbackContext, k)
           /\ HoldsPromise(frame[t].ctx, k)' <=> HoldsPromise(frame[t].ctx, k)
           /\ ~(HoldsPromise(shared.callbackContext, k) /\ HoldsPromise(frame[t].ctx, k))
    BY <2>1, <2>2, <2>4, <2>5, <2>7, <2>8 DEF HoldsPromise
  <2> QED
    BY <2>2, <2>8, <2>9, <2>10, <2>11, <2>12, PassOn
<1>7. CASE SetConnectPromise(t)
  <2> DEFINE ctx == frame[t].ctx
             j == ctx.attempt
             f == [frame[t] EXCEPT !.ctx = NoContext]
  <2>1. f.ctx = NoContext
    BY <1>f DEF Frames
  <2>2. /\ Continue(t, f) /\ pc[t] = "work" /\ ctx.action = "SetConnectPromise"
        /\ promise' = [promise EXCEPT ![j] = ctx.error]
        /\ UNCHANGED <<shared, cconn, calls, accepted>>
    BY <1>7 DEF SetConnectPromise, sdkVars, clibVars, historyVars
  <2>3. Earned(ctx) /\ ctx.error # Pending
    BY <1>f DEF PromiseInv, SuccessEarned, Contexts, RpcErrors, Bases, Pending, RpcError
  <2>4. \A k \in Attempts : HoldsPromise(ctx, k) <=> k = j
    BY <2>2 DEF HoldsPromise
  <2>5. ctx = frame[t].ctx
    OBVIOUS
  <2>6. \A k \in Attempts : promise'[k] = IF k = j THEN ctx.error ELSE promise[k]
    BY <2>2 DEF TypeOK
  <2>7. Earned(ctx) /\ ctx.error = Success => j \in accepted
    BY <2>2 DEF Earned
  <2> HIDE DEF f, j, ctx
  <2>8. /\ pc'[t] = IF f = NoWork THEN "ready" ELSE "work"
        /\ frame'[t] = f
        /\ \A u \in Threads : u # t => pc'[u] = pc[u] /\ frame'[u] = frame[u]
    BY <2>2, ContinueEffect
  <2>9. \A k \in Attempts : HeldOnce(k)
    BY HeldOnceMeaning DEF PromiseInv
  <2>10. NoPromiseYet'
    <3>1. \A k \in Attempts : k = j => promise[k] = Pending
      BY <2>4, <2>5, <2>9 DEF HeldOnce
    <3>2. Pending # Unset
      BY DEF Pending, Unset, RpcError
    <3> QED
      BY <2>2, <2>6, <3>1, <3>2 DEF PromiseInv, NoPromiseYet
  <2>11. ContextOfState'
    BY <2>2, <2>8 DEF PromiseInv, ContextOfState, InCLayer, IsUp
  <2>12. NoCallbackLost'
    BY <2>8, NoContextHolds DEF PromiseInv, NoCallbackLost
  <2>13. SuccessEarned'
    <3>1. Earned(frame[t].ctx)'
      BY <2>1, <2>8, NoContextHolds DEF Earned
    <3> QED
      BY <2>2, <2>8, <3>1 DEF PromiseInv, SuccessEarned, Earned
  <2>14. SuccessOnlyIfAccepted'
    BY <2>2, <2>3, <2>6, <2>7 DEF PromiseInv, SuccessOnlyIfAccepted
  <2>15. ConnectPromiseHeldOnce'
    <3>1. SUFFICES ASSUME NEW k \in Attempts PROVE HeldOnce(k)'
      BY HeldOnceNext
    <3>2. /\ ~HoldsPromise(frame[t].ctx, k)'
          /\ HoldsPromise(shared.callbackContext, k)' <=> HoldsPromise(shared.callbackContext, k)
          /\ \A u \in Threads : u # t =>
                 (HoldsPromise(frame[u].ctx, k)' <=> HoldsPromise(frame[u].ctx, k))
      BY <2>1, <2>2, <2>8, NoContextHolds DEF HoldsPromise
    <3>3. CASE k = j
      <4>1. HoldsPromise(frame[t].ctx, k) /\ promise'[k] # Pending
        BY <2>3, <2>4, <2>5, <2>6, <3>3
      <4>2. /\ ~HoldsPromise(shared.callbackContext, k)
            /\ \A u \in Threads : u # t => ~HoldsPromise(frame[u].ctx, k)
        BY <2>9, <4>1 DEF HeldOnce
      <4> QED
        BY <3>2, <4>1, <4>2 DEF HeldOnce
    <3>4. CASE k # j
      <4>1. ~HoldsPromise(frame[t].ctx, k) /\ promise'[k] = promise[k]
        BY <2>4, <2>5, <2>6, <3>4
      <4> QED
        BY <2>9, <3>2, <4>1 DEF HeldOnce
    <3> QED
      BY <3>3, <3>4
  <2> QED
    BY <2>10, <2>11, <2>12, <2>13, <2>14, <2>15 DEF PromiseInv
<1>8. CASE CompleteFlush(t)
  <2> DEFINE f == [frame[t] EXCEPT
                     !.flush = 0,
                     !.flushCb = IF Wins(frame[t].flush) THEN frame[t].flush ELSE 0]
  <2>1. f.ctx = frame[t].ctx
    BY <1>f DEF Frames
  <2>2. Continue(t, f)
    BY <1>8 DEF CompleteFlush
  <2> HIDE DEF f
  <2> QED
    BY <1>8, <2>1, <2>2, WorkGoesOn
    DEF CompleteFlush, CallbacksDone, sdkVars, clibVars, promiseVars, historyVars, InCLayer, IsUp
<1>9. CASE InvokeFlushCallback(t)
  <2>1. [frame[t] EXCEPT !.flushCb = 0].ctx = frame[t].ctx
    BY <1>f DEF Frames
  <2> QED
    BY <1>9, <2>1, WorkGoesOn
    DEF InvokeFlushCallback, CallbacksDone, sdkVars, clibVars, promiseVars, InCLayer, IsUp
<1>10. CASE CloseConnection(t)
  <2>1. [frame[t] EXCEPT !.close = 0].ctx = frame[t].ctx
    BY <1>f DEF Frames
  <2>2. \A k \in Attempts : InCLayer(k)' => InCLayer(k)
    BY <1>10 DEF CloseConnection, TypeOK, InCLayer, IsUp
  <2> QED
    BY <1>10, <2>1, <2>2, WorkGoesOn
    DEF CloseConnection, FlushDone, CallbacksDone, sdkVars, promiseVars, historyVars
<1>11. CASE ScheduleClearTask(t)
  <2>1. [frame[t] EXCEPT !.task = FALSE].ctx = frame[t].ctx
    BY <1>f DEF Frames
  <2> QED
    BY <1>11, <2>1, WorkGoesOn
    DEF ScheduleClearTask, CloseDone, FlushDone, CallbacksDone, clibVars, promiseVars,
        historyVars, InCLayer, IsUp
<1>12. CASE DropHandle(t)
  <2>1. [frame[t] EXCEPT !.drop = FALSE].ctx = frame[t].ctx
    BY <1>f DEF Frames
  <2> QED
    BY <1>12, <2>1, WorkGoesOn
    DEF DropHandle, CloseDone, FlushDone, CallbacksDone, clibVars, promiseVars,
        historyVars, InCLayer, IsUp
<1> QED
  BY <1>1, <1>2, <1>3, <1>4, <1>5, <1>6, <1>7, <1>8, <1>9, <1>10, <1>11, <1>12 DEF Step

LEMMA LoopEventsPromise ==
    ASSUME TypeOK, SafetyInv, PromiseInv, NEW l \in Loops, NEW k \in Attempts, LoopEvents(l, k)
    PROVE  PromiseInv'
<1>0. l \in Threads /\ ShutdownCodes \subseteq {"ok", "err"}
  BY ConnectionAssumption DEF Threads
<1>1. CASE SetupFails(l, k)
  <2>1. /\ RpcError("CRT_ERROR", "err") \in RpcErrors
        /\ RpcError("CRT_ERROR", "err").base # "SUCCESS"
    BY ErrorTypes DEF Bases, RpcError
  <2> QED
    BY <1>0, <1>1, <2>1, MoveToDisconnectedPromise
    DEF SetupFails, OnLoop, promiseVars, historyVars
<1>2. ASSUME NEW code \in ShutdownCodes, ConnectionShutdown(l, k, code) PROVE PromiseInv'
  <2>1. /\ RpcError("CONNECTION_CLOSED", code) \in RpcErrors
        /\ RpcError("CONNECTION_CLOSED", code).base # "SUCCESS"
    BY <1>0, ErrorTypes DEF Bases, RpcError
  <2> QED
    BY <1>0, <1>2, <2>1, MoveToDisconnectedPromise
    DEF ConnectionShutdown, OnLoop, promiseVars, historyVars
(* A C connection that came up is the one that was asked for.              *)
<1>3. ASSUME cconn[k] = "connecting", cconn' = [cconn EXCEPT ![k] = "up"]
      PROVE  \A j \in Attempts : InCLayer(j)' <=> InCLayer(j)
  BY <1>3 DEF TypeOK, InCLayer, IsUp
<1>4. CASE SetupAbandoned(l, k)
  <2> DEFINE f == [NoWork EXCEPT !.close = k]
  <2>1. f.ctx = NoContext
    BY DEF NoWork
  <2>2. Continue(l, f) /\ pc[l] = "ready" /\ UNCHANGED <<promise, calls, accepted>>
    BY <1>4 DEF SetupAbandoned, OnLoop, promiseVars, historyVars
  <2>3. /\ shared'.callbackContext = shared.callbackContext
        /\ shared'.currentState = "Disconnecting"
        /\ shared'.desiredState = shared.desiredState
        /\ shared'.hasShutDown = shared.hasShutDown
    BY <1>4 DEF SetupAbandoned, TypeOK, SharedStates
  <2>4. \A j \in Attempts : InCLayer(j)' <=> InCLayer(j)
    BY <1>3, <1>4 DEF SetupAbandoned
  <2> HIDE DEF f
  <2>5. /\ pc'[l] \in {"ready", "work"} /\ frame'[l] = f
        /\ \A u \in Threads : u # l => pc'[u] = pc[u] /\ frame'[u] = frame[u]
    BY <1>0, <2>2, ContinueEffect
  <2>6. ContextOfState'
    BY <2>3, <2>4, <2>5 DEF PromiseInv, ContextOfState
  <2> QED
    BY <1>0, <2>1, <2>2, <2>3, <2>5, <2>6, NothingPassed
<1>5. CASE SetupSucceeds(l, k)
  <2> DEFINE f == [NoWork EXCEPT !.k = k]
  <2>1. f.ctx = NoContext
    BY DEF NoWork
  <2>2. Goto(l, "send", f) /\ pc[l] = "ready" /\ UNCHANGED <<promise, calls, accepted>>
    BY <1>5 DEF SetupSucceeds, OnLoop, promiseVars, historyVars
  <2>3. /\ shared'.callbackContext = shared.callbackContext
        /\ shared'.currentState = "PendingConnack"
        /\ shared'.desiredState = shared.desiredState
        /\ shared'.hasShutDown = shared.hasShutDown
        /\ shared.currentState = "PendingConnect"
    BY <1>5 DEF SetupSucceeds, SafetyInv, StateOfAttempt, TypeOK, SharedStates
  <2>4. \A j \in Attempts : InCLayer(j)' <=> InCLayer(j)
    BY <1>3, <1>5 DEF SetupSucceeds
  <2> HIDE DEF f
  <2>5. /\ pc'[l] = "send" /\ frame'[l] = f
        /\ \A u \in Threads : u # l => pc'[u] = pc[u] /\ frame'[u] = frame[u]
    BY <1>0, <2>2, GotoEffect
  <2>6. ContextOfState'
    BY <2>3, <2>4, <2>5 DEF PromiseInv, ContextOfState
  <2> QED
    BY <1>0, <2>1, <2>2, <2>3, <2>5, <2>6, NothingPassed
<1>6. CASE ConnackAccepted(l, k)
  <2> DEFINE old == shared.callbackContext
             ctx == ConnectedContext(old)
             f == [NoWork EXCEPT !.ctx = ctx]
  <2>1. f.ctx = ctx
    BY DEF NoWork
  <2>2. /\ Continue(l, f) /\ pc[l] = "ready" /\ shared.currentState = "PendingConnack"
        /\ InCLayer(k) /\ accepted' = accepted \cup {k}
        /\ UNCHANGED <<cconn, promise, calls>>
    BY <1>6
    DEF ConnackAccepted, AwaitsConnack, Receives, OnLoop, InCLayer, IsUp, clibVars, promiseVars
  <2>3. /\ shared'.callbackContext = DisconnectContext(old)
        /\ shared'.currentState = "Connected"
        /\ shared'.desiredState = shared.desiredState
        /\ shared'.hasShutDown = shared.hasShutDown
    BY <1>6 DEF ConnackAccepted, TypeOK, SharedStates
  <2>4. shared.desiredState = "Connected"
    BY <2>2 DEF SafetyInv, CloseTakesEffect
  <2>5. ~shared.hasShutDown
    BY <2>4 DEF PromiseInv, ContextOfState
  <2>6. old.action = "CompleteConnectPromise" /\ old.attempt = k
    BY <2>2, <2>5 DEF PromiseInv, ContextOfState
  <2>7. /\ ctx.action = "CompleteConnectPromise" /\ ctx.attempt = old.attempt
        /\ DisconnectContext(old).action = "DisconnectionCallback"
        /\ DisconnectContext(old).attempt = old.attempt
    BY DEF ConnectedContext, DisconnectContext
  <2>8. frame[l].ctx.action = "None"
    BY <1>0, <2>2 DEF PromiseInv, NoCallbackLost
  <2> HIDE DEF f, ctx
  <2>9. /\ pc'[l] = IF f = NoWork THEN "ready" ELSE "work"
        /\ frame'[l] = f
        /\ \A u \in Threads : u # l => pc'[u] = pc[u] /\ frame'[u] = frame[u]
    BY <1>0, <2>2, ContinueEffect
  <2>10. ContextOfState'
    <3>1. ~shared'.hasShutDown
      BY <2>3, <2>5
    <3>2. \A j \in Attempts : InCLayer(j)' <=> InCLayer(j)
      BY <2>2 DEF InCLayer, IsUp
    <3> QED
      BY <2>3, <2>6, <2>7, <2>9, <3>1, <3>2 DEF PromiseInv, ContextOfState
  <2>11. pc'[l] # "work" => frame'[l].ctx.action = "None"
    BY <2>9, NoContextHolds
  <2>12. Earned(frame[l].ctx)'
    BY <2>1, <2>2, <2>6, <2>7, <2>9 DEF Earned
  <2>13. \A j \in Attempts :
           /\ ~HoldsPromise(frame[l].ctx, j)
           /\ ~HoldsPromise(shared.callbackContext, j)'
           /\ HoldsPromise(frame[l].ctx, j)' <=> j = k
           /\ HoldsPromise(shared.callbackContext, j) <=> j = k
    BY <2>1, <2>3, <2>6, <2>7, <2>8, <2>9 DEF HoldsPromise
  <2> QED
    BY <1>0, <2>2, <2>9, <2>10, <2>11, <2>12, <2>13, PassOn
<1>7. ASSUME NEW ok \in BOOLEAN, ConnackRefused(l, k, ok) PROVE PromiseInv'
  <2> DEFINE e == RpcError(IF ok THEN "CONNECTION_CLOSED" ELSE "CONNECTION_ACCESS_DENIED", "ok")
             f == [NoWork EXCEPT !.close = IF shared.currentState # "Disconnecting" THEN k ELSE 0]
             ctx == SetError(shared.callbackContext, e)
  <2>1. f.ctx = NoContext
    BY DEF NoWork
  <2>2. /\ Continue(l, f) /\ pc[l] = "ready"
        /\ UNCHANGED <<cconn, promise, calls, accepted>>
    BY <1>7 DEF ConnackRefused, Receives, OnLoop, promiseVars, historyVars
  <2>3. e \in RpcErrors /\ e.base # "SUCCESS"
    BY ErrorTypes DEF Bases, RpcError
  <2>4. ctx.action = shared.callbackContext.action /\ ctx.attempt = shared.callbackContext.attempt
    BY <2>3, SetErrorHolds DEF TypeOK, SharedStates
  <2>5. /\ shared'.callbackContext = IF shared.hasShutDown THEN shared.callbackContext ELSE ctx
        /\ shared'.currentState = "Disconnecting" /\ shared'.desiredState = "Disconnected"
        /\ shared'.hasShutDown = shared.hasShutDown
    BY <1>7 DEF ConnackRefused, TypeOK, SharedStates
  <2> HIDE DEF f, ctx
  <2>6. /\ pc'[l] \in {"ready", "work"} /\ frame'[l] = f
        /\ \A u \in Threads : u # l => pc'[u] = pc[u] /\ frame'[u] = frame[u]
    BY <1>0, <2>2, ContinueEffect
  <2>7. ContextOfState'
    <3>1. \A j \in Attempts : InCLayer(j)' <=> InCLayer(j)
      BY <2>2 DEF InCLayer, IsUp
    <3> QED
      BY <2>4, <2>5, <2>6, <3>1 DEF PromiseInv, ContextOfState
  <2> QED
    BY <1>0, <2>1, <2>2, <2>4, <2>5, <2>6, <2>7, NothingPassed
<1>8. CASE Ping(l, k)
  BY <1>8, ContextsUntouched
  DEF Ping, sdkVars, threadVars, clibVars, promiseVars, InCLayer, IsUp
<1>9. CASE UnknownMessage(l, k)
  <2>1. /\ pc[l] = "ready"
        /\ UNCHANGED <<shared, cconn, promise, calls, accepted>>
    BY <1>9 DEF UnknownMessage, Receives, OnLoop, sdkVars, clibVars, promiseVars
  <2>2. /\ pc'[l] = "protocolError" /\ frame'[l] = NoWork
        /\ \A u \in Threads : u # l => pc'[u] = pc[u] /\ frame'[u] = frame[u]
    BY <1>0, <1>9, GotoEffect DEF UnknownMessage
  <2>3. ContextOfState'
    BY <2>1, <2>2 DEF PromiseInv, ContextOfState, InCLayer, IsUp
  <2> QED
    BY <1>0, <2>1, <2>2, <2>3, NothingPassed, NoContextHolds
<1>10. CASE ConnectFlushed(l, k)
  <2> DEFINE f == [NoWork EXCEPT !.flush = k]
  <2>1. f.ctx = NoContext
    BY DEF NoWork
  <2>2. /\ Continue(l, f) /\ pc[l] = "ready"
        /\ UNCHANGED <<shared, cconn, promise, calls, accepted>>
    BY <1>10 DEF ConnectFlushed, OnLoop, sdkVars, promiseVars, historyVars
  <2> HIDE DEF f
  <2>3. /\ pc'[l] \in {"ready", "work"} /\ frame'[l] = f
        /\ \A u \in Threads : u # l => pc'[u] = pc[u] /\ frame'[u] = frame[u]
    BY <1>0, <2>2, ContinueEffect
  <2>4. ContextOfState'
    BY <2>2, <2>3 DEF PromiseInv, ContextOfState, InCLayer, IsUp
  <2> QED
    BY <1>0, <2>1, <2>2, <2>3, <2>4, NothingPassed
<1> QED
  BY <1>1, <1>2, <1>4, <1>5, <1>6, <1>7, <1>8, <1>9, <1>10
  DEF LoopEvents, SetupCompletes, ShutdownCompletes, Messages

LEMMA PromiseInvInductive ==
    ASSUME TypeOK, SafetyInv, PromiseInv, [Next]_vars PROVE PromiseInv'
<1>1. CASE UNCHANGED vars \/ RunClearTask
  BY <1>1, ContextsUntouched
  DEF RunClearTask, vars, sdkVars, threadVars, clibVars, promiseVars, historyVars, InCLayer, IsUp
<1>2. ASSUME NEW t \in AppThreads, AppCalls(t) PROVE PromiseInv'
  BY <1>2, AppCallsPromise
<1>3. ASSUME NEW t \in Threads, Step(t) PROVE PromiseInv'
  BY <1>3, StepPromise
<1>4. ASSUME NEW l \in Loops, NEW k \in Attempts, LoopEvents(l, k) PROVE PromiseInv'
  BY <1>4, LoopEventsPromise
<1>5. ASSUME NEW k \in Attempts, PeerCloses(k) PROVE PromiseInv'
  <2>1. \A j \in Attempts : InCLayer(j)' => InCLayer(j)
    BY <1>5 DEF PeerCloses, TypeOK, InCLayer, IsUp
  <2> QED
    BY <1>5, <2>1, ContextsUntouched
    DEF PeerCloses, sdkVars, threadVars, promiseVars, historyVars
<1> QED
  BY <1>1, <1>2, <1>3, <1>4, <1>5 DEF Next, Terminated

LEMMA PromiseInvHolds == Spec => []PromiseInv
<1>1. Init => PromiseInv
  <2> SUFFICES ASSUME Init PROVE PromiseInv
    OBVIOUS
  <2>1. NoPromiseYet /\ ContextOfState /\ NoCallbackLost /\ SuccessEarned
    BY NoContextHolds
    DEF Init, NoPromiseYet, ContextOfState, NoCallbackLost, SuccessEarned, InCLayer, IsUp
  <2>2. ConnectPromiseHeldOnce /\ SuccessOnlyIfAccepted
    BY NoContextHolds
    DEF Init, ConnectPromiseHeldOnce, SuccessOnlyIfAccepted, Unset, Pending, Success, RpcError
  <2> QED
    BY <2>1, <2>2 DEF PromiseInv
<1>2. TypeOK /\ SafetyInv /\ PromiseInv /\ [Next]_vars => PromiseInv'
  BY PromiseInvInductive
<1> QED
  BY <1>1, <1>2, TypeCorrect, SafetyInvHolds, PTL DEF Spec

-----------------------------------------------------------------------------
(* m_connectPromise is set exactly once or still held by exactly one       *)
(* context: no set_value throws and no Connect future is abandoned,        *)
(* whatever Close, Shutdown, setup, CONNECT_ACK and shutdown race.         *)
THEOREM ConnectPromiseHeldOnceHolds == Spec => []ConnectPromiseHeldOnce
<1>1. PromiseInv => ConnectPromiseHeldOnce
  BY DEF PromiseInv
<1> QED
  BY <1>1, PromiseInvHolds, PTL

(* Connect's future says success only of an attempt whose CONNECT_ACK was  *)
(* accepted.                                                               *)
THEOREM SuccessOnlyIfAcceptedHolds == Spec => []SuccessOnlyIfAccepted
<1>1. PromiseInv => SuccessOnlyIfAccepted
  BY DEF PromiseInv
<1> QED
  BY <1>1, PromiseInvHolds, PTL

-----------------------------------------------------------------------------
(* What a step does to the callback contexts.                              *)

Same(u) ==
    \/ frame'[u].ctx = frame[u].ctx
    \/ frame[u].ctx.action = "None" /\ frame'[u].ctx.action = "None"

Steady == accepted' = accepted /\ loopOf' = loopOf /\ (shared.hasShutDown => shared'.hasShutDown)

(* Every context stays where it is; shared state's may be given an error.  *)
KeepsContexts ==
    /\ Steady /\ cbs' = cbs
    /\ \A u \in Threads : Same(u)
    /\ shared'.callbackContext.action = shared.callbackContext.action
    /\ shared'.callbackContext.attempt = shared.callbackContext.attempt

(* Connect makes one.                                                      *)
MakesContext ==
    /\ Steady /\ cbs' = cbs
    /\ \A u \in Threads : Same(u)
    /\ shared'.callbackContext = ConnectContext(calls + 1)
    /\ shared.callbackContext.action = "None"

(* A thread moves it out of shared state, to answer Connect or to report   *)
(* the end of the connection: in the destructor, or on the C connection's  *)
(* loop.                                                                   *)
MovesContext(t) ==
    LET ctx == shared.callbackContext
    IN  /\ Steady /\ cbs' = cbs
        /\ \A u \in Threads : u # t => frame'[u].ctx = frame[u].ctx
        /\ frame[t].ctx.action = "None" /\ shared'.callbackContext.action = "None"
        /\ frame'[t].ctx.action = ctx.action
        /\ ctx.action # "None" => frame'[t].ctx.attempt = ctx.attempt
        /\ ctx.action = "DisconnectionCallback" =>
              shared'.hasShutDown \/ t = loopOf[ctx.attempt]

(* CONNECT_ACK splits it in two.                                           *)
SplitsContext(l, k) ==
    /\ accepted' = accepted \cup {k} /\ loopOf' = loopOf
    /\ shared'.hasShutDown = shared.hasShutDown /\ cbs' = cbs
    /\ \A u \in Threads : u # l => frame'[u].ctx = frame[u].ctx
    /\ frame[l].ctx.action = "None" /\ frame'[l].ctx = ConnectContext(k)
    /\ shared.callbackContext.action = "CompleteConnectPromise"
    /\ shared.callbackContext.attempt = k
    /\ shared'.callbackContext.action = "DisconnectionCallback"
    /\ shared'.callbackContext.attempt = k
    /\ loopOf[k] = l /\ IsUp(k)

(* The two halves of InvokeCallbacks.                                      *)
CallsBack(t) ==
    LET ctx == frame[t].ctx
    IN  /\ Steady /\ shared' = shared
        /\ \A u \in Threads : u # t => frame'[u].ctx = frame[u].ctx
        /\ \A k \in Attempts : cbs'[k] = IF k = ctx.attempt
                                       THEN Append(cbs[k], CallbackOf(ctx)) ELSE cbs[k]
        /\ \/ /\ ctx.action = "CompleteConnectPromise"
              /\ frame'[t].ctx = [ctx EXCEPT !.action = "SetConnectPromise"]
           \/ ctx.action = "DisconnectionCallback" /\ frame'[t].ctx.action = "None"

Answers(t) ==
    /\ Steady /\ cbs' = cbs /\ shared' = shared
    /\ \A u \in Threads : u # t => frame'[u].ctx = frame[u].ctx
    /\ frame[t].ctx.action = "SetConnectPromise" /\ frame'[t].ctx.action = "None"

ContextStep ==
    \/ KeepsContexts \/ MakesContext
    \/ \E t \in Threads : MovesContext(t) \/ CallsBack(t) \/ Answers(t)
    \/ \E l \in Loops, k \in Attempts : SplitsContext(l, k)

LEMMA WorkFields ==
    ASSUME NEW ctx \in Contexts, NEW e \in RpcErrors, e.base # "SUCCESS"
    PROVE  /\ Work(SetError(ctx, e)).action = ctx.action
           /\ ctx.action # "None" => Work(SetError(ctx, e)).attempt = ctx.attempt
BY SetErrorHolds, NoContextHolds DEF Work

(* A thread that has nothing to call back, before and after its step.      *)
LEMMA ContextsStay ==
    ASSUME PromiseInv, NEW t \in Threads, Others(t), pc[t] # "work",
           frame'[t].ctx = NoContext
    PROVE  \A u \in Threads : Same(u)
<1>1. frame[t].ctx.action = "None" /\ frame'[t].ctx.action = "None"
  BY NoContextHolds DEF PromiseInv, NoCallbackLost
<1> QED
  BY <1>1 DEF Others, Same

(* MoveToDisconnected, by whom it may be called.                           *)
LEMMA MoveToDisconnectedMoves ==
    ASSUME TypeOK, PromiseInv, NEW t \in Threads, NEW e \in RpcErrors, e.base # "SUCCESS",
           MoveToDisconnected(t, e), pc[t] # "work",
           accepted' = accepted, loopOf' = loopOf, cbs' = cbs,
           \/ shared.currentState = "PendingConnect"
           \/ \E k \in Attempts : InCLayer(k) /\ loopOf[k] = t
    PROVE  MovesContext(t)
<1> DEFINE ctx == shared.callbackContext
<1>1. ctx \in Contexts
  BY DEF TypeOK, SharedStates
<1>2. /\ Others(t) /\ shared'.callbackContext = NoContext
      /\ shared'.hasShutDown = shared.hasShutDown
      /\ frame'[t].ctx = IF shared.hasShutDown THEN NoContext ELSE Work(SetError(ctx, e))
  BY MoveToDisconnectedEffect
<1>3. /\ Work(SetError(ctx, e)).action = ctx.action
      /\ ctx.action # "None" => Work(SetError(ctx, e)).attempt = ctx.attempt
  BY <1>1, WorkFields
<1>4. shared.hasShutDown => ctx.action = "None"
  BY DEF PromiseInv, ContextOfState
<1>5. frame[t].ctx.action = "None"
  BY DEF PromiseInv, NoCallbackLost
<1>6. ctx.action = "DisconnectionCallback" => t = loopOf[ctx.attempt]
  <2>1. CASE shared.currentState = "PendingConnect"
    BY <2>1, <1>4 DEF PromiseInv, ContextOfState
  <2>2. CASE \E k \in Attempts : InCLayer(k) /\ loopOf[k] = t
    BY <2>2 DEF PromiseInv, ContextOfState
  <2> QED
    BY <2>1, <2>2
<1>7. frame'[t].ctx.action = ctx.action /\ (ctx.action # "None" => frame'[t].ctx.attempt = ctx.attempt)
  BY <1>2, <1>3, <1>4, NoContextHolds
<1>8. shared'.callbackContext.action = "None" /\ Steady
  BY <1>2, NoContextHolds DEF Steady
<1> QED
  BY <1>2, <1>5, <1>6, <1>7, <1>8 DEF MovesContext, Others

LEMMA CloseInternalContexts ==
    ASSUME TypeOK, PromiseInv, NEW t \in Threads, NEW isShutdown \in BOOLEAN,
           CloseInternal(t, isShutdown), pc[t] # "work",
           accepted' = accepted, loopOf' = loopOf, cbs' = cbs
    PROVE  ContextStep
<1> DEFINE ctx == shared.callbackContext
<1>1. ctx \in Contexts /\ Closed \in RpcErrors /\ Closed.base # "SUCCESS"
  BY ErrorTypes DEF TypeOK, SharedStates, Closed, RpcError
<1>2. /\ Others(t)
      /\ frame'[t].ctx = IF isShutdown THEN Work(SetError(ctx, Closed)) ELSE NoContext
      /\ shared'.callbackContext = IF isShutdown THEN NoContext ELSE SetError(ctx, Closed)
      /\ shared'.hasShutDown <=> (shared.hasShutDown \/ isShutdown)
  BY CloseInternalEffect
<1>3. Steady
  BY <1>2 DEF Steady
<1>4. CASE isShutdown
  <2>1. /\ Work(SetError(ctx, Closed)).action = ctx.action
        /\ ctx.action # "None" => Work(SetError(ctx, Closed)).attempt = ctx.attempt
    BY <1>1, WorkFields
  <2>2. frame[t].ctx.action = "None" /\ shared'.callbackContext.action = "None"
    BY <1>2, <1>4, NoContextHolds DEF PromiseInv, NoCallbackLost
  <2>3. MovesContext(t)
    BY <1>2, <1>3, <1>4, <2>1, <2>2 DEF MovesContext, Others
  <2> QED
    BY <2>3 DEF ContextStep
<1>5. CASE ~isShutdown
  <2>1. \A u \in Threads : Same(u)
    BY <1>2, <1>5, ContextsStay
  <2>2. KeepsContexts
    BY <1>1, <1>2, <1>3, <1>5, <2>1, SetErrorHolds DEF KeepsContexts
  <2> QED
    BY <2>2 DEF ContextStep
<1> QED
  BY <1>4, <1>5

(* A thread that touches no context but shared state's error.              *)
LEMMA KeepsContextsStep ==
    ASSUME TypeOK, PromiseInv, NEW t \in Threads, Others(t), pc[t] # "work",
           frame'[t].ctx = NoContext,
           accepted' = accepted, loopOf' = loopOf, cbs' = cbs,
           shared.hasShutDown => shared'.hasShutDown,
           \/ shared'.callbackContext = shared.callbackContext
           \/ \E e \in RpcErrors : /\ e.base # "SUCCESS"
                                   /\ shared'.callbackContext = SetError(shared.callbackContext, e)
    PROVE  ContextStep
<1>1. \A u \in Threads : Same(u)
  BY ContextsStay
<1>2. shared.callbackContext \in Contexts
  BY DEF TypeOK, SharedStates
<1>3. /\ shared'.callbackContext.action = shared.callbackContext.action
      /\ shared'.callbackContext.attempt = shared.callbackContext.attempt
  BY <1>2, SetErrorHolds
<1> QED
  BY <1>1, <1>3 DEF ContextStep, KeepsContexts, Steady

LEMMA AppCallsContexts ==
    ASSUME TypeOK, SafetyInv, PromiseInv, NEW t \in AppThreads, AppCalls(t)
    PROVE  ContextStep
<1>0. t \in Threads
  BY DEF Threads
<1>1. CASE ConnectInvalid(t) \/ ConnectRefused(t)
  <2>1. /\ shared' = shared /\ frame' = frame /\ accepted' = accepted /\ loopOf' = loopOf
        /\ cbs' = cbs
    BY <1>1 DEF ConnectInvalid, ConnectRefused, sdkVars, threadVars, clibVars, historyVars
  <2> QED
    BY <2>1 DEF ContextStep, KeepsContexts, Steady, Same
<1>2. CASE ConnectBegin(t)
  <2> DEFINE f == [NoWork EXCEPT !.k = calls + 1]
  <2>1. f.ctx = NoContext
    BY DEF NoWork
  <2>2. Goto(t, "connect", f)
    BY <1>2 DEF ConnectBegin
  <2> HIDE DEF f
  <2>3. Others(t) /\ frame'[t].ctx = NoContext
    BY <1>0, <2>1, <2>2, GotoFrame
  <2>4. /\ accepted' = accepted /\ loopOf' = loopOf /\ cbs' = cbs
        /\ pc[t] = "ready" /\ shared.currentState = "Disconnected"
        /\ shared'.callbackContext = ConnectContext(calls + 1)
        /\ shared'.hasShutDown = shared.hasShutDown
    BY <1>2
    DEF ConnectBegin, MayCall, MayConnect, OptimisticConnect, clibVars, historyVars,
        TypeOK, SharedStates
  <2>5. shared.callbackContext.action = "None"
    BY <2>4 DEF PromiseInv, ContextOfState
  <2>6. \A u \in Threads : Same(u)
    BY <1>0, <2>3, <2>4, ContextsStay
  <2> QED
    BY <2>4, <2>5, <2>6 DEF ContextStep, MakesContext, Steady
<1>3. CASE Close(t) \/ Shutdown(t)
  <2>1. \E b \in BOOLEAN : CloseInternal(t, b)
    BY <1>3 DEF Close, Shutdown
  <2>2. /\ accepted' = accepted /\ loopOf' = loopOf /\ cbs' = cbs /\ pc[t] = "ready"
    BY <1>3 DEF Close, Shutdown, MayCall, historyVars
  <2> QED
    BY <1>0, <2>1, <2>2, CloseInternalContexts
<1> QED
  BY <1>1, <1>2, <1>3 DEF AppCalls

LEMMA StepContexts ==
    ASSUME TypeOK, SafetyInv, PromiseInv, NEW t \in Threads, Step(t) PROVE ContextStep
<1>f. frame[t] \in Frames
  BY DEF TypeOK, ThreadsOK
<1>1. CASE ConnectStarts(t) \/ SendConnect(t)
  <2>1. /\ Continue(t, NoWork) /\ shared' = shared /\ accepted' = accepted
        /\ loopOf' = loopOf /\ cbs' = cbs /\ pc[t] # "work"
    BY <1>1 DEF ConnectStarts, SendConnect, sdkVars, historyVars
  <2>2. Others(t) /\ frame'[t].ctx = NoContext
    BY <2>1, NoWorkFields, ContinueFrame
  <2> QED
    BY <2>1, <2>2, KeepsContextsStep
<1>2. CASE ConnectFails(t)
  <2> DEFINE e == RpcError("CONNECTION_SETUP_FAILED", "err")
  <2>1. e \in RpcErrors /\ e.base # "SUCCESS"
    BY ErrorTypes DEF Bases, RpcError
  <2>2. /\ MoveToDisconnected(t, e) /\ pc[t] = "connect"
        /\ accepted' = accepted /\ loopOf' = loopOf /\ cbs' = cbs
    BY <1>2 DEF ConnectFails, historyVars
  <2> HIDE DEF e
  <2>3. shared.currentState = "PendingConnect"
    BY <2>2 DEF SafetyInv, StateOfAttempt
  <2>4. MovesContext(t)
    BY <2>1, <2>2, <2>3, MoveToDisconnectedMoves
  <2> QED
    BY <2>4 DEF ContextStep
<1>3. CASE SendConnectFails(t)
  <2> DEFINE f == [NoWork EXCEPT !.close = frame[t].k]
             e == RpcError("CRT_ERROR", "err")
  <2>1. f.ctx = NoContext
    BY DEF NoWork
  <2>2. e \in RpcErrors /\ e.base # "SUCCESS"
    BY ErrorTypes DEF Bases, RpcError
  <2>3. /\ Continue(t, f) /\ pc[t] = "send"
        /\ accepted' = accepted /\ loopOf' = loopOf /\ cbs' = cbs
        /\ shared'.callbackContext = SetError(shared.callbackContext, e)
        /\ shared'.hasShutDown = shared.hasShutDown
    BY <1>3 DEF SendConnectFails, clibVars, historyVars, TypeOK, SharedStates
  <2> HIDE DEF f, e
  <2>4. Others(t) /\ frame'[t].ctx = NoContext
    BY <2>1, <2>3, ContinueFrame
  <2> QED
    BY <2>2, <2>3, <2>4, KeepsContextsStep
<1>4. CASE CloseAfterUnknownMessage(t)
  <2>1. /\ CloseInternal(t, FALSE) /\ pc[t] = "protocolError"
        /\ accepted' = accepted /\ loopOf' = loopOf /\ cbs' = cbs
    BY <1>4 DEF CloseAfterUnknownMessage, historyVars
  <2> QED
    BY <2>1, CloseInternalContexts
<1>5. CASE InvokeCallback(t)
  <2> DEFINE ctx == frame[t].ctx
             after == IF ctx.action = "CompleteConnectPromise"
                      THEN [ctx EXCEPT !.action = "SetConnectPromise"] ELSE NoContext
             f == [frame[t] EXCEPT !.ctx = after]
  <2>1. f.ctx = after
    BY <1>f DEF Frames
  <2>2. /\ Continue(t, f) /\ ctx.action \in {"CompleteConnectPromise", "DisconnectionCallback"}
        /\ shared' = shared /\ accepted' = accepted /\ loopOf' = loopOf
    BY <1>5 DEF InvokeCallback, sdkVars, clibVars
  <2> HIDE DEF f
  <2>3. Others(t) /\ frame'[t].ctx = after
    BY <2>1, <2>2, ContinueFrame
  <2>4. \A k \in Attempts : cbs'[k] = IF k = ctx.attempt
                                     THEN Append(cbs[k], CallbackOf(ctx)) ELSE cbs[k]
    BY <1>5 DEF InvokeCallback, TypeOK
  <2>5. \/ ctx.action = "CompleteConnectPromise"
           /\ frame'[t].ctx = [ctx EXCEPT !.action = "SetConnectPromise"]
        \/ ctx.action = "DisconnectionCallback" /\ frame'[t].ctx.action = "None"
    BY <2>2, <2>3, NoContextHolds
  <2>6. CallsBack(t)
    BY <2>2, <2>3, <2>4, <2>5 DEF CallsBack, Steady, Others
  <2> QED
    BY <2>6 DEF ContextStep
<1>6. CASE SetConnectPromise(t)
  <2> DEFINE f == [frame[t] EXCEPT !.ctx = NoContext]
  <2>1. f.ctx = NoContext
    BY <1>f DEF Frames
  <2>2. /\ Continue(t, f) /\ frame[t].ctx.action = "SetConnectPromise" /\ cbs' = cbs
        /\ shared' = shared /\ accepted' = accepted /\ loopOf' = loopOf
    BY <1>6 DEF SetConnectPromise, sdkVars, clibVars, historyVars
  <2> HIDE DEF f
  <2>3. Others(t) /\ frame'[t].ctx.action = "None"
    BY <2>1, <2>2, ContinueFrame, NoContextHolds
  <2>4. Answers(t)
    BY <2>2, <2>3 DEF Answers, Steady, Others
  <2> QED
    BY <2>4 DEF ContextStep
<1>7. ASSUME Works(t), ~InvokeCallback(t), ~SetConnectPromise(t) PROVE ContextStep
  <2>1. /\ Others(t) /\ shared' = shared /\ loopOf' = loopOf /\ accepted' = accepted
        /\ frame'[t].ctx = frame[t].ctx
    BY <1>7, WorksEffect
  <2>2. cbs' = cbs
    BY <1>7
    DEF Works, CompleteFlush, InvokeFlushCallback, CloseConnection, ScheduleClearTask,
        DropHandle, historyVars
  <2> QED
    BY <2>1, <2>2 DEF ContextStep, KeepsContexts, Steady, Same, Others
<1> QED
  BY <1>1, <1>2, <1>3, <1>4, <1>5, <1>6, <1>7 DEF Step, Works

LEMMA ConnackAcceptedContexts ==
    ASSUME TypeOK, SafetyInv, PromiseInv, NEW l \in Loops, NEW k \in Attempts,
           ConnackAccepted(l, k)
    PROVE  SplitsContext(l, k)
<1> DEFINE ctx == shared.callbackContext
           f == [NoWork EXCEPT !.ctx = ConnectedContext(ctx)]
<1>0. l \in Threads
  BY DEF Threads
<1>1. f.ctx = ConnectedContext(ctx)
  BY DEF NoWork
<1>2. /\ Continue(l, f) /\ pc[l] = "ready" /\ loopOf[k] = l /\ IsUp(k)
      /\ shared.currentState = "PendingConnack"
      /\ accepted' = accepted \cup {k} /\ loopOf' = loopOf /\ cbs' = cbs
      /\ shared'.hasShutDown = shared.hasShutDown
      /\ shared'.callbackContext = DisconnectContext(ctx)
  BY DEF ConnackAccepted, Receives, OnLoop, AwaitsConnack, clibVars, TypeOK, SharedStates, IsUp
<1> HIDE DEF f
<1>3. Others(l) /\ frame'[l].ctx = ConnectedContext(ctx)
  BY <1>0, <1>1, <1>2, ContinueFrame
<1>4. shared.desiredState = "Connected"
  BY <1>2 DEF SafetyInv, CloseTakesEffect
<1>5. ~shared.hasShutDown
  BY <1>4 DEF PromiseInv, ContextOfState
<1>6. ctx.action = "CompleteConnectPromise" /\ ctx.attempt = k
  BY <1>2, <1>5 DEF PromiseInv, ContextOfState, InCLayer
<1>7. /\ ConnectedContext(ctx) = ConnectContext(k)
      /\ DisconnectContext(ctx).action = "DisconnectionCallback"
      /\ DisconnectContext(ctx).attempt = k
  BY <1>6 DEF ConnectedContext, ConnectContext, DisconnectContext
<1>8. frame[l].ctx.action = "None"
  BY <1>0, <1>2 DEF PromiseInv, NoCallbackLost
<1> QED
  BY <1>2, <1>3, <1>6, <1>7, <1>8 DEF SplitsContext, Others

LEMMA LoopEventsContexts ==
    ASSUME TypeOK, SafetyInv, PromiseInv, NEW l \in Loops, NEW k \in Attempts,
           LoopEvents(l, k)
    PROVE  ContextStep
<1>0. l \in Threads
  BY DEF Threads
<1>r. pc[l] = "ready" /\ loopOf[k] = l
  BY DEF LoopEvents, SetupCompletes, ShutdownCompletes, Messages, SetupFails, SetupAbandoned,
         SetupSucceeds, ConnectionShutdown, ConnackAccepted, ConnackRefused, Ping,
         UnknownMessage, ConnectFlushed, Receives, OnLoop
<1>1. CASE SetupFails(l, k)
  <2> DEFINE e == RpcError("CRT_ERROR", "err")
  <2>1. e \in RpcErrors /\ e.base # "SUCCESS"
    BY ErrorTypes DEF Bases, RpcError
  <2>2. /\ MoveToDisconnected(l, e) /\ InCLayer(k)
        /\ accepted' = accepted /\ loopOf' = loopOf /\ cbs' = cbs
    BY <1>1 DEF SetupFails, historyVars, InCLayer
  <2> HIDE DEF e
  <2>3. MovesContext(l)
    BY <1>0, <1>r, <2>1, <2>2, MoveToDisconnectedMoves
  <2> QED
    BY <1>0, <2>3 DEF ContextStep
<1>2. ASSUME NEW code \in ShutdownCodes, ConnectionShutdown(l, k, code) PROVE ContextStep
  <2> DEFINE e == RpcError("CONNECTION_CLOSED", code)
  <2>1. e \in RpcErrors /\ e.base # "SUCCESS"
    BY ErrorTypes, ConnectionAssumption DEF Bases, RpcError
  <2>2. /\ MoveToDisconnected(l, e) /\ InCLayer(k)
        /\ accepted' = accepted /\ loopOf' = loopOf /\ cbs' = cbs
    BY <1>2 DEF ConnectionShutdown, historyVars, InCLayer, IsUp
  <2> HIDE DEF e
  <2>3. MovesContext(l)
    BY <1>0, <1>r, <2>1, <2>2, MoveToDisconnectedMoves
  <2> QED
    BY <1>0, <2>3 DEF ContextStep
<1>3. ASSUME NEW f, Continue(l, f), f.ctx = NoContext,
             accepted' = accepted, loopOf' = loopOf, cbs' = cbs,
             shared'.hasShutDown = shared.hasShutDown,
             \/ shared'.callbackContext = shared.callbackContext
             \/ \E e \in RpcErrors :
                   /\ e.base # "SUCCESS"
                   /\ shared'.callbackContext = SetError(shared.callbackContext, e)
      PROVE  ContextStep
  <2>1. Others(l) /\ frame'[l].ctx = NoContext
    BY <1>0, <1>3, ContinueFrame
  <2> QED
    BY <1>0, <1>r, <1>3, <2>1, KeepsContextsStep
<1>4. CASE SetupAbandoned(l, k)
  <2> DEFINE f == [NoWork EXCEPT !.close = k]
  <2>1. f.ctx = NoContext
    BY DEF NoWork
  <2>2. /\ Continue(l, f) /\ accepted' = accepted /\ loopOf' = loopOf /\ cbs' = cbs
        /\ shared'.hasShutDown = shared.hasShutDown
        /\ shared'.callbackContext = shared.callbackContext
    BY <1>4 DEF SetupAbandoned, historyVars, TypeOK, SharedStates
  <2> HIDE DEF f
  <2> QED
    BY <1>3, <2>1, <2>2
<1>5. CASE SetupSucceeds(l, k)
  <2> DEFINE f == [NoWork EXCEPT !.k = k]
  <2>1. f.ctx = NoContext
    BY DEF NoWork
  <2>2. /\ Goto(l, "send", f) /\ accepted' = accepted /\ loopOf' = loopOf /\ cbs' = cbs
        /\ shared'.hasShutDown = shared.hasShutDown
        /\ shared'.callbackContext = shared.callbackContext
    BY <1>5 DEF SetupSucceeds, historyVars, TypeOK, SharedStates
  <2> HIDE DEF f
  <2>3. Others(l) /\ frame'[l].ctx = NoContext
    BY <1>0, <2>1, <2>2, GotoFrame
  <2> QED
    BY <1>0, <1>r, <2>2, <2>3, KeepsContextsStep
<1>6. CASE ConnackAccepted(l, k)
  BY <1>6, ConnackAcceptedContexts DEF ContextStep
<1>7. ASSUME NEW ok \in BOOLEAN, ConnackRefused(l, k, ok) PROVE ContextStep
  <2> DEFINE f == [NoWork EXCEPT
                     !.close = IF shared.currentState # "Disconnecting" THEN k ELSE 0]
             e == RpcError(IF ok THEN "CONNECTION_CLOSED" ELSE "CONNECTION_ACCESS_DENIED", "ok")
  <2>1. f.ctx = NoContext
    BY DEF NoWork
  <2>2. e \in RpcErrors /\ e.base # "SUCCESS"
    BY ErrorTypes DEF Bases, RpcError
  <2>3. /\ Continue(l, f) /\ accepted' = accepted /\ loopOf' = loopOf /\ cbs' = cbs
        /\ shared'.hasShutDown = shared.hasShutDown
        /\ shared'.callbackContext = IF shared.hasShutDown THEN shared.callbackContext
                                     ELSE SetError(shared.callbackContext, e)
    BY <1>7 DEF ConnackRefused, historyVars, TypeOK, SharedStates
  <2> HIDE DEF f, e
  <2>4. \/ shared'.callbackContext = shared.callbackContext
        \/ shared'.callbackContext = SetError(shared.callbackContext, e)
    BY <2>3
  <2> QED
    BY <1>3, <2>1, <2>2, <2>3, <2>4
<1>8. CASE Ping(l, k)
  <2>1. /\ shared' = shared /\ frame' = frame /\ accepted' = accepted /\ loopOf' = loopOf
        /\ cbs' = cbs
    BY <1>8 DEF Ping, sdkVars, threadVars, clibVars
  <2> QED
    BY <2>1 DEF ContextStep, KeepsContexts, Steady, Same
<1>9. CASE UnknownMessage(l, k)
  <2>1. /\ Goto(l, "protocolError", NoWork) /\ shared' = shared /\ accepted' = accepted
        /\ loopOf' = loopOf /\ cbs' = cbs
    BY <1>9 DEF UnknownMessage, sdkVars, clibVars
  <2>2. Others(l) /\ frame'[l].ctx = NoContext
    BY <1>0, <2>1, NoWorkFields, GotoFrame
  <2> QED
    BY <1>0, <1>r, <2>1, <2>2, KeepsContextsStep
<1>10. CASE ConnectFlushed(l, k)
  <2> DEFINE f == [NoWork EXCEPT !.flush = k]
  <2>1. f.ctx = NoContext
    BY DEF NoWork
  <2>2. /\ Continue(l, f) /\ accepted' = accepted /\ loopOf' = loopOf /\ cbs' = cbs
        /\ shared' = shared
    BY <1>10 DEF ConnectFlushed, sdkVars, historyVars
  <2> HIDE DEF f
  <2> QED
    BY <1>3, <2>1, <2>2
<1> QED
  BY <1>1, <1>2, <1>4, <1>5, <1>6, <1>7, <1>8, <1>9, <1>10
  DEF LoopEvents, SetupCompletes, ShutdownCompletes, Messages

LEMMA NextContexts ==
    ASSUME TypeOK, SafetyInv, PromiseInv, [Next]_vars PROVE ContextStep
<1>1. CASE UNCHANGED vars \/ RunClearTask \/ \E k \in Attempts : PeerCloses(k)
  <2>1. /\ shared' = shared /\ frame' = frame /\ accepted' = accepted /\ loopOf' = loopOf
        /\ cbs' = cbs
    BY <1>1
    DEF RunClearTask, PeerCloses, vars, sdkVars, threadVars, clibVars, historyVars
  <2> QED
    BY <2>1 DEF ContextStep, KeepsContexts, Steady, Same
<1> QED
  BY <1>1, AppCallsContexts, StepContexts, LoopEventsContexts DEF Next, Terminated

-----------------------------------------------------------------------------
(* An accepted attempt.                                                    *)

(* Its promise has left shared state, and can only be given success.       *)
OpenOf(k) ==
    /\ ~Fresh(k)
    /\ ~HoldsPromise(shared.callbackContext, k)
    /\ \A t \in Threads : HoldsPromise(frame[t].ctx, k) => frame[t].ctx.error = Success

OpenInv == \A k \in accepted : OpenOf(k)

LEMMA NextOpen ==
    ASSUME TypeOK, TypeOK', SafetyInv, PromiseInv, AttemptsKnown, OpenInv, [Next]_vars
    PROVE  OpenInv'
<1>1. \A k \in Attempts : Fresh(k)' => Fresh(k)
  BY NextFresh
<1>2. ContextStep
  BY NextContexts
<1>3. ASSUME NEW k \in accepted', k \in accepted,
             ~HoldsPromise(shared'.callbackContext, k),
             \A t \in Threads : HoldsPromise(frame'[t].ctx, k) =>
                 \/ frame'[t].ctx = frame[t].ctx
                 \/ frame'[t].ctx.error = Success
      PROVE  OpenOf(k)'
  <2>1. OpenOf(k) /\ k \in Attempts
    BY <1>3 DEF OpenInv, TypeOK
  <2>2. ~Fresh(k)'
    BY <1>1, <2>1 DEF OpenOf
  <2>3. \A t \in Threads : HoldsPromise(frame'[t].ctx, k) => frame'[t].ctx.error = Success
    BY <1>3, <2>1 DEF OpenOf
  <2> QED
    BY <1>3, <2>2, <2>3 DEF OpenOf, HoldsPromise
<1> SUFFICES ASSUME NEW k \in accepted' PROVE OpenOf(k)'
  BY DEF OpenInv
<1>a. accepted \subseteq Attempts /\ accepted' \subseteq Attempts
  BY DEF TypeOK
<1>4. CASE KeepsContexts
  <2>1. k \in accepted /\ k \in Attempts
    BY <1>4, <1>a DEF KeepsContexts, Steady
  <2>2. ~HoldsPromise(shared'.callbackContext, k)
    BY <1>4, <2>1 DEF KeepsContexts, OpenInv, OpenOf, HoldsPromise
  <2>3. \A t \in Threads : HoldsPromise(frame'[t].ctx, k) => frame'[t].ctx = frame[t].ctx
    BY <1>4 DEF KeepsContexts, Same, HoldsPromise
  <2> QED
    BY <1>3, <2>1, <2>2, <2>3
<1>5. CASE MakesContext
  <2>1. k \in accepted /\ k \in Attempts
    BY <1>5, <1>a DEF MakesContext, Steady
  <2>2. ~(k > calls) /\ k \in Nat /\ calls \in Nat
    BY <2>1, AttemptsAreNumbers DEF OpenInv, OpenOf, Fresh, TypeOK
  <2>3. ~HoldsPromise(shared'.callbackContext, k)
    <3>1. k # calls + 1
      BY <2>2
    <3> QED
      BY <1>5, <3>1 DEF MakesContext, ConnectContext, HoldsPromise
  <2>4. \A t \in Threads : HoldsPromise(frame'[t].ctx, k) => frame'[t].ctx = frame[t].ctx
    BY <1>5 DEF MakesContext, Same, HoldsPromise
  <2> QED
    BY <1>3, <2>1, <2>3, <2>4
<1>6. ASSUME NEW t \in Threads, MovesContext(t) PROVE OpenOf(k)'
  <2>1. k \in accepted /\ k \in Attempts
    BY <1>6, <1>a DEF MovesContext, Steady
  <2>2. ~HoldsPromise(shared'.callbackContext, k) /\ ~HoldsPromise(frame'[t].ctx, k)
    BY <1>6, <2>1 DEF MovesContext, OpenInv, OpenOf, HoldsPromise
  <2>3. \A u \in Threads : HoldsPromise(frame'[u].ctx, k) => frame'[u].ctx = frame[u].ctx
    BY <1>6, <2>2 DEF MovesContext
  <2> QED
    BY <1>3, <2>1, <2>2, <2>3
<1>7. ASSUME NEW t \in Threads, CallsBack(t) PROVE OpenOf(k)'
  <2>1. k \in accepted /\ k \in Attempts
    BY <1>7, <1>a DEF CallsBack, Steady
  <2>2. ~HoldsPromise(shared'.callbackContext, k)
    BY <1>7, <2>1 DEF CallsBack, OpenInv, OpenOf
  <2>3. HoldsPromise(frame'[t].ctx, k) => frame'[t].ctx.error = Success
    <3>1. frame[t].ctx \in Contexts
      BY DEF TypeOK, ThreadsOK, Frames
    <3>2. CASE frame'[t].ctx.action = "None"
      BY <3>2 DEF HoldsPromise
    <3>3. CASE /\ frame[t].ctx.action = "CompleteConnectPromise"
               /\ frame'[t].ctx = [frame[t].ctx EXCEPT !.action = "SetConnectPromise"]
      <4>1. /\ frame'[t].ctx.attempt = frame[t].ctx.attempt
            /\ frame'[t].ctx.error = frame[t].ctx.error
        BY <3>1, <3>3 DEF Contexts
      <4>2. HoldsPromise(frame[t].ctx, k) => frame[t].ctx.error = Success
        BY <2>1 DEF OpenInv, OpenOf
      <4> QED
        BY <3>3, <4>1, <4>2 DEF HoldsPromise
    <3> QED
      BY <1>7, <3>2, <3>3 DEF CallsBack
  <2> QED
    BY <1>3, <1>7, <2>1, <2>2, <2>3 DEF CallsBack
<1>8. ASSUME NEW t \in Threads, Answers(t) PROVE OpenOf(k)'
  <2>1. k \in accepted /\ k \in Attempts
    BY <1>8, <1>a DEF Answers, Steady
  <2>2. ~HoldsPromise(shared'.callbackContext, k) /\ ~HoldsPromise(frame'[t].ctx, k)
    BY <1>8, <2>1 DEF Answers, OpenInv, OpenOf, HoldsPromise
  <2> QED
    BY <1>3, <1>8, <2>1, <2>2 DEF Answers
<1>9. ASSUME NEW l \in Loops, NEW j \in Attempts, SplitsContext(l, j) PROVE OpenOf(k)'
  <2>1. ~HoldsPromise(shared'.callbackContext, k)
    BY <1>9 DEF SplitsContext, HoldsPromise
  <2>2. /\ ConnectContext(j).error = Success /\ ConnectContext(j).attempt = j
    BY DEF ConnectContext
  <2>3. CASE k # j
    BY <1>3, <1>9, <2>1, <2>2, <2>3 DEF SplitsContext, HoldsPromise
  <2>4. CASE k = j
    <3>1. IsUp(k) /\ ~Fresh(k)
      BY <1>9, <2>4, UpIsNotFresh DEF SplitsContext
    <3>2. ~Fresh(k)'
      BY <1>1, <1>a, <3>1
    <3>3. HeldOnce(k) /\ HoldsPromise(shared.callbackContext, k)
      BY <1>9, <2>4, HeldOnceMeaning DEF PromiseInv, SplitsContext, HoldsPromise
    <3>4. \A u \in Threads : ~HoldsPromise(frame[u].ctx, k)
      BY <3>3 DEF HeldOnce
    <3>5. \A u \in Threads : HoldsPromise(frame'[u].ctx, k) => frame'[u].ctx.error = Success
      BY <1>9, <2>2, <3>4 DEF SplitsContext
    <3> QED
      BY <2>1, <3>2, <3>5 DEF OpenOf, HoldsPromise
  <2> QED
    BY <2>3, <2>4
<1> QED
  BY <1>2, <1>4, <1>5, <1>6, <1>7, <1>8, <1>9 DEF ContextStep

LEMMA OpenInvHolds == Spec => []OpenInv
<1>1. Init => OpenInv
  BY DEF Init, OpenInv
<1>2. /\ TypeOK /\ TypeOK' /\ SafetyInv /\ PromiseInv /\ AttemptsKnown /\ OpenInv
      /\ [Next]_vars
      => OpenInv'
  BY NextOpen
<1> QED
  BY <1>1, <1>2, TypeCorrect, SafetyInvHolds, PromiseInvHolds, AttemptsKnownHolds, PTL DEF Spec

-----------------------------------------------------------------------------
(* The lifecycle callbacks of an attempt.                                  *)

Connects(ctx, k) == ctx.action = "CompleteConnectPromise" /\ ctx.attempt = k
Disconnects(ctx, k) == ctx.action = "DisconnectionCallback" /\ ctx.attempt = k

(* Before CONNECT_ACK there is nothing to disconnect, and one callback at  *)
(* most, made by the context that sets the promise.                        *)
Unaccepted(k) ==
    /\ ~Disconnects(shared.callbackContext, k)
    /\ \A t \in Threads : ~Disconnects(frame[t].ctx, k)
    /\ cbs[k] \in {<<>>, <<"OnError">>, <<"OnConnect">>}
    /\ cbs[k] # <<>> => /\ ~Connects(shared.callbackContext, k)
                        /\ \A t \in Threads : ~Connects(frame[t].ctx, k)

(* The OnConnect of an accepted attempt is with its loop until it is made; *)
(* its OnDisconnect is with shared state or one thread, and a thread that  *)
(* has it before the OnConnect was made has it from the destructor.        *)
Accepted(k) ==
    /\ \A t \in Threads : Connects(frame[t].ctx, k) =>
          /\ t = loopOf[k]
          /\ \/ cbs[k] = <<>>
             \/ shared.hasShutDown /\ cbs[k] = <<"OnDisconnect">>
    /\ cbs[k] = <<>> => \E t \in Threads : Connects(frame[t].ctx, k)
    /\ Disconnects(shared.callbackContext, k) =>
          /\ \A t \in Threads : ~Disconnects(frame[t].ctx, k)
          /\ cbs[k] \in {<<>>, <<"OnConnect">>}
    /\ \A t \in Threads : Disconnects(frame[t].ctx, k) =>
          /\ \A u \in Threads : Disconnects(frame[u].ctx, k) => t = u
          /\ \/ cbs[k] = <<"OnConnect">>
             \/ shared.hasShutDown /\ cbs[k] = <<>>
    /\ \/ cbs[k] \in {<<>>, <<"OnConnect">>, <<"OnConnect", "OnDisconnect">>}
       \/ /\ shared.hasShutDown
          /\ cbs[k] \in {<<"OnDisconnect">>, <<"OnDisconnect", "OnConnect">>}

OrderOf(k) == IF k \in accepted THEN Accepted(k) ELSE Unaccepted(k)

OrderInv == \A k \in Attempts : OrderOf(k) /\ (k > calls => cbs[k] = <<>>)

LEMMA OrderKept ==
    ASSUME NEW k \in Attempts, OrderOf(k), k \in accepted' <=> k \in accepted,
           cbs'[k] = cbs[k], loopOf'[k] = loopOf[k],
           shared.hasShutDown => shared'.hasShutDown,
           Connects(shared'.callbackContext, k) =>
              Connects(shared.callbackContext, k) \/ cbs[k] = <<>>,
           Disconnects(shared'.callbackContext, k) => Disconnects(shared.callbackContext, k),
           \A t \in Threads : Connects(frame'[t].ctx, k) <=> Connects(frame[t].ctx, k),
           \A t \in Threads : Disconnects(frame'[t].ctx, k) => Disconnects(frame[t].ctx, k)
    PROVE  OrderOf(k)'
<1>1. CASE k \in accepted
  <2>1. Accepted(k)
    BY <1>1 DEF OrderOf
  <2>2. Accepted(k)'
    BY <2>1 DEF Accepted, Connects, Disconnects
  <2> QED
    BY <1>1, <2>2 DEF OrderOf
<1>2. CASE k \notin accepted
  <2>1. Unaccepted(k)
    BY <1>2 DEF OrderOf
  <2>2. Unaccepted(k)'
    BY <2>1 DEF Unaccepted, Connects, Disconnects
  <2> QED
    BY <1>2, <2>2 DEF OrderOf
<1> QED
  BY <1>1, <1>2

LEMMA AppendSecond ==
    ASSUME NEW S, NEW x \in S, NEW y \in S PROVE Append(<<x>>, y) = <<x, y>>
<1>1. <<x>> \in Seq(S) /\ Len(<<x>>) = 1 /\ <<x>>[1] = x
  OBVIOUS
<1>2. <<x, y>> \in Seq(S) /\ Len(<<x, y>>) = 2 /\ <<x, y>>[1] = x /\ <<x, y>>[2] = y
  OBVIOUS
<1>3. ASSUME NEW r \in Seq(S), Len(r) = 1, r[1] = x,
             NEW q \in Seq(S), Len(q) = 2, q[1] = x, q[2] = y
      PROVE  Append(r, y) = q
  <2> DEFINE s == Append(r, y)
  <2>1. s \in Seq(S)
    OBVIOUS
  <2>2. Len(s) = Len(r) + 1
    OBVIOUS
  <2>3. s[Len(r) + 1] = y
    OBVIOUS
  <2>4. \A i \in 1 .. Len(r) : s[i] = r[i]
    OBVIOUS
  <2> HIDE DEF s
  <2>5. Len(s) = 2 /\ s[1] = x /\ s[2] = y
    BY <1>3, <2>2, <2>3, <2>4
  <2>6. \A i \in 1 .. 2 : s[i] = q[i]
    BY <1>3, <2>5
  <2>7. s = q
    BY <1>3, <2>1, <2>5, <2>6, SeqEqual
  <2> QED
    BY <2>7 DEF s
<1> QED
  BY <1>1, <1>2, <1>3

LEMMA Appends ==
    /\ \A x \in {"OnConnect", "OnError", "OnDisconnect"} : Append(<<>>, x) = <<x>>
    /\ Append(<<"OnConnect">>, "OnDisconnect") = <<"OnConnect", "OnDisconnect">>
    /\ Append(<<"OnDisconnect">>, "OnConnect") = <<"OnDisconnect", "OnConnect">>
<1> DEFINE Names == {"OnConnect", "OnError", "OnDisconnect"}
<1>1. <<>> \in Seq(Names)
  OBVIOUS
<1>2. \A x \in Names : Append(<<>>, x) = <<x>>
  BY <1>1
<1>3. \A x, y \in Names : Append(<<x>>, y) = <<x, y>>
  BY AppendSecond
<1>4. "OnConnect" \in Names /\ "OnDisconnect" \in Names
  OBVIOUS
<1> HIDE DEF Names
<1>5. /\ Append(<<"OnConnect">>, "OnDisconnect") = <<"OnConnect", "OnDisconnect">>
      /\ Append(<<"OnDisconnect">>, "OnConnect") = <<"OnDisconnect", "OnConnect">>
  BY <1>3, <1>4
<1> QED
  BY <1>2, <1>5 DEF Names

LEMMA KeepsOrder ==
    ASSUME KeepsContexts, NEW k \in Attempts, OrderOf(k) PROVE OrderOf(k)'
<1>1. \A t \in Threads : /\ Connects(frame'[t].ctx, k) <=> Connects(frame[t].ctx, k)
                         /\ Disconnects(frame'[t].ctx, k) => Disconnects(frame[t].ctx, k)
  BY DEF KeepsContexts, Same, Connects, Disconnects
<1>2. /\ Connects(shared'.callbackContext, k) => Connects(shared.callbackContext, k)
      /\ Disconnects(shared'.callbackContext, k) => Disconnects(shared.callbackContext, k)
  BY DEF KeepsContexts, Connects, Disconnects
<1> QED
  BY <1>1, <1>2, OrderKept DEF KeepsContexts, Steady

LEMMA MakesOrder ==
    ASSUME MakesContext, NEW k \in Attempts, OrderOf(k), k = calls + 1 => cbs[k] = <<>>
    PROVE  OrderOf(k)'
<1>1. \A t \in Threads : /\ Connects(frame'[t].ctx, k) <=> Connects(frame[t].ctx, k)
                         /\ Disconnects(frame'[t].ctx, k) => Disconnects(frame[t].ctx, k)
  BY DEF MakesContext, Same, Connects, Disconnects
<1>2. /\ Connects(shared'.callbackContext, k) => cbs[k] = <<>>
      /\ ~Disconnects(shared'.callbackContext, k)
  BY DEF MakesContext, ConnectContext, Connects, Disconnects
<1> QED
  BY <1>1, <1>2, OrderKept DEF MakesContext, Steady

LEMMA AnswersOrder ==
    ASSUME NEW t \in Threads, Answers(t), NEW k \in Attempts, OrderOf(k) PROVE OrderOf(k)'
<1>1. \A u \in Threads : /\ Connects(frame'[u].ctx, k) <=> Connects(frame[u].ctx, k)
                         /\ Disconnects(frame'[u].ctx, k) => Disconnects(frame[u].ctx, k)
  BY DEF Answers, Connects, Disconnects
<1> QED
  BY <1>1, OrderKept DEF Answers, Steady

LEMMA MovesOrder ==
    ASSUME NEW t \in Threads, MovesContext(t), NEW k \in Attempts, OrderOf(k),
           k \in accepted => OpenOf(k)
    PROVE  OrderOf(k)'
<1> DEFINE ctx == shared.callbackContext
<1>1. /\ \A u \in Threads : u # t => frame'[u].ctx = frame[u].ctx
      /\ ~Connects(frame[t].ctx, k) /\ ~Disconnects(frame[t].ctx, k)
      /\ ~Connects(shared'.callbackContext, k) /\ ~Disconnects(shared'.callbackContext, k)
      /\ Connects(frame'[t].ctx, k) <=> Connects(ctx, k)
      /\ Disconnects(frame'[t].ctx, k) <=> Disconnects(ctx, k)
      /\ cbs' = cbs /\ loopOf' = loopOf /\ accepted' = accepted
      /\ shared.hasShutDown => shared'.hasShutDown
  BY DEF MovesContext, Steady, Connects, Disconnects
<1>2. CASE k \notin accepted
  <2>1. Unaccepted(k)
    BY <1>2 DEF OrderOf
  <2>2. ~Disconnects(ctx, k)
    BY <2>1 DEF Unaccepted
  <2>3. \A u \in Threads : ~Disconnects(frame'[u].ctx, k)
    BY <1>1, <2>1, <2>2 DEF Unaccepted
  <2>4. cbs[k] # <<>> => \A u \in Threads : ~Connects(frame'[u].ctx, k)
    BY <1>1, <2>1 DEF Unaccepted
  <2>5. Unaccepted(k)'
    BY <1>1, <2>1, <2>3, <2>4 DEF Unaccepted, Connects, Disconnects
  <2> QED
    BY <1>1, <1>2, <2>5 DEF OrderOf
<1>3. CASE k \in accepted
  <2>1. Accepted(k)
    BY <1>3 DEF OrderOf
  <2>2. ~Connects(ctx, k)
    BY <1>3 DEF OpenOf, HoldsPromise, Connects
  <2>3. \A u \in Threads : Connects(frame'[u].ctx, k) <=> Connects(frame[u].ctx, k)
    BY <1>1, <2>2
  <2>4. CASE ~Disconnects(ctx, k)
    <3>1. \A u \in Threads : Disconnects(frame'[u].ctx, k) => Disconnects(frame[u].ctx, k)
      BY <1>1, <2>4
    <3> QED
      BY <1>1, <2>3, <3>1, OrderKept
  <2>5. CASE Disconnects(ctx, k)
    <3>1. \A u \in Threads : Disconnects(frame'[u].ctx, k) => u = t
      BY <1>1, <2>1, <2>5 DEF Accepted
    <3>2. cbs[k] \in {<<>>, <<"OnConnect">>}
      BY <2>1, <2>5 DEF Accepted
    <3>3. cbs[k] = <<>> => shared'.hasShutDown
      <4>1. SUFFICES ASSUME cbs[k] = <<>> PROVE shared'.hasShutDown
        OBVIOUS
      <4>2. PICK u \in Threads : Connects(frame[u].ctx, k)
        BY <2>1, <4>1 DEF Accepted
      <4>3. u = loopOf[k] /\ u # t
        BY <1>1, <2>1, <4>2 DEF Accepted
      <4> QED
        BY <2>5, <4>3 DEF MovesContext, Disconnects
    <3>4. Accepted(k)'
      <4>1. \A u \in Threads : Connects(frame'[u].ctx, k) => u = loopOf'[k] /\ cbs'[k] = <<>>
        BY <1>1, <2>1, <2>3, <3>2 DEF Accepted
      <4>2. cbs'[k] = <<>> => \E u \in Threads : Connects(frame'[u].ctx, k)
        BY <1>1, <2>1, <2>3 DEF Accepted
      <4>3. \A u \in Threads : Disconnects(frame'[u].ctx, k) =>
               /\ \A w \in Threads : Disconnects(frame'[w].ctx, k) => u = w
               /\ (cbs'[k] = <<"OnConnect">>) \/ (shared'.hasShutDown /\ cbs'[k] = <<>>)
        BY <1>1, <3>1, <3>2, <3>3
      <4>4. cbs'[k] \in {<<>>, <<"OnConnect">>}
        BY <1>1, <3>2
      <4> QED
        BY <1>1, <4>1, <4>2, <4>3, <4>4 DEF Accepted, Connects, Disconnects
    <3> QED
      BY <1>1, <1>3, <3>4 DEF OrderOf
  <2> QED
    BY <2>4, <2>5
<1> QED
  BY <1>2, <1>3

(* A callback of the promise's context.                                    *)
LEMMA ConnectCallbackOrder ==
    ASSUME TypeOK, PromiseInv, NEW t \in Threads, CallsBack(t), NEW k \in Attempts,
           OrderOf(k), k \in accepted => OpenOf(k), Connects(frame[t].ctx, k)
    PROVE  OrderOf(k)'
<1> DEFINE ctx == frame[t].ctx
<1>0. ctx \in Contexts
  BY DEF TypeOK, ThreadsOK, Frames
<1>1. /\ cbs'[k] = Append(cbs[k], CallbackOf(ctx))
      /\ frame'[t].ctx = [ctx EXCEPT !.action = "SetConnectPromise"]
      /\ \A u \in Threads : u # t => frame'[u].ctx = frame[u].ctx
      /\ shared' = shared /\ accepted' = accepted /\ loopOf' = loopOf
  BY DEF CallsBack, Steady, Connects
<1>2. frame'[t].ctx.action = "SetConnectPromise"
  BY <1>0, <1>1 DEF Contexts
<1>3. /\ ~Connects(shared.callbackContext, k)
      /\ \A u \in Threads : u # t => ~Connects(frame[u].ctx, k)
  <2>1. HeldOnce(k)
    BY HeldOnceMeaning DEF PromiseInv
  <2>2. HoldsPromise(ctx, k)
    BY DEF Connects, HoldsPromise
  <2>3. /\ ~HoldsPromise(shared.callbackContext, k)
        /\ \A u \in Threads : u # t => ~HoldsPromise(frame[u].ctx, k)
    BY <2>1, <2>2 DEF HeldOnce
  <2> QED
    BY <2>3 DEF Connects, HoldsPromise
<1>4. /\ \A u \in Threads : ~Connects(frame'[u].ctx, k)
      /\ \A u \in Threads : Disconnects(frame'[u].ctx, k) => Disconnects(frame[u].ctx, k)
  BY <1>1, <1>2, <1>3 DEF Connects, Disconnects
<1>5. CASE k \notin accepted
  <2>1. Unaccepted(k)
    BY <1>5 DEF OrderOf
  <2>2. cbs[k] = <<>>
    BY <2>1 DEF Unaccepted
  <2>3. CallbackOf(ctx) \in {"OnConnect", "OnError"}
    BY DEF CallbackOf, Connects
  <2>4. cbs'[k] \in {<<"OnError">>, <<"OnConnect">>}
    BY <1>1, <2>2, <2>3, Appends
  <2>5. \A u \in Threads : ~Disconnects(frame'[u].ctx, k)
    BY <1>4, <2>1 DEF Unaccepted
  <2>6. Unaccepted(k)'
    BY <1>1, <1>3, <1>4, <2>1, <2>4, <2>5 DEF Unaccepted, Connects, Disconnects
  <2> QED
    BY <1>1, <1>5, <2>6 DEF OrderOf
<1>6. CASE k \in accepted
  <2>1. Accepted(k)
    BY <1>6 DEF OrderOf
  <2>2. CallbackOf(ctx) = "OnConnect"
    <3>1. ctx.error = Success
      BY <1>6 DEF OpenOf, Connects, HoldsPromise
    <3> QED
      BY <3>1 DEF CallbackOf, Connects, Success, RpcError
  <2>3. \/ cbs[k] = <<>> /\ cbs'[k] = <<"OnConnect">>
        \/ /\ shared.hasShutDown /\ cbs[k] = <<"OnDisconnect">>
           /\ cbs'[k] = <<"OnDisconnect", "OnConnect">>
    <3>1. cbs[k] = <<>> \/ (shared.hasShutDown /\ cbs[k] = <<"OnDisconnect">>)
      BY <2>1 DEF Accepted
    <3> QED
      BY <1>1, <2>2, <3>1, Appends
  <2>4. Disconnects(shared.callbackContext, k) =>
           /\ \A u \in Threads : ~Disconnects(frame'[u].ctx, k)
           /\ cbs'[k] = <<"OnConnect">>
    <3>1. SUFFICES ASSUME Disconnects(shared.callbackContext, k)
                   PROVE  /\ \A u \in Threads : ~Disconnects(frame'[u].ctx, k)
                          /\ cbs'[k] = <<"OnConnect">>
      OBVIOUS
    <3>2. /\ \A u \in Threads : ~Disconnects(frame[u].ctx, k)
          /\ cbs[k] \in {<<>>, <<"OnConnect">>}
      BY <2>1, <3>1 DEF Accepted
    <3> QED
      BY <1>4, <2>3, <3>2
  <2>5. ASSUME NEW u \in Threads, Disconnects(frame'[u].ctx, k)
        PROVE  /\ \A w \in Threads : Disconnects(frame'[w].ctx, k) => u = w
               /\ cbs'[k] = <<"OnConnect">>
    <3>1. Disconnects(frame[u].ctx, k)
      BY <1>4, <2>5
    <3>2. /\ \A w \in Threads : Disconnects(frame[w].ctx, k) => u = w
          /\ cbs[k] = <<"OnConnect">> \/ cbs[k] = <<>>
      BY <2>1, <3>1 DEF Accepted
    <3> QED
      BY <1>4, <2>3, <3>2
  <2>6. Accepted(k)'
    <3>1. /\ cbs'[k] = <<"OnConnect">> \/ cbs'[k] = <<"OnDisconnect", "OnConnect">>
          /\ cbs'[k] # <<>>
      BY <2>3
    <3>2. \/ cbs'[k] \in {<<>>, <<"OnConnect">>, <<"OnConnect", "OnDisconnect">>}
          \/ /\ shared'.hasShutDown
             /\ cbs'[k] \in {<<"OnDisconnect">>, <<"OnDisconnect", "OnConnect">>}
      BY <1>1, <2>3
    <3>3. Disconnects(shared'.callbackContext, k) =>
             /\ \A u \in Threads : ~Disconnects(frame'[u].ctx, k)
             /\ cbs'[k] \in {<<>>, <<"OnConnect">>}
      BY <1>1, <2>4
    <3>4. \A u \in Threads : Disconnects(frame'[u].ctx, k) =>
             /\ \A w \in Threads : Disconnects(frame'[w].ctx, k) => u = w
             /\ cbs'[k] = <<"OnConnect">>
      BY <2>5
    <3> QED
      BY <1>4, <3>1, <3>2, <3>3, <3>4 DEF Accepted
  <2> QED
    BY <1>1, <1>6, <2>6 DEF OrderOf
<1> QED
  BY <1>5, <1>6

(* The callback that reports the end.                                      *)
LEMMA DisconnectCallbackOrder ==
    ASSUME NEW t \in Threads, CallsBack(t), NEW k \in Attempts,
           OrderOf(k), Disconnects(frame[t].ctx, k)
    PROVE  OrderOf(k)'
<1> DEFINE ctx == frame[t].ctx
<1>1. /\ cbs'[k] = Append(cbs[k], CallbackOf(ctx))
      /\ frame'[t].ctx.action = "None"
      /\ \A u \in Threads : u # t => frame'[u].ctx = frame[u].ctx
      /\ shared' = shared /\ accepted' = accepted /\ loopOf' = loopOf
  BY DEF CallsBack, Steady, Disconnects
<1>2. k \in accepted /\ Accepted(k)
  BY DEF OrderOf, Unaccepted
<1>3. CallbackOf(ctx) = "OnDisconnect"
  BY DEF CallbackOf, Disconnects
<1>4. /\ ~Disconnects(shared.callbackContext, k)
      /\ \A u \in Threads : Disconnects(frame[u].ctx, k) => u = t
      /\ \/ cbs[k] = <<"OnConnect">>
         \/ shared.hasShutDown /\ cbs[k] = <<>>
  BY <1>2 DEF Accepted
<1>5. /\ \A u \in Threads : ~Disconnects(frame'[u].ctx, k)
      /\ \A u \in Threads : Connects(frame'[u].ctx, k) <=> Connects(frame[u].ctx, k)
  BY <1>1, <1>4 DEF Connects, Disconnects
<1>6. \/ cbs[k] = <<"OnConnect">> /\ cbs'[k] = <<"OnConnect", "OnDisconnect">>
      \/ shared.hasShutDown /\ cbs[k] = <<>> /\ cbs'[k] = <<"OnDisconnect">>
  BY <1>1, <1>3, <1>4, Appends
<1>7. \A u \in Threads : Connects(frame'[u].ctx, k) =>
         /\ u = loopOf[k] /\ shared.hasShutDown /\ cbs'[k] = <<"OnDisconnect">>
  <2>1. \A u \in Threads : Connects(frame[u].ctx, k) =>
           u = loopOf[k] /\ (cbs[k] = <<>> \/ cbs[k] = <<"OnDisconnect">>)
    BY <1>2 DEF Accepted
  <2> QED
    BY <1>5, <1>6, <2>1
<1>8. Accepted(k)'
  BY <1>1, <1>4, <1>5, <1>6, <1>7 DEF Accepted, Connects, Disconnects
<1> QED
  BY <1>1, <1>2, <1>8 DEF OrderOf

(* CONNECT_ACK, for its attempt and for the others.                        *)
LEMMA SplitsOrder ==
    ASSUME TypeOK, PromiseInv, NEW l \in Loops, NEW j \in Attempts, SplitsContext(l, j),
           NEW k \in Attempts, OrderOf(k), k \in accepted => OpenOf(k)
    PROVE  OrderOf(k)'
<1>0. l \in Threads
  BY DEF Threads
<1>1. /\ accepted' = accepted \cup {j} /\ loopOf' = loopOf /\ cbs' = cbs
      /\ shared'.hasShutDown = shared.hasShutDown
      /\ \A u \in Threads : u # l => frame'[u].ctx = frame[u].ctx
      /\ ~Connects(frame[l].ctx, k) /\ ~Disconnects(frame[l].ctx, k)
      /\ ~Disconnects(frame'[l].ctx, k) /\ (Connects(frame'[l].ctx, k) <=> k = j)
      /\ ~Disconnects(shared.callbackContext, k)
      /\ Connects(shared.callbackContext, k) <=> k = j
      /\ ~Connects(shared'.callbackContext, k)
      /\ Disconnects(shared'.callbackContext, k) <=> k = j
      /\ loopOf[j] = l
  BY DEF SplitsContext, Connects, Disconnects, ConnectContext
<1>2. \A u \in Threads : Disconnects(frame'[u].ctx, k) => Disconnects(frame[u].ctx, k)
  BY <1>1
<1>3. CASE k # j
  <2>1. \A u \in Threads : Connects(frame'[u].ctx, k) <=> Connects(frame[u].ctx, k)
    BY <1>1, <1>3
  <2> QED
    BY <1>1, <1>2, <1>3, <2>1, OrderKept
<1>4. CASE k = j
  <2>1. k \notin accepted
    BY <1>1, <1>4 DEF OpenOf, Connects, HoldsPromise
  <2>2. Unaccepted(k)
    BY <2>1 DEF OrderOf
  <2>3. cbs[k] = <<>>
    BY <1>1, <1>4, <2>2 DEF Unaccepted
  <2>4. \A u \in Threads : ~Connects(frame[u].ctx, k)
    <3>1. HeldOnce(k) /\ HoldsPromise(shared.callbackContext, k)
      BY <1>1, <1>4, HeldOnceMeaning DEF PromiseInv, Connects, HoldsPromise
    <3>2. \A u \in Threads : ~HoldsPromise(frame[u].ctx, k)
      BY <3>1 DEF HeldOnce
    <3> QED
      BY <3>2 DEF Connects, HoldsPromise
  <2>5. \A u \in Threads : /\ Connects(frame'[u].ctx, k) <=> u = l
                           /\ ~Disconnects(frame'[u].ctx, k)
    BY <1>1, <1>2, <1>4, <2>2, <2>4 DEF Unaccepted
  <2>6. Accepted(k)'
    <3>1. \A u \in Threads : Connects(frame'[u].ctx, k) => u = loopOf'[k] /\ cbs'[k] = <<>>
      BY <1>1, <1>4, <2>3, <2>5
    <3>2. \E u \in Threads : Connects(frame'[u].ctx, k)
      BY <1>0, <2>5
    <3>3. cbs'[k] = <<>>
      BY <1>1, <2>3
    <3> QED
      BY <2>5, <3>1, <3>2, <3>3 DEF Accepted, Connects, Disconnects
  <2> QED
    BY <1>1, <1>4, <2>6 DEF OrderOf
<1> QED
  BY <1>3, <1>4

(* Calls are only counted up.                                              *)
LEMMA CallsGrow == ASSUME [Next]_vars PROVE calls' \in {calls, calls + 1}
<1>1. CASE \E t \in AppThreads : AppCalls(t)
  BY <1>1, ConnectionAssumption
  DEF AppCalls, ConnectInvalid, ConnectRefused, ConnectBegin, Close, Shutdown, promiseVars
<1>2. ASSUME NEW t \in Threads, Step(t)
      PROVE  calls' = calls
  <2>1. CASE ConnectStarts(t) \/ ConnectFails(t) \/ CloseAfterUnknownMessage(t)
    BY <2>1 DEF ConnectStarts, ConnectFails, CloseAfterUnknownMessage, promiseVars
  <2>2. CASE SendConnect(t) \/ SendConnectFails(t)
    BY <2>2 DEF SendConnect, SendConnectFails, promiseVars
  <2>3. CASE InvokeCallback(t) \/ SetConnectPromise(t)
    BY <2>3 DEF InvokeCallback, SetConnectPromise, promiseVars
  <2>4. CASE CompleteFlush(t) \/ InvokeFlushCallback(t) \/ CloseConnection(t)
    BY <2>4 DEF CompleteFlush, InvokeFlushCallback, CloseConnection, promiseVars
  <2>5. CASE ScheduleClearTask(t) \/ DropHandle(t)
    BY <2>5 DEF ScheduleClearTask, DropHandle, promiseVars
  <2> QED
    BY <1>2, <2>1, <2>2, <2>3, <2>4, <2>5 DEF Step
<1>3. ASSUME NEW l \in Loops, NEW k \in Attempts, LoopEvents(l, k)
      PROVE  calls' = calls
  <2>1. CASE SetupCompletes(l, k)
    BY <2>1 DEF SetupCompletes, SetupFails, SetupAbandoned, SetupSucceeds, promiseVars
  <2>2. CASE ShutdownCompletes(l, k) \/ ConnectFlushed(l, k)
    BY <2>2 DEF ShutdownCompletes, ConnectionShutdown, ConnectFlushed, promiseVars
  <2>3. CASE Messages(l, k)
    <3>1. CASE \E ok \in BOOLEAN : ConnackRefused(l, k, ok)
      BY <3>1, Zenon DEF ConnackRefused, promiseVars
    <3>2. CASE ConnackAccepted(l, k) \/ Ping(l, k) \/ UnknownMessage(l, k)
      BY <3>2 DEF ConnackAccepted, Ping, UnknownMessage, promiseVars
    <3> QED
      BY <2>3, <3>1, <3>2 DEF Messages
  <2> QED
    BY <1>3, <2>1, <2>2, <2>3 DEF LoopEvents
<1>4. CASE (\E k \in Attempts : PeerCloses(k)) \/ RunClearTask \/ Terminated \/ UNCHANGED vars
  BY <1>4 DEF PeerCloses, RunClearTask, Terminated, vars, promiseVars
<1> QED
  BY <1>1, <1>2, <1>3, <1>4 DEF Next

LEMMA NextOrder ==
    ASSUME TypeOK, TypeOK', SafetyInv, PromiseInv, OpenInv, OrderInv, [Next]_vars
    PROVE  OrderInv'
<1>1. ContextStep
  BY NextContexts
<1>2. calls \in Nat /\ calls' \in Nat /\ calls <= calls'
  <2>1. calls \in 0 .. MaxConnects /\ calls' \in 0 .. MaxConnects
    BY DEF TypeOK
  <2> QED
    BY <2>1, CallsGrow, ConnectionAssumption
<1> SUFFICES ASSUME NEW k \in Attempts
             PROVE  OrderOf(k)' /\ (k > calls' => cbs'[k] = <<>>)
  BY DEF OrderInv
<1>3. /\ OrderOf(k) /\ (k > calls => cbs[k] = <<>>)
      /\ k \in accepted => OpenOf(k)
      /\ k \in Nat /\ (k > calls' => k > calls)
  BY <1>2, AttemptsAreNumbers DEF OrderInv, OpenInv
<1>4. CASE KeepsContexts
  BY <1>3, <1>4, KeepsOrder DEF KeepsContexts
<1>5. CASE MakesContext
  <2>1. k = calls + 1 => cbs[k] = <<>>
    BY <1>2, <1>3
  <2> QED
    BY <1>3, <1>5, <2>1, MakesOrder DEF MakesContext
<1>6. ASSUME NEW t \in Threads, MovesContext(t)
      PROVE  OrderOf(k)' /\ (k > calls' => cbs'[k] = <<>>)
  BY <1>3, <1>6, MovesOrder DEF MovesContext
<1>7. ASSUME NEW t \in Threads, Answers(t)
      PROVE  OrderOf(k)' /\ (k > calls' => cbs'[k] = <<>>)
  BY <1>3, <1>7, AnswersOrder DEF Answers
<1>8. ASSUME NEW l \in Loops, NEW j \in Attempts, SplitsContext(l, j)
      PROVE  OrderOf(k)' /\ (k > calls' => cbs'[k] = <<>>)
  BY <1>3, <1>8, SplitsOrder DEF SplitsContext
<1>9. ASSUME NEW t \in Threads, CallsBack(t)
      PROVE  OrderOf(k)' /\ (k > calls' => cbs'[k] = <<>>)
  <2> DEFINE ctx == frame[t].ctx
  <2>1. CASE ctx.attempt # k
    <3>1. /\ cbs'[k] = cbs[k] /\ shared' = shared /\ accepted' = accepted /\ loopOf' = loopOf
          /\ \A u \in Threads : /\ Connects(frame'[u].ctx, k) <=> Connects(frame[u].ctx, k)
                                /\ Disconnects(frame'[u].ctx, k) => Disconnects(frame[u].ctx, k)
      <4>1. ctx \in Contexts
        BY DEF TypeOK, ThreadsOK, Frames
      <4>2. frame'[t].ctx.action # "CompleteConnectPromise"
            /\ frame'[t].ctx.action # "DisconnectionCallback"
        BY <1>9, <4>1 DEF CallsBack, Contexts
      <4> QED
        BY <1>9, <2>1, <4>2 DEF CallsBack, Steady, Connects, Disconnects
    <3> QED
      BY <1>3, <3>1, OrderKept
  <2>2. CASE Connects(ctx, k)
    <3>1. OrderOf(k)'
      BY <1>3, <1>9, <2>2, ConnectCallbackOrder
    <3>2. ~(k > calls)
      <4>1. HeldOnce(k) /\ HoldsPromise(ctx, k)
        BY <2>2, HeldOnceMeaning DEF PromiseInv, Connects, HoldsPromise
      <4>2. promise[k] = Pending
        BY <4>1 DEF HeldOnce
      <4> QED
        BY <4>2 DEF PromiseInv, NoPromiseYet, Pending, Unset, RpcError
    <3> QED
      BY <1>3, <3>1, <3>2
  <2>3. CASE Disconnects(ctx, k)
    <3>1. OrderOf(k)'
      BY <1>3, <1>9, <2>3, DisconnectCallbackOrder
    <3>2. k \in accepted
      BY <1>3, <2>3 DEF OrderOf, Unaccepted
    <3>3. ~(k > calls)
      BY <1>3, <3>2 DEF OpenOf, Fresh
    <3> QED
      BY <1>3, <3>1, <3>3
  <2> QED
    BY <1>9, <2>1, <2>2, <2>3 DEF CallsBack, Connects, Disconnects
<1> QED
  BY <1>1, <1>4, <1>5, <1>6, <1>7, <1>8, <1>9 DEF ContextStep

LEMMA OrderInvHolds == Spec => []OrderInv
<1>1. Init => OrderInv
  <2> SUFFICES ASSUME Init, NEW k \in Attempts PROVE OrderOf(k) /\ cbs[k] = <<>>
    BY DEF OrderInv
  <2>1. /\ accepted = {} /\ cbs[k] = <<>>
        /\ shared.callbackContext = NoContext /\ \A t \in Threads : frame[t].ctx = NoContext
    BY NoWorkFields DEF Init
  <2> QED
    BY <2>1 DEF OrderOf, Unaccepted, Connects, Disconnects, NoContext
<1>2. /\ TypeOK /\ TypeOK' /\ SafetyInv /\ PromiseInv /\ OpenInv /\ OrderInv /\ [Next]_vars
      => OrderInv'
  BY NextOrder
<1> QED
  BY <1>1, <1>2, TypeCorrect, SafetyInvHolds, PromiseInvHolds, OpenInvHolds, PTL DEF Spec

(* OnConnect then OnDisconnect, or one OnError; only the destructor's      *)
(* OnDisconnect overtakes an OnConnect its loop was about to make.         *)
THEOREM CallbackOrderHolds == Spec => []CallbackOrder
<1>1. OrderInv => CallbackOrder
  BY DEF OrderInv, OrderOf, Accepted, Unaccepted, CallbackOrder
<1> QED
  BY <1>1, OrderInvHolds, PTL

-----------------------------------------------------------------------------
(* The connection implements its contract.  The contract's actions, told   *)
(* by the phase and the promise of each attempt.                           *)

OthersStay(k) == \A j \in Attempts : j # k => PhaseOf(j)' = PhaseOf(j) /\ promise'[j] = promise[j]

LEMMA ResultMeaning ==
    /\ ResultOf(Unset) = "none" /\ ResultOf(Pending) = "pending"
    /\ ResultOf(Success) = "success"
    /\ \A e : e \notin {Unset, Pending, Success} => ResultOf(e) = "failure"
<1>1. Unset # Pending /\ Unset # Success /\ Pending # Success
  BY DEF Unset, Pending, Success, RpcError
<1> QED
  BY <1>1, Zenon DEF ResultOf

(* A change of one attempt's future.                                       *)
LEMMA OneResult ==
    ASSUME NEW k \in Attempts, OthersStay(k), NEW r, ResultOf(promise'[k]) = r
    PROVE  [j \in Attempts |-> ResultOf(promise[j])]'
             = [[j \in Attempts |-> ResultOf(promise[j])] EXCEPT ![k] = r]
<1>1. \A j \in Attempts : j # k => ResultOf(promise[j])' = ResultOf(promise[j])
  BY DEF OthersStay, ResultOf
<1>2. ResultOf(promise[k])' = r
  BY DEF ResultOf
<1> QED
  BY <1>1, <1>2

LEMMA ContractStutters ==
    ASSUME \A k \in Attempts : PhaseOf(k)' = PhaseOf(k) /\ promise'[k] = promise[k]
    PROVE  UNCHANGED Contract!vars
<1>1. [k \in Attempts |-> PhaseOf(k)]' = [k \in Attempts |-> PhaseOf(k)]
  OBVIOUS
<1>2. [k \in Attempts |-> ResultOf(promise[k])]' = [k \in Attempts |-> ResultOf(promise[k])]
  BY DEF ResultOf
<1> QED
  BY <1>1, <1>2 DEF Contract!vars

LEMMA ContractRefuses ==
    ASSUME NEW k \in Attempts, OthersStay(k), PhaseOf(k) = "none", PhaseOf(k)' = "failed",
           ResultOf(promise'[k]) = "failure"
    PROVE  Contract!Refuse(k)
<1>1. [j \in Attempts |-> PhaseOf(j)]'
        = [[j \in Attempts |-> PhaseOf(j)] EXCEPT ![k] = "failed"]
  BY DEF OthersStay
<1>2. [j \in Attempts |-> ResultOf(promise[j])]'
        = [[j \in Attempts |-> ResultOf(promise[j])] EXCEPT ![k] = "failure"]
  BY OneResult
<1> QED
  BY <1>1, <1>2 DEF Contract!Refuse

LEMMA ContractBegins ==
    ASSUME NEW k \in Attempts, OthersStay(k), PhaseOf(k) = "none", PhaseOf(k)' = "connecting",
           \A j \in Attempts : PhaseOf(j) \notin {"connecting", "open"},
           ResultOf(promise'[k]) = "pending"
    PROVE  Contract!Begin(k)
<1>1. [j \in Attempts |-> PhaseOf(j)]'
        = [[j \in Attempts |-> PhaseOf(j)] EXCEPT ![k] = "connecting"]
  BY DEF OthersStay
<1>2. [j \in Attempts |-> ResultOf(promise[j])]'
        = [[j \in Attempts |-> ResultOf(promise[j])] EXCEPT ![k] = "pending"]
  BY OneResult
<1>3. Contract!Live = {}
  BY DEF Contract!Live
<1> QED
  BY <1>1, <1>2, <1>3 DEF Contract!Begin

LEMMA ContractEstablishes ==
    ASSUME NEW k \in Attempts, OthersStay(k), PhaseOf(k) = "connecting", PhaseOf(k)' = "open",
           promise[k] = Pending, promise'[k] = promise[k]
    PROVE  Contract!Establish(k)
<1>1. [j \in Attempts |-> PhaseOf(j)]'
        = [[j \in Attempts |-> PhaseOf(j)] EXCEPT ![k] = "open"]
  BY DEF OthersStay
<1>2. [j \in Attempts |-> ResultOf(promise[j])]' = [j \in Attempts |-> ResultOf(promise[j])]
  BY DEF OthersStay, ResultOf
<1>3. ResultOf(promise[k]) = "pending"
  BY ResultMeaning
<1> QED
  BY <1>1, <1>2, <1>3 DEF Contract!Establish

LEMMA ContractFinishes ==
    ASSUME NEW k \in Attempts, OthersStay(k), PhaseOf(k) \in {"connecting", "open"},
           PhaseOf(k)' = (IF PhaseOf(k) = "open" THEN "closed" ELSE "failed"),
           promise'[k] = promise[k]
    PROVE  Contract!Finish(k)
<1>1. [j \in Attempts |-> PhaseOf(j)]'
        = [[j \in Attempts |-> PhaseOf(j)] EXCEPT ![k] = IF @ = "open" THEN "closed" ELSE "failed"]
  BY DEF OthersStay
<1>2. [j \in Attempts |-> ResultOf(promise[j])]' = [j \in Attempts |-> ResultOf(promise[j])]
  BY DEF OthersStay, ResultOf
<1>3. k \in Contract!Live
  BY DEF Contract!Live
<1> QED
  BY <1>1, <1>2, <1>3 DEF Contract!Finish

LEMMA ContractResolves ==
    ASSUME NEW k \in Attempts, OthersStay(k), PhaseOf(k)' = PhaseOf(k), promise[k] = Pending,
           ResultOf(promise'[k]) =
             (IF PhaseOf(k) \in {"open", "closed"} THEN "success" ELSE "failure")
    PROVE  Contract!Resolve(k)
<1>1. [j \in Attempts |-> PhaseOf(j)]' = [j \in Attempts |-> PhaseOf(j)]
  BY DEF OthersStay
<1>2. [j \in Attempts |-> ResultOf(promise[j])]'
        = [[j \in Attempts |-> ResultOf(promise[j])] EXCEPT
             ![k] = IF PhaseOf(k) \in {"open", "closed"} THEN "success" ELSE "failure"]
  BY OneResult
<1>3. ResultOf(promise[k]) = "pending"
  BY ResultMeaning
<1> QED
  BY <1>1, <1>2, <1>3 DEF Contract!Resolve

-----------------------------------------------------------------------------
(* The phase of an attempt.                                                *)

Phase(k) ==
    IF k > calls THEN "none"
    ELSE IF IsLive(k) THEN (IF k \in accepted THEN "open" ELSE "connecting")
    ELSE (IF k \in accepted THEN "closed" ELSE "failed")

LEMMA PhaseIs == TypeOK => \A k \in Attempts : PhaseOf(k) = Phase(k)
<1> SUFFICES ASSUME TypeOK, NEW k \in Attempts PROVE PhaseOf(k) = Phase(k)
  OBVIOUS
<1>1. k \in Nat /\ calls \in Nat
  BY AttemptsAreNumbers, ConnectionAssumption DEF TypeOK
<1>2. k > calls <=> ~(k <= calls)
  BY <1>1
<1> HIDE DEF IsLive
<1> QED
  BY <1>2 DEF PhaseOf, Phase

(* PhaseIs before and after a step.                                        *)
LEMMA PhasesAre ==
    ASSUME TypeOK, TypeOK'
    PROVE  \A k \in Attempts : PhaseOf(k) = Phase(k) /\ PhaseOf(k)' = Phase(k)'
<1>1. (\A k \in Attempts : PhaseOf(k) = Phase(k))'
  BY PhaseIs, PTL
<1> QED
  BY <1>1, PhaseIs

LEMMA LiveMeaning ==
    \A k \in Attempts : IsLive(k) <=>
        InCLayer(k) \/ \E t \in Threads : pc[t] = "connect" /\ frame[t].k = k
BY DEF IsLive, InCLayer, IsUp

(* The step of one attempt leaves the phases of the others alone.          *)
LEMMA PhaseStays ==
    ASSUME TypeOK, TypeOK', NEW k \in Attempts, k > calls' <=> k > calls,
           k \in accepted' <=> k \in accepted, IsLive(k)' <=> IsLive(k)
    PROVE  PhaseOf(k)' = PhaseOf(k)
<1>1. Phase(k)' = Phase(k)
  BY DEF Phase
<1> QED
  BY <1>1, PhasesAre

(* A step that changes neither the C connections nor who is connecting.    *)
LEMMA QuietStutters ==
    ASSUME TypeOK, TypeOK',
           accepted' = accepted, promise' = promise, calls' = calls,
           \A k \in Attempts : InCLayer(k)' <=> InCLayer(k),
           \A u \in Threads : /\ pc'[u] = "connect" <=> pc[u] = "connect"
                              /\ pc[u] = "connect" => frame'[u] = frame[u]
    PROVE  UNCHANGED Contract!vars
<1>1. \A k \in Attempts : IsLive(k)' <=> IsLive(k)
  BY DEF IsLive, InCLayer, IsUp
<1>2. \A k \in Attempts : PhaseOf(k)' = PhaseOf(k)
  BY <1>1, PhaseStays
<1> QED
  BY <1>2, ContractStutters

(* Such a step, taken by a thread.                                         *)
LEMMA ThreadStutters ==
    ASSUME TypeOK, TypeOK', NEW t \in Threads, Others(t),
           pc[t] # "connect", pc'[t] # "connect",
           accepted' = accepted, promise' = promise, calls' = calls,
           \A k \in Attempts : InCLayer(k)' <=> InCLayer(k)
    PROVE  UNCHANGED Contract!vars
<1>1. \A u \in Threads : /\ pc'[u] = "connect" <=> pc[u] = "connect"
                         /\ pc[u] = "connect" => frame'[u] = frame[u]
  BY DEF Others
<1> QED
  BY <1>1, QuietStutters

(* Connect answers at once.                                                *)
LEMMA AnswerRefuses ==
    ASSUME TypeOK, TypeOK', AttemptsKnown, OpenInv, calls < MaxConnects,
           NEW e, e \notin {Unset, Pending, Success},
           calls' = calls + 1, promise' = [promise EXCEPT ![calls + 1] = e],
           UNCHANGED <<pc, frame, cconn, accepted>>
    PROVE  Contract!Next
<1>1. calls \in Nat /\ calls + 1 \in Attempts /\ \A j \in Attempts : j \in Nat
  BY ConnectionAssumption DEF Attempts, TypeOK
<1> PICK k \in Attempts : k = calls + 1
  BY <1>1
<1>2. ~IsLive(k) /\ ~IsLive(k)' /\ k \notin accepted
  <2>1. k > calls /\ ~(k <= calls)
    BY <1>1
  <2>2. k \notin accepted
    BY <2>1 DEF OpenInv, OpenOf, Fresh
  <2>3. ~InCLayer(k) /\ \A t \in Threads : pc[t] = "connect" => frame[t].k # k
    BY <2>1 DEF AttemptsKnown, InCLayer, IsUp
  <2> QED
    BY <2>2, <2>3 DEF IsLive, InCLayer, IsUp
<1>3. PhaseOf(k) = "none" /\ PhaseOf(k)' = "failed"
  <2>1. k > calls /\ ~(k > calls')
    BY <1>1
  <2>2. Phase(k) = "none" /\ Phase(k)' = "failed"
    BY <1>2, <2>1 DEF Phase
  <2> QED
    BY <2>2, PhasesAre
<1>4. OthersStay(k)
  <2> SUFFICES ASSUME NEW j \in Attempts, j # k
               PROVE  PhaseOf(j)' = PhaseOf(j) /\ promise'[j] = promise[j]
    BY DEF OthersStay
  <2>1. j > calls' <=> j > calls
    BY <1>1
  <2>2. IsLive(j)' <=> IsLive(j)
    BY DEF IsLive
  <2>3. promise'[j] = promise[j]
    BY DEF TypeOK
  <2> QED
    BY <2>1, <2>2, <2>3, PhaseStays
<1>5. ResultOf(promise'[k]) = "failure"
  <2>1. promise'[k] = e
    BY DEF TypeOK
  <2> QED
    BY <2>1, ResultMeaning
<1> QED
  BY <1>3, <1>4, <1>5, ContractRefuses DEF Contract!Next

LEMMA ConnectBegins ==
    ASSUME TypeOK, TypeOK', SafetyInv, AttemptsKnown, OpenInv, NEW t \in AppThreads,
           ConnectBegin(t)
    PROVE  Contract!Next
<1> DEFINE f == [NoWork EXCEPT !.k = calls + 1]
<1>0. t \in Threads
  BY DEF Threads
<1>1. /\ calls \in Nat /\ calls + 1 \in Attempts /\ \A j \in Attempts : j \in Nat
      /\ calls' = calls + 1 /\ promise' = [promise EXCEPT ![calls + 1] = Pending]
      /\ accepted' = accepted /\ cconn' = cconn /\ shared.currentState = "Disconnected"
  BY ConnectionAssumption
  DEF ConnectBegin, MayConnect, clibVars, historyVars, Attempts, TypeOK
<1>2. f.k = calls + 1
  BY DEF NoWork
<1>3. Goto(t, "connect", f)
  BY DEF ConnectBegin
<1> HIDE DEF f
<1> PICK k \in Attempts : k = calls + 1
  BY <1>1
<1>4. Others(t) /\ pc'[t] = "connect" /\ frame'[t].k = k
  BY <1>0, <1>2, <1>3, GotoFrame
<1>5. \A j \in Attempts : ~InCLayer(j) /\ ~InCLayer(j)' /\ ~IsLive(j)
  BY <1>1, NothingUnderWay DEF IsLive, InCLayer, IsUp
<1>6. \A j \in Attempts : IsLive(j)' <=> j = k
  BY <1>0, <1>1, <1>4, <1>5, NothingUnderWay DEF IsLive, InCLayer, IsUp, Others
<1>7. /\ k > calls /\ ~(k > calls')
      /\ \A j \in Attempts : j # k => (j > calls' <=> j > calls)
  BY <1>1
<1>8. k \notin accepted
  BY <1>7 DEF OpenInv, OpenOf, Fresh
<1>9. PhaseOf(k) = "none" /\ PhaseOf(k)' = "connecting"
  <2>1. Phase(k) = "none" /\ Phase(k)' = "connecting"
    BY <1>1, <1>6, <1>7, <1>8 DEF Phase
  <2> QED
    BY <2>1, PhasesAre
<1>10. \A j \in Attempts : PhaseOf(j) \notin {"connecting", "open"}
  <2>1. \A j \in Attempts : Phase(j) \notin {"connecting", "open"}
    BY <1>5 DEF Phase
  <2> QED
    BY <2>1, PhasesAre
<1>11. OthersStay(k)
  <2> SUFFICES ASSUME NEW j \in Attempts, j # k
               PROVE  PhaseOf(j)' = PhaseOf(j) /\ promise'[j] = promise[j]
    BY DEF OthersStay
  <2>1. IsLive(j)' <=> IsLive(j)
    BY <1>5, <1>6
  <2>2. promise'[j] = promise[j]
    BY <1>1 DEF TypeOK
  <2> QED
    BY <1>1, <1>7, <2>1, <2>2, PhaseStays
<1>12. ResultOf(promise'[k]) = "pending"
  <2>1. promise'[k] = Pending
    BY <1>1 DEF TypeOK
  <2> QED
    BY <2>1, ResultMeaning
<1> QED
  BY <1>9, <1>10, <1>11, <1>12, ContractBegins DEF Contract!Next

LEMMA ConnectStartsStutters ==
    ASSUME TypeOK, TypeOK', SafetyInv, NEW t \in Threads, ConnectStarts(t)
    PROVE  UNCHANGED Contract!vars
<1>1. /\ Continue(t, NoWork) /\ pc[t] = "connect"
      /\ cconn' = [cconn EXCEPT ![frame[t].k] = "connecting"]
      /\ accepted' = accepted /\ promise' = promise /\ calls' = calls
  BY DEF ConnectStarts, promiseVars, historyVars
<1>2. Others(t) /\ pc'[t] # "connect"
  BY <1>1, ContinueFrame
<1>3. \A u \in Threads : pc'[u] # "connect" /\ (pc[u] = "connect" => u = t)
  BY <1>1, <1>2 DEF SafetyInv, OneAttempt, Others
<1>4. \A k \in Attempts : cconn'[k] = IF k = frame[t].k THEN "connecting" ELSE cconn[k]
  BY <1>1 DEF TypeOK
<1>5. \A k \in Attempts : IsLive(k)' <=> IsLive(k)
  <2> SUFFICES ASSUME NEW k \in Attempts PROVE IsLive(k)' <=> IsLive(k)
    OBVIOUS
  <2>1. CASE k = frame[t].k
    BY <1>1, <1>4, <2>1 DEF IsLive
  <2>2. CASE k # frame[t].k
    BY <1>3, <1>4, <2>2 DEF IsLive
  <2> QED
    BY <2>1, <2>2
<1>6. \A k \in Attempts : PhaseOf(k)' = PhaseOf(k)
  BY <1>1, <1>5, PhaseStays
<1> QED
  BY <1>1, <1>6, ContractStutters

(* The end of an attempt that is under way.                                *)
LEMMA AttemptFinishes ==
    ASSUME TypeOK, TypeOK', SafetyInv, AttemptsKnown, NEW t \in Threads, NEW k \in Attempts,
           Others(t), pc'[t] # "connect",
           IF pc[t] = "connect" THEN frame[t].k = k ELSE InCLayer(k),
           ~InCLayer(k)', \A j \in Attempts : j # k => (InCLayer(j)' <=> InCLayer(j)),
           accepted' = accepted, promise' = promise, calls' = calls
    PROVE  Contract!Next
<1>1. IsLive(k)
  BY LiveMeaning
<1>2. \A u \in Threads : pc'[u] # "connect"
  BY DEF SafetyInv, OneAttempt, Others
<1>3. ~IsLive(k)'
  BY <1>2 DEF IsLive, InCLayer, IsUp
<1>4. ~(k > calls)
  <2>1. k \in Nat /\ calls \in Nat
    BY AttemptsAreNumbers, ConnectionAssumption DEF TypeOK
  <2>2. k <= calls
    BY DEF AttemptsKnown, InCLayer, IsUp
  <2> QED
    BY <2>1, <2>2
<1>5. /\ PhaseOf(k) \in {"connecting", "open"}
      /\ PhaseOf(k)' = IF PhaseOf(k) = "open" THEN "closed" ELSE "failed"
  <2>1. /\ Phase(k) \in {"connecting", "open"}
        /\ Phase(k)' = IF Phase(k) = "open" THEN "closed" ELSE "failed"
    BY <1>1, <1>3, <1>4 DEF Phase
  <2> QED
    BY <2>1, PhasesAre
<1>6. OthersStay(k)
  <2> SUFFICES ASSUME NEW j \in Attempts, j # k PROVE PhaseOf(j)' = PhaseOf(j)
    BY DEF OthersStay
  <2>1. \A u \in Threads : pc[u] = "connect" => frame[u].k # j
    BY DEF SafetyInv, OneAttempt
  <2>2. IsLive(j)' <=> IsLive(j)
    BY <1>2, <2>1 DEF IsLive, InCLayer, IsUp
  <2> QED
    BY <2>2, PhaseStays
<1>7. Contract!Finish(k)
  BY <1>5, <1>6, ContractFinishes
<1> QED
  BY <1>7 DEF Contract!Next

LEMMA ConnackEstablishes ==
    ASSUME TypeOK, TypeOK', SafetyInv, PromiseInv, AttemptsKnown, OpenInv,
           NEW l \in Loops, NEW k \in Attempts, ConnackAccepted(l, k)
    PROVE  Contract!Next
<1>0. l \in Threads
  BY DEF Threads
<1>1. SplitsContext(l, k)
  BY ConnackAcceptedContexts
<1>2. /\ accepted' = accepted \cup {k} /\ cconn' = cconn /\ calls' = calls
      /\ promise' = promise /\ IsUp(k) /\ pc[l] = "ready"
      /\ \E f : Continue(l, f)
  BY DEF ConnackAccepted, Receives, OnLoop, IsUp, clibVars, promiseVars
<1>3. Others(l) /\ pc'[l] # "connect"
  BY <1>0, <1>2, ContinueFrame
<1>4. HoldsPromise(shared.callbackContext, k)
  BY <1>1 DEF SplitsContext, HoldsPromise
<1>5. promise[k] = Pending
  <2>1. HeldOnce(k)
    BY HeldOnceMeaning DEF PromiseInv
  <2> QED
    BY <1>4, <2>1 DEF HeldOnce
<1>6. k \notin accepted
  BY <1>4 DEF OpenInv, OpenOf
<1>7. \A j \in Attempts : IsLive(j)' <=> IsLive(j)
  <2>1. \A u \in Threads : /\ pc'[u] = "connect" <=> pc[u] = "connect"
                           /\ pc[u] = "connect" => frame'[u] = frame[u]
    BY <1>2, <1>3 DEF Others
  <2> QED
    BY <1>2, <2>1 DEF IsLive
<1>8. IsLive(k) /\ ~(k > calls)
  <2>1. k \in Nat /\ calls \in Nat
    BY AttemptsAreNumbers, ConnectionAssumption DEF TypeOK
  <2>2. k <= calls
    BY <1>2 DEF AttemptsKnown, IsUp
  <2> QED
    BY <1>2, <2>1, <2>2 DEF IsLive, IsUp
<1>9. PhaseOf(k) = "connecting" /\ PhaseOf(k)' = "open"
  <2>1. Phase(k) = "connecting" /\ Phase(k)' = "open"
    BY <1>2, <1>6, <1>7, <1>8 DEF Phase
  <2> QED
    BY <2>1, PhasesAre
<1>10. OthersStay(k)
  <2> SUFFICES ASSUME NEW j \in Attempts, j # k PROVE PhaseOf(j)' = PhaseOf(j)
    BY <1>2 DEF OthersStay
  <2>1. j \in accepted' <=> j \in accepted
    BY <1>2
  <2> QED
    BY <1>2, <1>7, <2>1, PhaseStays
<1>11. Contract!Establish(k)
  BY <1>2, <1>5, <1>9, <1>10, ContractEstablishes
<1> QED
  BY <1>11 DEF Contract!Next

LEMMA SetPromiseResolves ==
    ASSUME TypeOK, TypeOK', PromiseInv, OpenInv, NEW t \in Threads, SetConnectPromise(t)
    PROVE  Contract!Next \/ UNCHANGED Contract!vars
<1> DEFINE ctx == frame[t].ctx
<1>1. ctx \in Contexts
  BY DEF TypeOK, ThreadsOK, Frames
<1>2. /\ ctx.action = "SetConnectPromise" /\ pc[t] = "work"
      /\ accepted' = accepted /\ calls' = calls /\ cconn' = cconn
      /\ \A j \in Attempts : promise'[j] = IF j = ctx.attempt THEN ctx.error ELSE promise[j]
  BY DEF SetConnectPromise, clibVars, historyVars, TypeOK
<1>3. Others(t) /\ pc'[t] # "connect"
  BY WorksEffect DEF Works
<1>4. \A j \in Attempts : IsLive(j)' <=> IsLive(j)
  <2>1. \A u \in Threads : /\ pc'[u] = "connect" <=> pc[u] = "connect"
                           /\ pc[u] = "connect" => frame'[u] = frame[u]
    BY <1>2, <1>3 DEF Others
  <2> QED
    BY <1>2, <2>1 DEF IsLive
<1>5. \A j \in Attempts : PhaseOf(j)' = PhaseOf(j)
  BY <1>2, <1>4, PhaseStays
<1>6. CASE ctx.attempt \notin Attempts
  BY <1>2, <1>5, <1>6, ContractStutters
<1>7. CASE ctx.attempt \in Attempts
  <2> PICK k \in Attempts : k = ctx.attempt
    BY <1>7
  <2>1. OthersStay(k)
    BY <1>2, <1>5 DEF OthersStay
  <2>2. HoldsPromise(ctx, k)
    BY <1>2 DEF HoldsPromise
  <2>3. promise[k] = Pending
    <3>1. HeldOnce(k)
      BY HeldOnceMeaning DEF PromiseInv
    <3> QED
      BY <2>2, <3>1 DEF HeldOnce
  <2>4. ~(k > calls)
    BY <2>3 DEF PromiseInv, NoPromiseYet, Pending, Unset, RpcError
  <2>5. k \in accepted <=> ctx.error = Success
    <3>1. ctx.error = Success => k \in accepted
      BY <1>2 DEF PromiseInv, SuccessEarned, Earned
    <3>2. k \in accepted => ctx.error = Success
      BY <2>2 DEF OpenInv, OpenOf
    <3> QED
      BY <3>1, <3>2
  <2>6. PhaseOf(k) \in {"open", "closed"} <=> k \in accepted
    <3>1. Phase(k) \in {"open", "closed"} <=> k \in accepted
      BY <2>4 DEF Phase
    <3> QED
      BY <3>1, PhasesAre
  <2>7. ResultOf(promise'[k])
          = IF PhaseOf(k) \in {"open", "closed"} THEN "success" ELSE "failure"
    <3>1. promise'[k] = ctx.error
      BY <1>2
    <3>2. ctx.error # Unset /\ ctx.error # Pending
      BY <1>1 DEF Contexts, RpcErrors, Bases, Unset, Pending, RpcError
    <3>3. CASE k \in accepted
      BY <2>5, <2>6, <3>1, <3>3, ResultMeaning
    <3>4. CASE k \notin accepted
      <4>1. ctx.error \notin {Unset, Pending, Success}
        BY <2>5, <3>2, <3>4
      <4>2. ResultOf(ctx.error) = "failure"
        BY <4>1, ResultMeaning
      <4> QED
        BY <2>6, <3>1, <3>4, <4>2
    <3> QED
      BY <3>3, <3>4
  <2>8. Contract!Resolve(k)
    BY <1>5, <2>1, <2>3, <2>7, ContractResolves
  <2> QED
    BY <2>8 DEF Contract!Next
<1> QED
  BY <1>6, <1>7

LEMMA AppCallsContract ==
    ASSUME TypeOK, TypeOK', SafetyInv, AttemptsKnown, OpenInv, NEW t \in AppThreads,
           AppCalls(t)
    PROVE  Contract!Next \/ UNCHANGED Contract!vars
<1>0. t \in Threads
  BY DEF Threads
<1>1. ASSUME NEW e, e \in RpcErrors, e # Success, calls < MaxConnects,
             calls' = calls + 1, promise' = [promise EXCEPT ![calls + 1] = e],
             UNCHANGED <<pc, frame, cconn, accepted>>
      PROVE  Contract!Next
  <2>1. e \notin {Unset, Pending, Success}
    BY <1>1 DEF RpcErrors, Bases, Unset, Pending, RpcError
  <2> QED
    BY <1>1, <2>1, AnswerRefuses
<1>2. CASE ConnectInvalid(t)
  <2>1. /\ RpcError("NULL_PARAMETER", "err") \in RpcErrors
        /\ RpcError("NULL_PARAMETER", "err") # Success
    BY ErrorTypes DEF Bases, RpcError, Success
  <2> QED
    BY <1>1, <1>2, <2>1 DEF ConnectInvalid, threadVars, clibVars, historyVars
<1>3. CASE ConnectRefused(t)
  <2>1. /\ RpcError("CONNECTION_ALREADY_ESTABLISHED", "ok") \in RpcErrors
        /\ RpcError("CONNECTION_ALREADY_ESTABLISHED", "ok") # Success
    BY ErrorTypes DEF Bases, RpcError, Success
  <2> QED
    BY <1>1, <1>3, <2>1 DEF ConnectRefused, threadVars, clibVars, historyVars
<1>4. CASE ConnectBegin(t)
  BY <1>4, ConnectBegins
<1>5. CASE Close(t) \/ Shutdown(t)
  <2>1. \E b \in BOOLEAN : CloseInternal(t, b)
    BY <1>5 DEF Close, Shutdown
  <2>2. /\ accepted' = accepted /\ promise' = promise /\ calls' = calls /\ cconn' = cconn
        /\ pc[t] = "ready"
    BY <1>5 DEF Close, Shutdown, MayCall, historyVars, promiseVars
  <2>3. Others(t) /\ pc'[t] # "connect"
    BY <1>0, <2>1, CloseInternalEffect
  <2>4. \A k \in Attempts : InCLayer(k)' <=> InCLayer(k)
    BY <2>2 DEF InCLayer, IsUp
  <2> QED
    BY <1>0, <2>2, <2>3, <2>4, ThreadStutters
<1> QED
  BY <1>2, <1>3, <1>4, <1>5 DEF AppCalls

LEMMA StepContract ==
    ASSUME TypeOK, TypeOK', SafetyInv, PromiseInv, AttemptsKnown, OpenInv, NEW t \in Threads,
           Step(t)
    PROVE  Contract!Next \/ UNCHANGED Contract!vars
<1>1. CASE ConnectStarts(t)
  BY <1>1, ConnectStartsStutters
<1>2. CASE ConnectFails(t)
  <2>1. /\ pc[t] = "connect" /\ cconn' = cconn
        /\ accepted' = accepted /\ promise' = promise /\ calls' = calls
        /\ \E e : MoveToDisconnected(t, e)
    BY <1>2 DEF ConnectFails, historyVars, promiseVars
  <2>2. Others(t) /\ pc'[t] # "connect"
    BY <2>1, MoveToDisconnectedEffect
  <2> PICK k \in Attempts : frame[t].k = k
    BY <2>1 DEF TypeOK, ThreadsOK, Frames
  <2>3. \A j \in Attempts : ~InCLayer(j) /\ ~InCLayer(j)'
    BY <2>1 DEF SafetyInv, OneAttempt, InCLayer, IsUp
  <2> QED
    BY <2>1, <2>2, <2>3, AttemptFinishes
<1>3. CASE SendConnect(t) \/ SendConnectFails(t)
  <2>1. /\ pc[t] = "send" /\ cconn' = cconn
        /\ accepted' = accepted /\ promise' = promise /\ calls' = calls
        /\ \E f : Continue(t, f)
    BY <1>3 DEF SendConnect, SendConnectFails, clibVars, historyVars, promiseVars
  <2>2. Others(t) /\ pc'[t] # "connect"
    BY <2>1, ContinueFrame
  <2>3. \A j \in Attempts : InCLayer(j)' <=> InCLayer(j)
    BY <2>1 DEF InCLayer, IsUp
  <2> QED
    BY <2>1, <2>2, <2>3, ThreadStutters
<1>4. CASE CloseAfterUnknownMessage(t)
  <2>1. /\ pc[t] = "protocolError" /\ cconn' = cconn
        /\ accepted' = accepted /\ promise' = promise /\ calls' = calls
        /\ CloseInternal(t, FALSE)
    BY <1>4 DEF CloseAfterUnknownMessage, historyVars, promiseVars
  <2>2. Others(t) /\ pc'[t] # "connect"
    BY <2>1, CloseInternalEffect
  <2>3. \A j \in Attempts : InCLayer(j)' <=> InCLayer(j)
    BY <2>1 DEF InCLayer, IsUp
  <2> QED
    BY <2>1, <2>2, <2>3, ThreadStutters
<1>5. CASE SetConnectPromise(t)
  BY <1>5, SetPromiseResolves
<1>6. ASSUME Works(t), ~SetConnectPromise(t) PROVE UNCHANGED Contract!vars
  <2>1. /\ Others(t) /\ pc[t] = "work" /\ pc'[t] # "connect"
        /\ accepted' = accepted /\ calls' = calls
    BY <1>6, WorksEffect
  <2>2. promise' = promise
    BY <1>6
    DEF Works, InvokeCallback, CompleteFlush, InvokeFlushCallback, CloseConnection,
        ScheduleClearTask, DropHandle, promiseVars
  <2>3. \A j \in Attempts : InCLayer(j)' <=> InCLayer(j)
    BY <1>6
    DEF Works, InvokeCallback, CompleteFlush, InvokeFlushCallback, CloseConnection,
        ScheduleClearTask, DropHandle, clibVars, TypeOK, InCLayer, IsUp
  <2> QED
    BY <2>1, <2>2, <2>3, ThreadStutters
<1> QED
  BY <1>1, <1>2, <1>3, <1>4, <1>5, <1>6 DEF Step, Works

LEMMA LoopEventsContract ==
    ASSUME TypeOK, TypeOK', SafetyInv, PromiseInv, AttemptsKnown, OpenInv,
           NEW l \in Loops, NEW k \in Attempts, LoopEvents(l, k)
    PROVE  Contract!Next \/ UNCHANGED Contract!vars
<1>0. l \in Threads
  BY DEF Threads
<1>r. pc[l] = "ready"
  BY DEF LoopEvents, SetupCompletes, ShutdownCompletes, Messages, SetupFails, SetupAbandoned,
         SetupSucceeds, ConnectionShutdown, ConnackAccepted, ConnackRefused, Ping,
         UnknownMessage, ConnectFlushed, Receives, OnLoop
<1>1. CASE SetupFails(l, k) \/ ShutdownCompletes(l, k)
  <2>1. /\ InCLayer(k) /\ ~InCLayer(k)'
        /\ \A j \in Attempts : j # k => (InCLayer(j)' <=> InCLayer(j))
    BY <1>1 DEF SetupFails, ShutdownCompletes, ConnectionShutdown, TypeOK, InCLayer, IsUp
  <2>2. /\ accepted' = accepted /\ promise' = promise /\ calls' = calls
        /\ \E e : MoveToDisconnected(l, e)
    BY <1>1 DEF SetupFails, ShutdownCompletes, ConnectionShutdown, historyVars, promiseVars
  <2>3. Others(l) /\ pc'[l] # "connect"
    BY <1>0, <2>2, MoveToDisconnectedEffect
  <2> QED
    BY <1>0, <1>r, <2>1, <2>2, <2>3, AttemptFinishes
<1>2. CASE ConnackAccepted(l, k)
  BY <1>2, ConnackEstablishes
<1>3. CASE \/ SetupAbandoned(l, k) \/ ConnectFlushed(l, k)
           \/ \E ok \in BOOLEAN : ConnackRefused(l, k, ok)
  <2>1. \A j \in Attempts : InCLayer(j)' <=> InCLayer(j)
    BY <1>3 DEF SetupAbandoned, ConnectFlushed, ConnackRefused, TypeOK, InCLayer, IsUp
  <2>2. /\ accepted' = accepted /\ promise' = promise /\ calls' = calls
        /\ \E f : Continue(l, f)
    BY <1>3 DEF SetupAbandoned, ConnectFlushed, ConnackRefused, historyVars, promiseVars
  <2>3. Others(l) /\ pc'[l] # "connect"
    BY <1>0, <2>2, ContinueFrame
  <2> QED
    BY <1>0, <1>r, <2>1, <2>2, <2>3, ThreadStutters
<1>4. CASE SetupSucceeds(l, k) \/ UnknownMessage(l, k)
  <2>1. \A j \in Attempts : InCLayer(j)' <=> InCLayer(j)
    BY <1>4 DEF SetupSucceeds, UnknownMessage, clibVars, TypeOK, InCLayer, IsUp
  <2>2. /\ accepted' = accepted /\ promise' = promise /\ calls' = calls
        /\ \E f : Goto(l, "send", f) \/ Goto(l, "protocolError", f)
    BY <1>4 DEF SetupSucceeds, UnknownMessage, historyVars, promiseVars
  <2>3. Others(l) /\ pc'[l] # "connect"
    BY <1>0, <2>2, GotoFrame
  <2> QED
    BY <1>0, <1>r, <2>1, <2>2, <2>3, ThreadStutters
<1>5. CASE Ping(l, k)
  <2>1. /\ accepted' = accepted /\ promise' = promise /\ calls' = calls /\ cconn' = cconn
        /\ pc' = pc /\ frame' = frame
    BY <1>5 DEF Ping, threadVars, clibVars, promiseVars
  <2>2. \A j \in Attempts : InCLayer(j)' <=> InCLayer(j)
    BY <2>1 DEF InCLayer, IsUp
  <2> QED
    BY <2>1, <2>2, QuietStutters
<1> QED
  BY <1>1, <1>2, <1>3, <1>4, <1>5 DEF LoopEvents, SetupCompletes, Messages

LEMMA NextContract ==
    ASSUME TypeOK, TypeOK', SafetyInv, PromiseInv, AttemptsKnown, OpenInv, [Next]_vars
    PROVE  Contract!Next \/ UNCHANGED Contract!vars
<1>1. CASE UNCHANGED vars \/ RunClearTask \/ \E k \in Attempts : PeerCloses(k)
  <2>1. /\ accepted' = accepted /\ promise' = promise /\ calls' = calls
        /\ pc' = pc /\ frame' = frame
    BY <1>1
    DEF RunClearTask, PeerCloses, vars, threadVars, promiseVars, historyVars
  <2>2. \A j \in Attempts : InCLayer(j)' <=> InCLayer(j)
    BY <1>1 DEF RunClearTask, PeerCloses, vars, clibVars, TypeOK, InCLayer, IsUp
  <2> QED
    BY <2>1, <2>2, QuietStutters
<1> QED
  BY <1>1, AppCallsContract, StepContract, LoopEventsContract DEF Next, Terminated

(* ClientConnection keeps its contract: attempts are served one at a time, *)
(* each future gets one value, and success only after the server accepted. *)
THEOREM ContractImplemented == Spec => ImplementsContract
<1>1. Init => Contract!Init
  <2> SUFFICES ASSUME Init PROVE Contract!Init
    OBVIOUS
  <2>1. \A k \in Attempts : k > calls /\ ~(k <= calls) /\ promise[k] = Unset
    <3>1. calls = 0 /\ \A k \in Attempts : promise[k] = Unset
      BY DEF Init
    <3>2. \A k \in Attempts : k \in Nat /\ k # 0
      BY AttemptsAreNumbers
    <3> QED
      BY <3>1, <3>2
  <2>2. \A k \in Attempts : PhaseOf(k) = "none" /\ ResultOf(promise[k]) = "none"
    BY <2>1, ResultMeaning, Zenon DEF PhaseOf
  <2> QED
    BY <2>2 DEF Contract!Init
<1>2. /\ TypeOK /\ TypeOK' /\ SafetyInv /\ PromiseInv /\ AttemptsKnown /\ OpenInv
      /\ [Next]_vars
      => [Contract!Next]_(Contract!vars)
  BY NextContract
<1> QED
  BY <1>1, <1>2, TypeCorrect, SafetyInvHolds, PromiseInvHolds, AttemptsKnownHolds,
     OpenInvHolds, PTL DEF Spec, ImplementsContract, Contract!Spec
=============================================================================
