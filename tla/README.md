# A verification development for the AWS IoT Device SDK for C++ v2

TLA+ models of the parts of this repository that keep state and run
concurrently, the TLC runs that check them, and proofs for TLAPS. File and line
numbers refer to the repository at the commit this directory accompanies.
`C` below is `src/eventstream_rpc/source/EventStreamClient.cpp`.

## 1. Inventory

The SDK is a set of C++ bindings over C libraries (aws-c-event-stream,
aws-c-iot, aws-c-mqtt, aws-c-http). The C libraries are not in the repository.
Most of its files are generated: the operations, shapes and enumerations of
Greengrass IPC and of the MQTT services. They follow a few patterns, which are
modelled once, and their names, members, topics and errors are tables. The
hand-written bindings are where the concurrency is.

| Component | State | Operations | What is hard |
|---|---|---|---|
| **Event-stream connection** (`ClientConnection`, `ClientConnectionImpl`, C:538-1260) | `m_sharedState` (C connection, current and desired state, callback context, CONNECT's flush container, has-shut-down) under a mutex; `m_selfReference` | `Connect`, `Close`, destructor (`Shutdown`), `IsOpen`, `NewStream`; C callbacks for setup, shutdown, protocol messages and flushes; a task that drops the self reference | No lock is held over a C call or a callback: optimistic updates and rollbacks, callbacks made after the state moved on, destruction while C objects live |
| **Event-stream continuation** (`ClientOperation`, `ClientContinuationImpl`, C:1369-2390) | `m_sharedState` (state, token, activation and close containers, result callback) under a mutex; the stream handler under another; `m_selfReference` | `Activate`, `SendStreamMessage`, `Close`, destructor (`ShutDown`); C callbacks for messages, closed, terminated and flushes; a task that releases the token | The same, and two rollbacks that can overlap; a handler lock that is skipped on the loop's own thread |
| **Flush containers** (C:20-170) | Incomplete or Finished, a promise, a callback | `Complete` | The C library, the destructor and the closed callback race to complete one |
| **Message deserialisation and routing** (C:2025-2274) | a continuation's state and result callback | headers and payload to a status, a shape and a route; the stream handler's callbacks | Which of eight exits a message takes decides what the application hears and casts |
| **Message amendments, headers, RPC errors** (C:172-500) | values | copies, moves, names | memory, not protocol |
| **Greengrass IPC client** (`greengrass_ipc/`) | one `ClientConnection`, 34 generated operations | forwards to the above; each operation says which response, event and errors it has | tables that must agree with casts nothing checks |
| **Device Defender `ReportTask`** (`devicedefender/source/DeviceDefender.cpp`) | `m_status`, `m_owningTask`, `m_lastError`, no lock | `StartTask`, `StopTask`, destructor; the C library's cancellation callback | status written by two threads; restarts |
| **Secure tunnel** (`secure_tunneling/source/SecureTunnel.cpp`) | a C tunnel and sixteen callbacks | build, start, stop, send, C callbacks, move, destruction; the notification that offers a token | callback fallbacks, moves that leave the C side pointing at the old object |
| **Discovery client** (`discovery/source/DiscoveryClient.cpp`) | a connection manager | `Discover` | one callback expected from seven failure exits |
| **MQTT service clients** (`identity`, `jobs`, `shadow`, `commands`) | a CRT client | V2: request and response, streams; V1: subscribe and publish | many requests on the same topics, told apart by a token or not at all |
| **Service models** (Greengrass, jobs, shadow, identity, commands) | optional members, a union's tag | setters, copies, to and from JSON | unions, unknown enumerators, empty blobs |
| **iotdevicecommon, samples, tests, build** | - | - | static or illustrative |

How they interact: a Greengrass IPC client owns one connection; each of its
operations owns a continuation opened from it by `NewStream`, which takes the C
connection that the connection's shared state points at. The C library calls
connection and continuation back on the event loop the C connection is pinned
to. The other bindings are independent of these two and of each other.

What makes the connection correct: each `Connect` future gets one answer, and
success only after the server accepted; C references balance; the object
outlives every callback that carries its address; a `Close` is never lost;
callbacks come in order and at most once; after destruction everything is
freed. What makes the continuation correct: every operation's future and every
accepted activation's result callback complete once; token references balance;
shared state agrees with the C token; no stream event after destruction. What
makes routing correct: whatever a peer sends, the shape a callback or a result
casts is of the model it is cast to, and every message is reported. What makes
`ReportTask` correct: no C task outlives the object it points to, and calls
return. What makes the shapes correct: an object reads the same after it was
sent. What makes the service clients correct: a result is the answer to its own
request. What makes the tunnel correct: one owner for each native tunnel, and
its events told to the callbacks that were registered.

## 2. Modules

| Module | What it is |
|---|---|
| `EventStreamConnection` | the connection, its C callbacks and its threads |
| `ConnectionContract` | what `Connect` promises, with no threads or C library |
| `MCEventStreamConnection` | symmetry for TLC |
| `EventStreamConnectionSafety` | the connection's types, assertions, lifetimes, closes, references and the callback of CONNECT's flush, proved |
| `EventStreamConnectionPromise` | the connect promise, the order of the lifecycle callbacks and the refinement of `ConnectionContract`, proved |
| `EventStreamContinuation` | one operation's continuation and its flush containers |
| `OperationContract` | what an operation promises, with no threads, C library or flush containers |
| `MCEventStreamContinuation` | symmetry for TLC |
| `EventStreamContinuationProofs` | the continuation's types, proved |
| `EventStreamContinuationSafety` | the continuation's state, lifetimes, promises and results, and the refinement of `OperationContract`, proved |
| `MessageRouting` | one operation: its messages deserialised, its result and its stream handler's callbacks |
| `GreengrassOperations` | the 34 operations and the errors the client registers, a table |
| `MCMessageRouting` | the two together |
| `MessageRoutingProofs` | its three invariants, proved |
| `ReportTask` | the report task, its builder, the loop and the C task |
| `ReportTaskProofs` | its invariants and its action property, proved |
| `Shapes` | kinds of members; setters, getters, copies, to and from JSON |
| `GreengrassShapes`, `ServiceShapes` | the shapes and enumerations of Greengrass IPC and of the MQTT services, tables over `Shapes` |
| `ShapeConversion` | an object built, copied, sent and received, or written by a peer and forwarded |
| `MCShapeConversion` | every shape as an initial state |
| `ShapeConversionProofs` | its two invariants, proved for any table of shapes |
| `RequestResponse` | the V2 service clients' requests and streams |
| `SecureTunnel` | the tunnel object, its native tunnel and the notification client |
| `DeviceServices`, `MCDeviceServices` | the two side by side; the operations and streams of the run |
| `DeviceServicesProofs` | what the device run checks of both, proved |

### How code becomes actions

The bindings' own invariants (C:501-536) say that no lock is held over a C call
or a user callback. One action is therefore one lock section, one C call or one
user callback. `pc[t]` says where thread `t` is and `frame[t]` holds the work
the code does next on that thread, in the code's order: `CloseInternal`, for
instance, is its lock section, and then leaves the thread a frame with the
context to invoke, the container to complete and the connection to close and
release. `Continue` ends a piece of work; a frame with nothing left makes the
thread ready. Threads are application threads and event loops; a loop only
takes a callback when it is ready, because a loop is one thread.

A user callback may call back into the API. Such a call runs while its caller
is between two actions, and the state it sees is the one another thread's call
would see there, so the interleaving with a second application thread covers
it. Two cases need the thread itself and are modelled: the destructor in a
callback (`Shutdown` is enabled while another application thread is between its
callback and its promise), and, in the continuation, the thread `Inner`, which
is the event loop inside a stream handler callback, where `ShutDown` skips the
handler lock.

Data is abstract: an RPC error is a base status and whether its CRT code is
zero (`InvokeCallbacks` decides on exactly that); a `Connect` call is its
number, which its promise, C connection and flush container share; a message on
a stream is a response, an event, an error or one that cannot be mapped, with
or without TERMINATE_STREAM.

The C libraries are modelled from how the bindings use them: a connection is
`none`, `connecting`, `up`, `closing`, `gone`; setup ends an attempt once;
shutdown follows setup once; messages arrive between them; a flush callback
comes once for every message the library took and never for one it refused; a
token terminates when its last reference goes after it closed, or without
activation.

### EventStreamConnection

| Definition | Code |
|---|---|
| `ConnectInvalid`, `ConnectRefused`, `ConnectBegin`, `ConnectStarts`, `ConnectFails` | `Connect`, C:930-1006: early returns, lock section, C call, rollback |
| `CloseInternal`, `Close`, `Shutdown` | C:860-928 |
| `MoveToDisconnected` | C:825-858 |
| `SetupFails`, `SetupAbandoned`, `SetupSucceeds`, `SendConnect`, `SendConnectFails` | `s_onConnectionSetup`, C:1049-1152 |
| `ConnectionShutdown` | C:1154-1163 |
| `ConnackAccepted`, `ConnackRefused`, `Ping`, `UnknownMessage`, `CloseAfterUnknownMessage` | `s_onProtocolMessage`, C:1165-1249 |
| `InvokeCallback`, `SetConnectPromise` | `InvokeCallbacks`, C:609-643 |
| `CompleteFlush`, `InvokeFlushCallback`, `ConnectFlushed` | C:47-170 |
| `CloseConnection`, `ScheduleClearTask`, `RunClearTask`, `DropHandle` | C:908-913, 857, 806-815, 1256-1260 |

Two assumptions on callers are in the guards. No application thread enters the
object once its destructor has begun (`MayCall`), and the destructor does not
run while one of the application's threads is inside a call, except from a
callback made by that call (`Shutdown`); both are the language's rules for
destroying an object.

### EventStreamContinuation

| Definition | Code |
|---|---|
| `Init`, `Initialized` | constructor and `Initialize`, C:1526-1552, 1449-1459 |
| `Activate`, `ActivateRefused`, `ActivateAccepted`, `ActivateRollback` | C:1702-1812 |
| `SendStreamMessage`, `SendRefused`, `SendAccepted`, `SendFails` | C:1814-1903 |
| `Close`, `CloseRefused`, `BeginClose`, `CloseRollback`, `CloseInternally` | C:1905-1984 |
| `ShutDown`, `ShutDownGather` | C:1616-1690 |
| `OnMessage`, `EnterHandler`, `LeaveHandler`, `InvokeResult` | C:2166-2274 |
| `OnClosed`, `ClosedReturns` | C:1986-2023, 2276-2284 |
| `ReleaseLocalRef`, `ReleaseContinuation`, `RunReleaseTask`, `DropTokenRef` | C:1800, 1893, 1974, 1576-1614, 2297-2303 |
| `CompleteFlush`, `ResolveFlush`, `MessageFlushed` | C:47-170 |

The Close that `OnMessage` and `ShutDown` make has a promise and a callback
nobody can see; it is op 0 and has no container in the model.

### MessageRouting

The loop handles one message at a time: `OnMessage` is `DeserializeRawMessage`
(C:2025-2164) with the choice between the activation's result and the stream
handler; `InvokeResult` hands the result to the application (C:2207-2228), with the kind
the variant's constructors give it (C:2391-2450);
`StreamEvent` and `StreamError` are the handler's callbacks (C:2237-2266 and, for
the three a generated handler makes of an error, the Greengrass model's
`OnStreamError`); `EndMessage` is the Close that ends `OnMessage`. The
application's `Close` and the peer's `OnClosed` come in between. Here no Close
fails: what a refused or rolled-back one leaves behind is `EventStreamContinuation`'s. A message is
its type, its service model type, its content type and its TERMINATE_STREAM
flag, each of them also absent or wrong.

### ReportTask

`StartTask`, `TaskCreated`/`TaskNotCreated`, `SetRunning` are the three parts of
`StartTask` (`devicedefender/source/DeviceDefender.cpp`:201-226), `StopTask`,
`CleanUpReturns`, `SetStopped` those of `StopTask` (228-236), `Destroy`,
`DestroyEnd` the destructor; `Cancel`, `OnTaskCancelled`, `TestHandler`,
`InvokeHandler`, `CancelDone` the cancellation on the loop (153-162). Every plain member both
threads use is read and written by a step of its own.

Two frozen variables say what may happen: `loopCancels`, a loop that cancels a
task nobody stopped (it shuts down), and `handlerCalls`, a cancellation handler
that calls `StopTask`. With both, a task the loop cancels inside `StartTask`
leaves `m_status` at Running (217), and the handler that then stops it waits on
the loop for the loop: `WaitsForItself`, the one way in which a call does not
return. A loop that cancels on its own may also call the handler after the
destructor emptied it, between `TestHandler` and `InvokeHandler`; that call is
undefined, and the properties promise nothing for it.

### Shapes

A shape is a table row: its members, each with a kind (string, number,
timestamp, blob, enumeration, list, map, document, nested object), and for a
union the order in which its members are looked for. The operators are the
generated functions: `Set`, `Get`, `GetEnum`, `Assign` (`operator=`),
`SerializeToJsonObject`, `Load` (`s_loadFromJsonView`, `LoadFromObject`,
`LoadFromPayload`), `ToString` and `FromString` of the marshallers. A nested
object is a value: it is converted by the row of its own shape. Numbers,
Base64 and JSON text are the CRT's. A marshaller compares hashes of strings; the
model compares the strings, which leaves out collisions.

`ShapeConversion` takes both builds: `asserts` says whether the receiver was
compiled without NDEBUG. `FromString` meets an unknown string with `assert(0)`
(`JobStatus.cpp`:99) before it returns enumerator -1, so that a payload
with an unknown enumerator is loaded by `Receive` in one build and ends
the process in the other, `Abort`. The `assert(0)` of `ToString` (:50) is for
the same enumerator, which with assertions no object holds.

### RequestResponse

`Submit` is an operation of a V2 client: its row gives the publish topic, the
filters, the two response paths and whether a token is put into payload and
options (`Correlated`, `Updating`, `Uncorrelated`); `ClientToken` is the UUID
that overwrites the application's token. `Deliver` gives a publish to the
request it completes, through `ResponseHandler`, and to the open streams,
through `ModeledEvent`. `Completes` is the CRT's matching, external: the topic
must be a response path; a path that names a token wants the token, and one that
names none takes any pending request without a token, whatever its paths: that
is why the client compares the topic again.

### SecureTunnel

`Construct` is `Build` and the deprecated constructors, `MoveConstruct`,
`MoveAssign`, `Destroy`, `Start`, `Stop`, `Send` the calls of the same names;
`Callback` is every static callback, with `Preference` for the order in which
new and deprecated functions are tried. `SubscribeToTunnelsNotify`,
`SubscribeCompletes` and `Notified` are the notification client, which makes a
response of a payload whether or not it parses. A callback into a destroyed
object is undefined and says so; the last assertion of `OwnerIsTold` is limited
to the tunnels whose owner is where the native tunnel believes it to be.

`operator=` runs the destructor on its own object (`SecureTunnel.cpp`:812), which
destroys the functions with the rest, and then assigns to all of them but
`m_OnStreamStopped`. `stale` holds the functions this leaves unusable
(`Destroyed`): `OnStreamStopped` always, the others too if they own memory, since
that is freed twice; whether they do is up to the application, and both cases are
taken. Calling one is undefined (`Invoked`), and `OwnerIsTold` excepts it.

## 3. Runs

| Run | Checks | Result |
|---|---|---|
| `conn_safety` | ten invariants and the refinement of `ConnectionContract` | pass |
| `conn_liveness` | five liveness properties under `FairSpec` | pass |
| `conn_onconnect` | the header's words on `OnConnectCallback` | violated |
| `conn_late` | the comment on `Shutdown` | violated |
| `cont_safety` | six invariants and the refinement of `OperationContract` | pass |
| `cont_liveness` | three liveness properties under `FairSpec` | pass |
| `cont_rollback` | the comment on optimistic updates | violated |
| `cont_termination` | the comment on the release task | violated |
| `defender` | three invariants, an action property and a liveness property of the report task | pass |
| `routing` | three invariants and a liveness property of message routing, for each of the 34 operations | pass |
| `conversion` | that a shape reads the same after it was sent, and says the same after it was forwarded, for each shape | pass |
| `device` | that results answer their requests, that answers are heard, that tunnels have one owner who is told | pass |

**Bounds.** `conn_safety`: two application threads, two event loops, two
`Connect` calls. Two threads are what it takes to race an operation with
another, or a callback with the destructor; two loops let one attempt's
callbacks run while the other's do (attempts are on different loops in some
initial states and on the same one in others); two calls cover a refused
second attempt and a reconnect while work of the first is pending. Threads and
loops are symmetric: no definition distinguishes them. `conn_liveness` has one
thread and one loop and still two attempts; the properties are of one attempt's
progress, and TLC's liveness check does not combine with symmetry. With two
threads and two attempts the graph is too large for a run of a few minutes.
`cont_safety`: two application threads, the loop and its handler, four
operations, and a C library that may refuse a message on an open stream: enough
for an activation, a close and a failing one of either, and a message between.
`cont_liveness` has two application threads and three operations, which reach
the state `cont_rollback` shows; from there an operation is never freed,
and `ShutDownFrees` names that state (`NeverToClose`). It refuses no message on an open stream,
since a C library that refuses the terminating message leaves the stream open.

`MaxConnects` and `MaxOps` only bound how often the application calls. Nothing
else is bounded: references, tasks and callbacks are as many as the code makes.
`defender`: two report tasks built with one builder, three C tasks, so that a
task is restarted and the second report task meets what the first left behind; every combination of loop
and handler is an initial state.
`routing`: three messages after an activation: the first response, one on the
stream and one after a Close or a closing error; each operation is an initial
state, and an error is one of the operation's own or one of another's.
`conversion`: three members set or written at a time (a shape's members are
converted independently, three suffice for a union's choice, a second choice
and a copy), lists and maps of up to two items, wire strings of which two are
not known to this version, with assertions and without. `device`: two requests, so that one can take the
other's answer, and two publishes (an answer and a late, foreign or second one);
six operations stand for the kinds of topics and tokens;
`AllTopicsAssumption` compares the topics of all fourteen operations and nine
streams. Two objects and two native tunnels: a move away and back, an assignment
over an owner. The service clients and the tunnel share nothing, so that the
run explores them one at a time.

**Fairness.** Weak fairness of each thread's own steps: a thread that is not
waiting runs. Strong fairness of setup completion, of shutdown completion after
the connection started closing, of flushes and of the end of a stream after
TERMINATE_STREAM: each is queued in the C library and delivered on a loop, and
messages of the peer that arrive on the same loop can delay it but not for
ever. No fairness on the application's calls, on messages of the peer, or on
the peer closing: nothing makes them happen. So `ConnectResolves` is stated for
a connection that is to be disconnected; the code has no timer on CONNECT_ACK.

`ReportTask`: weak fairness of a call under way and of the loop, strong fairness
of a queued cancellation, which reports on the same loop delay but not for ever.
`MessageRouting`: weak fairness of the loop with the message it works on. In
neither has anybody to call, to send or to close. `device` and `conversion`
check safety only: every answer depends on a service.

**What the violated runs show.** (1) A rejected CONNECT_ACK stores
`{ACCESS_DENIED, 0}`; the callback is chosen by the CRT code, so
`OnConnectCallback` is called for a connection the server refused, before the
future says it failed. (2) A loop that moved a context out of shared state before the
destructor's lock section makes its callback after the destructor returned;
PING and the flush callback can do the same. (3) Close between Activate's lock
section and its C call, with both C calls failing, ends in PENDING_ACTIVATE for
a token that is not active, where neither `Activate` nor `Close` can succeed.
(4) The local reference at the end of a call can be the token's last, so the
termination callback runs below that call; the object is still held by its
caller, and nothing breaks.

**Divergences seen without a run of their own.** The properties above state
what holds; these are the exceptions they name.

- The state of (3) leaks: an operation destroyed in it closes instead of
  releasing its token, the C close fails and is rolled back (C:1970), and nothing
  frees token or impl.
- A cancellation handler that calls `StopTask` on a task the loop cancelled inside
  `StartTask` waits for its own loop for ever (`DeviceDefender.cpp`:156, 217, 232).
- Registering a metric on a report task whose configuration could not be made
  passes a null configuration to the C library (`DeviceDefender.cpp`:252-298).
- An enumerator that a peer may know and this version does not fails an assertion
  (`JobStatus.cpp`:50, 99, and the other marshallers): in the Debug build of the
  README (`src/README.md`:91, 109) a message of the service ends the process,
  where a Release build reads an unknown value.
- `SecureTunnel::operator=` assigns to members its destructor call destroyed and
  never restores `m_OnStreamStopped` (`SecureTunnel.cpp`:812).
- The callback for any error is not called when an earlier error callback asks
  for the stream to end (`GreengrassCoreIpcModel.cpp`:6996), though the header
  presents it as called for any error (`GreengrassCoreIpcModel.h`:4458); an error
  model nobody registered comes with a success status and no callback at all
  (C:2254, against the header's :4474).
- A refused activation that the peer ended is closed by an empty terminate
  message all the same (C:2202; the comment at C:2194 says otherwise).
- A second report task of one builder has no cancellation handler, since `Build`
  moves it out (`DeviceDefender.cpp`:369; the header, :211, does not say so), a
  cancellation inside `StartTask` leaves the status at Running (:217), and one
  failed start makes every later one fail, since `m_lastError` is never cleared.
- The operation contexts refer to the client's service model and not to a copy:
  an error that arrives after the client is gone is looked up in freed memory.
- The tests' stream-started callback handles an error code
  (`secure_tunneling/tests/main.cpp`:213), but the callback is never called with
  one (`SecureTunnel.cpp`:1081).

Every property of a passing run has a mutant in `PROJECT.json`: a definition in
the same module, marked `mutant`, that replaces one of the model's and makes
TLC find the property violated.

## 4. Proofs

Thirty-one theorems, for every value of the constants. They state every
invariant of the passing runs, the two action properties, and the refinements of
`ConnectionContract` and `OperationContract`: of the safety properties of the passing
runs only the last part of `CallsReturn` is left to TLC alone. The continuation's type invariant is proved and has no run of
its own. None of the other invariants is inductive as it stands, except the
connection's `TypeOK`; each proof has the form `Init => IInv`,
`IInv /\ [Next]_vars => IInv'`, `IInv => Inv`, with one step per action or group of
actions. TLC checked each `IInv` on the instance of the run (for the continuation,
with three operations) before it was proved.

**Assumptions.** They are the `ASSUME`s of the modules, and TLC evaluates them in
the runs.

- `ConnectionAssumption`, `ContinuationAssumption`: the bound on calls is a
  natural number, application threads and loops are finite sets without a common
  member (the reference counts count threads), shutdown codes are zero or not.
- `RoutingAssumption`: each operation's response is named and is not its event,
  neither is the name of a registered error, and its errors are registered. The
  run checks it for the 34 operations.
- `ReportTaskAssumption`: the loop is not the application's thread.
- `ObjectsAssumption`, `RequestsAssumption`: finitely many tunnels, objects and
  requests; requests are not executions. `TopicsAssumption`: the services answer
  an operation on its two response paths, to which its filters subscribe
  (`Answered`); an operation with a token shares no path with one without
  (`Apart`); no stream's filter takes an answer (`Unanswering`).
  `AllTopicsAssumption` checks the same of all operations and streams of the
  service clients.
- `ShapesAssumption`: none of a marshaller's strings is one it makes of an unknown
  enumerator (`Marshalling`), and a union looks for each of its members when it is
  loaded (`LooksForAll`). The run checks it for every row of both tables.

**EventStreamConnection.** `TypeCorrect` is inductive by itself: lemmas for the
two shared helpers (`MoveToDisconnectedType`, `CloseInternalType`), then one per
group of actions.

- `SetupAssertionsHold`, `UnderlyingCoherentHolds`, `CloseTakesEffectHolds`,
  `ImplOutlivesCLayerHolds`, from `SafetyInv`. What they need: attempts are
  served one at a time (`OneAttempt`), the state names the place of that attempt
  and every state but Disconnected has the self reference (`StateOfAttempt`), a
  loop between two halves of a callback holds up the shutdown callback of its C
  connection (`LoopHolds`; without it `SendConnectFails` could move a finished
  connection back to Disconnecting), and a thread's work list is only overwritten
  when nothing is left to close (`NoCloseLost`). `LoopAlone` says that while a
  loop handles an event of an attempt no other thread is between a lock section
  and its C call.
- `ReferencesBalancedHolds`. The count of each C connection is the shared
  reference plus the threads that will release one. `BalanceStep` reduces a step
  of one thread to an equation over that thread's own part (`Own`); the rest is
  one equation per action. `SafetyInv` says that no work with a reference in it
  is overwritten, and that setup finds none.
- `FlushCallbackAtMostOnceHolds`, from `FlushInv`: an attempt without a C
  connection has no container (`Fresh`), whoever can still name a container names
  one that exists (`Named`), and a finished one has made its callback or is with
  the one thread that will (`Counted`). The first two are what keep a late
  completion from making a container again.
- `ConnectPromiseHeldOnceHolds` and `SuccessOnlyIfAcceptedHolds`, from
  `PromiseInv` on top of `SafetyInv`. `ContextOfState` ties the shared context
  to the state: without it `ConnackAccepted`, which moves the promise out
  whatever the context's action is, could move a promise that is not there, and
  `Connect` could overwrite one. Its proof needs `CloseTakesEffect`: a
  connection awaiting its CONNECT_ACK was not told to disconnect, so the
  destructor has not emptied its context. `PassOn` is the argument for every
  action that hands contexts on.
- `CallbackOrderHolds`. `NextContexts` first shows that each of the model's
  actions does one of six things to the callback contexts (`ContextStep`: keeps
  them, makes one, moves one to a thread, splits one in two, makes its callback,
  sets its promise). `OrderInv` is then preserved by the six: who has the
  OnConnect and the OnDisconnect of an attempt, and which were made. The
  OnConnect is with the loop of the attempt, and so is every OnDisconnect that
  the destructor does not make: one thread makes them in order. `OpenInv` says
  that the promise of an accepted attempt has left shared state.
- `ContractImplemented`: the refinement mapping takes an attempt to its phase and
  its promise to a result, and each action to `Refuse`, `Begin`, `Establish`,
  `Finish`, `Resolve` or a stutter. `Establish` needs `PromiseInv` (the promise is
  still there), `Begin` needs `OneAttempt`, and `Resolve` needs that a promise is
  resolved as success just for the accepted attempts (`OpenInv`, `Earned`).

**EventStreamContinuation.** `TypeCorrect`, and six invariants from one
`SafetyInv`: `StateMatchesTokenHolds`, `TokenReferencesBalancedHolds`,
`ImplOutlivesTokenHolds`, `NoStreamEventAfterShutDownHolds`,
`PromiseCompletedOnceHolds`, `ResultHeldOnceHolds`.

- `WorkInOrder`: a thread inside a call has nothing else to do, so that the end
  of the call overwrites nothing; `OneShutDown`: one thread destroys the
  operation, once, and holds its handle till the end.
- `StreamInv`: one activation at a time is with the C library, and its token and
  its callback are still there when it returns (`OneActivation`); what a failed
  Close would restore is still true or the stream is over (`Restorable`). This is
  where the two rollbacks meet.
- `LifeInv`: the references to the token are balanced, counted as for the
  connection, and as long as there is one the object holds itself (`SelfOwned`).
- `HandlerInv`: the handler lock is held exactly while the loop is in the handler,
  and a destruction from another thread has waited for it.
- `PromiseInv`: every number in use is an operation's (`OpsKnown`), and an
  incomplete container is with someone who will complete it (`PromiseFor`).
- `ResultInv`: a result callback is with shared state, with one thread, or was
  called; what shared state keeps belongs to an accepted activation or to the one
  in its C call (`KeptIsActive`).
- `OperationImplemented`: the refinement mapping takes the token and the shared
  reference to a stream (`StreamNow`), the completions of a container to the
  number of answers and the calls of a result callback to the number of results,
  and each action to `Call`, `Open`, `End`, `Answer`, `Report`, `Free` or a
  stutter; a second answer or result would be none of them. `Open` needs that an activation is not answered before the C library
  accepted it, because nobody but its own thread can (`ActivationPending`). `Free`
  comes when the last of handle and self reference goes, and needs that the stream
  is over and no result is owed by then (`GoneIsDone`): whoever has a result
  callback to make keeps the object alive (`ReporterKeepsAlive`), and one in shared
  state belongs to an activation whose token does (`SelfOwned`, `KeptIsActive`).

**MessageRouting.** `AnswersFit`, `HandlersFit`, `MessagesReported`, from
`RoutingInv`: between two steps the result is still what `DeserializeRawMessage`
makes of the message. `Deserialization` says what that is: a failure, a response,
an error or an event of a known model, or a message without a shape.

**ReportTask.** `LiveTasksOwned`, `CallbacksWhileAlive`, `RunningIsLiveTask` and the
action property `HandlerToldOnce`, from `TaskInv`: where each of the two threads is and
what it may then assume of the status and of the task it holds, although either
can write the status at any time. `AskedInv` is the part that holds unless the
loop cancels on its own: a task is cancelled only below the `clean_up` that asked
for it. `HandlerInv` adds for that case that the handler the callback found set stays
set until it is called.

**SecureTunnel.** `OwnersAreTold`, from `TunnelInv`: a tunnel that was not released
is in one living object (`Ownership`), which has the callbacks it was built with
(`CallbacksFollow`), except OnStreamStopped, which no move takes along. The
theorem says nothing of functions an assignment destroyed.

**RequestResponse.** `ResultsAreAnswers` and the action property `AnswersAreHeard`, from
`RRInv`: a request's token is its own (`OwnToken`), a message on the wire with that
token answers it (`OnWire`), and a completed request has one result, which is such
a message (`OneResult`).

**ShapeConversion.** `WhatIsSentArrives` and `WhatIsSaidIsForwarded`, from `ShapeInv`: an
object holds values of its members' kinds (`Holds`), the code keeps what the
application knows of it (`Remembers`: of a union the chosen member, whatever is left
of others), and the payload says of each member what its kind may say (`WireInv`).
`ThereAndBack` and `BackAndThere` are the two ways through a member's conversions, for
every kind, and for lists and maps of any size, where the run has two items. A
union is loaded as the first member its row looks for that the payload has
(`Least`, `UnionLooksForFirst`); it is the one that was chosen, because no other is
written. What an application sets is of enumerators it has (`SendableIsKnown`), so
that an assertion fails on a peer's payload only (`OnlyPeersAbort`).

**Only model-checked.** Liveness: fairness and ENABLED are out of the prover's
reach; these are `CloseCompletes`, `ConnectResolves`, `DisconnectReported`,
`FlushReported`, `ImplFreed`, `OpsResolve`, `ShutDownFrees`, `ResultDelivered`,
`CallsReturn` and `FailedActivationCloses`. That the external C libraries behave as
modelled is an assumption, which nothing here can show.

## 5. Not modelled

Message bytes, headers and amendments; logging; memory allocation failure;
`ConnectionConfig` beyond its validation and `DefaultConnectionConfig`, which
reads the environment; `NewStream` on a live connection (a continuation starts
with or without a token, whichever connection state gave it). Of the Greengrass
client, the `New...` functions, which only pass a context on. Of the shapes, the
CRT's JSON library, Base64 and the precision of numbers. Of the V2 clients, the
constructors that forward to the CRT; of the V1 clients, everything but the
tunnel notification: each function subscribes or publishes once and keeps no
state. Dereferencing a required member that was not set (`*request.ThingName`)
is undefined and excluded from the initial states. `DiscoveryClient`: one
asynchronous call in straight-line code. iotdevicecommon, the samples, the
tests and the build. `PROJECT.json` lists each with its reason.

## 6. Plan

1. Done: connection, continuation, routing with the Greengrass operations, report
   task, shapes, V2 service clients, secure tunnel.
2. Done: the invariants and action properties of the passing runs proved, of connection,
   continuation, routing, report task, service clients, tunnel and shapes; the
   contracts of connection and operation, each implemented.
3. Open: a connection with continuations opened from its shared C connection, and
   operations that outlive it; `DiscoveryClient`; an abstract one-shot for flush
   containers that connection and continuation both refine.
