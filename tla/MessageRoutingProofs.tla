------------------------- MODULE MessageRoutingProofs -------------------------
(***************************************************************************)
(* Theorems about MessageRouting for any operations, any registered error  *)
(* models and any number of messages: nothing the application or a stream  *)
(* handler casts without a check is of another type.                       *)
(***************************************************************************)
EXTENDS MessageRouting, TLAPS

-----------------------------------------------------------------------------
(* The inductive invariant.                                                *)

(* While OnMessage runs its result is what DeserializeRawMessage makes of  *)
(* the message, and only a response is on its way to the result callback.  *)
ResultOfMessage ==
    /\ operation \in Operations
    /\ isResponse \in BOOLEAN
    /\ pc \in {"idle", "answer", "stream", "close"}
    /\ pc # "idle" => /\ message.type \in {"message", "error"}
                      /\ result = DeserializeRawMessage(message, isResponse)
    /\ pc = "answer" => isResponse

(* Every callback of this message is of the type its handler casts to.     *)
CallsFit ==
    \A c \in calls :
        /\ c[1] = "OnStreamEvent" => c[2] = operation.events
        /\ c[1] = "typed" => c[2] \in operation.errors
        /\ c[1] = "generic" => c[2] \in KnownErrors

RoutingInv == ResultOfMessage /\ CallsFit /\ AnswerFits /\ MessageReported

-----------------------------------------------------------------------------
(* What DeserializeRawMessage returns: a failure without a message; a      *)
(* response, an event or an error of a known model, or a message without   *)
(* a shape, which is an error of a model nobody registered or a streaming  *)
(* response to an operation that has none.                                 *)
LEMMA Deserialization ==
    ASSUME operation \in Operations, NEW m, m.type \in {"message", "error"},
           NEW asResponse \in BOOLEAN, NEW r, r = DeserializeRawMessage(m, asResponse)
    PROVE  \/ r.route = "none" /\ r.shape = NoName /\ r.status # "SUCCESS"
           \/ /\ r.route = "Error" /\ r.shape = ErrorShape(ModelName(m))
              /\ r.status = "SUCCESS" <=> r.shape # NoName
           \/ /\ asResponse
              /\ r.route = "Response" /\ r.shape = operation.response /\ r.status = "SUCCESS"
              /\ r.shape = ModelName(m) /\ r.shape # NoName
           \/ /\ ~asResponse
              /\ r.route = "Stream" /\ r.shape = operation.events
              /\ r.status = "SUCCESS" <=> r.shape # NoName
              /\ r.shape # NoName => r.shape = ModelName(m)
<1>1. CASE m.model = "absent" \/ Unexpected(m, asResponse)
  BY <1>1 DEF DeserializeRawMessage, Failure, NoName
<1>2. CASE ~(m.model = "absent" \/ Unexpected(m, asResponse))
  <2>1. CASE m.content # "json"
    BY <1>2, <2>1 DEF DeserializeRawMessage, Failure, NoName
  <2>2. CASE m.content = "json" /\ m.type = "error"
    BY <1>2, <2>2 DEF DeserializeRawMessage, Deserialized, NoName
  <2>3. CASE m.content = "json" /\ m.type = "message" /\ asResponse
    <3>1. operation.response # NoName
      BY RoutingAssumption
    <3>2. ModelName(m) = operation.response
      BY <1>2, <2>3 DEF Unexpected
    <3>3. r = Deserialized("Response", operation.response)
      BY <1>2, <2>3 DEF DeserializeRawMessage
    <3>4. r = [status |-> "SUCCESS", route |-> "Response", shape |-> operation.response]
      BY <3>1, <3>3 DEF Deserialized, NoName
    <3>5. r.route = "Response" /\ r.shape = operation.response /\ r.status = "SUCCESS"
      BY <3>4
    <3> QED
      BY <2>3, <3>1, <3>2, <3>5, Zenon
  <2>4. CASE m.content = "json" /\ m.type = "message" /\ ~asResponse
    <3>1. operation.events # NoName => ModelName(m) = operation.events
      BY <1>2, <2>4 DEF Unexpected, Streaming
    <3>2. r = Deserialized("Stream", operation.events)
      BY <1>2, <2>4 DEF DeserializeRawMessage, EventShape
    <3> QED
      BY <2>4, <3>1, <3>2 DEF Deserialized, NoName
  <2> QED
    BY <2>1, <2>2, <2>3, <2>4
<1> QED
  BY <1>1, <1>2

(* So for the message OnMessage works on.                                  *)
LEMMA MessageResult ==
    ASSUME RoutingInv, pc # "idle"
    PROVE  \/ result.route = "none" /\ result.shape = NoName /\ result.status # "SUCCESS"
           \/ /\ result.route = "Error" /\ result.shape = ErrorShape(ModelName(message))
              /\ result.status = "SUCCESS" <=> result.shape # NoName
           \/ /\ isResponse
              /\ result.route = "Response" /\ result.shape = operation.response
              /\ result.status = "SUCCESS"
              /\ result.shape = ModelName(message) /\ result.shape # NoName
           \/ /\ ~isResponse
              /\ result.route = "Stream" /\ result.shape = operation.events
              /\ result.status = "SUCCESS" <=> result.shape # NoName
              /\ result.shape # NoName => result.shape = ModelName(message)
<1>1. /\ operation \in Operations /\ message.type \in {"message", "error"}
      /\ isResponse \in BOOLEAN
      /\ result = DeserializeRawMessage(message, isResponse)
  BY DEF RoutingInv, ResultOfMessage
<1> QED
  BY <1>1, Deserialization, SMT

(* An error shape is of a registered model, and then of the one named.     *)
LEMMA ErrorShapes ==
    ASSUME NEW name
    PROVE  /\ ErrorShape(name) = NoName \/ ErrorShape(name) = name
           /\ ErrorShape(name) # NoName => ErrorShape(name) \in KnownErrors
BY DEF ErrorShape, NoName

-----------------------------------------------------------------------------
LEMMA InitRouting == ASSUME Init PROVE RoutingInv
<1>1. ResultOfMessage
  BY DEF Init, ResultOfMessage
<1>2. CallsFit /\ MessageReported
  BY DEF Init, CallsFit, MessageReported
<1>3. AnswerFits
  BY DEF Init, AnswerFits, NoAnswer
<1> QED
  BY <1>1, <1>2, <1>3 DEF RoutingInv

(* A new message: the callbacks of the last one are forgotten.             *)
LEMMA OnMessageFits ==
    ASSUME RoutingInv, NEW m \in Messages(operation), OnMessage(m) PROVE RoutingInv'
<1>1. ResultOfMessage'
  <2>1. isResponse' = AwaitsResponse /\ AwaitsResponse \in BOOLEAN
    BY DEF OnMessage, AwaitsResponse
  <2>2. message' = m /\ m.type \in {"message", "error"} /\ operation' = operation
    BY DEF OnMessage, Messages
  <2>3. result' = DeserializeRawMessage(m, isResponse')
    BY DEF OnMessage
  <2>4. result' = DeserializeRawMessage(message, isResponse)'
    BY <2>2, <2>3 DEF DeserializeRawMessage, Unexpected, EventShape, Streaming, ModelName,
                      ErrorShape, Deserialized, Failure
  <2>5. pc' \in {"answer", "stream"} /\ (pc' = "answer" => isResponse')
    BY DEF OnMessage
  <2> QED
    BY <2>1, <2>2, <2>4, <2>5 DEF RoutingInv, ResultOfMessage
<1>2. calls' = {} /\ answer' = answer /\ operation' = operation /\ pc' # "close"
  BY DEF OnMessage
<1>3. CallsFit' /\ AnswerFits' /\ MessageReported'
  BY <1>2 DEF RoutingInv, CallsFit, AnswerFits, MessageReported
<1> QED
  BY <1>1, <1>3 DEF RoutingInv

(* The result callback: three kinds of answer, each with what it promises. *)
LEMMA InvokeResultFits ==
    ASSUME RoutingInv, InvokeResult PROVE RoutingInv'
<1>1. pc # "idle" /\ isResponse
  BY DEF InvokeResult, RoutingInv, ResultOfMessage
<1>2. \/ result.route = "none" /\ result.shape = NoName /\ result.status # "SUCCESS"
      \/ /\ result.route = "Error" /\ result.shape = ErrorShape(ModelName(message))
         /\ result.status = "SUCCESS" <=> result.shape # NoName
      \/ /\ result.route = "Response" /\ result.shape = operation.response
         /\ result.status = "SUCCESS"
  BY <1>1, MessageResult
<1>3. /\ answer' = Answer /\ pc' = "stream"
      /\ UNCHANGED <<operation, message, result, isResponse, calls>>
  BY DEF InvokeResult
<1>4. AnswerFits'
  BY <1>2, <1>3, ErrorShapes DEF Answer, AnswerFits
<1>5. ResultOfMessage'
  BY <1>3 DEF InvokeResult, RoutingInv, ResultOfMessage, DeserializeRawMessage, Unexpected,
     EventShape, Streaming
<1>6. CallsFit' /\ MessageReported'
  BY <1>3 DEF RoutingInv, CallsFit, MessageReported
<1> QED
  BY <1>4, <1>5, <1>6 DEF RoutingInv
(* The stream handler's callbacks get what the route says.                 *)
LEMMA SkipHandlerFits ==
    ASSUME RoutingInv, SkipHandler PROVE RoutingInv'
<1>1. /\ UNCHANGED <<operation, message, result, isResponse, calls, answer>>
      /\ pc = "stream" /\ pc' = "close" /\ ~Listening
  BY DEF SkipHandler
<1>2. ResultOfMessage'
  BY <1>1 DEF RoutingInv, ResultOfMessage, DeserializeRawMessage, Unexpected, EventShape,
     Streaming
<1>3. CallsFit' /\ AnswerFits'
  BY <1>1 DEF RoutingInv, CallsFit, AnswerFits
<1>4. MessageReported'
  BY <1>1 DEF MessageReported, Listening, Streaming
<1> QED
  BY <1>2, <1>3, <1>4 DEF RoutingInv

(* What a handler is given, and that no response comes to it.              *)
LEMMA HandlerResult ==
    ASSUME RoutingInv, Dispatch
    PROVE  \/ result.route = "none" /\ result.shape = NoName /\ result.status # "SUCCESS"
           \/ /\ result.route = "Error" /\ result.shape = ErrorShape(ModelName(message))
              /\ result.status = "SUCCESS" <=> result.shape # NoName
           \/ result.route = "Stream" /\ result.shape = operation.events
<1>1. pc # "idle" /\ ~isResponse
  BY DEF Dispatch, Listening
<1> QED
  BY <1>1, MessageResult

LEMMA StreamEventFits ==
    ASSUME RoutingInv, StreamEvent PROVE RoutingInv'
<1>1. /\ UNCHANGED <<operation, message, result, isResponse, answer>>
      /\ calls' = {<<"OnStreamEvent", result.shape>>}
      /\ Dispatch /\ pc = "stream" /\ pc' = "close" /\ result.route = "Stream"
  BY DEF StreamEvent, Dispatch
<1>2. result.shape = operation.events
  BY <1>1, HandlerResult
<1>3. ResultOfMessage'
  BY <1>1 DEF RoutingInv, ResultOfMessage, DeserializeRawMessage, Unexpected, EventShape,
     Streaming
<1>4. CallsFit'
  BY <1>1, <1>2 DEF CallsFit
<1>5. AnswerFits' /\ MessageReported'
  BY <1>1 DEF RoutingInv, AnswerFits, MessageReported
<1> QED
  BY <1>3, <1>4, <1>5 DEF RoutingInv

LEMMA StreamErrorFits ==
    ASSUME RoutingInv, NEW ends \in [{"rpc", "typed", "generic"} -> BOOLEAN], StreamError(ends)
    PROVE  RoutingInv'
<1> DEFINE rpc == StreamErrorStatus # "SUCCESS"
           typed == ~(rpc /\ ends["rpc"]) /\ result.shape \in operation.errors
           generic == /\ ~(rpc /\ ends["rpc"]) /\ ~(typed /\ ends["typed"])
                      /\ result.shape # "none"
           called == {c \in {"rpc", "typed", "generic"} :
                        CASE c = "rpc" -> rpc [] c = "typed" -> typed [] OTHER -> generic}
<1>1. /\ UNCHANGED <<operation, message, result, isResponse, answer>>
      /\ Dispatch /\ pc = "stream" /\ pc' = "close" /\ result.route \in {"Error", "none"}
      /\ calls' = {<<c, result.shape>> : c \in called}
      /\ shouldClose' = \E c \in called : ends[c]
  BY DEF StreamError, Dispatch
<1>2. /\ "rpc" \in called <=> rpc
      /\ "typed" \in called <=> typed
      /\ "generic" \in called <=> generic
      /\ \A c \in called : c \in {"rpc", "typed", "generic"}
  OBVIOUS
<1>3. /\ operation.errors \subseteq KnownErrors /\ NoName \notin KnownErrors
  BY RoutingAssumption DEF RoutingInv, ResultOfMessage
<1>4. \/ result.route = "none" /\ result.shape = NoName /\ rpc
      \/ /\ result.route = "Error" /\ ~rpc
         /\ result.shape = NoName \/ result.shape \in KnownErrors
  BY <1>1, HandlerResult, ErrorShapes DEF StreamErrorStatus
<1> HIDE DEF called
<1>5. ResultOfMessage'
  BY <1>1 DEF RoutingInv, ResultOfMessage, DeserializeRawMessage, Unexpected, EventShape,
     Streaming
<1>6. CallsFit'
  <2> SUFFICES ASSUME NEW c \in called
               PROVE  /\ c = "typed" => result.shape \in operation.errors
                      /\ c = "generic" => result.shape \in KnownErrors
                      /\ c # "OnStreamEvent"
    BY <1>1 DEF CallsFit
  <2> QED
    BY <1>2, <1>4 DEF NoName
<1>7. AnswerFits'
  BY <1>1 DEF RoutingInv, AnswerFits
<1>8. MessageReported'
  <2>1. (calls = {})' <=> called = {}
    BY <1>1
  <2>2. called = {} <=> result.route = "Error" /\ result.shape = NoName
    BY <1>2, <1>3, <1>4 DEF NoName
  <2>3. result.route = "Error" /\ result.shape # NoName /\ ~shouldClose' => "generic" \in called
    BY <1>1, <1>2, <1>4 DEF NoName
  <2> QED
    BY <1>1, <2>1, <2>2, <2>3 DEF MessageReported
<1> QED
  BY <1>5, <1>6, <1>7, <1>8 DEF RoutingInv

(* The Close of OnMessage, of the application and OnClosed.                *)
LEMMA ClosesFit ==
    ASSUME RoutingInv, EndMessage \/ ApplicationCloses \/ OnClosed PROVE RoutingInv'
<1>1. /\ UNCHANGED <<operation, message, result, isResponse, calls>>
      /\ pc' \in {pc, "idle"}
      /\ pc' # "idle" => shouldClose' = shouldClose
  BY DEF EndMessage, ApplicationCloses, OnClosed
<1>2. ResultOfMessage'
  BY <1>1 DEF RoutingInv, ResultOfMessage, DeserializeRawMessage, Unexpected, EventShape,
     Streaming
<1>3. CallsFit' /\ MessageReported'
  BY <1>1 DEF RoutingInv, CallsFit, MessageReported, Listening, Streaming
<1>4. AnswerFits'
  BY <1>1 DEF RoutingInv, AnswerFits, EndMessage, ApplicationCloses, OnClosed
<1> QED
  BY <1>2, <1>3, <1>4 DEF RoutingInv

LEMMA NextRouting ==
    ASSUME RoutingInv, [Next]_vars PROVE RoutingInv'
<1>1. CASE \E m \in Messages(operation) : OnMessage(m)
  BY <1>1, OnMessageFits
<1>2. CASE LoopStep
  BY <1>2, InvokeResultFits, SkipHandlerFits, StreamEventFits, StreamErrorFits, ClosesFit
  DEF LoopStep
<1>3. CASE ApplicationCloses \/ OnClosed
  BY <1>3, ClosesFit
<1>4. CASE UNCHANGED vars
  BY <1>4 DEF vars, RoutingInv, ResultOfMessage, CallsFit, AnswerFits, MessageReported,
     DeserializeRawMessage, Unexpected, EventShape, Listening, Streaming
<1> QED
  BY <1>1, <1>2, <1>3, <1>4 DEF Next

LEMMA RoutingInvariant == Spec => []RoutingInv
<1>1. Init => RoutingInv
  BY InitRouting
<1>2. RoutingInv /\ [Next]_vars => RoutingInv'
  BY NextRouting
<1> QED
  BY <1>1, <1>2, PTL DEF Spec

-----------------------------------------------------------------------------
(* GetOperationResponse and GetOperationError cast what they are given: a  *)
(* response is of the operation's model, an error is a registered one, and *)
(* anything else has a status that is not success.                         *)
THEOREM AnswersFit == Spec => []AnswerFits
BY RoutingInvariant, PTL DEF RoutingInv

(* An event is of the operation's event model and declared to be, a typed  *)
(* error callback gets an error of its type, and OnMessage's switch never  *)
(* meets a response (the fatal assertion of its default).                  *)
THEOREM HandlersFit == Spec => []HandlerFits
<1>1. RoutingInv => HandlerFits
  <2> SUFFICES ASSUME RoutingInv PROVE HandlerFits
    OBVIOUS
  <2>1. Dispatch => result.route # "Response"
    BY HandlerResult
  <2>2. ASSUME pc # "idle", result.shape # NoName PROVE result.shape = ModelName(message)
    BY <2>2, MessageResult, ErrorShapes
  <2> QED
    BY <2>1, <2>2 DEF HandlerFits, RoutingInv, CallsFit
<1> QED
  BY <1>1, RoutingInvariant, PTL

(* With a handler every message leads to a callback, but for an error of a *)
(* model nobody registered.                                                *)
THEOREM MessagesReported == Spec => []MessageReported
BY RoutingInvariant, PTL DEF RoutingInv
=============================================================================
