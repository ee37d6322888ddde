---------------------------- MODULE MessageRouting ----------------------------
(***************************************************************************)
(* What a stream does with a message: DeserializeRawMessage and OnMessage  *)
(* of ClientContinuationImpl, and the OnStreamEvent and OnStreamError that *)
(* the Greengrass stream handlers generate on top of them.  The            *)
(* interleavings of the stream's own calls are EventStreamContinuation's;  *)
(* here the stream is activated and only a Close of the application comes  *)
(* between the steps of the event loop.                                    *)
(***************************************************************************)
EXTENDS Integers, FiniteSets

CONSTANTS
    Operations,     \* the operations: their response, event and error models
    KnownErrors,    \* error models the service model has a factory for
    MaxMessages     \* bound on the messages received

NoName == "none"
Names(op) == {op.response, op.events} \ {NoName}

(* Every error with a callback has a factory, and no error model has the   *)
(* name of a response or of an event.                                      *)
ASSUME RoutingAssumption ==
    /\ MaxMessages \in Nat
    /\ NoName \notin KnownErrors /\ "" \notin KnownErrors
    /\ \A op \in Operations :
        /\ op.errors \subseteq KnownErrors
        /\ op.response # NoName /\ op.response # op.events
        /\ Names(op) \cap (KnownErrors \cup {"unreadable"}) = {}

Streaming(op) == op.events # NoName

(* A raw message: its type, the service model type header, the content     *)
(* type header, the TERMINATE_STREAM flag.  A header may be missing, or of *)
(* a type that is not a string; the model may be one nobody registered.    *)
Errors(op) == op.errors \cup {CHOOSE e \in KnownErrors : e \notin op.errors}
Messages(op) ==
    [type : {"message", "error"},
     model : Names(op) \cup Errors(op) \cup {"Unknown", "absent", "unreadable"},
     content : {"absent", "unreadable", "json", "other"},
     terminate : BOOLEAN]

VARIABLES
    operation,      \* the operation; with events it has a stream handler
    state,          \* m_currentState, from Activate's C call on
    callback,       \* m_activationResponseCallback is set
    answer,         \* what the activation result callback was given
    received,       \* number of messages
    message,        \* the message OnMessage works on
    result,         \* its MessageResult
    isResponse,     \* OnMessage's local
    pc,             \* where OnMessage is
    calls,          \* stream handler callbacks made for this message
    shouldClose,    \* OnMessage's local
    terminated      \* the peer has sent TERMINATE_STREAM

vars == <<operation, state, callback, answer, received, message, result,
          isResponse, pc, calls, shouldClose, terminated>>

-----------------------------------------------------------------------------
(* MessageResult: a status, and the route and shape of a message if one    *)
(* was made.                                                               *)
Failure(status) == [status |-> status, route |-> "none", shape |-> "none"]
Deserialized(route, shape) ==
    [status |-> IF shape = "none" THEN "UNMAPPED_DATA" ELSE "SUCCESS",
     route |-> route, shape |-> shape]

(* The header's name as a string, empty when its type is another.          *)
ModelName(m) == IF m.model = "unreadable" THEN "" ELSE m.model

(* Only the type of the shape expected now is parsed, if there is one.     *)
UnexpectedNever(m, asResponse) == FALSE  \* mutant: the model name is not compared
Unexpected(m, asResponse) ==
    /\ m.type = "message"
    /\ IF asResponse THEN ModelName(m) # operation.response
       ELSE Streaming(operation) /\ ModelName(m) # operation.events

(* The operation's factories: a shape of the type the code asks for,       *)
(* nothing for a streaming response there is none of, nothing for an error *)
(* model without a factory.                                                *)
ErrorShape(name) == IF name \in KnownErrors THEN name ELSE "none"
EventShape == operation.events

DeserializeRawMessage(m, asResponse) ==
    IF m.model = "absent" \/ Unexpected(m, asResponse) THEN Failure("UNMAPPED_DATA")
    ELSE IF m.content # "json" THEN Failure("UNSUPPORTED_CONTENT_TYPE")
    ELSE IF m.type = "error" THEN Deserialized("Error", ErrorShape(ModelName(m)))
    ELSE IF asResponse THEN Deserialized("Response", operation.response)
    ELSE Deserialized("Stream", EventShape)

NoMessage == [type |-> "message", model |-> "absent", content |-> "absent",
              terminate |-> FALSE]
NoAnswer == [kind |-> "none", shape |-> "none", status |-> "SUCCESS"]

-----------------------------------------------------------------------------
Init ==
    /\ operation \in Operations
    /\ state = "PendingActivate" /\ callback = TRUE /\ answer = NoAnswer
    /\ received = 0 /\ message = NoMessage /\ result = Failure("SUCCESS")
    /\ isResponse = FALSE /\ pc = "idle" /\ calls = {} /\ shouldClose = FALSE
    /\ terminated = FALSE

Succeeded(r) == r.status = "SUCCESS" /\ r.route = "Response"

(* The lock section of OnMessage.  A response that ends the stream leaves  *)
(* nothing to terminate.                                                   *)
AwaitsResponse == state = "PendingActivate"

OnMessage(m) ==
    LET response == AwaitsResponse
        r == DeserializeRawMessage(m, response)
    IN
    /\ pc = "idle" /\ state # "Closed" /\ ~terminated /\ received < MaxMessages
    /\ received' = received + 1
    /\ message' = m /\ terminated' = m.terminate
    /\ isResponse' = response /\ result' = r
    /\ calls' = {}
    /\ pc' = IF response /\ callback THEN "answer" ELSE "stream"
    /\ callback' = (callback /\ ~response)
    /\ state' = IF ~response \/ ~Succeeded(r) THEN state
                ELSE IF m.terminate THEN "PendingClose" ELSE "Activated"
    /\ shouldClose' = (response /\ ~Succeeded(r))
    /\ UNCHANGED <<operation, answer>>

(* The activation result callback: a response, an error shape or a status. *)
AnswerIgnoringStatus ==  \* mutant: the status of the result is not looked at
    [kind |-> result.route, shape |-> result.shape, status |-> "SUCCESS"]
Answer ==
    IF result.status = "SUCCESS"
    THEN [kind |-> result.route, shape |-> result.shape, status |-> "SUCCESS"]
    ELSE [kind |-> "RpcError", shape |-> "none", status |-> result.status]

InvokeResult ==
    /\ pc = "answer"
    /\ answer' = Answer
    /\ pc' = "stream"
    /\ UNCHANGED <<operation, state, callback, received, message, result, isResponse,
                   calls, shouldClose, terminated>>

(* The part of OnMessage for the stream handler.                           *)
Listening == ~isResponse /\ Streaming(operation)
Dispatch == pc = "stream" /\ Listening

SkipHandler ==
    /\ pc = "stream" /\ ~Listening
    /\ pc' = "close"
    /\ UNCHANGED <<operation, state, callback, answer, received, message, result,
                   isResponse, calls, shouldClose, terminated>>

StreamEvent ==
    /\ Dispatch /\ result.route = "Stream"
    /\ calls' = {<<"OnStreamEvent", result.shape>>}
    /\ pc' = "close"
    /\ UNCHANGED <<operation, state, callback, answer, received, message, result,
                   isResponse, shouldClose, terminated>>

(* The generated OnStreamError: the callback for a status, then the one    *)
(* typed for the error, then the one for any error, until one says that    *)
(* the stream should end.  An error shape comes with a success status.     *)
StreamErrorStatusLost == "SUCCESS"  \* mutant: the status is not passed on
StreamErrorStatus == IF result.route = "none" THEN result.status ELSE "SUCCESS"

StreamError(ends) ==
    LET rpc == StreamErrorStatus # "SUCCESS"
        typed == ~(rpc /\ ends["rpc"]) /\ result.shape \in operation.errors
        generic == /\ ~(rpc /\ ends["rpc"]) /\ ~(typed /\ ends["typed"])
                   /\ result.shape # "none"
        called == {c \in {"rpc", "typed", "generic"} :
                     CASE c = "rpc" -> rpc [] c = "typed" -> typed [] OTHER -> generic}
    IN
    /\ Dispatch /\ result.route \in {"Error", "none"}
    /\ calls' = {<<c, result.shape>> : c \in called}
    /\ shouldClose' = \E c \in called : ends[c]
    /\ pc' = "close"
    /\ UNCHANGED <<operation, state, callback, answer, received, message, result,
                   isResponse, terminated>>

-----------------------------------------------------------------------------
(* Close sends TERMINATE_STREAM from two states.  It does not fail here:   *)
(* a send that the C library refuses, with its rollback, is part of        *)
(* EventStreamContinuation.                                                *)
CloseNever == UNCHANGED state  \* mutant: OnMessage does not close
Close == state' = IF state \in {"PendingActivate", "Activated"} THEN "PendingClose" ELSE state

EndMessage ==
    /\ pc = "close"
    /\ IF shouldClose THEN Close ELSE UNCHANGED state
    /\ shouldClose' = FALSE
    /\ pc' = "idle"
    /\ UNCHANGED <<operation, callback, answer, received, message, result, isResponse,
                   calls, terminated>>

ApplicationCloses ==
    /\ state \in {"PendingActivate", "Activated"}
    /\ state' = "PendingClose"
    /\ UNCHANGED <<operation, callback, answer, received, message, result, isResponse,
                   pc, calls, shouldClose, terminated>>

(* OnClosed, at any time between two messages: a waiting activation is     *)
(* answered with a closed continuation.                                    *)
OnClosed ==
    /\ pc = "idle" /\ state # "Closed"
    /\ state' = "Closed" /\ callback' = FALSE
    /\ answer' = IF callback THEN [kind |-> "RpcError", shape |-> "none",
                                   status |-> "CONTINUATION_CLOSED"]
                 ELSE answer
    /\ UNCHANGED <<operation, received, message, result, isResponse, pc, calls,
                   shouldClose, terminated>>

LoopStep ==
    \/ InvokeResult \/ SkipHandler \/ StreamEvent \/ EndMessage
    \/ \E ends \in [{"rpc", "typed", "generic"} -> BOOLEAN] : StreamError(ends)

Next ==
    \/ \E m \in Messages(operation) : OnMessage(m)
    \/ LoopStep \/ ApplicationCloses \/ OnClosed

Spec == Init /\ [][Next]_vars
(* The loop finishes the message it works on; nobody has to send or close. *)
FairSpec == Spec /\ WF_vars(LoopStep)

-----------------------------------------------------------------------------
(* What GetOperationResponse and GetOperationError cast without a check:   *)
(* a response is of the operation's response model and the peer declared   *)
(* it so, an error is a registered one, and anything else comes with a     *)
(* status that says what failed (OnMessage, OnClosed, the result variant). *)
AnswerFits ==
    \/ answer.kind = "none"
    \/ answer.kind = "Response" /\ answer.shape = operation.response /\ answer.status = "SUCCESS"
    \/ answer.kind = "Error" /\ answer.shape \in KnownErrors
    \/ answer.kind = "RpcError" /\ answer.status # "SUCCESS"

(* What the stream handler casts without a check: an event is a shape of   *)
(* the operation's event model, never null and never parsed from a payload *)
(* declared to be another, though a shape that could not be made still has *)
(* a route; a typed error callback gets an error of its type; and the      *)
(* fatal assertion of OnMessage's switch never meets a response.           *)
HandlerFits ==
    /\ Dispatch => result.route # "Response"
    /\ pc # "idle" /\ result.shape # NoName => result.shape = ModelName(message)
    /\ \A c \in calls :
        /\ c[1] = "OnStreamEvent" => c[2] = operation.events
        /\ c[1] = "typed" => c[2] \in operation.errors
        /\ c[1] = "generic" => c[2] \in KnownErrors

(* With a handler, every message leads to a callback: an event, the status *)
(* of what was wrong with it or an error's callbacks, of which the one for *)
(* any error is left out only when an earlier one asks for the stream to   *)
(* end.  The exception is an error model nobody registered: it comes with  *)
(* a success status and makes no callback (OnMessage, OnStreamError).      *)
MessageReported ==
    pc = "close" /\ Listening =>
        /\ calls = {} <=> result.route = "Error" /\ result.shape = NoName
        /\ result.route = "Error" /\ result.shape # NoName /\ ~shouldClose =>
                <<"generic", result.shape>> \in calls

(* A stream whose activation was answered with an error is closed.         *)
FailedActivationCloses ==
    answer.kind \in {"Error", "RpcError"} ~> state \in {"PendingClose", "Closed"}
=============================================================================
