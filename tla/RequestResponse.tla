-------------------------- MODULE RequestResponse --------------------------
(***************************************************************************)
(* The MQTT request-response service clients (jobs, shadow, identity,      *)
(* commands): every operation builds its topics and its correlation token, *)
(* submits one request to the CRT's request-response client and turns the  *)
(* one completion of the CRT into one call of the application's handler.   *)
(* A stream turns the publishes of one topic filter into modeled events.   *)
(* The CRT client, the broker and the services are external: the broker    *)
(* delivers in any order what the subscribed filters match, the services   *)
(* answer late, twice or with a payload that does not parse, and other     *)
(* clients of the same thing use the same topics.                          *)
(***************************************************************************)
EXTENDS Naturals, Sequences, FiniteSets

CONSTANTS
    Requests,       \* the requests the application submits
    Operations,     \* the operations, with their topics, it can submit
    Streams,        \* the topic filters of the streams it creates
    Executions,     \* the command executions of the device
    MaxPublishes    \* bound: messages the services publish

ASSUME RequestsAssumption ==
    /\ IsFiniteSet(Requests) /\ MaxPublishes \in Nat
    /\ "other" \notin Requests /\ Requests \cap Executions = {}

VARIABLES
    operation,      \* the operation each request is for (fixed by Init)
    request,        \* "idle", "refused", "pending" or "completed"
    token,          \* the correlation token of a request: {} or {token}
    results,        \* the results the handler of a request was called with
    stream,         \* "none", "failed", "created" or "open"
    events,         \* the modeled events the handler of a stream was given
    wire,           \* messages published by the services, not delivered yet
    published       \* how many the services published

rrVars == <<operation, request, token, results, stream, events, wire, published>>

----------------------------------------------------------------------------
(* Topics, as sequences of segments, and the options of each operation.    *)

Things == <<"$aws", "things", "thing">>
Certificates == <<"$aws", "certificates">>
Device == <<"$aws", "commands", "things", "thing", "executions">>
Shadow(name) == Things \o <<"shadow", "name", name>>

\* What SubmitRequest is given: the publish topic, the topic filters to
\* subscribe to, the two response paths and whether they carry a token.
Options(topic, filters, token_) ==
    [publish  |-> topic,
     filters  |-> filters,
     accepted |-> topic \o <<"accepted">>,
     rejected |-> topic \o <<"rejected">>,
     token    |-> token_]

Wildcard(topic) == {topic \o <<"+">>}
Explicit(topic) == {topic \o <<"accepted">>, topic \o <<"rejected">>}

Correlated(topic) == Options(topic, Wildcard(topic), TRUE)
Updating(topic) == Options(topic, Explicit(topic), TRUE)
Uncorrelated(topic) == Options(topic, Explicit(topic), FALSE)

DescribeJobExecution(job) == Correlated(Things \o <<"jobs", job, "get">>)
GetPendingJobExecutions == Correlated(Things \o <<"jobs", "get">>)
StartNextPendingJobExecution == Correlated(Things \o <<"jobs", "start-next">>)
UpdateJobExecution(job) == Correlated(Things \o <<"jobs", job, "update">>)

DeleteNamedShadow(name) == Correlated(Shadow(name) \o <<"delete">>)
DeleteShadow == Correlated(Things \o <<"shadow", "delete">>)
GetNamedShadow(name) == Correlated(Shadow(name) \o <<"get">>)
GetShadow == Correlated(Things \o <<"shadow", "get">>)
UpdateNamedShadow(name) == Updating(Shadow(name) \o <<"update">>)
UpdateShadow == Updating(Things \o <<"shadow", "update">>)

CreateCertificateFromCsr == Uncorrelated(Certificates \o <<"create-from-csr", "json">>)
CreateKeysAndCertificate == Uncorrelated(Certificates \o <<"create", "json">>)
RegisterThing(template) ==
    Uncorrelated(<<"$aws", "provisioning-templates", template, "provision", "json">>)

\* The one operation whose response paths are not below its publish topic.
UpdateCommandExecution(execution) ==
    LET response == Device \o <<execution, "response">>
        accepted == response \o <<"accepted", "json">>
        rejected == response \o <<"rejected", "json">>
    IN  [publish  |-> response \o <<"json">>,
         filters  |-> {accepted, rejected},
         accepted |-> accepted,
         rejected |-> rejected,
         token    |-> FALSE]

JobExecutionsChanged == Things \o <<"jobs", "notify">>
NextJobExecutionChanged == Things \o <<"jobs", "notify-next">>
NamedShadowDeltaUpdated(name) == Shadow(name) \o <<"update", "delta">>
NamedShadowUpdated(name) == Shadow(name) \o <<"update", "documents">>
ShadowDeltaUpdated == Things \o <<"shadow", "update", "delta">>
ShadowUpdated == Things \o <<"shadow", "update", "documents">>
CommandExecutionsCborPayload == Device \o <<"+", "request", "cbor">>
CommandExecutionsGenericPayload == Device \o <<"+", "request">>
CommandExecutionsJsonPayload == Device \o <<"+", "request", "json">>

\* Where the services publish the answer to a request on a topic.
ServiceTopic(topic, reply) ==
    IF topic[2] = "commands"
    THEN SubSeq(topic, 1, Len(topic) - 1) \o <<reply, "json">>
    ELSE topic \o <<reply>>

Matches(filter, topic) ==
    /\ Len(filter) = Len(topic)
    /\ \A i \in 1 .. Len(filter) : filter[i] \in {"+", topic[i]}

(* What the topics of an operation and of a stream have to do with the     *)
(* services': an answer comes on a response path, which the subscribed     *)
(* filters cover; a path has a token for all of its operations or for      *)
(* none; a stream hears no answers.                                        *)
ResponsePaths(o) == {o.accepted, o.rejected}
Answered(o) ==
    /\ o.accepted = ServiceTopic(o.publish, "accepted")
    /\ o.rejected = ServiceTopic(o.publish, "rejected")
    /\ \A path \in ResponsePaths(o) : \E f \in o.filters : Matches(f, path)
Apart(o, p) == o.token # p.token => ResponsePaths(o) \cap ResponsePaths(p) = {}
EventFilter(s) == s \in Seq(STRING) /\ Len(s) >= 2 /\ (s[2] = "commands" => Len(s) >= 6)
Unanswering(s, o) == \A path \in ResponsePaths(o) : ~Matches(s, path)

ASSUME TopicsAssumption ==
    /\ \A o \in Operations : o.token \in BOOLEAN /\ Answered(o)
    /\ \A o, p \in Operations : Apart(o, p)
    /\ \A s \in Streams : EventFilter(s) /\ \A o \in Operations : Unanswering(s, o)

----------------------------------------------------------------------------
(* A message: its topic, the client token in its payload, whether the      *)
(* payload parses, and what it is about (the request it answers or the     *)
(* execution it announces), which only the properties look at.             *)
Message(topic, token_, parses, about) ==
    [topic |-> topic, token |-> token_, parses |-> parses, about |-> about]

Pending == {r \in Requests : request[r] = "pending"}
Paths(r) == ResponsePaths(operation[r])
Subscribed ==
    UNION {operation[r].filters : r \in Pending} \cup {s \in Streams : stream[s] = "open"}

----------------------------------------------------------------------------
(* The clients.                                                            *)

\* mutant: a token the application has set is kept.
ClientTokenKept(r, chosen) ==
    IF ~operation[r].token THEN {} ELSE IF chosen = {} THEN {r} ELSE chosen

\* The token put into the payload and into the options: a fresh UUID (here
\* the request itself) overwrites the token the application may have set.
ClientToken(r, chosen) == IF operation[r].token THEN {r} ELSE {}

\* mutant: nothing is reported for the second response path.
ResponseHandlerAccepted(r, m) ==
    IF ~m.parses THEN <<[kind |-> "unmodeled", from |-> m]>>
    ELSE IF m.topic = operation[r].accepted THEN <<[kind |-> "response", from |-> m]>>
    ELSE <<>>

\* The handler the client wraps around the application's: an unmodeled error
\* for a failed request, for a payload that does not parse and for a topic
\* that is neither response path.
ResponseHandler(r, m) ==
    LET result(kind) == <<[kind |-> kind, from |-> m]>>
    IN  IF ~m.parses THEN result("unmodeled")
        ELSE IF m.topic = operation[r].accepted THEN result("response")
        ELSE IF m.topic = operation[r].rejected THEN result("modeled error")
        ELSE result("unmodeled")

Submit(r) ==
    /\ request[r] = "idle"
    /\ \/ /\ request' = [request EXCEPT ![r] = "pending"]
          /\ \E chosen \in SUBSET {"chosen"} :
                token' = [token EXCEPT ![r] = ClientToken(r, chosen)]
       \/ /\ request' = [request EXCEPT ![r] = "refused"]
          /\ UNCHANGED token
    /\ UNCHANGED <<operation, results, stream, events, wire, published>>

CreateStream(s) ==
    /\ stream[s] = "none"
    /\ \E outcome \in {"created", "failed"} : stream' = [stream EXCEPT ![s] = outcome]
    /\ UNCHANGED <<operation, request, token, results, events, wire, published>>

OpenStream(s) ==
    /\ stream[s] = "created"
    /\ stream' = [stream EXCEPT ![s] = "open"]
    /\ UNCHANGED <<operation, request, token, results, events, wire, published>>

\* The modeled event of a message, if there is one: a command event is its
\* payload as it is with the execution id of topic segment 5 (from 0), any
\* other event must parse.
ModeledEvent(m) ==
    IF m.topic[2] = "commands"
    THEN {[from |-> m, execution |-> {m.topic[6]}]}
    ELSE IF m.parses THEN {[from |-> m, execution |-> {}]} ELSE {}

----------------------------------------------------------------------------
(* The services, the broker and the CRT's request-response client.         *)

Publish(m) ==
    /\ published < MaxPublishes
    /\ published' = published + 1
    /\ wire' = wire \cup {m}
    /\ UNCHANGED <<operation, request, token, results, stream, events>>

\* The answer of a service, while the request waits or after it gave up.
ServiceAnswers(r) ==
    /\ request[r] \in {"pending", "completed"}
    /\ \E reply \in {"accepted", "rejected"}, parses \in BOOLEAN :
          Publish(Message(ServiceTopic(operation[r].publish, reply),
                          IF parses THEN token[r] ELSE {}, parses, {r}))

\* A request of another client of the thing is answered on the same topics
\* (those of the certificate and template operations are per connection).
OtherClientAnswered ==
    \E r \in Pending, answer \in SUBSET {"other"} :
       /\ operation[r].token
       /\ \E topic \in Paths(r) : Publish(Message(topic, answer, TRUE, {}))

\* What a stream listens for; a shadow document carries the token of the
\* update that caused it.
EventPublished(s) ==
    \/ /\ s[2] = "commands"
       /\ \E e \in Executions :
             Publish(Message([s EXCEPT ![6] = e], {}, TRUE, {e}))
    \/ /\ s[2] # "commands"
       /\ \E parses \in BOOLEAN, cause \in {{}} \cup {token[r] : r \in Pending} :
             Publish(Message(s, IF parses THEN cause ELSE {}, parses, {}))

\* The pending requests a message can complete: its topic must be a response
\* path; where the path names a token, the payload must carry that token, and
\* where it names none only requests without one are considered.
Completes(m) ==
    LET carries == \E r \in Pending : m.topic \in Paths(r) /\ operation[r].token
    IN  {r \in Pending :
            /\ \E q \in Pending : m.topic \in Paths(q)
            /\ IF carries THEN m.token # {} /\ token[r] = m.token ELSE token[r] = {}}

Deliver(m) ==
    LET heard == \E f \in Subscribed : Matches(f, m.topic)
        completed == IF heard THEN Completes(m) ELSE {}
    IN  /\ wire' = wire \ {m}
        /\ events' = [s \in Streams |->
              IF stream[s] = "open" /\ Matches(s, m.topic)
              THEN events[s] \cup ModeledEvent(m) ELSE events[s]]
        /\ \/ /\ completed = {}
              /\ UNCHANGED <<request, results>>
           \/ \E r \in completed :
                 /\ request' = [request EXCEPT ![r] = "completed"]
                 /\ results' = [results EXCEPT ![r] = @ \o ResponseHandler(r, m)]
        /\ UNCHANGED <<operation, token, stream, published>>

\* The CRT gives a request up: a timeout, a failed subscribe or publish, or
\* the end of the client.
RequestFails(r) ==
    /\ request[r] = "pending"
    /\ request' = [request EXCEPT ![r] = "completed"]
    /\ results' = [results EXCEPT ![r] =
          Append(@, [kind |-> "unmodeled", from |-> Message(<<>>, {}, FALSE, {})])]
    /\ UNCHANGED <<operation, token, stream, events, wire, published>>

----------------------------------------------------------------------------
RRInit ==
    /\ operation \in [Requests -> Operations]
    /\ request = [r \in Requests |-> "idle"]
    /\ token = [r \in Requests |-> {}]
    /\ results = [r \in Requests |-> <<>>]
    /\ stream = [s \in Streams |-> "none"]
    /\ events = [s \in Streams |-> {}]
    /\ wire = {}
    /\ published = 0

RRNext ==
    \/ \E r \in Requests : Submit(r) \/ ServiceAnswers(r) \/ RequestFails(r)
    \/ \E s \in Streams : CreateStream(s) \/ OpenStream(s) \/ EventPublished(s)
    \/ OtherClientAnswered
    \/ \E m \in wire : Deliver(m)

----------------------------------------------------------------------------
(* A handler is called at most once for a request, never for a refused     *)
(* one, and a response or a modeled error it gets was published on that    *)
(* path of the request's own operation; when the operation correlates, it  *)
(* answers this very request, however many requests of the same operation  *)
(* are pending, late or foreign answers arrive (V2 operations: the UUID    *)
(* replaces the application's token, the topic is compared after parsing). *)
(* Without a token only the operation is certain.  A command event carries *)
(* the execution it was published for.                                     *)
ResultIsAnswer ==
    /\ \A r \in Requests :
          /\ Len(results[r]) = IF request[r] = "completed" THEN 1 ELSE 0
          /\ \A i \in DOMAIN results[r] :
                LET answer == results[r][i] IN
                answer.kind # "unmodeled" =>
                    /\ answer.from.parses
                    /\ answer.from.topic = IF answer.kind = "response"
                                           THEN ServiceTopic(operation[r].publish, "accepted")
                                           ELSE ServiceTopic(operation[r].publish, "rejected")
                    /\ operation[r].token => answer.from.about = {r}
    /\ \A s \in Streams : \A e \in events[s] :
          s[2] = "commands" => e.execution = e.from.about

(* No answer is overlooked: when a parsable answer to a pending request is *)
(* delivered, some pending request is completed by it, that very one if    *)
(* its operation correlates (the filters cover the paths, the paths are    *)
(* the service's, the token in the payload is the token waited for).       *)
AnswerHeard ==
    [][\A m \in wire \ wire' : \A r \in m.about \cap Pending :
          m.parses =>
             \E q \in Pending : /\ Len(results'[q]) > Len(results[q])
                                /\ operation[r].token => q = r]_rrVars
=============================================================================
