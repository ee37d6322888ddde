------------------------------ MODULE ServiceShapes ------------------------------
(* The shapes of the MQTT services (jobs, shadow, identity, commands, the  *)
(* tunnel notification): the members that LoadFromObject and               *)
(* SerializeToObject convert.  The members that only make up a topic       *)
(* (ThingName, JobId, ...) are not part of the payload.                    *)
EXTENDS Shapes

(* Enumerations with a marshaller                                          *)
JobStatus == {"QUEUED", "IN_PROGRESS", "TIMED_OUT", "FAILED", "SUCCEEDED", "CANCELED",
              "REJECTED", "REMOVED"}
JobsRejectedErrorCode == {"InvalidTopic", "InvalidJson", "InvalidRequest",
                          "InvalidStateTransition", "ResourceNotFound", "VersionMismatch",
                          "InternalError", "RequestThrottled", "TerminalStateReached"}
CommandExecutionStatus == {"IN_PROGRESS", "SUCCEEDED", "FAILED", "REJECTED", "TIMED_OUT"}
DeviceType == {"things", "clients"}
CommandsRejectedErrorCode == {"InvalidTopic", "InvalidJson", "InvalidRequest",
                              "InvalidStateTransition", "ResourceNotFound", "VersionMismatch",
                              "InternalError", "RequestThrottled", "TerminalStateReached"}

(* jobs                                                                    *)
DescribeJobExecutionRequest == Structure("DescribeJobExecutionRequest",
    [clientToken |-> Str, executionNumber |-> Int64, includeJobDocument |-> Bool])
DescribeJobExecutionResponse == Structure("DescribeJobExecutionResponse",
    [clientToken |-> Str, execution |-> Nested("JobExecutionData"), timestamp |-> Timestamp])
DescribeJobExecutionSubscriptionRequest == Structure("DescribeJobExecutionSubscriptionRequest", NoMembers)
GetPendingJobExecutionsRequest == Structure("GetPendingJobExecutionsRequest",
    [clientToken |-> Str])
GetPendingJobExecutionsResponse == Structure("GetPendingJobExecutionsResponse",
    [inProgressJobs |-> ListOf(Nested("JobExecutionSummary")),
     queuedJobs |-> ListOf(Nested("JobExecutionSummary")), timestamp |-> Timestamp,
     clientToken |-> Str])
GetPendingJobExecutionsSubscriptionRequest == Structure("GetPendingJobExecutionsSubscriptionRequest", NoMembers)
JobExecutionData == Structure("JobExecutionData",
    [jobId |-> Str, thingName |-> Str, jobDocument |-> Document,
     status |-> Marshalled(JobStatus), statusDetails |-> MapOf(Str), queuedAt |-> Timestamp,
     startedAt |-> Timestamp, lastUpdatedAt |-> Timestamp, versionNumber |-> Int32,
     executionNumber |-> Int64])
JobExecutionState == Structure("JobExecutionState",
    [status |-> Marshalled(JobStatus), statusDetails |-> MapOf(Str), versionNumber |-> Int32])
JobExecutionSummary == Structure("JobExecutionSummary",
    [jobId |-> Str, executionNumber |-> Int64, versionNumber |-> Int32,
     lastUpdatedAt |-> Timestamp, queuedAt |-> Timestamp, startedAt |-> Timestamp])
JobExecutionsChangedEvent == Structure("JobExecutionsChangedEvent",
    [jobs |-> MarshalledMapOf(JobStatus, ListOf(Nested("JobExecutionSummary"))), timestamp |-> Timestamp])
JobExecutionsChangedSubscriptionRequest == Structure("JobExecutionsChangedSubscriptionRequest", NoMembers)
NextJobExecutionChangedEvent == Structure("NextJobExecutionChangedEvent",
    [execution |-> Nested("JobExecutionData"), timestamp |-> Timestamp])
NextJobExecutionChangedSubscriptionRequest == Structure("NextJobExecutionChangedSubscriptionRequest", NoMembers)
RejectedError == Structure("RejectedError",
    [clientToken |-> Str, code |-> Marshalled(JobsRejectedErrorCode), message |-> Str,
     timestamp |-> Timestamp, executionState |-> Nested("JobExecutionState")])
StartNextJobExecutionResponse == Structure("StartNextJobExecutionResponse",
    [clientToken |-> Str, execution |-> Nested("JobExecutionData"), timestamp |-> Timestamp])
StartNextPendingJobExecutionRequest == Structure("StartNextPendingJobExecutionRequest",
    [clientToken |-> Str, stepTimeoutInMinutes |-> Int64, statusDetails |-> MapOf(Str)])
StartNextPendingJobExecutionSubscriptionRequest == Structure("StartNextPendingJobExecutionSubscriptionRequest", NoMembers)
UpdateJobExecutionRequest == Structure("UpdateJobExecutionRequest",
    [status |-> Marshalled(JobStatus), clientToken |-> Str, statusDetails |-> MapOf(Str),
     expectedVersion |-> Int32, executionNumber |-> Int64, includeJobExecutionState |-> Bool,
     includeJobDocument |-> Bool, stepTimeoutInMinutes |-> Int64])
UpdateJobExecutionResponse == Structure("UpdateJobExecutionResponse",
    [clientToken |-> Str, executionState |-> Nested("JobExecutionState"),
     jobDocument |-> Document, timestamp |-> Timestamp])
UpdateJobExecutionSubscriptionRequest == Structure("UpdateJobExecutionSubscriptionRequest", NoMembers)
JobsV2ErrorResponse == Structure("JobsV2ErrorResponse",
    [clientToken |-> Str, code |-> Marshalled(JobsRejectedErrorCode), message |-> Str,
     timestamp |-> Timestamp, executionState |-> Nested("JobExecutionState")])

(* shadow                                                                  *)
DeleteNamedShadowRequest == Structure("DeleteNamedShadowRequest", [clientToken |-> Str])
DeleteNamedShadowSubscriptionRequest == Structure("DeleteNamedShadowSubscriptionRequest", NoMembers)
DeleteShadowRequest == Structure("DeleteShadowRequest", [clientToken |-> Str])
DeleteShadowResponse == Structure("DeleteShadowResponse",
    [clientToken |-> Str, timestamp |-> Timestamp, version |-> Int32])
DeleteShadowSubscriptionRequest == Structure("DeleteShadowSubscriptionRequest", NoMembers)
ShadowErrorResponse == Structure("ShadowErrorResponse",
    [clientToken |-> Str, code |-> Int32, message |-> Str, timestamp |-> Timestamp])
GetNamedShadowRequest == Structure("GetNamedShadowRequest", [clientToken |-> Str])
GetNamedShadowSubscriptionRequest == Structure("GetNamedShadowSubscriptionRequest", NoMembers)
GetShadowRequest == Structure("GetShadowRequest", [clientToken |-> Str])
GetShadowResponse == Structure("GetShadowResponse",
    [clientToken |-> Str, state |-> Nested("ShadowStateWithDelta"),
     metadata |-> Nested("ShadowMetadata"), timestamp |-> Timestamp, version |-> Int32])
GetShadowSubscriptionRequest == Structure("GetShadowSubscriptionRequest", NoMembers)
NamedShadowDeltaUpdatedSubscriptionRequest == Structure("NamedShadowDeltaUpdatedSubscriptionRequest", NoMembers)
NamedShadowUpdatedSubscriptionRequest == Structure("NamedShadowUpdatedSubscriptionRequest", NoMembers)
ShadowDeltaUpdatedEvent == Structure("ShadowDeltaUpdatedEvent",
    [state |-> Document, metadata |-> Document, timestamp |-> Timestamp, version |-> Int32,
     clientToken |-> Str])
ShadowDeltaUpdatedSubscriptionRequest == Structure("ShadowDeltaUpdatedSubscriptionRequest", NoMembers)
ShadowMetadata == Structure("ShadowMetadata", [desired |-> Document, reported |-> Document])
ShadowState == Structure("ShadowState", [desired |-> Document, reported |-> Document])
ShadowStateWithDelta == Structure("ShadowStateWithDelta",
    [desired |-> Document, reported |-> Document, delta |-> Document])
ShadowUpdatedEvent == Structure("ShadowUpdatedEvent",
    [previous |-> Nested("ShadowUpdatedSnapshot"), current |-> Nested("ShadowUpdatedSnapshot"),
     timestamp |-> Timestamp])
ShadowUpdatedSnapshot == Structure("ShadowUpdatedSnapshot",
    [state |-> Nested("ShadowState"), metadata |-> Nested("ShadowMetadata"), version |-> Int32])
ShadowUpdatedSubscriptionRequest == Structure("ShadowUpdatedSubscriptionRequest", NoMembers)
UpdateNamedShadowRequest == Structure("UpdateNamedShadowRequest",
    [clientToken |-> Str, state |-> Nested("ShadowState"), version |-> Int32])
UpdateNamedShadowSubscriptionRequest == Structure("UpdateNamedShadowSubscriptionRequest", NoMembers)
UpdateShadowRequest == Structure("UpdateShadowRequest",
    [clientToken |-> Str, state |-> Nested("ShadowState"), version |-> Int32])
UpdateShadowResponse == Structure("UpdateShadowResponse",
    [clientToken |-> Str, state |-> Nested("ShadowState"),
     metadata |-> Nested("ShadowMetadata"), timestamp |-> Timestamp, version |-> Int32])
UpdateShadowSubscriptionRequest == Structure("UpdateShadowSubscriptionRequest", NoMembers)
ShadowV2ErrorResponse == Structure("ShadowV2ErrorResponse",
    [clientToken |-> Str, code |-> Int32, message |-> Str, timestamp |-> Timestamp])

(* identity                                                                *)
CreateCertificateFromCsrRequest == Structure("CreateCertificateFromCsrRequest",
    [certificateSigningRequest |-> Str])
CreateCertificateFromCsrResponse == Structure("CreateCertificateFromCsrResponse",
    [certificateId |-> Str, certificatePem |-> Str, certificateOwnershipToken |-> Str])
CreateCertificateFromCsrSubscriptionRequest == Structure("CreateCertificateFromCsrSubscriptionRequest", NoMembers)
CreateKeysAndCertificateRequest == Structure("CreateKeysAndCertificateRequest", NoMembers)
CreateKeysAndCertificateResponse == Structure("CreateKeysAndCertificateResponse",
    [certificateId |-> Str, certificatePem |-> Str, privateKey |-> Str,
     certificateOwnershipToken |-> Str])
CreateKeysAndCertificateSubscriptionRequest == Structure("CreateKeysAndCertificateSubscriptionRequest", NoMembers)
IdentityErrorResponse == Structure("IdentityErrorResponse",
    [statusCode |-> Int32, errorCode |-> Str, errorMessage |-> Str])
RegisterThingRequest == Structure("RegisterThingRequest",
    [certificateOwnershipToken |-> Str, parameters |-> MapOf(Str)])
RegisterThingResponse == Structure("RegisterThingResponse",
    [deviceConfiguration |-> MapOf(Str), thingName |-> Str])
RegisterThingSubscriptionRequest == Structure("RegisterThingSubscriptionRequest", NoMembers)
IdentityV2ErrorResponse == Structure("IdentityV2ErrorResponse",
    [statusCode |-> Int32, errorCode |-> Str, errorMessage |-> Str])

(* commands                                                                *)
CommandExecutionEvent == Structure("CommandExecutionEvent", NoMembers)
CommandExecutionResult == Structure("CommandExecutionResult",
    [s |-> Str, b |-> Bool, bin |-> Bytes])
CommandExecutionsSubscriptionRequest == Structure("CommandExecutionsSubscriptionRequest", NoMembers)
StatusReason == Structure("StatusReason", [reasonCode |-> Str, reasonDescription |-> Str])
UpdateCommandExecutionRequest == Structure("UpdateCommandExecutionRequest",
    [status |-> Marshalled(CommandExecutionStatus), statusReason |-> Nested("StatusReason"),
     result |-> MapOf(Nested("CommandExecutionResult"))])
UpdateCommandExecutionResponse == Structure("UpdateCommandExecutionResponse",
    [executionId |-> Str])
CommandsV2ErrorResponse == Structure("CommandsV2ErrorResponse",
    [error |-> Marshalled(CommandsRejectedErrorCode), errorMessage |-> Str,
     executionId |-> Str])

(* secure tunneling                                                        *)
SecureTunnelingNotifyResponse == Structure("SecureTunnelingNotifyResponse",
    [region |-> Str, clientMode |-> Str, services |-> ListOf(Str), clientAccessToken |-> Str])
SubscribeToTunnelsNotifyRequest == Structure("SubscribeToTunnelsNotifyRequest", NoMembers)

(* Every shape of these services                                           *)
ServiceShapes == {DescribeJobExecutionRequest, DescribeJobExecutionResponse,
    DescribeJobExecutionSubscriptionRequest, GetPendingJobExecutionsRequest,
    GetPendingJobExecutionsResponse, GetPendingJobExecutionsSubscriptionRequest,
    JobExecutionData, JobExecutionState, JobExecutionSummary, JobExecutionsChangedEvent,
    JobExecutionsChangedSubscriptionRequest, NextJobExecutionChangedEvent,
    NextJobExecutionChangedSubscriptionRequest, RejectedError, StartNextJobExecutionResponse,
    StartNextPendingJobExecutionRequest, StartNextPendingJobExecutionSubscriptionRequest,
    UpdateJobExecutionRequest, UpdateJobExecutionResponse,
    UpdateJobExecutionSubscriptionRequest, JobsV2ErrorResponse, DeleteNamedShadowRequest,
    DeleteNamedShadowSubscriptionRequest, DeleteShadowRequest, DeleteShadowResponse,
    DeleteShadowSubscriptionRequest, ShadowErrorResponse, GetNamedShadowRequest,
    GetNamedShadowSubscriptionRequest, GetShadowRequest, GetShadowResponse,
    GetShadowSubscriptionRequest, NamedShadowDeltaUpdatedSubscriptionRequest,
    NamedShadowUpdatedSubscriptionRequest, ShadowDeltaUpdatedEvent,
    ShadowDeltaUpdatedSubscriptionRequest, ShadowMetadata, ShadowState, ShadowStateWithDelta,
    ShadowUpdatedEvent, ShadowUpdatedSnapshot, ShadowUpdatedSubscriptionRequest,
    UpdateNamedShadowRequest, UpdateNamedShadowSubscriptionRequest, UpdateShadowRequest,
    UpdateShadowResponse, UpdateShadowSubscriptionRequest, ShadowV2ErrorResponse,
    CreateCertificateFromCsrRequest, CreateCertificateFromCsrResponse,
    CreateCertificateFromCsrSubscriptionRequest, CreateKeysAndCertificateRequest,
    CreateKeysAndCertificateResponse, CreateKeysAndCertificateSubscriptionRequest,
    IdentityErrorResponse, RegisterThingRequest, RegisterThingResponse,
    RegisterThingSubscriptionRequest, IdentityV2ErrorResponse, CommandExecutionEvent,
    CommandExecutionResult, CommandExecutionsSubscriptionRequest, StatusReason,
    UpdateCommandExecutionRequest, UpdateCommandExecutionResponse, CommandsV2ErrorResponse,
    SecureTunnelingNotifyResponse, SubscribeToTunnelsNotifyRequest}
====================================================================================
