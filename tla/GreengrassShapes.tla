----------------------------- MODULE GreengrassShapes -----------------------------
(* The shapes of GreengrassCoreIpcModel: the members each one serialises    *)
(* and loads, with their kinds; the enumerations are sets of wire strings.  *)
(* The conversions the generated code makes of them are in Shapes.         *)
EXTENDS Shapes

(* Enumerations                                                            *)

DetailedDeploymentStatus == {"SUCCESSFUL", "FAILED_NO_STATE_CHANGE",
                             "FAILED_ROLLBACK_NOT_REQUESTED", "FAILED_ROLLBACK_COMPLETE",
                             "REJECTED"}
PayloadFormat == {"0", "1"}
MetricUnitType == {"BYTES", "BYTES_PER_SECOND", "COUNT", "COUNT_PER_SECOND", "MEGABYTES",
                   "SECONDS"}
DeploymentStatus == {"QUEUED", "IN_PROGRESS", "SUCCEEDED", "FAILED", "CANCELED"}
LifecycleState == {"RUNNING", "ERRORED", "NEW", "FINISHED", "INSTALLED", "BROKEN", "STARTING",
                   "STOPPING"}
CertificateType == {"SERVER"}
ConfigurationValidityStatus == {"ACCEPTED", "REJECTED"}
ReportedLifecycleState == {"RUNNING", "ERRORED"}
ReceiveMode == {"RECEIVE_ALL_MESSAGES", "RECEIVE_MESSAGES_FROM_OTHERS"}
QOS == {"0", "1"}
RequestStatus == {"SUCCEEDED", "FAILED"}
FailureHandlingPolicy == {"ROLLBACK", "DO_NOTHING"}

(* Structures and unions                                                   *)
UserProperty == Structure("UserProperty", [key |-> Str, value |-> Str])
MessageContext == Structure("MessageContext", [topic |-> Str])
DeploymentStatusDetails == Structure("DeploymentStatusDetails",
    [detailedDeploymentStatus |-> Enum(DetailedDeploymentStatus),
     deploymentErrorStack |-> ListOf(Str), deploymentErrorTypes |-> ListOf(Str),
     deploymentFailureCause |-> Str])
SystemResourceLimits == Structure("SystemResourceLimits", [memory |-> Int64, cpus |-> Double])
ValidateConfigurationUpdateEvent == Structure("ValidateConfigurationUpdateEvent",
    [configuration |-> Document, deploymentId |-> Str])
BinaryMessage == Structure("BinaryMessage",
    [message |-> Blob, context |-> Nested("MessageContext")])
JsonMessage == Structure("JsonMessage",
    [message |-> Document, context |-> Nested("MessageContext")])
MQTTMessage == Structure("MQTTMessage",
    [topicName |-> Str, payload |-> Blob, retain |-> Bool,
     userProperties |-> ListOf(Nested("UserProperty")), messageExpiryIntervalSeconds |-> Int64,
     correlationData |-> Blob, responseTopic |-> Str, payloadFormat |-> Enum(PayloadFormat),
     contentType |-> Str])
ConfigurationUpdateEvent == Structure("ConfigurationUpdateEvent",
    [componentName |-> Str, keyPath |-> ListOf(Str)])
PostComponentUpdateEvent == Structure("PostComponentUpdateEvent", [deploymentId |-> Str])
PreComponentUpdateEvent == Structure("PreComponentUpdateEvent",
    [deploymentId |-> Str, isGgcRestarting |-> Bool])
CertificateUpdate == Structure("CertificateUpdate",
    [privateKey |-> Str, publicKey |-> Str, certificate |-> Str,
     caCertificates |-> ListOf(Str)])
Metric == Structure("Metric", [name |-> Str, unit |-> Enum(MetricUnitType), value |-> Double])
LocalDeployment == Structure("LocalDeployment",
    [deploymentId |-> Str, status |-> Enum(DeploymentStatus), createdOn |-> Str,
     deploymentStatusDetails |-> Nested("DeploymentStatusDetails")])
ComponentDetails == Structure("ComponentDetails",
    [componentName |-> Str, version |-> Str, state |-> Enum(LifecycleState),
     configuration |-> Document])
MQTTCredential == Structure("MQTTCredential",
    [clientId |-> Str, certificatePem |-> Str, username |-> Str, password |-> Str])
RunWithInfo == Structure("RunWithInfo",
    [posixUser |-> Str, windowsUser |-> Str,
     systemResourceLimits |-> Nested("SystemResourceLimits")])
ClientDeviceCredential == Union("ClientDeviceCredential", <<"clientDeviceCertificate">>,
    [clientDeviceCertificate |-> Str])
ValidateConfigurationUpdateEvents == Union("ValidateConfigurationUpdateEvents", <<"validateConfigurationUpdateEvent">>,
    [validateConfigurationUpdateEvent |-> Nested("ValidateConfigurationUpdateEvent")])
SubscriptionResponseMessage == Union("SubscriptionResponseMessage", <<"jsonMessage", "binaryMessage">>,
    [jsonMessage |-> Nested("JsonMessage"), binaryMessage |-> Nested("BinaryMessage")])
IoTCoreMessage == Union("IoTCoreMessage", <<"message">>,
    [message |-> Nested("MQTTMessage")])
ConfigurationUpdateEvents == Union("ConfigurationUpdateEvents", <<"configurationUpdateEvent">>,
    [configurationUpdateEvent |-> Nested("ConfigurationUpdateEvent")])
ComponentUpdatePolicyEvents == Union("ComponentUpdatePolicyEvents", <<"preUpdateEvent", "postUpdateEvent">>,
    [preUpdateEvent |-> Nested("PreComponentUpdateEvent"),
     postUpdateEvent |-> Nested("PostComponentUpdateEvent")])
CertificateUpdateEvent == Union("CertificateUpdateEvent", <<"certificateUpdate">>,
    [certificateUpdate |-> Nested("CertificateUpdate")])
CertificateOptions == Structure("CertificateOptions",
    [certificateType |-> Enum(CertificateType)])
ConfigurationValidityReport == Structure("ConfigurationValidityReport",
    [status |-> Enum(ConfigurationValidityStatus), deploymentId |-> Str, message |-> Str])
PublishMessage == Union("PublishMessage", <<"jsonMessage", "binaryMessage">>,
    [jsonMessage |-> Nested("JsonMessage"), binaryMessage |-> Nested("BinaryMessage")])
SecretValue == Union("SecretValue", <<"secretString", "secretBinary">>,
    [secretString |-> Str, secretBinary |-> Blob])
CredentialDocument == Union("CredentialDocument", <<"mqttCredential">>,
    [mqttCredential |-> Nested("MQTTCredential")])
InvalidArgumentsError == Structure("InvalidArgumentsError", [message |-> Str])
ServiceError == Structure("ServiceError", [message |-> Str, context |-> Document])
UnauthorizedError == Structure("UnauthorizedError", [message |-> Str])
VerifyClientDeviceIdentityResponse == Structure("VerifyClientDeviceIdentityResponse",
    [isValidClientDevice |-> Bool])
VerifyClientDeviceIdentityRequest == Structure("VerifyClientDeviceIdentityRequest",
    [credential |-> Nested("ClientDeviceCredential")])
InvalidTokenError == Structure("InvalidTokenError", [message |-> Str])
ValidateAuthorizationTokenResponse == Structure("ValidateAuthorizationTokenResponse",
    [isValid |-> Bool])
ValidateAuthorizationTokenRequest == Structure("ValidateAuthorizationTokenRequest",
    [token |-> Str])
ConflictError == Structure("ConflictError", [message |-> Str])
UpdateThingShadowResponse == Structure("UpdateThingShadowResponse", [payload |-> Blob])
UpdateThingShadowRequest == Structure("UpdateThingShadowRequest",
    [thingName |-> Str, shadowName |-> Str, payload |-> Blob])
ResourceNotFoundError == Structure("ResourceNotFoundError",
    [message |-> Str, resourceType |-> Str, resourceName |-> Str])
UpdateStateResponse == Structure("UpdateStateResponse", NoMembers)
UpdateStateRequest == Structure("UpdateStateRequest", [state |-> Enum(ReportedLifecycleState)])
FailedUpdateConditionCheckError == Structure("FailedUpdateConditionCheckError",
    [message |-> Str])
UpdateConfigurationResponse == Structure("UpdateConfigurationResponse", NoMembers)
UpdateConfigurationRequest == Structure("UpdateConfigurationRequest",
    [keyPath |-> ListOf(Str), timestamp |-> Timestamp, valueToMerge |-> Document])
SubscribeToValidateConfigurationUpdatesResponse == Structure("SubscribeToValidateConfigurationUpdatesResponse", NoMembers)
SubscribeToValidateConfigurationUpdatesRequest == Structure("SubscribeToValidateConfigurationUpdatesRequest", NoMembers)
SubscribeToTopicResponse == Structure("SubscribeToTopicResponse", [topicName |-> Str])
SubscribeToTopicRequest == Structure("SubscribeToTopicRequest",
    [topic |-> Str, receiveMode |-> Enum(ReceiveMode)])
SubscribeToIoTCoreResponse == Structure("SubscribeToIoTCoreResponse", NoMembers)
SubscribeToIoTCoreRequest == Structure("SubscribeToIoTCoreRequest",
    [topicName |-> Str, qos |-> Enum(QOS)])
SubscribeToConfigurationUpdateResponse == Structure("SubscribeToConfigurationUpdateResponse", NoMembers)
SubscribeToConfigurationUpdateRequest == Structure("SubscribeToConfigurationUpdateRequest",
    [componentName |-> Str, keyPath |-> ListOf(Str)])
SubscribeToComponentUpdatesResponse == Structure("SubscribeToComponentUpdatesResponse", NoMembers)
SubscribeToComponentUpdatesRequest == Structure("SubscribeToComponentUpdatesRequest", NoMembers)
SubscribeToCertificateUpdatesResponse == Structure("SubscribeToCertificateUpdatesResponse", NoMembers)
SubscribeToCertificateUpdatesRequest == Structure("SubscribeToCertificateUpdatesRequest",
    [certificateOptions |-> Nested("CertificateOptions")])
ComponentNotFoundError == Structure("ComponentNotFoundError", [message |-> Str])
StopComponentResponse == Structure("StopComponentResponse",
    [stopStatus |-> Enum(RequestStatus), message |-> Str])
StopComponentRequest == Structure("StopComponentRequest", [componentName |-> Str])
SendConfigurationValidityReportResponse == Structure("SendConfigurationValidityReportResponse", NoMembers)
SendConfigurationValidityReportRequest == Structure("SendConfigurationValidityReportRequest",
    [configurationValidityReport |-> Nested("ConfigurationValidityReport")])
ResumeComponentResponse == Structure("ResumeComponentResponse", NoMembers)
ResumeComponentRequest == Structure("ResumeComponentRequest", [componentName |-> Str])
RestartComponentResponse == Structure("RestartComponentResponse",
    [restartStatus |-> Enum(RequestStatus), message |-> Str])
RestartComponentRequest == Structure("RestartComponentRequest", [componentName |-> Str])
PutComponentMetricResponse == Structure("PutComponentMetricResponse", NoMembers)
PutComponentMetricRequest == Structure("PutComponentMetricRequest",
    [metrics |-> ListOf(Nested("Metric"))])
PublishToTopicResponse == Structure("PublishToTopicResponse", NoMembers)
PublishToTopicRequest == Structure("PublishToTopicRequest",
    [topic |-> Str, publishMessage |-> Nested("PublishMessage")])
PublishToIoTCoreResponse == Structure("PublishToIoTCoreResponse", NoMembers)
PublishToIoTCoreRequest == Structure("PublishToIoTCoreRequest",
    [topicName |-> Str, qos |-> Enum(QOS), payload |-> Blob, retain |-> Bool,
     userProperties |-> ListOf(Nested("UserProperty")), messageExpiryIntervalSeconds |-> Int64,
     correlationData |-> Blob, responseTopic |-> Str, payloadFormat |-> Enum(PayloadFormat),
     contentType |-> Str])
PauseComponentResponse == Structure("PauseComponentResponse", NoMembers)
PauseComponentRequest == Structure("PauseComponentRequest", [componentName |-> Str])
ListNamedShadowsForThingResponse == Structure("ListNamedShadowsForThingResponse",
    [results |-> ListOf(Str), timestamp |-> Timestamp, nextToken |-> Str])
ListNamedShadowsForThingRequest == Structure("ListNamedShadowsForThingRequest",
    [thingName |-> Str, nextToken |-> Str, pageSize |-> Int32])
ListLocalDeploymentsResponse == Structure("ListLocalDeploymentsResponse",
    [localDeployments |-> ListOf(Nested("LocalDeployment"))])
ListLocalDeploymentsRequest == Structure("ListLocalDeploymentsRequest", NoMembers)
ListComponentsResponse == Structure("ListComponentsResponse",
    [components |-> ListOf(Nested("ComponentDetails"))])
ListComponentsRequest == Structure("ListComponentsRequest", NoMembers)
GetThingShadowResponse == Structure("GetThingShadowResponse", [payload |-> Blob])
GetThingShadowRequest == Structure("GetThingShadowRequest",
    [thingName |-> Str, shadowName |-> Str])
GetSecretValueResponse == Structure("GetSecretValueResponse",
    [secretId |-> Str, versionId |-> Str, versionStage |-> ListOf(Str),
     secretValue |-> Nested("SecretValue")])
GetSecretValueRequest == Structure("GetSecretValueRequest",
    [secretId |-> Str, versionId |-> Str, versionStage |-> Str, refresh |-> Bool])
GetLocalDeploymentStatusResponse == Structure("GetLocalDeploymentStatusResponse",
    [deployment |-> Nested("LocalDeployment")])
GetLocalDeploymentStatusRequest == Structure("GetLocalDeploymentStatusRequest",
    [deploymentId |-> Str])
GetConfigurationResponse == Structure("GetConfigurationResponse",
    [componentName |-> Str, value |-> Document])
GetConfigurationRequest == Structure("GetConfigurationRequest",
    [componentName |-> Str, keyPath |-> ListOf(Str)])
GetComponentDetailsResponse == Structure("GetComponentDetailsResponse",
    [componentDetails |-> Nested("ComponentDetails")])
GetComponentDetailsRequest == Structure("GetComponentDetailsRequest", [componentName |-> Str])
InvalidCredentialError == Structure("InvalidCredentialError", [message |-> Str])
GetClientDeviceAuthTokenResponse == Structure("GetClientDeviceAuthTokenResponse",
    [clientDeviceAuthToken |-> Str])
GetClientDeviceAuthTokenRequest == Structure("GetClientDeviceAuthTokenRequest",
    [credential |-> Nested("CredentialDocument")])
DeleteThingShadowResponse == Structure("DeleteThingShadowResponse", [payload |-> Blob])
DeleteThingShadowRequest == Structure("DeleteThingShadowRequest",
    [thingName |-> Str, shadowName |-> Str])
DeferComponentUpdateResponse == Structure("DeferComponentUpdateResponse", NoMembers)
DeferComponentUpdateRequest == Structure("DeferComponentUpdateRequest",
    [deploymentId |-> Str, message |-> Str, recheckAfterMs |-> Int64])
InvalidArtifactsDirectoryPathError == Structure("InvalidArtifactsDirectoryPathError",
    [message |-> Str])
InvalidRecipeDirectoryPathError == Structure("InvalidRecipeDirectoryPathError",
    [message |-> Str])
CreateLocalDeploymentResponse == Structure("CreateLocalDeploymentResponse",
    [deploymentId |-> Str])
CreateLocalDeploymentRequest == Structure("CreateLocalDeploymentRequest",
    [groupName |-> Str, rootComponentVersionsToAdd |-> MapOf(Str),
     rootComponentsToRemove |-> ListOf(Str), componentToConfiguration |-> MapOf(Document),
     componentToRunWithInfo |-> MapOf(Nested("RunWithInfo")), recipeDirectoryPath |-> Str,
     artifactsDirectoryPath |-> Str, failureHandlingPolicy |-> Enum(FailureHandlingPolicy)])
CreateDebugPasswordResponse == Structure("CreateDebugPasswordResponse",
    [password |-> Str, username |-> Str, passwordExpiration |-> Timestamp,
     certificateSHA256Hash |-> Str, certificateSHA1Hash |-> Str])
CreateDebugPasswordRequest == Structure("CreateDebugPasswordRequest", NoMembers)
CancelLocalDeploymentResponse == Structure("CancelLocalDeploymentResponse", [message |-> Str])
CancelLocalDeploymentRequest == Structure("CancelLocalDeploymentRequest",
    [deploymentId |-> Str])
InvalidClientDeviceAuthTokenError == Structure("InvalidClientDeviceAuthTokenError",
    [message |-> Str])
AuthorizeClientDeviceActionResponse == Structure("AuthorizeClientDeviceActionResponse",
    [isAuthorized |-> Bool])
AuthorizeClientDeviceActionRequest == Structure("AuthorizeClientDeviceActionRequest",
    [clientDeviceAuthToken |-> Str, operation |-> Str, resource |-> Str])

(* Every shape of the model                                                *)
GreengrassShapes == {UserProperty, MessageContext, DeploymentStatusDetails,
    SystemResourceLimits, ValidateConfigurationUpdateEvent, BinaryMessage, JsonMessage,
    MQTTMessage, ConfigurationUpdateEvent, PostComponentUpdateEvent, PreComponentUpdateEvent,
    CertificateUpdate, Metric, LocalDeployment, ComponentDetails, MQTTCredential, RunWithInfo,
    ClientDeviceCredential, ValidateConfigurationUpdateEvents, SubscriptionResponseMessage,
    IoTCoreMessage, ConfigurationUpdateEvents, ComponentUpdatePolicyEvents,
    CertificateUpdateEvent, CertificateOptions, ConfigurationValidityReport, PublishMessage,
    SecretValue, CredentialDocument, InvalidArgumentsError, ServiceError, UnauthorizedError,
    VerifyClientDeviceIdentityResponse, VerifyClientDeviceIdentityRequest, InvalidTokenError,
    ValidateAuthorizationTokenResponse, ValidateAuthorizationTokenRequest, ConflictError,
    UpdateThingShadowResponse, UpdateThingShadowRequest, ResourceNotFoundError,
    UpdateStateResponse, UpdateStateRequest, FailedUpdateConditionCheckError,
    UpdateConfigurationResponse, UpdateConfigurationRequest,
    SubscribeToValidateConfigurationUpdatesResponse,
    SubscribeToValidateConfigurationUpdatesRequest, SubscribeToTopicResponse,
    SubscribeToTopicRequest, SubscribeToIoTCoreResponse, SubscribeToIoTCoreRequest,
    SubscribeToConfigurationUpdateResponse, SubscribeToConfigurationUpdateRequest,
    SubscribeToComponentUpdatesResponse, SubscribeToComponentUpdatesRequest,
    SubscribeToCertificateUpdatesResponse, SubscribeToCertificateUpdatesRequest,
    ComponentNotFoundError, StopComponentResponse, StopComponentRequest,
    SendConfigurationValidityReportResponse, SendConfigurationValidityReportRequest,
    ResumeComponentResponse, ResumeComponentRequest, RestartComponentResponse,
    RestartComponentRequest, PutComponentMetricResponse, PutComponentMetricRequest,
    PublishToTopicResponse, PublishToTopicRequest, PublishToIoTCoreResponse,
    PublishToIoTCoreRequest, PauseComponentResponse, PauseComponentRequest,
    ListNamedShadowsForThingResponse, ListNamedShadowsForThingRequest,
    ListLocalDeploymentsResponse, ListLocalDeploymentsRequest, ListComponentsResponse,
    ListComponentsRequest, GetThingShadowResponse, GetThingShadowRequest,
    GetSecretValueResponse, GetSecretValueRequest, GetLocalDeploymentStatusResponse,
    GetLocalDeploymentStatusRequest, GetConfigurationResponse, GetConfigurationRequest,
    GetComponentDetailsResponse, GetComponentDetailsRequest, InvalidCredentialError,
    GetClientDeviceAuthTokenResponse, GetClientDeviceAuthTokenRequest,
    DeleteThingShadowResponse, DeleteThingShadowRequest, DeferComponentUpdateResponse,
    DeferComponentUpdateRequest, InvalidArtifactsDirectoryPathError,
    InvalidRecipeDirectoryPathError, CreateLocalDeploymentResponse,
    CreateLocalDeploymentRequest, CreateDebugPasswordResponse, CreateDebugPasswordRequest,
    CancelLocalDeploymentResponse, CancelLocalDeploymentRequest,
    InvalidClientDeviceAuthTokenError, AuthorizeClientDeviceActionResponse,
    AuthorizeClientDeviceActionRequest}
====================================================================================
