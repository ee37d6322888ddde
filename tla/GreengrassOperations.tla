-------------------------- MODULE GreengrassOperations --------------------------
(* The operations of GreengrassCoreIpcModel.  The context of each one names *)
(* its request, its response and its events and makes their shapes, its     *)
(* stream handler casts the events and has callbacks for some errors, its   *)
(* result casts the response.  GreengrassCoreIpcClient registers the errors *)
(* that can be made from a payload.                                         *)
EXTENDS GreengrassShapes

(* The models of an operation; one without events has no stream handler.    *)
Operation(request, response) ==
    [request |-> request.name, response |-> response.name, events |-> "none", errors |-> {}]
StreamingOperation(request, response, events, errors) ==
    [request |-> request.name, response |-> response.name, events |-> events.name,
     errors |-> {e.name : e \in errors}]

SubscribeToIoTCore == StreamingOperation(
    SubscribeToIoTCoreRequest, SubscribeToIoTCoreResponse,
    IoTCoreMessage, {ServiceError, UnauthorizedError})
ResumeComponent == Operation(ResumeComponentRequest, ResumeComponentResponse)
PublishToIoTCore == Operation(PublishToIoTCoreRequest, PublishToIoTCoreResponse)
SubscribeToConfigurationUpdate == StreamingOperation(
    SubscribeToConfigurationUpdateRequest, SubscribeToConfigurationUpdateResponse,
    ConfigurationUpdateEvents, {ServiceError, ResourceNotFoundError})
DeleteThingShadow == Operation(DeleteThingShadowRequest, DeleteThingShadowResponse)
PutComponentMetric == Operation(PutComponentMetricRequest, PutComponentMetricResponse)
DeferComponentUpdate == Operation(DeferComponentUpdateRequest, DeferComponentUpdateResponse)
SubscribeToValidateConfigurationUpdates == StreamingOperation(
    SubscribeToValidateConfigurationUpdatesRequest, SubscribeToValidateConfigurationUpdatesResponse,
    ValidateConfigurationUpdateEvents, {ServiceError})
GetConfiguration == Operation(GetConfigurationRequest, GetConfigurationResponse)
SubscribeToTopic == StreamingOperation(
    SubscribeToTopicRequest, SubscribeToTopicResponse,
    SubscriptionResponseMessage, {InvalidArgumentsError, ServiceError, UnauthorizedError})
GetComponentDetails == Operation(GetComponentDetailsRequest, GetComponentDetailsResponse)
GetClientDeviceAuthToken ==
    Operation(GetClientDeviceAuthTokenRequest, GetClientDeviceAuthTokenResponse)
PublishToTopic == Operation(PublishToTopicRequest, PublishToTopicResponse)
SubscribeToCertificateUpdates == StreamingOperation(
    SubscribeToCertificateUpdatesRequest, SubscribeToCertificateUpdatesResponse,
    CertificateUpdateEvent, {ServiceError, UnauthorizedError, InvalidArgumentsError})
VerifyClientDeviceIdentity ==
    Operation(VerifyClientDeviceIdentityRequest, VerifyClientDeviceIdentityResponse)
AuthorizeClientDeviceAction ==
    Operation(AuthorizeClientDeviceActionRequest, AuthorizeClientDeviceActionResponse)
ListComponents == Operation(ListComponentsRequest, ListComponentsResponse)
CreateDebugPassword == Operation(CreateDebugPasswordRequest, CreateDebugPasswordResponse)
GetThingShadow == Operation(GetThingShadowRequest, GetThingShadowResponse)
SendConfigurationValidityReport ==
    Operation(SendConfigurationValidityReportRequest, SendConfigurationValidityReportResponse)
UpdateThingShadow == Operation(UpdateThingShadowRequest, UpdateThingShadowResponse)
UpdateConfiguration == Operation(UpdateConfigurationRequest, UpdateConfigurationResponse)
ValidateAuthorizationToken ==
    Operation(ValidateAuthorizationTokenRequest, ValidateAuthorizationTokenResponse)
RestartComponent == Operation(RestartComponentRequest, RestartComponentResponse)
GetLocalDeploymentStatus ==
    Operation(GetLocalDeploymentStatusRequest, GetLocalDeploymentStatusResponse)
GetSecretValue == Operation(GetSecretValueRequest, GetSecretValueResponse)
UpdateState == Operation(UpdateStateRequest, UpdateStateResponse)
CancelLocalDeployment == Operation(CancelLocalDeploymentRequest, CancelLocalDeploymentResponse)
ListNamedShadowsForThing ==
    Operation(ListNamedShadowsForThingRequest, ListNamedShadowsForThingResponse)
SubscribeToComponentUpdates == StreamingOperation(
    SubscribeToComponentUpdatesRequest, SubscribeToComponentUpdatesResponse,
    ComponentUpdatePolicyEvents, {ServiceError, ResourceNotFoundError})
ListLocalDeployments == Operation(ListLocalDeploymentsRequest, ListLocalDeploymentsResponse)
StopComponent == Operation(StopComponentRequest, StopComponentResponse)
PauseComponent == Operation(PauseComponentRequest, PauseComponentResponse)
CreateLocalDeployment == Operation(CreateLocalDeploymentRequest, CreateLocalDeploymentResponse)

(* Every operation the service model has a context for.                     *)
GreengrassOperations == {SubscribeToIoTCore, ResumeComponent, PublishToIoTCore,
    SubscribeToConfigurationUpdate, DeleteThingShadow, PutComponentMetric,
    DeferComponentUpdate, SubscribeToValidateConfigurationUpdates, GetConfiguration,
    SubscribeToTopic, GetComponentDetails, GetClientDeviceAuthToken, PublishToTopic,
    SubscribeToCertificateUpdates, VerifyClientDeviceIdentity, AuthorizeClientDeviceAction,
    ListComponents, CreateDebugPassword, GetThingShadow, SendConfigurationValidityReport,
    UpdateThingShadow, UpdateConfiguration, ValidateAuthorizationToken, RestartComponent,
    GetLocalDeploymentStatus, GetSecretValue, UpdateState, CancelLocalDeployment,
    ListNamedShadowsForThing, SubscribeToComponentUpdates, ListLocalDeployments, StopComponent,
    PauseComponent, CreateLocalDeployment}

(* The errors with a factory, by their model names.                         *)
Registered == {InvalidArgumentsError, ServiceError, UnauthorizedError, InvalidTokenError,
    ConflictError, ResourceNotFoundError, FailedUpdateConditionCheckError,
    ComponentNotFoundError, InvalidCredentialError, InvalidArtifactsDirectoryPathError,
    InvalidRecipeDirectoryPathError, InvalidClientDeviceAuthTokenError}
RegisteredErrors == {e.name : e \in Registered}
=================================================================================
