CONSTANTS
    Requests <- MCRequests
    Pipelines <- ReceiverPipelines
    CustomSteps <- MCCustomSteps
    ConfigSubID = "cfg"
    RouteChoices <- AsyncMsgqRoutes
    PluginErrs <- KnownErrs
    WorkbenchCode = 422
    PublisherConfigured = TRUE
    MiddlewareInstalled = TRUE
SPECIFICATION Spec
PROPERTY
    AsyncAckLeadsToDelivery
\* Each modelled request is served once; when all are served the system stops.
CHECK_DEADLOCK FALSE
