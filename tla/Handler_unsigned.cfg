CONSTANTS
    Requests <- MCRequests
    Pipelines <- ReceiverPipelines
    CustomSteps <- MCCustomSteps
    ConfigSubID = "cfg"
    RouteChoices <- AsyncRoutes
    PluginErrs <- KnownErrs
    WorkbenchCode = 422
    PublisherConfigured = TRUE
    MiddlewareInstalled = TRUE
SPECIFICATION Spec
INVARIANT
    UnsignedRejected
\* Each modelled request is served once; when all are served the system stops.
CHECK_DEADLOCK FALSE
