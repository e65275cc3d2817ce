CONSTANTS
    Requests <- MCRequests
    Pipelines <- CallerPipelines
    CustomSteps <- MCCustomSteps
    ConfigSubID = "cfg"
    RouteChoices <- ProxyRoutes
    PluginErrs <- WorkbenchOtherErrs
    WorkbenchCode = 422
    PublisherConfigured = TRUE
    MiddlewareInstalled = TRUE
SPECIFICATION Spec
INVARIANT
    EveryRequestAnswered
\* Each modelled request is served once; when all are served the system stops.
CHECK_DEADLOCK FALSE
