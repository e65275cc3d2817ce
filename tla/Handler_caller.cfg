\* Caller-side module: steps then reverse proxy, with no publisher configured
\* (a publisher route is answered NACK 500); a msgq route acts asynchronously.
CONSTANTS
    Requests <- MCRequests
    Pipelines <- CallerPipelines
    CustomSteps <- MCCustomSteps
    ConfigSubID = ""
    RouteChoices <- CallerRoutes
    PluginErrs <- KnownErrs
    WorkbenchCode = 422
    PublisherConfigured = FALSE
    MiddlewareInstalled = TRUE
SPECIFICATION Spec
INVARIANTS
    TypeOK
    EveryRequestAnswered
\* Each modelled request is served once; when all are served the system stops.
CHECK_DEADLOCK FALSE
