\* Receiver-side module: ACK at once and deliver from the post-response hook,
\* or proxy to a url or publisher target.
CONSTANTS
    Requests <- MCRequests
    Pipelines <- ReceiverPipelines
    CustomSteps <- MCCustomSteps
    ConfigSubID = "cfg"
    RouteChoices <- ReceiverRoutes
    PluginErrs <- KnownErrs
    WorkbenchCode = 422
    PublisherConfigured = TRUE
    MiddlewareInstalled = TRUE
SPECIFICATION Spec
INVARIANTS
    EveryRequestAnswered
PROPERTIES
    AsyncAckLeadsToDelivery
\* Each modelled request is served once; when all are served the system stops.
CHECK_DEADLOCK FALSE
