\* A receiver-side module (section 8, example 2) that ACKs and POSTs to a
\* url target from the post-response hook.
CONSTANTS
    Requests <- MCRequests
    Pipelines <- ReceiverPipelines
    CustomSteps <- MCCustomSteps
    ConfigSubID = "cfg"
    RouteChoices <- AsyncUrlRoutes
    PluginErrs <- KnownErrs
    WorkbenchCode = 422
    PublisherConfigured = TRUE
    MiddlewareInstalled = TRUE
SPECIFICATION Spec
INVARIANT
    AsyncDeliveryDetached
\* Each modelled request is served once; when all are served the system stops.
CHECK_DEADLOCK FALSE
