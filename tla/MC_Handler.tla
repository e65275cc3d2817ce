----------------------------- MODULE MC_Handler -----------------------------
(* Instances of the request handler for TLC: a caller-side module that     *)
(* proxies, a receiver-side module that ACKs and delivers after the        *)
(* response, and the configurations the violation runs use.                *)
EXTENDS Handler

MCRequests == {"r1"}

\* bapTxnCaller-like: the workbench may set the subscriber, a transformer
\* rewrites the body, the route is decided and the request signed last.
CallerPipelines ==
    { <<"ondcWorkbenchReceiver", "validateSchema", "transform", "addRoute", "sign">>,
      <<"validateSchema", "sign">> }

\* bapTxnReceiver-like: verify, validate, record, then route.
ReceiverPipelines ==
    { <<"validateSign", "validateOndcPayload", "validateOndcCallSave",
        "ondcWorkbenchValidateContext", "addRoute">> }

MCCustomSteps == {"transform"}

ProxyRoutes ==
    { [type |-> "url", proxy |-> TRUE], [type |-> "publisher", proxy |-> TRUE],
      [type |-> "msgq", proxy |-> TRUE] }

AsyncRoutes ==
    { [type |-> "url", proxy |-> FALSE], [type |-> "publisher", proxy |-> FALSE] }

AsyncMsgqRoutes == { [type |-> "msgq", proxy |-> FALSE] }

\* Every proxied target, and the asynchronous target no hook case handles.
CallerRoutes == ProxyRoutes \cup AsyncMsgqRoutes

\* The asynchronous targets the hook delivers to, and every proxied one.
ReceiverRoutes == AsyncRoutes \cup ProxyRoutes

AsyncUrlRoutes == { [type |-> "url", proxy |-> FALSE] }

\* The error kinds the plugins return in practice.
KnownErrs == {"BadReq", "NotFound", "SchemaValidation", "WorkbenchNACK",
              "WorkbenchHTTP", "Internal"}

\* ... and a WorkbenchErr whose behavior the encoder does not recognise.
WorkbenchOtherErrs == KnownErrs \cup {"WorkbenchOther"}
=============================================================================
