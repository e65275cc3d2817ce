------------------------------- MODULE Handler -------------------------------
(***************************************************************************)
(* The request path of one module of the adapter: stdHandler.ServeHTTP     *)
(* (core/module/handler), the built-in steps of step.go, route() and its   *)
(* post-response closure, response.SendNack / SendAck / SendBody, and      *)
(* RegisterPostResponseHook.  The PostResponseMiddleware that runs the     *)
(* registered hooks is not in the source tree and is modelled from the     *)
(* spec (section 4.6).                                                     *)
(*                                                                         *)
(* Each request is served by its own goroutine; its StepContext is the     *)
(* per-request state below.  Plugins (KeyManager, Signer, validators,      *)
(* Router, Publisher, workbench) are environment: each call either         *)
(* succeeds or returns an error of one of the kinds in PluginErrs.  The    *)
(* body is abstracted to a version number that custom steps may bump; a    *)
(* signature is the body version it was computed over.                     *)
(***************************************************************************)
EXTENDS Integers, Sequences, FiniteSets

CONSTANTS
    Requests,            \* the HTTP requests this module serves
    Pipelines,           \* cfg.Steps values the module may be configured with
    CustomSteps,         \* ids of plugin-provided steps (cfg.Plugins.Steps)
    ConfigSubID,         \* cfg.SubscriberID; "" when not configured
    RouteChoices,        \* the model.Route values the Router plugin may return
    PluginErrs,          \* the error kinds a plugin call may return
    WorkbenchCode,       \* the HTTP code a WorkbenchErr with behavior HTTP carries
    PublisherConfigured, \* h.publisher # nil
    MiddlewareInstalled  \* PostResponseMiddleware wraps the module

\* The step names initSteps recognises (postResponse.go, switch in initSteps).
BuiltinSteps == {"sign", "validateSign", "validateSchema", "addRoute",
                 "validateOndcPayload", "validateOndcCallSave",
                 "ondcWorkbenchReceiver", "ondcWorkbenchValidateContext"}

\* Error kinds SendNack tells apart.  WorkbenchOther is a WorkbenchErr whose
\* Behavior is neither "NACK" nor "HTTP"; WorkbenchBadCode one with behavior
\* "HTTP" whose Err.Code is not a number.
ErrKinds == {"BadReq", "SignValidation", "NotFound", "SchemaValidation",
             "WorkbenchNACK", "WorkbenchHTTP", "WorkbenchBadCode",
             "WorkbenchOther", "Internal"}

TargetTypes == {"url", "publisher", "msgq"}

SubValues == {"", "cfg", "ctx", "wb"}

ASSUME PipelinesAssumption ==
    /\ Pipelines # {}
    /\ Pipelines \subseteq Seq(BuiltinSteps \cup CustomSteps)
ASSUME CustomStepsAssumption == CustomSteps \cap BuiltinSteps = {}
ASSUME SubIDAssumption == ConfigSubID \in {"", "cfg"}
ASSUME RouteAssumption == RouteChoices \subseteq [type : TargetTypes, proxy : BOOLEAN]
ASSUME PluginErrsAssumption == PluginErrs \subseteq ErrKinds
ASSUME WorkbenchCodeAssumption == WorkbenchCode \in 100..599
ASSUME FlagsAssumption ==
    /\ PublisherConfigured \in BOOLEAN
    /\ MiddlewareInstalled \in BOOLEAN

(***************************************************************************)
(* What the client sends: cookies, the subscriber Authorization header,    *)
(* the subscriber id in the ambient context, and whether reading the body  *)
(* fails.  A header_validation / protocol_validation cookie has an effect  *)
(* only when its value is "false" (skipSign / skipOndc).                   *)
(***************************************************************************)
Inputs == [skipSign : BOOLEAN, skipOndc : BOOLEAN,
           subCookie : {"absent", "", "wb"}, customBody : BOOLEAN,
           auth : {"none", "valid", "forged"}, ctxSub : BOOLEAN,
           bodyReadFails : BOOLEAN]

NoRoute == [type |-> "none", proxy |-> FALSE]
NoSig == -1
NoChallenge == "none"

\* Responses written on the ResponseWriter.
Ack == [status |-> 200, ack |-> "ACK"]
CustomBody == [status |-> 200, ack |-> "BODY"]
Proxied(code) == [status |-> code, ack |-> "PROXIED"]
Responses == [status : 100..599, ack : {"ACK", "NACK", "BODY", "PROXIED"}]

\* Outcome of the post-response delivery of an asynchronous route.
Deliveries == {"none", "sent", "upstreamErr", "cancelled", "dropped"}

\* A request leaving the adapter: reverse proxy, async POST, or publish.
Outbound == [req : Requests, via : {"proxy", "post", "publish"},
             body : Int, sig : Int, internal : BOOLEAN]

VARIABLES
    steps,       \* h.steps: the pipeline the module was built with
    in,          \* what each request carries
    pc,          \* "idle", "steps" (ServeHTTP running) or "done" (returned)
    idx,         \* index of the next step to run
    sub,         \* ctx.SubID
    body,        \* ctx.Body (version)
    route,       \* ctx.Route
    sigBody,     \* body version signed into the Authorization header by sign
    challenge,   \* realm of the challenge header validateSign set, if any
    passedSign,  \* validateSign returned nil
    internalHdr, \* X-Module-Name / X-Role present on r.Header
    resp,        \* responses written, in order
    hookPending, \* a post-response hook is registered and not yet run
    cancelled,   \* the request context is cancelled (client went away)
    delivery,    \* outcome of the asynchronous delivery
    out          \* every request sent out of the adapter

vars == <<steps, in, pc, idx, sub, body, route, sigBody, challenge,
          passedSign, internalHdr, resp, hookPending, cancelled, delivery, out>>

TypeOK ==
    /\ steps \in Pipelines
    /\ in \in [Requests -> Inputs]
    /\ pc \in [Requests -> {"idle", "steps", "done"}]
    /\ idx \in [Requests -> Nat \ {0}]
    /\ sub \in [Requests -> SubValues]
    /\ body \in [Requests -> Nat]
    /\ route \in [Requests -> RouteChoices \cup {NoRoute}]
    /\ sigBody \in [Requests -> Nat \cup {NoSig}]
    /\ challenge \in [Requests -> SubValues \cup {NoChallenge}]
    /\ passedSign \in [Requests -> BOOLEAN]
    /\ internalHdr \in [Requests -> BOOLEAN]
    /\ resp \in [Requests -> Seq(Responses)]
    /\ hookPending \in [Requests -> BOOLEAN]
    /\ cancelled \in [Requests -> BOOLEAN]
    /\ delivery \in [Requests -> Deliveries]
    /\ out \in SUBSET Outbound

Init ==
    /\ steps \in Pipelines
    /\ in \in [Requests -> Inputs]
    /\ pc = [r \in Requests |-> "idle"]
    /\ idx = [r \in Requests |-> 1]
    /\ sub = [r \in Requests |-> ""]
    /\ body = [r \in Requests |-> 0]
    /\ route = [r \in Requests |-> NoRoute]
    /\ sigBody = [r \in Requests |-> NoSig]
    /\ challenge = [r \in Requests |-> NoChallenge]
    /\ passedSign = [r \in Requests |-> FALSE]
    /\ internalHdr = [r \in Requests |-> FALSE]
    /\ resp = [r \in Requests |-> <<>>]
    /\ hookPending = [r \in Requests |-> FALSE]
    /\ cancelled = [r \in Requests |-> FALSE]
    /\ delivery = [r \in Requests |-> "none"]
    /\ out = {}
-----------------------------------------------------------------------------
(***************************************************************************)
(* response.SendNack: the HTTP status each error kind is answered with.    *)
(* A WorkbenchErr whose behavior is neither "NACK" nor "HTTP" matches the  *)
(* outer case but no inner one, so nothing is written; one with behavior   *)
(* "HTTP" and a non-numeric code reaches WriteHeader(0), which panics.     *)
(***************************************************************************)
NackStatus(e) ==
    CASE e = "WorkbenchNACK"    -> 200
      [] e = "WorkbenchHTTP"    -> WorkbenchCode
      [] e = "SchemaValidation" -> 200
      [] e = "SignValidation"   -> 401
      [] e = "BadReq"           -> 400
      [] e = "NotFound"         -> 404
      [] OTHER                  -> 500

\* Mutant: the encoder's switch without its default case.
SendNackNoDefault(e) ==
    IF e \in {"WorkbenchOther", "WorkbenchBadCode", "Internal"}
    THEN <<>>
    ELSE <<[status |-> NackStatus(e), ack |-> "NACK"]>>

SendNack(e) ==
    IF e \in {"WorkbenchOther", "WorkbenchBadCode"}
    THEN <<>>
    ELSE <<[status |-> NackStatus(e), ack |-> "NACK"]>>

\* The step ServeHTTP runs next.
CurStep(r) == steps[idx[r]]

StepsLeft(r) == pc[r] = "steps" /\ idx[r] <= Len(steps)

Advance(r) == idx' = [idx EXCEPT ![r] = @ + 1]

\* A step returned err: ServeHTTP answers SendNack(err) and returns.
Fail(r, e) ==
    /\ resp' = [resp EXCEPT ![r] = @ \o SendNack(e)]
    /\ pc' = [pc EXCEPT ![r] = "done"]

Write(r, x) == resp' = [resp EXCEPT ![r] = Append(@, x)]

stepVars == <<sub, body, route, sigBody, challenge, passedSign>>
hookVars == <<hookPending, cancelled, delivery, out>>

\* A step failed in a plugin call: only resp and pc change.
PluginFails(r) ==
    /\ \E e \in PluginErrs : Fail(r, e)
    /\ UNCHANGED <<idx, stepVars, internalHdr, hookVars>>

\* A step that only delegates to a plugin returned nil.
PluginOk(r) ==
    /\ Advance(r)
    /\ UNCHANGED <<pc, resp, stepVars, internalHdr, hookVars>>

(***************************************************************************)
(* ServeHTTP up to the step loop: stamp the internal headers, drain the    *)
(* body into a StepContext (stepCtx), take the subscriber id from the      *)
(* context key if present, else from the config (subID).                   *)
(***************************************************************************)
InitialSubID(r) == IF in[r].ctxSub THEN "ctx" ELSE ConfigSubID

Receive(r) ==
    /\ pc[r] = "idle"
    /\ internalHdr' = [internalHdr EXCEPT ![r] = TRUE]
    /\ \/ /\ in[r].bodyReadFails
          /\ Fail(r, "BadReq")
          /\ UNCHANGED sub
       \/ /\ ~in[r].bodyReadFails
          /\ pc' = [pc EXCEPT ![r] = "steps"]
          /\ sub' = [sub EXCEPT ![r] = InitialSubID(r)]
          /\ UNCHANGED resp
    /\ UNCHANGED <<steps, in, idx, body, route, sigBody, challenge, passedSign, hookVars>>

(***************************************************************************)
(* signStep.Run: refuse an empty subscriber id, fetch the key set, sign    *)
(* the current body and set the auth header on the request.                *)
(***************************************************************************)
SignStep(r) ==
    /\ StepsLeft(r) /\ CurStep(r) = "sign"
    /\ \/ /\ sub[r] = ""
          /\ Fail(r, "BadReq")
          /\ UNCHANGED <<idx, stepVars, internalHdr, hookVars>>
       \/ sub[r] # "" /\ PluginFails(r)
       \/ /\ sub[r] # ""
          /\ sigBody' = [sigBody EXCEPT ![r] = body[r]]
          /\ Advance(r)
          /\ UNCHANGED <<pc, resp, sub, body, route, challenge, passedSign,
                         internalHdr, hookVars>>
    /\ UNCHANGED <<steps, in>>

(***************************************************************************)
(* validateSignStep.validateHeaders: skipped on header_validation=false;   *)
(* the subscriber header is validated only when it is non-empty; on a      *)
(* failed validation the challenge header names ctx.SubID.                 *)
(***************************************************************************)
ValidateSignStep(r) ==
    /\ StepsLeft(r) /\ CurStep(r) = "validateSign"
    /\ \/ /\ in[r].skipSign \/ in[r].auth \in {"none", "valid"}
          /\ passedSign' = [passedSign EXCEPT ![r] = TRUE]
          /\ Advance(r)
          /\ UNCHANGED <<pc, resp, challenge>>
       \/ /\ ~in[r].skipSign /\ in[r].auth # "none"
          /\ challenge' = [challenge EXCEPT ![r] = sub[r]]
          /\ Fail(r, "SignValidation")
          /\ UNCHANGED <<idx, passedSign>>
    /\ UNCHANGED <<steps, in, sub, body, route, sigBody, internalHdr, hookVars>>

\* validateSchemaStep.Run: delegate to the SchemaValidator.
ValidateSchemaStep(r) ==
    /\ StepsLeft(r) /\ CurStep(r) = "validateSchema"
    /\ PluginOk(r) \/ PluginFails(r)
    /\ UNCHANGED <<steps, in>>

\* addRouteStep.Run: ask the Router and copy its answer into ctx.Route.
AddRouteStep(r) ==
    /\ StepsLeft(r) /\ CurStep(r) = "addRoute"
    /\ \/ /\ \E rt \in RouteChoices : route' = [route EXCEPT ![r] = rt]
          /\ Advance(r)
          /\ UNCHANGED <<pc, resp, sub, body, sigBody, challenge, passedSign,
                         internalHdr, hookVars>>
       \/ PluginFails(r)
    /\ UNCHANGED <<steps, in>>

\* validateOndcStep.Run: skipped on protocol_validation=false.
ValidateOndcStep(r) ==
    /\ StepsLeft(r) /\ CurStep(r) = "validateOndcPayload"
    /\ \/ in[r].skipOndc /\ PluginOk(r)
       \/ ~in[r].skipOndc /\ (PluginOk(r) \/ PluginFails(r))
    /\ UNCHANGED <<steps, in>>

\* validateOndcCallSaveStep.Run: always delegates, whatever the cookies.
OndcCallSaveStep(r) ==
    /\ StepsLeft(r) /\ CurStep(r) = "validateOndcCallSave"
    /\ PluginOk(r) \/ PluginFails(r)
    /\ UNCHANGED <<steps, in>>

\* workbenchReceiveStep.Run: after the workbench call succeeds, a
\* subscriber_id cookie (even an empty one) overrides ctx.SubID.
\* Mutant: the cookie's value is used without checking r.Cookie's error.
WorkbenchReceiveStepNoErrCheck(r) ==
    /\ StepsLeft(r) /\ CurStep(r) = "ondcWorkbenchReceiver"
    /\ \/ /\ sub' = [sub EXCEPT ![r] = in[r].subCookie]
          /\ Advance(r)
          /\ UNCHANGED <<pc, resp, body, route, sigBody, challenge, passedSign,
                         internalHdr, hookVars>>
       \/ PluginFails(r)
    /\ UNCHANGED <<steps, in>>

WorkbenchReceiveStep(r) ==
    /\ StepsLeft(r) /\ CurStep(r) = "ondcWorkbenchReceiver"
    /\ \/ /\ sub' = [sub EXCEPT ![r] = IF in[r].subCookie = "absent" THEN @
                                       ELSE in[r].subCookie]
          /\ Advance(r)
          /\ UNCHANGED <<pc, resp, body, route, sigBody, challenge, passedSign,
                         internalHdr, hookVars>>
       \/ PluginFails(r)
    /\ UNCHANGED <<steps, in>>

\* workbenchValidateContextStep.Run: delegate to the workbench.
WorkbenchValidateContextStep(r) ==
    /\ StepsLeft(r) /\ CurStep(r) = "ondcWorkbenchValidateContext"
    /\ PluginOk(r) \/ PluginFails(r)
    /\ UNCHANGED <<steps, in>>

\* A plugin-provided step: it may rewrite ctx.Body (a transformer) or fail.
CustomStep(r) ==
    /\ StepsLeft(r) /\ CurStep(r) \in CustomSteps
    /\ \/ /\ body' \in {[body EXCEPT ![r] = @ + k] : k \in {0, 1}}
          /\ Advance(r)
          /\ UNCHANGED <<pc, resp, sub, route, sigBody, challenge, passedSign,
                         internalHdr, hookVars>>
       \/ PluginFails(r)
    /\ UNCHANGED <<steps, in>>

-----------------------------------------------------------------------------
(***************************************************************************)
(* ServeHTTP after the step loop: the body is restored from ctx.Body; with *)
(* no route the request is ACKed; otherwise the internal headers are       *)
(* deleted and route() dispatches on ActAsProxy and TargetType.            *)
(***************************************************************************)
StepsDone(r) == pc[r] = "steps" /\ idx[r] > Len(steps)

Done(r) == pc' = [pc EXCEPT ![r] = "done"]

\* ctx.Route == nil: SendAck.
FinishNoRoute(r) ==
    /\ StepsDone(r) /\ route[r] = NoRoute
    /\ Write(r, Ack) /\ Done(r)
    /\ UNCHANGED <<steps, in, idx, stepVars, internalHdr, hookVars>>

\* The request as it leaves through the reverse proxy or an async POST.
Forward(r, via, sig, internal) ==
    [req |-> r, via |-> via, body |-> body[r], sig |-> sig, internal |-> internal]

\* ActAsProxy, "url": proxy() forwards r (body restored from ctx.Body, the
\* auth header set by sign) and copies back the upstream answer, or 502
\* when the upstream call fails or the request context is cancelled.
ProxyURL(r) ==
    /\ StepsDone(r) /\ route[r].proxy /\ route[r].type = "url"
    /\ internalHdr' = [internalHdr EXCEPT ![r] = FALSE]
    /\ out' = out \cup {Forward(r, "proxy", sigBody[r], internalHdr'[r])}
    /\ \/ ~cancelled[r] /\ \E code \in {200, 502} : Write(r, Proxied(code))
       \/ cancelled[r] /\ Write(r, Proxied(502))
    /\ Done(r)
    /\ UNCHANGED <<steps, in, idx, stepVars, hookPending, cancelled, delivery>>

\* ActAsProxy, "publisher": NACK 500 without a publisher, NACK on a publish
\* error, ACK after a successful publish.
ProxyPublish(r) ==
    /\ StepsDone(r) /\ route[r].proxy /\ route[r].type = "publisher"
    /\ internalHdr' = [internalHdr EXCEPT ![r] = FALSE]
    /\ IF ~PublisherConfigured
       THEN Fail(r, "Internal") /\ UNCHANGED out
       ELSE \/ \E e \in PluginErrs : Fail(r, e) /\ UNCHANGED out
            \/ /\ out' = out \cup {Forward(r, "publish", NoSig, internalHdr'[r])}
               /\ Write(r, Ack) /\ Done(r)
    /\ UNCHANGED <<steps, in, idx, stepVars, hookPending, cancelled, delivery>>

\* ActAsProxy with any other target type: "unknown route type", NACK 500.
ProxyUnknown(r) ==
    /\ StepsDone(r) /\ route[r].proxy /\ route[r].type \notin {"url", "publisher"}
    /\ internalHdr' = [internalHdr EXCEPT ![r] = FALSE]
    /\ Fail(r, "Internal")
    /\ UNCHANGED <<steps, in, idx, stepVars, hookVars>>

(***************************************************************************)
(* Not ActAsProxy: answer at once (the custom-response-body cookie's value *)
(* or ACK), then RegisterPostResponseHook, which silently drops the hook   *)
(* when no PostResponseMiddleware put a hook slice in the context.         *)
(***************************************************************************)
RegisterPostResponseHook(r) ==
    /\ hookPending' = [hookPending EXCEPT ![r] = MiddlewareInstalled]
    /\ delivery' = [delivery EXCEPT ![r] = IF MiddlewareInstalled THEN @ ELSE "dropped"]

\* Mutant: route() returns right after sending the custom body.
AsyncReturnAfterCustomBody(r) ==
    /\ StepsDone(r) /\ route[r] # NoRoute /\ ~route[r].proxy
    /\ internalHdr' = [internalHdr EXCEPT ![r] = FALSE]
    /\ Write(r, IF in[r].customBody THEN CustomBody ELSE Ack)
    /\ Done(r)
    /\ IF in[r].customBody THEN UNCHANGED <<hookPending, delivery>>
                           ELSE RegisterPostResponseHook(r)
    /\ UNCHANGED <<steps, in, idx, stepVars, cancelled, out>>

Async(r) ==
    /\ StepsDone(r) /\ route[r] # NoRoute /\ ~route[r].proxy
    /\ internalHdr' = [internalHdr EXCEPT ![r] = FALSE]
    /\ Write(r, IF in[r].customBody THEN CustomBody ELSE Ack)
    /\ Done(r)
    /\ RegisterPostResponseHook(r)
    /\ UNCHANGED <<steps, in, idx, stepVars, cancelled, out>>

(***************************************************************************)
(* The middleware runs the hook after ServeHTTP returned.  The closure     *)
(* uses the captured StepContext, whose context is the request's: a POST   *)
(* on a cancelled context fails; makeAsyncRequest copies no header of the  *)
(* original request, so the signature is not sent.  A target type other   *)
(* than "url" and "publisher" matches no case and nothing is delivered.    *)
(***************************************************************************)
RunHook(r) ==
    /\ pc[r] = "done" /\ hookPending[r]
    /\ hookPending' = [hookPending EXCEPT ![r] = FALSE]
    /\ CASE route[r].type = "url" ->
              \/ /\ cancelled[r]
                 /\ delivery' = [delivery EXCEPT ![r] = "cancelled"]
                 /\ UNCHANGED out
              \/ /\ ~cancelled[r]
                 /\ delivery' = [delivery EXCEPT ![r] = "sent"]
                 /\ out' = out \cup {Forward(r, "post", NoSig, FALSE)}
              \/ /\ ~cancelled[r]
                 /\ delivery' = [delivery EXCEPT ![r] = "upstreamErr"]
                 /\ UNCHANGED out
         [] route[r].type = "publisher" /\ PublisherConfigured ->
              \/ /\ delivery' = [delivery EXCEPT ![r] = "sent"]
                 /\ out' = out \cup {Forward(r, "publish", NoSig, FALSE)}
              \/ /\ \E d \in IF cancelled[r] THEN {"upstreamErr", "cancelled"}
                                            ELSE {"upstreamErr"} :
                      delivery' = [delivery EXCEPT ![r] = d]
                 /\ UNCHANGED out
         [] OTHER ->
              /\ delivery' = [delivery EXCEPT ![r] = "dropped"]
              /\ UNCHANGED out
    /\ UNCHANGED <<steps, in, pc, idx, stepVars, internalHdr, resp, cancelled>>

\* The client goes away while the request is served or its hook is pending.
Disconnect(r) ==
    /\ ~cancelled[r]
    /\ pc[r] = "steps" \/ hookPending[r]
    /\ cancelled' = [cancelled EXCEPT ![r] = TRUE]
    /\ UNCHANGED <<steps, in, pc, idx, stepVars, internalHdr, resp,
                   hookPending, delivery, out>>

RunStep(r) ==
    \/ SignStep(r) \/ ValidateSignStep(r) \/ ValidateSchemaStep(r)
    \/ AddRouteStep(r) \/ ValidateOndcStep(r) \/ OndcCallSaveStep(r)
    \/ WorkbenchReceiveStep(r) \/ WorkbenchValidateContextStep(r)
    \/ CustomStep(r)

Dispatch(r) ==
    FinishNoRoute(r) \/ ProxyURL(r) \/ ProxyPublish(r) \/ ProxyUnknown(r) \/ Async(r)

Next ==
    \E r \in Requests :
        Receive(r) \/ RunStep(r) \/ Dispatch(r) \/ RunHook(r) \/ Disconnect(r)

\* Each request's goroutine, and the middleware after it, keep running;
\* the client's disconnect is not forced.
Fairness ==
    \A r \in Requests :
        /\ WF_vars(Receive(r) \/ RunStep(r) \/ Dispatch(r))
        /\ WF_vars(RunHook(r))

Spec == Init /\ [][Next]_vars /\ Fairness
-----------------------------------------------------------------------------
(***************************************************************************)
(* Properties.                                                             *)
(***************************************************************************)

\* Every request whose ServeHTTP has returned was answered with exactly one
\* response: section 7 maps every error, an unrecognised one included, to a
\* NACK, and each return path of ServeHTTP / route() writes once.
EveryRequestAnswered ==
    \A r \in Requests : pc[r] = "done" => Len(resp[r]) = 1

\* The request was accepted for asynchronous delivery: route() took the
\* not-ActAsProxy branch and the client was answered ACK (or the custom body).
AsyncAccepted(r) ==
    /\ pc[r] = "done" /\ route[r] # NoRoute /\ ~route[r].proxy
    /\ resp[r] # <<>> /\ resp[r][1].ack \in {"ACK", "BODY"}

\* A request ACKed for asynchronous delivery is eventually delivered, or the
\* delivery is at least attempted (section 4.5: the post-response hook
\* performs the URL POST or the publish).
AsyncAckLeadsToDelivery ==
    \A r \in Requests :
        AsyncAccepted(r) ~> delivery[r] \in {"sent", "upstreamErr", "cancelled"}

\* The hook performs the URL POST or publish "on a detached ambient context"
\* (section 4.5) that "is not cancelled by client disconnect" (section 4.6;
\* section 5: async delivery survives a disconnected caller): no
\* asynchronous delivery fails because the client went away after its ACK.
AsyncDeliveryDetached ==
    \A r \in Requests : delivery[r] # "cancelled"

\* A request that got past validateSign with validation not switched off by
\* the header_validation cookie carried a valid signature (section 4.2).
UnsignedRejected ==
    \A r \in Requests :
        passedSign[r] /\ ~in[r].skipSign => in[r].auth = "valid"
=============================================================================
