---------------------------- MODULE HandlerProofs ----------------------------
(***************************************************************************)
(* Proofs about the request path of a module, for every set of requests,   *)
(* pipelines, routes and plugin errors the assumptions of Handler allow.   *)
(***************************************************************************)
EXTENDS Handler, SequenceTheorems, TLAPS

\* response.SendNack writes a well-formed response, or nothing.
LEMMA NackType ==
    ASSUME NEW e \in ErrKinds
    PROVE  SendNack(e) \in Seq(Responses)
<1>1. NackStatus(e) \in 100..599
    BY WorkbenchCodeAssumption DEF NackStatus, ErrKinds
<1>2. [status |-> NackStatus(e), ack |-> "NACK"] \in Responses
    BY <1>1 DEF Responses
<1>3. QED
    BY <1>2, EmptySeq DEF SendNack

\* A failing step leaves resp a sequence of responses.
LEMMA FailType ==
    ASSUME TypeOK, NEW r \in Requests, NEW e \in ErrKinds, Fail(r, e)
    PROVE  /\ resp' \in [Requests -> Seq(Responses)]
           /\ pc' \in [Requests -> {"idle", "steps", "done"}]
<1>1. resp[r] \o SendNack(e) \in Seq(Responses)
    BY NackType, ConcatProperties DEF TypeOK
<1>2. QED
    BY <1>1 DEF Fail, TypeOK

\* Writing a response leaves resp a sequence of responses.
LEMMA WriteType ==
    ASSUME TypeOK, NEW r \in Requests, NEW x \in Responses, Write(r, x)
    PROVE  resp' \in [Requests -> Seq(Responses)]
<1>1. Append(resp[r], x) \in Seq(Responses)
    BY AppendProperties DEF TypeOK
<1>2. QED
    BY <1>1 DEF Write, TypeOK

LEMMA AckType == {Ack, CustomBody, Proxied(200), Proxied(502)} \subseteq Responses
BY DEF Ack, CustomBody, Proxied, Responses

\* A plugin error is one of the kinds SendNack classifies.
LEMMA PluginFailsType ==
    ASSUME TypeOK, NEW r \in Requests, PluginFails(r), UNCHANGED <<steps, in>>
    PROVE  TypeOK'
<1>1. PICK e \in PluginErrs : Fail(r, e)
    BY DEF PluginFails
<1>2. e \in ErrKinds
    BY PluginErrsAssumption
<1>3. /\ resp' \in [Requests -> Seq(Responses)]
      /\ pc' \in [Requests -> {"idle", "steps", "done"}]
    BY <1>1, <1>2, FailType
<1>4. UNCHANGED <<idx, stepVars, internalHdr, hookVars>>
    BY DEF PluginFails
<1>5. QED
    BY <1>3, <1>4 DEF TypeOK, stepVars, hookVars

LEMMA PluginOkType ==
    ASSUME TypeOK, NEW r \in Requests, PluginOk(r), UNCHANGED <<steps, in>>
    PROVE  TypeOK'
<1>1. idx' \in [Requests -> Nat \ {0}]
    BY DEF PluginOk, Advance, TypeOK
<1>2. QED
    BY <1>1 DEF PluginOk, TypeOK, stepVars, hookVars

\* What a request sends out is a well-formed outbound request.
LEMMA ForwardType ==
    ASSUME TypeOK, NEW r \in Requests, NEW via \in {"proxy", "post", "publish"},
           NEW sig \in Int, NEW internal \in BOOLEAN
    PROVE  Forward(r, via, sig, internal) \in Outbound
BY DEF TypeOK, Forward, Outbound

\* Every step of the request path keeps each variable in its type.
LEMMA TypeStep == TypeOK /\ [Next]_vars => TypeOK'
<1> SUFFICES ASSUME TypeOK, [Next]_vars PROVE TypeOK'
    OBVIOUS
<1>1. ASSUME NEW r \in Requests, Receive(r) PROVE TypeOK'
    <2>1. CASE in[r].bodyReadFails /\ Fail(r, "BadReq") /\ UNCHANGED sub
        BY <1>1, <2>1, FailType DEF Receive, TypeOK, ErrKinds, hookVars
    <2>2. CASE /\ pc' = [pc EXCEPT ![r] = "steps"]
               /\ sub' = [sub EXCEPT ![r] = InitialSubID(r)]
               /\ UNCHANGED resp
        BY <1>1, <2>2, SubIDAssumption DEF Receive, TypeOK, InitialSubID, SubValues, hookVars
    <2>3. QED
        BY <1>1, <2>1, <2>2 DEF Receive
<1>2. ASSUME NEW r \in Requests, SignStep(r) PROVE TypeOK'
    <2>1. CASE Fail(r, "BadReq") /\ UNCHANGED <<idx, stepVars, internalHdr, hookVars>>
        BY <1>2, <2>1, FailType DEF SignStep, TypeOK, ErrKinds, stepVars, hookVars
    <2>2. CASE PluginFails(r)
        BY <1>2, <2>2, PluginFailsType DEF SignStep
    <2>3. CASE /\ sigBody' = [sigBody EXCEPT ![r] = body[r]]
               /\ Advance(r)
               /\ UNCHANGED <<pc, resp, sub, body, route, challenge, passedSign,
                              internalHdr, hookVars>>
        <3>1. sigBody' \in [Requests -> Nat \cup {NoSig}]
            BY <2>3 DEF TypeOK
        <3>2. idx' \in [Requests -> Nat \ {0}]
            BY <2>3 DEF Advance, TypeOK
        <3>3. UNCHANGED <<steps, in>>
            BY <1>2 DEF SignStep
        <3>4. QED
            BY <2>3, <3>1, <3>2, <3>3 DEF TypeOK, hookVars
    <2>4. QED
        BY <1>2, <2>1, <2>2, <2>3 DEF SignStep
<1>3. ASSUME NEW r \in Requests, ValidateSignStep(r) PROVE TypeOK'
    <2>1. CASE /\ passedSign' = [passedSign EXCEPT ![r] = TRUE]
               /\ Advance(r)
               /\ UNCHANGED <<pc, resp, challenge>>
        BY <1>3, <2>1 DEF ValidateSignStep, Advance, TypeOK, hookVars
    <2>2. CASE /\ challenge' = [challenge EXCEPT ![r] = sub[r]]
               /\ Fail(r, "SignValidation")
               /\ UNCHANGED <<idx, passedSign>>
        BY <1>3, <2>2, FailType DEF ValidateSignStep, TypeOK, ErrKinds, hookVars
    <2>3. QED
        BY <1>3, <2>1, <2>2 DEF ValidateSignStep
<1>4. ASSUME NEW r \in Requests,
             ValidateSchemaStep(r) \/ ValidateOndcStep(r) \/ OndcCallSaveStep(r)
             \/ WorkbenchValidateContextStep(r)
      PROVE  TypeOK'
    <2>1. /\ PluginOk(r) \/ PluginFails(r)
          /\ UNCHANGED <<steps, in>>
        BY <1>4 DEF ValidateSchemaStep, ValidateOndcStep, OndcCallSaveStep,
                    WorkbenchValidateContextStep
    <2>2. QED
        BY <2>1, PluginOkType, PluginFailsType
<1>5. ASSUME NEW r \in Requests, AddRouteStep(r) PROVE TypeOK'
    <2>1. CASE PluginFails(r)
        BY <1>5, <2>1, PluginFailsType DEF AddRouteStep
    <2>2. CASE /\ \E rt \in RouteChoices : route' = [route EXCEPT ![r] = rt]
               /\ Advance(r)
               /\ UNCHANGED <<pc, resp, sub, body, sigBody, challenge, passedSign,
                              internalHdr, hookVars>>
        BY <1>5, <2>2 DEF AddRouteStep, Advance, TypeOK, hookVars
    <2>3. QED
        BY <1>5, <2>1, <2>2 DEF AddRouteStep
<1>6. ASSUME NEW r \in Requests, WorkbenchReceiveStep(r) PROVE TypeOK'
    <2>1. CASE PluginFails(r)
        BY <1>6, <2>1, PluginFailsType DEF WorkbenchReceiveStep
    <2>2. CASE /\ sub' = [sub EXCEPT ![r] = IF in[r].subCookie = "absent" THEN @
                                            ELSE in[r].subCookie]
               /\ Advance(r)
               /\ UNCHANGED <<pc, resp, body, route, sigBody, challenge, passedSign,
                              internalHdr, hookVars>>
        <3>1. in[r].subCookie \in {"absent", "", "wb"}
            BY DEF TypeOK, Inputs
        <3>2. sub' \in [Requests -> SubValues]
            BY <2>2, <3>1 DEF TypeOK, SubValues
        <3>3. idx' \in [Requests -> Nat \ {0}]
            BY <2>2 DEF Advance, TypeOK
        <3>4. UNCHANGED <<steps, in>>
            BY <1>6 DEF WorkbenchReceiveStep
        <3>5. QED
            BY <2>2, <3>2, <3>3, <3>4 DEF TypeOK, hookVars
    <2>3. QED
        BY <1>6, <2>1, <2>2 DEF WorkbenchReceiveStep
<1>7. ASSUME NEW r \in Requests, CustomStep(r) PROVE TypeOK'
    <2>1. CASE PluginFails(r)
        BY <1>7, <2>1, PluginFailsType DEF CustomStep
    <2>2. CASE /\ body' \in {[body EXCEPT ![r] = @ + k] : k \in {0, 1}}
               /\ Advance(r)
               /\ UNCHANGED <<pc, resp, sub, route, sigBody, challenge, passedSign,
                              internalHdr, hookVars>>
        BY <1>7, <2>2 DEF CustomStep, Advance, TypeOK, hookVars
    <2>3. QED
        BY <1>7, <2>1, <2>2 DEF CustomStep
<1>8. ASSUME NEW r \in Requests, FinishNoRoute(r) PROVE TypeOK'
    BY <1>8, WriteType, AckType DEF FinishNoRoute, Done, TypeOK, stepVars, hookVars
<1>9. ASSUME NEW r \in Requests, ProxyURL(r) PROVE TypeOK'
    <2>1. sigBody[r] \in Int
        BY DEF TypeOK, NoSig
    <2>2. out' \in SUBSET Outbound
        <3>1. internalHdr'[r] = FALSE
            BY <1>9 DEF ProxyURL, TypeOK
        <3>2. out' = out \cup {Forward(r, "proxy", sigBody[r], FALSE)}
            BY <1>9, <3>1 DEF ProxyURL
        <3>3. Forward(r, "proxy", sigBody[r], FALSE) \in Outbound
            BY <2>1, ForwardType
        <3>4. QED
            BY <3>2, <3>3 DEF TypeOK
    <2>3. resp' \in [Requests -> Seq(Responses)]
        BY <1>9, WriteType, AckType DEF ProxyURL
    <2>4. QED
        BY <1>9, <2>2, <2>3 DEF ProxyURL, Done, TypeOK, stepVars
<1>10. ASSUME NEW r \in Requests, ProxyPublish(r) PROVE TypeOK'
    <2>1. CASE ~PublisherConfigured
        BY <1>10, <2>1, FailType DEF ProxyPublish, TypeOK, ErrKinds, stepVars
    <2>2. CASE PublisherConfigured /\ \E e \in PluginErrs : Fail(r, e) /\ UNCHANGED out
        BY <1>10, <2>2, FailType, PluginErrsAssumption DEF ProxyPublish, TypeOK, stepVars
    <2>3. CASE /\ PublisherConfigured
               /\ out' = out \cup {Forward(r, "publish", NoSig, internalHdr'[r])}
               /\ Write(r, Ack) /\ Done(r)
        <3>1. internalHdr'[r] \in BOOLEAN
            BY <1>10 DEF ProxyPublish, TypeOK
        <3>2. out' \in SUBSET Outbound
            BY <2>3, <3>1, ForwardType DEF TypeOK, NoSig
        <3>3. resp' \in [Requests -> Seq(Responses)]
            BY <2>3, WriteType, AckType
        <3>4. /\ internalHdr' = [internalHdr EXCEPT ![r] = FALSE]
              /\ UNCHANGED <<steps, in, idx, stepVars, hookPending, cancelled, delivery>>
            BY <1>10 DEF ProxyPublish
        <3>5. QED
            BY <2>3, <3>2, <3>3, <3>4 DEF Done, TypeOK, stepVars
    <2>4. QED
        BY <1>10, <2>1, <2>2, <2>3 DEF ProxyPublish
<1>11. ASSUME NEW r \in Requests, ProxyUnknown(r) PROVE TypeOK'
    BY <1>11, FailType DEF ProxyUnknown, TypeOK, ErrKinds, stepVars, hookVars
<1>12. ASSUME NEW r \in Requests, Async(r) PROVE TypeOK'
    <2>1. resp' \in [Requests -> Seq(Responses)]
        <3>1. (IF in[r].customBody THEN CustomBody ELSE Ack) \in Responses
            BY AckType
        <3>2. Write(r, IF in[r].customBody THEN CustomBody ELSE Ack)
            BY <1>12 DEF Async
        <3>3. QED
            BY <3>1, <3>2, WriteType
    <2>2. /\ hookPending' \in [Requests -> BOOLEAN]
          /\ delivery' \in [Requests -> Deliveries]
        BY <1>12, FlagsAssumption DEF Async, RegisterPostResponseHook, TypeOK, Deliveries
    <2>3. QED
        BY <1>12, <2>1, <2>2 DEF Async, Done, TypeOK, stepVars
<1>13. ASSUME NEW r \in Requests, RunHook(r) PROVE TypeOK'
    <2>1. delivery' \in [Requests -> Deliveries]
        BY <1>13 DEF RunHook, TypeOK, Deliveries
    <2>2. out' \in SUBSET Outbound
        <3>1. NoSig \in Int
            BY DEF NoSig
        <3>2. \/ out' = out
              \/ out' = out \cup {Forward(r, "post", NoSig, FALSE)}
              \/ out' = out \cup {Forward(r, "publish", NoSig, FALSE)}
            BY <1>13 DEF RunHook
        <3>3. /\ Forward(r, "post", NoSig, FALSE) \in Outbound
              /\ Forward(r, "publish", NoSig, FALSE) \in Outbound
            BY <3>1, ForwardType
        <3>4. QED
            BY <3>2, <3>3 DEF TypeOK
    <2>3. QED
        BY <1>13, <2>1, <2>2 DEF RunHook, TypeOK, stepVars
<1>14. ASSUME NEW r \in Requests, Disconnect(r) PROVE TypeOK'
    BY <1>14 DEF Disconnect, TypeOK, stepVars
<1>15. CASE UNCHANGED vars
    BY <1>15 DEF vars, TypeOK
<1>16. QED
    BY <1>1, <1>2, <1>3, <1>4, <1>5, <1>6, <1>7, <1>8, <1>9, <1>10, <1>11,
       <1>12, <1>13, <1>14, <1>15 DEF Next, RunStep, Dispatch

\* The initial states are well typed.
LEMMA TypeInit == Init => TypeOK
<1> SUFFICES ASSUME Init PROVE TypeOK
    OBVIOUS
<1>1. <<>> \in Seq(Responses)
    BY EmptySeq
<1>2. /\ resp \in [Requests -> Seq(Responses)]
      /\ out \in SUBSET Outbound
    BY <1>1 DEF Init
<1>3. /\ route \in [Requests -> RouteChoices \cup {NoRoute}]
      /\ sigBody \in [Requests -> Nat \cup {NoSig}]
      /\ challenge \in [Requests -> SubValues \cup {NoChallenge}]
      /\ sub \in [Requests -> SubValues]
    BY DEF Init, SubValues
<1>4. /\ pc \in [Requests -> {"idle", "steps", "done"}]
      /\ body \in [Requests -> Nat]
    BY DEF Init
<1>5. idx \in [Requests -> Nat \ {0}]
    <2>1. 1 \in Nat \ {0}
        OBVIOUS
    <2>2. QED
        BY <2>1, Zenon DEF Init
<1>6. /\ passedSign \in [Requests -> BOOLEAN]
      /\ internalHdr \in [Requests -> BOOLEAN]
      /\ hookPending \in [Requests -> BOOLEAN]
      /\ cancelled \in [Requests -> BOOLEAN]
      /\ delivery \in [Requests -> Deliveries]
    BY DEF Init, Deliveries
<1>7. QED
    BY <1>2, <1>3, <1>4, <1>5, <1>6 DEF Init, TypeOK

\* The type invariant of the request path holds in every reachable state.
THEOREM TypeCorrect == Spec => []TypeOK
<1>1. QED
    BY TypeInit, TypeStep, PTL DEF Spec

-----------------------------------------------------------------------------
(***************************************************************************)
(* Every request is answered exactly once, provided every error a plugin   *)
(* returns is one SendNack writes a response for (the workbench errors of  *)
(* an unknown behavior or with a non-numeric code are not).  The           *)
(* invariant adds that a request still being served has written nothing.  *)
(***************************************************************************)
Unclassified == {"WorkbenchOther", "WorkbenchBadCode"}

AnsInv ==
    \A r \in Requests :
        /\ pc[r] \in {"idle", "steps"} => resp[r] = <<>>
        /\ pc[r] = "done" => Len(resp[r]) = 1

\* SendNack of a classified error writes exactly one response.
LEMMA NackOne ==
    ASSUME NEW e \in ErrKinds \ Unclassified
    PROVE  SendNack(e) = <<[status |-> NackStatus(e), ack |-> "NACK"]>>
BY DEF SendNack, Unclassified

\* A request still being served that writes one response and returns.
LEMMA AnswerOnce ==
    ASSUME TypeOK, AnsInv, NEW r \in Requests, pc[r] \in {"idle", "steps"},
           pc' = [pc EXCEPT ![r] = "done"],
           resp' \in [Requests -> Seq(Responses)],
           \A q \in Requests \ {r} : resp'[q] = resp[q],
           Len(resp'[r]) = 1
    PROVE  AnsInv'
BY DEF AnsInv, TypeOK

LEMMA FailAnswers ==
    ASSUME TypeOK, AnsInv, NEW r \in Requests, pc[r] \in {"idle", "steps"},
           NEW e \in ErrKinds \ Unclassified, Fail(r, e)
    PROVE  AnsInv'
<1>1. resp[r] = <<>>
    BY DEF AnsInv
<1>2. resp'[r] = SendNack(e)
    BY <1>1, NackOne DEF Fail, TypeOK
<1>3. resp' \in [Requests -> Seq(Responses)]
    BY FailType
<1>4. Len(resp'[r]) = 1
    BY <1>2, NackOne
<1>5. \A q \in Requests \ {r} : resp'[q] = resp[q]
    BY DEF Fail, TypeOK
<1>6. pc' = [pc EXCEPT ![r] = "done"]
    BY DEF Fail
<1>7. QED
    BY <1>3, <1>4, <1>5, <1>6, AnswerOnce

LEMMA WriteAnswers ==
    ASSUME TypeOK, AnsInv, NEW r \in Requests, pc[r] \in {"idle", "steps"},
           NEW x \in Responses, Write(r, x), Done(r)
    PROVE  AnsInv'
<1>1. resp[r] = <<>>
    BY DEF AnsInv
<1>2. Len(resp'[r]) = 1
    BY <1>1 DEF Write, TypeOK
<1>3. resp' \in [Requests -> Seq(Responses)]
    BY WriteType
<1>4. QED
    BY <1>2, <1>3, AnswerOnce DEF Write, Done

\* A step that neither returns nor writes keeps the invariant.
LEMMA KeepAnswers ==
    ASSUME AnsInv, UNCHANGED <<pc, resp>>
    PROVE  AnsInv'
BY DEF AnsInv

LEMMA PluginFailsAnswers ==
    ASSUME TypeOK, AnsInv, PluginErrs \cap Unclassified = {},
           NEW r \in Requests, pc[r] = "steps", PluginFails(r)
    PROVE  AnsInv'
<1>1. PICK e \in PluginErrs : Fail(r, e)
    BY DEF PluginFails
<1>2. e \in ErrKinds \ Unclassified
    BY PluginErrsAssumption
<1>3. QED
    BY <1>1, <1>2, FailAnswers

\* Every step of the request path keeps the invariant, when every plugin
\* error is classified.
LEMMA AnsStep ==
    ASSUME PluginErrs \cap Unclassified = {}
    PROVE  TypeOK /\ AnsInv /\ [Next]_vars => AnsInv'
<1> SUFFICES ASSUME TypeOK, AnsInv, [Next]_vars PROVE AnsInv'
    OBVIOUS
<1>0. /\ "BadReq" \in ErrKinds \ Unclassified
      /\ "SignValidation" \in ErrKinds \ Unclassified
      /\ "Internal" \in ErrKinds \ Unclassified
      /\ {Ack, CustomBody, Proxied(200), Proxied(502)} \subseteq Responses
    BY AckType DEF ErrKinds, Unclassified
<1>1. ASSUME NEW r \in Requests, Receive(r) PROVE AnsInv'
    <2>1. CASE in[r].bodyReadFails /\ Fail(r, "BadReq")
        BY <1>0, <1>1, <2>1, FailAnswers DEF Receive
    <2>2. CASE pc' = [pc EXCEPT ![r] = "steps"] /\ UNCHANGED resp
        BY <1>1, <2>2 DEF Receive, AnsInv, TypeOK
    <2>3. QED
        BY <1>1, <2>1, <2>2 DEF Receive
<1>2. ASSUME NEW r \in Requests, RunStep(r) PROVE AnsInv'
    <2>1. pc[r] = "steps"
        BY <1>2 DEF RunStep, StepsLeft, SignStep, ValidateSignStep, ValidateSchemaStep,
                    AddRouteStep, ValidateOndcStep, OndcCallSaveStep, WorkbenchReceiveStep,
                    WorkbenchValidateContextStep, CustomStep
    <2>2. CASE PluginFails(r)
        BY <2>1, <2>2, PluginFailsAnswers
    <2>3. CASE Fail(r, "BadReq") \/ Fail(r, "SignValidation")
        BY <1>0, <2>1, <2>3, FailAnswers
    <2>4. CASE UNCHANGED <<pc, resp>>
        BY <2>4, KeepAnswers
    <2>5. QED
        BY <1>2, <2>2, <2>3, <2>4 DEF RunStep, SignStep, ValidateSignStep, ValidateSchemaStep,
                    AddRouteStep, ValidateOndcStep, OndcCallSaveStep, WorkbenchReceiveStep,
                    WorkbenchValidateContextStep, CustomStep, PluginOk
<1>3. ASSUME NEW r \in Requests, Dispatch(r) PROVE AnsInv'
    <2>1. pc[r] = "steps"
        BY <1>3 DEF Dispatch, StepsDone, FinishNoRoute, ProxyURL, ProxyPublish,
                    ProxyUnknown, Async
    <2>2. CASE \E e \in PluginErrs : Fail(r, e)
        <3>1. PICK e \in PluginErrs : Fail(r, e)
            BY <2>2
        <3>2. e \in ErrKinds \ Unclassified
            BY PluginErrsAssumption
        <3>3. QED
            BY <2>1, <3>1, <3>2, FailAnswers
    <2>3. CASE Fail(r, "Internal")
        BY <1>0, <2>1, <2>3, FailAnswers
    <2>4. CASE \E x \in {Ack, CustomBody, Proxied(200), Proxied(502)} : Write(r, x) /\ Done(r)
        BY <1>0, <2>1, <2>4, WriteAnswers
    <2>5. QED
        <3>1. CASE FinishNoRoute(r)
            BY <3>1, <2>4 DEF FinishNoRoute
        <3>2. CASE ProxyURL(r)
            BY <3>2, <2>4 DEF ProxyURL
        <3>3. CASE ProxyPublish(r)
            BY <3>3, <2>2, <2>3, <2>4 DEF ProxyPublish
        <3>4. CASE ProxyUnknown(r)
            BY <3>4, <2>3 DEF ProxyUnknown
        <3>5. CASE Async(r)
            BY <3>5, <2>4 DEF Async
        <3>6. QED
            BY <1>3, <3>1, <3>2, <3>3, <3>4, <3>5 DEF Dispatch
<1>4. ASSUME NEW r \in Requests, RunHook(r) \/ Disconnect(r) PROVE AnsInv'
    BY <1>4, KeepAnswers DEF RunHook, Disconnect
<1>5. CASE UNCHANGED vars
    BY <1>5, KeepAnswers DEF vars
<1>6. QED
    BY <1>1, <1>2, <1>3, <1>4, <1>5 DEF Next

\* When every error a plugin returns is one SendNack classifies, every
\* request ServeHTTP has returned from was answered with exactly one
\* response: each return path of ServeHTTP and route() writes once.
THEOREM AnsweredHolds ==
    ASSUME PluginErrs \cap Unclassified = {}
    PROVE  Spec => []EveryRequestAnswered
<1>1. Init => TypeOK /\ AnsInv
    BY TypeInit DEF Init, AnsInv
<1>2. TypeOK /\ AnsInv /\ [Next]_vars => (TypeOK /\ AnsInv)'
    BY TypeStep, AnsStep
<1>3. AnsInv => EveryRequestAnswered
    BY DEF AnsInv, EveryRequestAnswered
<1>4. QED
    BY <1>1, <1>2, <1>3, PTL DEF Spec
=============================================================================
