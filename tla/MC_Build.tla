------------------------------ MODULE MC_Build ------------------------------
(* Every combination of configured capabilities; step plugin configs with  *)
(* a duplicate id and with an id equal to a built-in name; pipelines that  *)
(* use every built-in, a custom step, a shadowed name and an unknown name. *)
EXTENDS Build

MCPluginConfigs == SUBSET Capabilities

MCStepPluginConfigs ==
    {<<>>, <<"transform", "transform">>, <<"sign", "transform">>, <<"audit">>}

MCStepConfigs ==
    {<<"validateSign", "validateSchema", "addRoute">>,
     <<"ondcWorkbenchReceiver", "validateOndcPayload", "validateOndcCallSave",
       "ondcWorkbenchValidateContext">>,
     <<"transform", "sign">>,
     <<"sign", "audit">>}
=============================================================================
