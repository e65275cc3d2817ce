-------------------------------- MODULE Build --------------------------------
(***************************************************************************)
(* NewStdHandler (src/core/module/handler/postResponse.go): building one   *)
(* module of the adapter from its configuration.  initPlugins loads the    *)
(* configured capabilities in a fixed order, stopping at the first error;  *)
(* initSteps loads the step plugins of cfg.Plugins.Steps into a map keyed  *)
(* by plugin id, then turns each name of cfg.Steps into a step: a built-in *)
(* name is built by its newXStep constructor, which fails when a           *)
(* capability it needs is missing; any other name is looked up in the map. *)
(* Each step is wrapped for instrumentation; if wrapping fails the raw     *)
(* step is used.                                                           *)
(*                                                                         *)
(* The build is sequential: pc walks through the three loops and ends in   *)
(* "built" (NewStdHandler returns the handler) or "failed" (it returns an  *)
(* error).  A step is recorded by its name and what implements it: Builtin *)
(* for a built-in, otherwise the position in cfg.Plugins.Steps of the      *)
(* plugin config whose instance the map held.                              *)
(***************************************************************************)
EXTENDS Integers, Sequences

CONSTANTS
    PluginConfigs,      \* possible cfg.Plugins: the set of capabilities configured
    StepPluginConfigs,  \* possible cfg.Plugins.Steps: sequences of step plugin ids
    StepConfigs         \* possible cfg.Steps: sequences of step names

\* The fields of PluginCfg, in the order initPlugins loads them.
PluginOrder ==
    <<"Cache", "Registry", "KeyManager", "SignValidator", "SchemaValidator",
      "Router", "Publisher", "Signer", "TransportWrapper", "OndcValidator",
      "OndcWorkbench">>

Capabilities == {PluginOrder[n] : n \in 1..Len(PluginOrder)}

BuiltinSteps ==
    {"sign", "validateSign", "validateSchema", "addRoute", "validateOndcPayload",
     "validateOndcCallSave", "ondcWorkbenchReceiver",
     "ondcWorkbenchValidateContext"}

ASSUME PluginConfigsAssumption == PluginConfigs \subseteq SUBSET Capabilities
ASSUME StepConfigsAssumption ==
    /\ StepPluginConfigs \subseteq Seq(STRING)
    /\ StepConfigs \subseteq Seq(STRING)

\* What implements a built-in step.
Builtin == 0

\* The capabilities each newXStep constructor refuses to build without.
newSignStep == {"Signer", "KeyManager"}
newValidateSignStep == {"SignValidator", "KeyManager"}
newValidateSchemaStep == {"SchemaValidator"}
newAddRouteStep == {"Router"}
newValidateOndcStep == {"OndcValidator"}
newValidateOndcCallSaveStep == {"OndcValidator"}
newWorkbenchReceiveStep == {"OndcWorkbench"}
newWorkbenchValidateContextStep == {"OndcWorkbench"}

Needs(name) ==
    CASE name = "sign"                         -> newSignStep
      [] name = "validateSign"                 -> newValidateSignStep
      [] name = "validateSchema"               -> newValidateSchemaStep
      [] name = "addRoute"                     -> newAddRouteStep
      [] name = "validateOndcPayload"          -> newValidateOndcStep
      [] name = "validateOndcCallSave"         -> newValidateOndcCallSaveStep
      [] name = "ondcWorkbenchReceiver"        -> newWorkbenchReceiveStep
      [] name = "ondcWorkbenchValidateContext" -> newWorkbenchValidateContextStep

VARIABLES
    plugins,      \* cfg.Plugins: the capabilities configured (never changes)
    stepPlugins,  \* cfg.Plugins.Steps: the step plugin ids (never changes)
    cfgSteps,     \* cfg.Steps (never changes)
    pc,           \* "plugins", "pluginSteps", "steps", "built" or "failed"
    i,            \* position in the loop pc names
    loaded,       \* capabilities whose h.<field> is set
    custom,       \* initSteps' map: plugin id -> position of its instance
    steps         \* h.steps: [name, impl, instrumented]

vars == <<plugins, stepPlugins, cfgSteps, pc, i, loaded, custom, steps>>

cfgVars == <<plugins, stepPlugins, cfgSteps>>

StepRecords == [name : STRING, impl : Nat, instrumented : BOOLEAN]

TypeOK ==
    /\ plugins \in PluginConfigs
    /\ stepPlugins \in StepPluginConfigs
    /\ cfgSteps \in StepConfigs
    /\ pc \in {"plugins", "pluginSteps", "steps", "built", "failed"}
    /\ i \in Nat \ {0}
    /\ loaded \subseteq Capabilities
    /\ DOMAIN custom \subseteq STRING
    /\ \A id \in DOMAIN custom : custom[id] \in Nat \ {0}
    /\ steps \in Seq(StepRecords)

Init ==
    /\ plugins \in PluginConfigs
    /\ stepPlugins \in StepPluginConfigs
    /\ cfgSteps \in StepConfigs
    /\ pc = "plugins"
    /\ i = 1
    /\ loaded = {}
    /\ custom = [id \in {} |-> 0]
    /\ steps = <<>>

\* NewStdHandler returns the error.
Failed == pc' = "failed" /\ UNCHANGED <<i, loaded, custom, steps>>

\* loadPlugin: the manager returns the capability or an error.
loadPlugin(cap) ==
    \/ loaded' = loaded \cup {cap} /\ i' = i + 1 /\ UNCHANGED <<pc, custom, steps>>
    \/ Failed

\* Mutant: loadKeyManager without its nil-Cache check.
loadKeyManagerNoCacheCheck == loadPlugin("KeyManager")

\* loadKeyManager: a configured KeyManager without a loaded Cache is an
\* error before the manager is asked.
loadKeyManager ==
    \/ "Cache" \notin loaded /\ Failed
    \/ "Cache" \in loaded /\ loadPlugin("KeyManager")

\* loadOndcValidator, loadOndcWorkbench: the Cache is passed to the manager
\* but, unlike in loadKeyManager, a missing Cache is not checked.
loadOndcPlugin(cap) == loadPlugin(cap)

OndcCapabilities == {"OndcValidator", "OndcWorkbench"}

\* One load of initPlugins: an unconfigured capability is skipped and left
\* unset; KeyManager goes through loadKeyManager, the ONDC capabilities
\* through loadOndcValidator/loadOndcWorkbench, the rest through loadPlugin.
LoadPlugin ==
    LET cap == PluginOrder[i] IN
    /\ pc = "plugins"
    /\ i <= Len(PluginOrder)
    /\ \/ cap \notin plugins /\ i' = i + 1 /\ UNCHANGED <<pc, loaded, custom, steps>>
       \/ cap \in plugins /\ cap = "KeyManager" /\ loadKeyManager
       \/ cap \in plugins /\ cap \in OndcCapabilities /\ loadOndcPlugin(cap)
       \/ /\ cap \in plugins
          /\ cap \notin OndcCapabilities \cup {"KeyManager"}
          /\ loadPlugin(cap)
    /\ UNCHANGED cfgVars

\* initPlugins returned nil; NewStdHandler builds the client, calls initSteps.
PluginsLoaded ==
    /\ pc = "plugins"
    /\ i > Len(PluginOrder)
    /\ pc' = "pluginSteps" /\ i' = 1
    /\ UNCHANGED <<loaded, custom, steps>> /\ UNCHANGED cfgVars

\* steps[c.ID] = mgr.Step(ctx, &c), or the error is returned.  A second
\* config with the same id overwrites the first one's entry.
LoadStepPlugin ==
    LET id == stepPlugins[i] IN
    /\ pc = "pluginSteps"
    /\ i <= Len(stepPlugins)
    /\ \/ /\ custom' = [x \in DOMAIN custom \cup {id} |->
                            IF x = id THEN i ELSE custom[x]]
          /\ i' = i + 1
          /\ UNCHANGED <<pc, loaded, steps>>
       \/ Failed
    /\ UNCHANGED cfgVars

StepPluginsLoaded ==
    /\ pc = "pluginSteps"
    /\ i > Len(stepPlugins)
    /\ pc' = "steps" /\ i' = 1
    /\ UNCHANGED <<loaded, custom, steps>> /\ UNCHANGED cfgVars

\* Mutant: a failed wrap skips the step (continue before the append).
AppendStepDropUnwrapped(name, impl) ==
    /\ \/ steps' = Append(steps, [name |-> name, impl |-> impl,
                                   instrumented |-> TRUE])
       \/ UNCHANGED steps
    /\ i' = i + 1
    /\ UNCHANGED <<pc, loaded, custom>>

\* NewInstrumentedStep wraps s, or fails and the raw s is appended.
AppendStep(name, impl) ==
    /\ \E wrapped \in BOOLEAN :
          steps' = Append(steps, [name |-> name, impl |-> impl,
                                  instrumented |-> wrapped])
    /\ i' = i + 1
    /\ UNCHANGED <<pc, loaded, custom>>

\* One iteration of the cfg.Steps loop: the switch on the step name.  A
\* built-in name always takes its constructor, even when a step plugin has
\* the same id; any other name must be in the map ("unrecognized step").
BuildStep ==
    LET name == cfgSteps[i] IN
    /\ pc = "steps"
    /\ i <= Len(cfgSteps)
    /\ \/ /\ name \in BuiltinSteps
          /\ Needs(name) \subseteq loaded
          /\ AppendStep(name, Builtin)
       \/ /\ name \in BuiltinSteps
          /\ ~(Needs(name) \subseteq loaded)
          /\ Failed
       \/ /\ name \notin BuiltinSteps
          /\ name \in DOMAIN custom
          /\ AppendStep(name, custom[name])
       \/ /\ name \notin BuiltinSteps
          /\ name \notin DOMAIN custom
          /\ Failed
    /\ UNCHANGED cfgVars

\* initSteps returned nil: NewStdHandler returns the handler.
StepsBuilt ==
    /\ pc = "steps"
    /\ i > Len(cfgSteps)
    /\ pc' = "built"
    /\ UNCHANGED <<i, loaded, custom, steps>> /\ UNCHANGED cfgVars

Next ==
    \/ LoadPlugin \/ PluginsLoaded
    \/ LoadStepPlugin \/ StepPluginsLoaded
    \/ BuildStep \/ StepsBuilt

Spec == Init /\ [][Next]_vars
-----------------------------------------------------------------------------
(***************************************************************************)
(* Properties of a build.                                                  *)
(***************************************************************************)

\* Position p of cfg.Plugins.Steps is the last config with plugin id id.
LastRegistration(id, p) ==
    /\ p \in 1..Len(stepPlugins)
    /\ stepPlugins[p] = id
    /\ \A q \in p + 1..Len(stepPlugins) : stepPlugins[q] # id

\* A handler that is built runs exactly the configured pipeline: one step
\* per name of cfg.Steps, in order, a built-in for a built-in name (a
\* step plugin of the same id is ignored) and for any other name the
\* instance of the last step plugin config with that id.  This is about the
\* map filled by the plugin loop, the switch and the instrumentation
\* fallback of initSteps together.
PipelineMatchesConfig ==
    pc = "built" =>
        /\ Len(steps) = Len(cfgSteps)
        /\ \A k \in 1..Len(steps) :
              /\ steps[k].name = cfgSteps[k]
              /\ IF cfgSteps[k] \in BuiltinSteps
                    THEN steps[k].impl = Builtin
                    ELSE LastRegistration(cfgSteps[k], steps[k].impl)

\* Section 4.2 and 4.1 of the spec: sign needs the Signer and the
\* KeyManager, validateSign the SignValidator and the KeyManager, and the
\* KeyManager needs the Cache.  No signing step is ever put in h.steps
\* unless everything it transitively depends on was loaded by initPlugins.
SigningStepsHaveKeys ==
    \A k \in 1..Len(steps) :
        steps[k].impl = Builtin =>
            /\ steps[k].name = "sign" =>
                   {"Signer", "KeyManager", "Cache"} \subseteq loaded
            /\ steps[k].name = "validateSign" =>
                   {"SignValidator", "KeyManager", "Cache"} \subseteq loaded

\* Sections 4.1 and 4.2 of the spec: a step id names one step of a module.
\* Registering the same step plugin id twice in one module is fatal, and
\* custom step names must not collide with the built-in names; so the step
\* plugins of a module that is built have distinct ids, none of them a
\* built-in name.
StepIdsUnambiguous ==
    pc = "built" =>
        \A p, q \in 1..Len(stepPlugins) :
            /\ stepPlugins[p] \notin BuiltinSteps
            /\ stepPlugins[p] = stepPlugins[q] => p = q
=============================================================================
