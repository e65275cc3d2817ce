\* Building a module from every configuration of the instance.
\* The build runs once: a finished build (built or failed) takes no step.
CONSTANTS
    PluginConfigs <- MCPluginConfigs
    StepPluginConfigs <- MCStepPluginConfigs
    StepConfigs <- MCStepConfigs
SPECIFICATION Spec
CHECK_DEADLOCK FALSE
INVARIANTS
    PipelineMatchesConfig
    SigningStepsHaveKeys
