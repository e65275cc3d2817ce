----------------------------- MODULE BuildProofs -----------------------------
(***************************************************************************)
(* Proofs about the build of a module (Build), for every configuration the *)
(* assumptions of Build allow.                                             *)
(***************************************************************************)
EXTENDS Build, SequenceTheorems, TLAPS

\* Every configuration starts the build in a well-typed state.
LEMMA TypeInit == Init => TypeOK
<1> SUFFICES ASSUME Init PROVE TypeOK
  OBVIOUS
<1>1. <<>> \in Seq(StepRecords)
  BY EmptySeq
<1>2. DOMAIN custom = {}
  BY DEF Init
<1> QED
  BY <1>1, <1>2 DEF Init, TypeOK

\* Every step of the build keeps the state well typed.
LEMMA TypeStep == TypeOK /\ [Next]_vars => TypeOK'
<1> SUFFICES ASSUME TypeOK, [Next]_vars PROVE TypeOK'
  OBVIOUS
<1>1. CASE LoadPlugin
  <2>1. PluginOrder[i] \in Capabilities
    BY <1>1 DEF LoadPlugin, TypeOK, Capabilities
  <2> QED
    BY <1>1, <2>1 DEF LoadPlugin, loadPlugin, loadKeyManager, loadOndcPlugin, Failed, TypeOK, cfgVars
<1>2. CASE PluginsLoaded
  BY <1>2 DEF PluginsLoaded, TypeOK, cfgVars
<1>3. CASE LoadStepPlugin
  <2>1. stepPlugins[i] \in STRING
    BY <1>3, StepConfigsAssumption DEF LoadStepPlugin, TypeOK
  <2> QED
    BY <1>3, <2>1 DEF LoadStepPlugin, Failed, TypeOK, cfgVars
<1>4. CASE StepPluginsLoaded
  BY <1>4 DEF StepPluginsLoaded, TypeOK, cfgVars
<1>5. CASE BuildStep
  <2>1. cfgSteps[i] \in STRING
    BY <1>5, StepConfigsAssumption DEF BuildStep, TypeOK
  <2>2. ASSUME NEW impl \in Nat, AppendStep(cfgSteps[i], impl)
        PROVE  TypeOK'
    <3>1. PICK w \in BOOLEAN :
             steps' = Append(steps, [name |-> cfgSteps[i], impl |-> impl,
                                     instrumented |-> w])
      BY <2>2 DEF AppendStep
    <3>2. [name |-> cfgSteps[i], impl |-> impl, instrumented |-> w] \in StepRecords
      BY <2>1 DEF StepRecords
    <3>3. steps' \in Seq(StepRecords)
      BY <3>1, <3>2, AppendProperties DEF TypeOK
    <3> QED
      BY <1>5, <2>2, <3>3 DEF AppendStep, BuildStep, TypeOK, cfgVars
  <2>3. CASE cfgSteps[i] \notin BuiltinSteps /\ cfgSteps[i] \in DOMAIN custom
             /\ AppendStep(cfgSteps[i], custom[cfgSteps[i]])
    BY <2>2, <2>3 DEF TypeOK
  <2>4. CASE cfgSteps[i] \in BuiltinSteps /\ AppendStep(cfgSteps[i], Builtin)
    BY <2>2, <2>4 DEF Builtin
  <2>5. CASE Failed
    BY <1>5, <2>5 DEF Failed, BuildStep, TypeOK, cfgVars
  <2> QED
    BY <1>5, <2>3, <2>4, <2>5 DEF BuildStep
<1>6. CASE StepsBuilt
  BY <1>6 DEF StepsBuilt, TypeOK, cfgVars
<1>7. CASE UNCHANGED vars
  BY <1>7 DEF vars, TypeOK
<1> QED
  BY <1>1, <1>2, <1>3, <1>4, <1>5, <1>6, <1>7 DEF Next

\* The build state is well typed in every behaviour.
THEOREM TypeCorrect == Spec => []TypeOK
BY TypeInit, TypeStep, PTL DEF Spec
-----------------------------------------------------------------------------
(***************************************************************************)
(* The inductive invariant.  PipelineMatchesConfig only speaks of a built  *)
(* handler; to carry it through the loops one must know what the map      *)
(* holds after the first n step plugin configs (the last position of each  *)
(* id among them) and that the steps appended so far match the first names *)
(* of cfg.Steps.  SigningStepsHaveKeys needs that a loaded KeyManager      *)
(* implies a loaded Cache, and that no step is built while capabilities    *)
(* are still being loaded.                                                 *)
(***************************************************************************)

\* Position p is the last config with id id among the first n.
LastUpTo(id, p, n) ==
    /\ p \in 1..n
    /\ stepPlugins[p] = id
    /\ \A q \in p + 1..n : stepPlugins[q] # id

\* The map after the first n step plugin configs were loaded.
MapAfter(n) ==
    /\ DOMAIN custom = {stepPlugins[p] : p \in 1..n}
    /\ \A id \in DOMAIN custom : LastUpTo(id, custom[id], n)

\* Step k of h.steps is what the k-th name of cfg.Steps resolves to.
StepMatches(k) ==
    /\ steps[k].name = cfgSteps[k]
    /\ IF cfgSteps[k] \in BuiltinSteps
          THEN steps[k].impl = Builtin
          ELSE LastRegistration(cfgSteps[k], steps[k].impl)

PipelineInv ==
    /\ pc \in {"plugins", "pluginSteps"} => steps = <<>>
    /\ pc = "plugins" => custom = [id \in {} |-> 0]
    /\ pc = "pluginSteps" => i \in 1..Len(stepPlugins) + 1 /\ MapAfter(i - 1)
    /\ pc \in {"steps", "built"} => MapAfter(Len(stepPlugins))
    /\ pc = "steps" => i \in 1..Len(cfgSteps) + 1 /\ Len(steps) = i - 1
    /\ pc = "built" => Len(steps) = Len(cfgSteps)
    /\ pc \in {"steps", "built"} => \A k \in 1..Len(steps) : StepMatches(k)

KeyInv == "KeyManager" \in loaded => "Cache" \in loaded

IInv == TypeOK /\ PipelineInv /\ KeyInv /\ SigningStepsHaveKeys

\* The invariant holds in every initial state.
LEMMA IInvInit == Init => IInv
<1> SUFFICES ASSUME Init PROVE IInv
  OBVIOUS
<1>1. TypeOK
  BY TypeInit
<1>2. Len(steps) = 0
  BY DEF Init
<1> QED
  BY <1>1, <1>2 DEF Init, IInv, PipelineInv, KeyInv, SigningStepsHaveKeys

\* A step that appends one record keeps the earlier records and puts the
\* new one last.
LEMMA AppendStepFacts ==
    ASSUME TypeOK, NEW name, NEW impl, AppendStep(name, impl)
    PROVE  /\ Len(steps') = Len(steps) + 1
           /\ \A k \in 1..Len(steps) : steps'[k] = steps[k]
           /\ steps'[Len(steps) + 1].name = name
           /\ steps'[Len(steps) + 1].impl = impl
           /\ i' = i + 1 /\ UNCHANGED <<pc, loaded, custom>>
<1>1. PICK w \in BOOLEAN :
         steps' = Append(steps, [name |-> name, impl |-> impl, instrumented |-> w])
  BY DEF AppendStep
<1> QED
  BY <1>1, AppendProperties DEF AppendStep, TypeOK

\* Loading capabilities: nothing is built yet and a KeyManager is only
\* loaded after the Cache.
LEMMA LoadPluginStep == IInv /\ LoadPlugin => IInv'
<1> SUFFICES ASSUME IInv, LoadPlugin PROVE IInv'
  OBVIOUS
<1>1. TypeOK'
  BY TypeStep DEF IInv, Next
<1>2. UNCHANGED <<steps, custom>> /\ pc' \in {"plugins", "failed"}
  BY DEF LoadPlugin, loadPlugin, loadKeyManager, loadOndcPlugin, Failed
<1>3. PipelineInv'
  BY <1>2 DEF IInv, PipelineInv, LoadPlugin
<1>4. KeyInv'
  <2>1. CASE PluginOrder[i] = "KeyManager" /\ PluginOrder[i] \in plugins
    BY <2>1 DEF IInv, KeyInv, LoadPlugin, loadKeyManager, loadPlugin, OndcCapabilities, Failed
  <2>2. CASE ~(PluginOrder[i] = "KeyManager" /\ PluginOrder[i] \in plugins)
    BY <2>2 DEF IInv, KeyInv, LoadPlugin, loadPlugin, loadOndcPlugin, OndcCapabilities, Failed
  <2> QED
    BY <2>1, <2>2
<1>5. SigningStepsHaveKeys'
  <2>1. Len(steps) = 0
    BY DEF IInv, PipelineInv, LoadPlugin
  <2> QED
    BY <1>2, <2>1 DEF SigningStepsHaveKeys
<1> QED
  BY <1>1, <1>3, <1>4, <1>5 DEF IInv

\* Loading the step plugin at position i extends the map to the first i.
LEMMA LoadStepPluginStep == IInv /\ LoadStepPlugin => IInv'
<1> SUFFICES ASSUME IInv, LoadStepPlugin PROVE IInv'
  OBVIOUS
<1>1. TypeOK'
  BY TypeStep DEF IInv, Next
<1>2. i \in 1..Len(stepPlugins) /\ MapAfter(i - 1) /\ steps = <<>>
  BY DEF IInv, PipelineInv, LoadStepPlugin, TypeOK
<1>0. UNCHANGED cfgVars /\ pc = "pluginSteps"
  BY DEF LoadStepPlugin
<1>3. CASE Failed
  BY <1>0, <1>1, <1>3 DEF Failed, IInv, PipelineInv, KeyInv, SigningStepsHaveKeys
<1>4. CASE /\ custom' = [x \in DOMAIN custom \cup {stepPlugins[i]} |->
                            IF x = stepPlugins[i] THEN i ELSE custom[x]]
           /\ i' = i + 1
           /\ UNCHANGED <<pc, loaded, steps>>
  <2> DEFINE id == stepPlugins[i]
  <2>1. DOMAIN custom' = {stepPlugins[p] : p \in 1..i}
    BY <1>2, <1>4 DEF MapAfter
  <2>2. LastUpTo(id, i, i)
    BY <1>2 DEF LastUpTo
  <2>3. ASSUME NEW x \in DOMAIN custom, x # id
        PROVE  LastUpTo(x, custom[x], i)
    BY <1>2, <2>3 DEF MapAfter, LastUpTo
  <2>4. ASSUME NEW x \in DOMAIN custom'
        PROVE  LastUpTo(x, custom'[x], i)
    <3>1. CASE x = id
      BY <1>4, <2>2, <3>1
    <3>2. CASE x # id
      BY <1>4, <2>3, <3>2
    <3> QED
      BY <3>1, <3>2
  <2>5. MapAfter(i - 1)'
    <3>1. i' - 1 = i /\ stepPlugins' = stepPlugins
      BY <1>0, <1>2, <1>4 DEF cfgVars
    <3> QED
      BY <3>1, <2>1, <2>4 DEF MapAfter, LastUpTo
  <2>6. i' \in 1..Len(stepPlugins') + 1
    BY <1>0, <1>2, <1>4 DEF cfgVars
  <2>7. pc' = "pluginSteps" /\ steps' = <<>>
    BY <1>0, <1>2, <1>4
  <2>8. PipelineInv'
    BY <2>5, <2>6, <2>7 DEF PipelineInv
  <2> QED
    BY <1>1, <1>4, <2>8 DEF IInv, KeyInv, SigningStepsHaveKeys
<1> QED
  BY <1>3, <1>4 DEF LoadStepPlugin

\* Building the step at position i of cfg.Steps extends the matching prefix
\* of h.steps by one, and a signing step only with its capabilities.
LEMMA BuildStepStep == IInv /\ BuildStep => IInv'
<1> SUFFICES ASSUME IInv, BuildStep PROVE IInv'
  OBVIOUS
<1> DEFINE name == cfgSteps[i]
<1>0. UNCHANGED cfgVars /\ pc = "steps" /\ i \in 1..Len(cfgSteps)
  BY DEF BuildStep, IInv, PipelineInv, TypeOK
<1>1. TypeOK'
  BY TypeStep DEF IInv, Next
<1>2. Len(steps) = i - 1 /\ MapAfter(Len(stepPlugins))
      /\ \A k \in 1..Len(steps) : StepMatches(k)
  BY <1>0 DEF IInv, PipelineInv
<1>3. CASE Failed
  BY <1>0, <1>1, <1>3 DEF Failed, IInv, PipelineInv, KeyInv, SigningStepsHaveKeys
<1>4. ASSUME NEW impl,
             AppendStep(name, impl),
             name \in BuiltinSteps => impl = Builtin,
             name \notin BuiltinSteps => LastRegistration(name, impl),
             name \in BuiltinSteps /\ impl = Builtin => Needs(name) \subseteq loaded
      PROVE  IInv'
  <2>1. /\ Len(steps') = i
        /\ \A k \in 1..Len(steps) : steps'[k] = steps[k]
        /\ steps'[i].name = name /\ steps'[i].impl = impl
        /\ i' = i + 1 /\ UNCHANGED <<pc, loaded, custom>>
    <3>1. /\ Len(steps') = Len(steps) + 1
          /\ \A k \in 1..Len(steps) : steps'[k] = steps[k]
          /\ steps'[Len(steps) + 1].name = name
          /\ steps'[Len(steps) + 1].impl = impl
          /\ i' = i + 1 /\ UNCHANGED <<pc, loaded, custom>>
      BY <1>4, AppendStepFacts DEF IInv
    <3> QED
      BY <3>1, <1>0, <1>2
  <2>2. ASSUME NEW k \in 1..Len(steps') PROVE StepMatches(k)'
    <3>1. CASE k = i
      BY <1>0, <1>4, <2>1, <3>1 DEF StepMatches, LastRegistration, cfgVars
    <3>2. CASE k # i
      BY <1>0, <1>2, <2>1, <3>2 DEF StepMatches, LastRegistration, cfgVars
    <3> QED
      BY <3>1, <3>2
  <2>3. PipelineInv'
    <3>1. MapAfter(Len(stepPlugins))'
      BY <1>0, <1>2, <2>1 DEF MapAfter, LastUpTo, cfgVars
    <3> QED
      BY <1>0, <2>1, <2>2, <3>1 DEF PipelineInv, cfgVars
  <2>4. ASSUME NEW k \in 1..Len(steps'), steps'[k].impl = Builtin
        PROVE  /\ steps'[k].name = "sign" =>
                      {"Signer", "KeyManager", "Cache"} \subseteq loaded'
               /\ steps'[k].name = "validateSign" =>
                      {"SignValidator", "KeyManager", "Cache"} \subseteq loaded'
    <3>1. CASE k = i
      BY <1>4, <2>1, <2>4, <3>1 DEF IInv, KeyInv, Needs, newSignStep,
         newValidateSignStep, BuiltinSteps
    <3>2. CASE k # i
      BY <1>2, <2>1, <2>4, <3>2 DEF IInv, SigningStepsHaveKeys
    <3> QED
      BY <3>1, <3>2
  <2> QED
    BY <1>1, <2>1, <2>3, <2>4 DEF IInv, KeyInv, SigningStepsHaveKeys
<1>5. CASE name \in BuiltinSteps /\ Needs(name) \subseteq loaded
           /\ AppendStep(name, Builtin)
  BY <1>4, <1>5
<1>6. CASE name \notin BuiltinSteps /\ name \in DOMAIN custom
           /\ AppendStep(name, custom[name])
  <2>1. LastRegistration(name, custom[name])
    BY <1>2, <1>6 DEF MapAfter, LastUpTo, LastRegistration
  <2>2. custom[name] # Builtin
    BY <2>1 DEF LastRegistration, Builtin
  <2> QED
    BY <1>4, <1>6, <2>1, <2>2
<1> QED
  BY <1>3, <1>5, <1>6 DEF BuildStep

\* The invariant is preserved by every step of the build.
LEMMA IInvNext == IInv /\ [Next]_vars => IInv'
<1> SUFFICES ASSUME IInv, [Next]_vars PROVE IInv'
  OBVIOUS
<1>1. TypeOK'
  BY TypeStep DEF IInv
<1>2. CASE LoadPlugin
  BY <1>2, LoadPluginStep
<1>3. CASE PluginsLoaded
  <2>1. Len(steps) = 0 /\ steps' = <<>>
    BY <1>3 DEF IInv, PipelineInv, PluginsLoaded
  <2>2. MapAfter(i - 1)'
    BY <1>3 DEF IInv, PipelineInv, PluginsLoaded, MapAfter, cfgVars
  <2> QED
    BY <1>1, <1>3, <2>1, <2>2 DEF IInv, PipelineInv, KeyInv, SigningStepsHaveKeys,
       PluginsLoaded
<1>4. CASE LoadStepPlugin
  BY <1>4, LoadStepPluginStep
<1>5. CASE StepPluginsLoaded
  <2>1. i = Len(stepPlugins) + 1 /\ MapAfter(i - 1) /\ steps = <<>>
    BY <1>5 DEF IInv, PipelineInv, StepPluginsLoaded, TypeOK
  <2>2. MapAfter(Len(stepPlugins))'
    BY <1>5, <2>1 DEF StepPluginsLoaded, cfgVars, MapAfter, LastUpTo
  <2> QED
    BY <1>1, <1>5, <2>1, <2>2 DEF IInv, PipelineInv, KeyInv, SigningStepsHaveKeys,
       StepPluginsLoaded
<1>6. CASE BuildStep
  BY <1>6, BuildStepStep
<1>7. CASE StepsBuilt
  <2>1. i = Len(cfgSteps) + 1
    BY <1>7 DEF IInv, PipelineInv, StepsBuilt, TypeOK
  <2>2. MapAfter(Len(stepPlugins))'
    BY <1>7 DEF IInv, PipelineInv, StepsBuilt, cfgVars, MapAfter, LastUpTo
  <2> QED
    BY <1>1, <1>7, <2>1, <2>2 DEF IInv, PipelineInv, KeyInv, SigningStepsHaveKeys,
       StepsBuilt, StepMatches, LastRegistration, cfgVars
<1>8. CASE UNCHANGED vars
  BY <1>1, <1>8 DEF vars, IInv, PipelineInv, KeyInv, SigningStepsHaveKeys,
     MapAfter, LastUpTo, StepMatches, LastRegistration
<1> QED
  BY <1>2, <1>3, <1>4, <1>5, <1>6, <1>7, <1>8 DEF Next

\* IInv holds in every state of every build.
THEOREM IInvHolds == Spec => []IInv
BY IInvInit, IInvNext, PTL DEF Spec

\* A handler NewStdHandler returns runs exactly the configured pipeline:
\* built-in names get the built-in step even when a step plugin has the
\* same id, and a custom name gets the last step plugin config of that id.
THEOREM PipelineHolds == Spec => []PipelineMatchesConfig
<1>1. IInv => PipelineMatchesConfig
  BY DEF IInv, PipelineInv, StepMatches, PipelineMatchesConfig
<1> QED
  BY <1>1, IInvHolds, PTL

\* No signing step is ever built without its signer or validator, the
\* KeyManager, and the Cache the KeyManager was loaded with.
THEOREM SigningHolds == Spec => []SigningStepsHaveKeys
<1>1. IInv => SigningStepsHaveKeys
  BY DEF IInv
<1> QED
  BY <1>1, IInvHolds, PTL
=============================================================================
