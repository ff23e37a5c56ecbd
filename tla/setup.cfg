SPECIFICATION Spec
CONSTANTS
  DefaultSamplingInitial = 2
  DefaultSamplingThereafter = 2
  Strings <- StringsMC
  Makers = {m1, m2}
  Callers = {t1, t2}
  Documents <- DocumentsMC
  Presets <- PresetsMC
  Changes <- ChangesMC
  SamplingRules <- RulesMC
  CallLevels = {0, 1, 3}
  MaxChanges = 2
  MaxRegistrations = 1
  MaxCalls = 3
  MaxFaults = 1
SYMMETRY MakersAndCallers
INVARIANTS
  EnvOverridesFile
  EncoderMatches
  ReadyOrRefused
  SamplingShare
CHECK_DEADLOCK FALSE
