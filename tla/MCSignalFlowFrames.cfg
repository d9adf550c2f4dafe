\* Edits of six circuits between frames; a new generator may lie where a removed part was.
SPECIFICATION Spec
CONSTANTS
  NoInput = NoInput
  DefaultGrid = {0, 4, 8}
  AdcRate = 16
  FewBins = 2
  Places = {1, 2, 3, 4}
  Settings <- MCSettings
  DefaultSetting <- MCDefaultSetting
  NewKinds = {"generator"}
  Seeds <- MCSeeds
  TraceModes = {"ClearWrite", "MaxHold"}
  Bandwidths = {1, 2}
  MaxProbes = 2
INVARIANTS FramesAreCurrent AnalyzerIsCurrent
