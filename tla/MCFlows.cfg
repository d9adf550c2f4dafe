SPECIFICATION MCSpec
CONSTANTS
  Components <- MCComponents
  Top = 1
  Asked <- MCAsked
  Flows <- MCFlows
  EditCalls <- MCEditCalls
  Channelizers = {2}
  MaxKept = 1
  MaxRows = 4
  Keyed = {1, 2}
  Sourced = {1, 2}
  NoCall = NoCall
  NoFile = NoFile
  Written <- MCWritten
  PanelTags = 11
  PanelConds = 2
  PanelEpochs = 1
  NoFlow = NoFlow
  NoResult = NoResult
  Garbage = Garbage
  MaxEpoch = 1
  MaxRevision = 2
  MaxCalls = 2
INVARIANTS
  SweepLeavesNoTrace
  RowsAreSound
  PanelIsSound
PROPERTIES EditsCanBeReverted
