\* The parts of MCCircuitFiles: the bounds here are those no part exceeds.
SPECIFICATION MCSpec
CONSTANTS
  NoId = NoId  a = a  m = m
  Ports <- MCPorts
  MaxProbes = 1
  Positions = {p1, p2}
  Settings = {s1, s2}
  Channels = {c1, c2}
  Points = {a}
  Meters = {m}
  Kept = {"checkpoint", "file"}
  MaxNodes = 4
  MaxLinks = 3
  MaxGroups = 1
  MaxRevision = 4
  MaxEpoch = 1
INVARIANTS CircuitIsSound PanelsAreSound CleanMeansUnchanged UndoIsSafe
PROPERTIES SwapKeepsPicture OpeningRestoresTheRest RevertingRestoresAll
