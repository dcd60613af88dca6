CONSTANTS
  s1 = s1
  s2 = s2
  s3 = s3
  x = x
  Servers = {s1, s2, s3}
  Descriptions <- MCDescriptions
  Operations <- MCOperations
  Heartbeat = 2
  IdlePeriod = 1
  MinStaleness = 1
  LocalThreshold = 1
  WireVersion50 = 1
  Tags = {x}
  None = None
SPECIFICATION SelectSpec
INVARIANTS SelectedAsSpecified FreshestSuits
SYMMETRY Symmetry
