CONSTANTS
  MaxAdaptiveRetries = 1
  OverloadRetargeting = FALSE
  LabelsFromServer = TRUE
  Servers = {s1, s2}
  Mongoses = {}
  RetryReads = TRUE
  NumDocs = 2
  Histories <- AllHistories
  MaxFaults = 1
  Starts = {0, 1}
  Finds = {1}
  Streams = {2}
SPECIFICATION Spec
INVARIANTS FindExact NoEventLost TokenExact SessionOfOpenCursor ResumesBounded
PROPERTY NoCursorLeft
CONSTRAINT Scope
SYMMETRY Symmetry
