CONSTANTS
  MaxAdaptiveRetries = 1
  OverloadRetargeting = FALSE
  LabelsFromServer = TRUE
  Servers = {1}
  Mongoses = {}
  RetryReads = TRUE
  NumDocs = 2
  Histories <- NoHistory
  MaxFaults = 1
  Finds = {1, 2}
  Streams = {}
SPECIFICATION CursorSpec
INVARIANT RepliesNotCrossed
