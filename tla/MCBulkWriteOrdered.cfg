CONSTANTS
  MaxAdaptiveRetries = 2
  OverloadRetargeting = FALSE
  LabelsFromServer = TRUE
  Servers = {1, 2}
  Mongoses = {}
  Bulks <- AllBulks
  MaxBatch = 2
  RetryWrites = TRUE
SPECIFICATION Spec
INVARIANT OrderedStops
