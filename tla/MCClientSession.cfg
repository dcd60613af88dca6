CONSTANTS
  MaxAdaptiveRetries = 1
  OverloadRetargeting = FALSE
  LabelsFromServer = TRUE
  Servers = {1, 2}
  Mongoses = {1, 2}
  Sharded = TRUE
  RetryWrites = TRUE
  MaxTxnNumber = 2
  MaxWrites = 2
  MaxCalls = 2
  MaxLate = 1
SPECIFICATION FairSpec
INVARIANTS WritesExactlyOnce NoWritesTruthful CommitTruthful
INVARIANTS WithTransactionOnce RoutedToItsMongos
PROPERTY WithTransactionReturns
