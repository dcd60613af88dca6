CONSTANTS
  MaxServerId = 1
  FirstServers = {1}
  Selectors = {s1}
  Replies = {"versioned"}
  Types = {}
  StreamingMode = TRUE
  SrvUri = FALSE
  CreateFails = FALSE
  ClientsWork = TRUE
  App = App
  None = None
SPECIFICATION FairSpec
INVARIANT NoLostScan
PROPERTIES StopTerminates SelectorWoken
