CONSTANTS
  MaxServerId = 2
  FirstServers = {1}
  Selectors = {s1}
  Replies = {"known"}
  Types = {"Sharded"}
  StreamingMode = FALSE
  SrvUri = TRUE
  CreateFails = TRUE
  ClientsWork = TRUE
  App = App
  None = None
SPECIFICATION Spec
INVARIANTS NoUseAfterDestroy NoThreadOutlivesStop NoSleepThroughShutdown
  NoMissedUpdate
CONSTRAINT Scope
ACTION_CONSTRAINT ClientsIdle
