CONSTANTS
  a1 = a1
  NoAddress = NoAddress
  NoName = NoName
  NoTv = NoTv
  None = None
  Failed = Failed
  c1 = c1
  c2 = c2
  Clients = {c1, c2}
  Addresses <- MCAddresses
  Replies <- MCReplies
  InitialType = "RSNoPrimary"
  SetName = "rs"
  MaxGeneration = 1
  MaxChanges = 1
  MaxProcesses = 2
  MaxServerId = 1
SPECIFICATION Spec
INVARIANTS ConnectionFresh OneClearPerGeneration
PROPERTIES TopologyVersionAdvances
SYMMETRY Symmetry
