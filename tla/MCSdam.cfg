CONSTANTS
  a1 = a1
  a2 = a2
  a3 = a3
  NoAddress = NoAddress
  NoName = NoName
  NoTv = NoTv
  Addresses <- MCAddresses
  Hellos <- MCHellos
  InitialTopologies <- MCInitialTopologies
  Deployments = {"post6", "pre6"}
  MaxServerId = 5
SPECIFICATION Spec
INVARIANTS AtMostOnePrimary ReportedByPrimary NoOscillation
