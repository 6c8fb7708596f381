SPECIFICATION FairSpec
CONSTANTS
  TargetNamespaces = {n1}
  UserOps = {"create", "delete"}
  MaxLog = 6
  FaultKinds = {"error", "lost", "restart", "stray"}
  MaxFaults = 2
  Cluster = Cluster
  Absent = Absent
PROPERTIES
  EventuallyDeployed
  EventuallyCleaned
CHECK_DEADLOCK FALSE
