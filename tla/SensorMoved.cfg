SPECIFICATION Spec
CONSTANTS
  TargetNamespaces = {n1, n2}
  UserOps = {"create", "edit"}
  MaxLog = 6
  FaultKinds = {}
  MaxFaults = 0
  Cluster = Cluster
  Absent = Absent
INVARIANT
  BindingFollowsTarget
CHECK_DEADLOCK FALSE
