SPECIFICATION Spec
CONSTANTS
  TargetNamespaces = {n1, n2}
  UserOps = {"create", "edit", "delete"}
  MaxLog = 5
  FaultKinds = {"error", "lost", "restart", "stray"}
  MaxFaults = 1
  Cluster = Cluster
  Absent = Absent
SYMMETRY MCSymmetry
INVARIANTS
  TypeOK
  RBACNotLeaked
PROPERTY
  CreatesForTheLiving
CHECK_DEADLOCK FALSE
