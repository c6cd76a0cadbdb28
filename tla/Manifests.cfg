\* The manifest manager, the manifest service and recovery, one at a time.
CONSTANTS
  Requests = {"r1", "r2"}
  Hashes = {"v1", "v2"}
  Malformed = "malformed"
  Leases = {"l1"}
  MaxHeight = 2
  DeploymentOf <- OwnDeployment
  Submits = {"r1"}
  TargetOf <- ForFirst
  None = None
  NoProxy = NoProxy
  NoParams = NoParams
  Deployments = {"d1", "d2"}
  LeaseIDs = {"l1", "l2"}
  Parts = {"manager", "service", "recovery"}

SPECIFICATION MCFairSpec
CHECK_DEADLOCK FALSE
INVARIANTS
  RefusedAfterFreshRead
  
PROPERTIES
  AcceptsNewestSeen
  AllAnswered
  UnattendedIsClosed
