\* A manifest that is accepted before LeaseWon is read.
CONSTANTS
  Requests = {"r1", "r2"}
  Hashes = {"v1", "v2"}
  Malformed = "malformed"
  Leases = {"l1"}
  MaxHeight = 2
  DeploymentOf <- OwnDeployment
  Submits = {"r1"}
  TargetOf <- ForFirst
  None = None
  NoProxy = NoProxy
  NoParams = NoParams
  Deployments = {"d1"}
  LeaseIDs = {"l1"}
  Parts = {"service"}

SPECIFICATION MCSpec
CHECK_DEADLOCK FALSE
INVARIANTS
  NoCloseAfterManifest
