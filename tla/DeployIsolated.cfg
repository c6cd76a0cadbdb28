\* Deploy reports success without the network policies.
CONSTANTS
  MaxVersion = 2
  NoManifest = NoManifest
  l1 = l1
  l2 = l2
  Parts = {"deploy"}

SPECIFICATION MCSpec
CHECK_DEADLOCK FALSE
INVARIANTS
  DeployedIsIsolated
