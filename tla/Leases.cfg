\* Lease managers, balances, the cluster service and Deploy, one at a time.
CONSTANTS
  MaxVersion = 2
  NoManifest = NoManifest
  l1 = l1
  l2 = l2
  Parts = {"manager", "service", "balance", "deploy"}

SPECIFICATION MCFairSpec
CHECK_DEADLOCK FALSE
INVARIANTS
  UpdateNotLost
  ReservedUntilClean
  
PROPERTIES
  TeardownIsFinal
  LeaseEnds
  OnlyClosedIsRemoved
  
