\* Hostnames and capacity, one component at a time.
CONSTANTS
  Leases = {"l1", "l3"}
  Groups = {"l1", "l3"}
  Tenants = {"t1", "t2"}
  Hosts = {"a", "A"}
  Lower <- LowerOf
  Blocked = {}
  Free = Free
  None = None
  OwnerOf <- OwnerOfLease
  GroupOf <- OwnGroup
  MaxUpdates = 1
  MaxMigrations = 1
  MaxRestarts = 1
  Parts = {"hostnames", "inventory"}

SPECIFICATION MCSpec
CHECK_DEADLOCK FALSE
INVARIANTS
  HeldWhileDeployed
  
  
  StandingIsHeld
PROPERTIES
  NoTakeover
