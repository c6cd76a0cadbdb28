\* Two leases of one tenant and one group.
CONSTANTS
  Leases = {"l1", "l3"}
  Groups = {"l1", "l3"}
  Tenants = {"t1", "t2"}
  Hosts = {"a", "A"}
  Lower <- LowerOf
  Blocked = {}
  Free = Free
  None = None
  OwnerOf <- OneOwner
  GroupOf <- SharedGroup
  MaxUpdates = 0
  MaxMigrations = 0
  MaxRestarts = 0
  Parts = {"hostnames"}

SPECIFICATION MCSpec
CHECK_DEADLOCK FALSE
PROPERTIES
  ReleasedByLastOfGroup
