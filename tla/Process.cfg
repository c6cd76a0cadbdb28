\* The process, its streams, discovery agents and stores, one at a time.
CONSTANTS
  Accounts = {"a", "b"}
  Keys = {1, 2}
  Serials = {1, 2}
  Certs = {1, 2}
  None = None
  MaxBoltOps = 4
  p1 = p1
  p2 = p2
  ev = ev
  c1 = c1
  c2 = c2
  Parts = {"bolt", "memory", "process", "shell", "logs", "discovery"}

SPECIFICATION MCFairSpec
CHECK_DEADLOCK FALSE

  
  
PROPERTIES
  ImplementsStore
  MemoryImplements
  
