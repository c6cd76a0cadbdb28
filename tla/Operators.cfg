\* The deployment monitor and the operators, one at a time.
CONSTANTS
  MaxRetries = 5
  Healthchecks = TRUE
  l1 = l1
  l2 = l2
  None = None
  Bare = Bare
  Missing = Missing
  h1 = h1
  h2 = h2
  t1 = t1
  o1 = o1
  o2 = o2
  s1 = s1
  s2 = s2
  p1 = p1
  disc = disc
  Parts = {"monitor", "hostname", "route", "address", "usage", "node", "storage"}

SPECIFICATION MCFairSpec
CHECK_DEADLOCK FALSE
INVARIANTS
  OneRoute
  RoutedIsFiltered
PROPERTIES
  ClosesAfterRetries
  DeclaredIsServed
  
