\* Orders, attributes, prices and placement, one at a time.
CONSTANTS
  BidTimeout = TRUE
  MaxStarts = 3
  None = None
  c1 = c1
  c2 = c2
  c3 = c3
  Parts = {"order", "attributes", "pricing", "placement"}

SPECIFICATION MCFairSpec
CHECK_DEADLOCK FALSE
INVARIANTS
  ReservationReturned
  WonIsReserved
  BidIsClosed
  
PROPERTIES
  AnnouncedIsKept
  MonitorsEnd
  
  PricedIsOwed
