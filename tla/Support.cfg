\* Withdrawals and the supporting parts, one at a time.
CONSTANTS
  Leases = {"l1", "l2", "l3"}
  MaxAdds = 2
  MaxBatch = 2
  Period = 1
  None = None
  s1 = s1
  c1 = c1
  c2 = c2
  c3 = c3
  Parts = {"batch", "readded", "client", "issuer", "querier", "migrations"}

SPECIFICATION MCFairSpec
CHECK_DEADLOCK FALSE
INVARIANTS
  WithdrawalAccounted
  ServedIsValid
  UpIsMigrated

  
  
