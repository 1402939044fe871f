SPECIFICATION MCSpec
CONSTANTS
  Total = 5
  Walks <- MCWalks
  BatchSize = 1
  raw = raw
  pool = pool
  None = None
  Scanners = {raw, pool}
  Raw = {raw}
  RouteOf <- MCRouteOf
  RouteDepth = 1
  Limit = 1
INVARIANT NothingSlipsBehind
CONSTRAINT MCBound
CHECK_DEADLOCK FALSE
