\* Operators take turns; commands may fail, rollback steps and the panel do not.
SPECIFICATION FairSpec
CONSTANTS
  shop = shop
  shopOld = shopOld
  blog = blog
  r1 = r1
  r2 = r2
  v1 = v1
  v2 = v2
  bad = bad
  Sites = {shop, shopOld}
  Requests = {r1, r2}
  Contents = {v1, v2, bad}
  Catchall = Catchall
  Default = Default
  CatchallContent = CatchallContent
  StockContent = StockContent
  Accepted <- MCAccepted
  Overlap <- MCOverlap
  Overlapping = FALSE
  FaultyRestore = FALSE
  MaxFaults = 2
  MaxCrashes = 0
  Absent = Absent
  Linked = Linked
  None = None
PROPERTIES ImplementsConfigStore BrokenFlushed
