\* Requests overlap and no command fails: what two operators at once can do.
SPECIFICATION Spec
CONSTANTS
  shop = shop
  shopOld = shopOld
  blog = blog
  r1 = r1
  r2 = r2
  v1 = v1
  v2 = v2
  bad = bad
  Sites = {shop, shopOld}
  Requests = {r1, r2}
  Contents = {v1, bad}
  Catchall = Catchall
  Default = Default
  CatchallContent = CatchallContent
  StockContent = StockContent
  Accepted <- MCAccepted
  Overlap <- MCOverlap
  Overlapping = TRUE
  FaultyRestore = FALSE
  MaxFaults = 0
  MaxCrashes = 0
  Absent = Absent
  Linked = Linked
  None = None
SYMMETRY RequestSymmetry
INVARIANTS NoBrokenConfigAtRest
