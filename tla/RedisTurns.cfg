\* Operators take turns; calls, commands, instances, the panel and the host may fail.
SPECIFICATION Spec
CONSTANTS
  r1 = r1
  r2 = r2
  p1 = p1
  p2 = p2
  Passwords = {p1, p2}
  MaxPort = 2
  Taken = {1}
  MaxNumber = 1
  Requests = {r1}
  MaxRows = 2
  Overlapping = FALSE
  MaxFailures = 2
  None = None
SYMMETRY Interchangeable
INVARIANTS TypeOK InstancesMatchRows NumbersDistinct
PROPERTIES ReconcileRestores
