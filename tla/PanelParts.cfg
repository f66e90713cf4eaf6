\* Updates, first starts, the panel's domain, its users, runtimes and transfers; steps may fail.
SPECIFICATION PanelSpec
CONSTANTS
  MaxRelease = 3
  MaxUpFailures = 2
  MaxSnapshotFails = 0
  MaxKills = 1
  UpOverlapping = FALSE
  LegacySites = {1, 2}
  LegacyApps = {1, 3}
  NewSites = {2, 4}
  NoTable = NoTable
  MaxStarts = 2
  PdDomains = {1, 2}
  NoDomain = 0
  MaxPdFailures = 3
  Accounts = {u1, u2}
  Bootstrap = u1
  Browsers = {b1, b2}
  Sites = {s1}
  Nobody = nobody
  AcOverlapping = FALSE
  MaxAcFailures = 2
  Scripts = {1}
  Phps = {2, 3}
  HostScript = 1
  Reinstalls = FALSE
  UseAnytime = FALSE
  MaxRtFailures = 1
  Nodes = {1, 2, 3, 4, 5}
  Directories = {1, 3}
  Children <- Entries
  ScpRoots = {1, 2}
  MaxDepth = 3
  MaxScpFailures = 1
INVARIANTS PanelTypeOK ReleaseWhole RowsKept PanelServed AdminRemains UsedVersionsWork ScpFaithful
PROPERTIES UpdateSettles StartsSettle TransfersEnd
CHECK_DEADLOCK FALSE
